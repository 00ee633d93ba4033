----------------------- MODULE PrekeyDirectory_proofs -----------------------
(***************************************************************************)
(* Proofs about PrekeyDirectory, for any number of devices, pages, uploads *)
(* and calls: its type invariant; that a row which has been given out is   *)
(* spent (SpentInv); that, as long as nothing overlaps, devices hold what  *)
(* is listed for them (HoldInv); when the user row mixes the keys of two   *)
(* uploads (MixInv); and which consumed keys may be listed anew (LateInv). *)
(***************************************************************************)
EXTENDS PrekeyDirectory, FiniteSetTheorems, TLAPS

-----------------------------------------------------------------------------
(* The type invariant.                                                     *)

\* The states a page and an upload are reset to are well typed.
LEMMA RestTypes ==
    /\ Closed \in PageStates /\ Open \in PageStates
    /\ Finished \in UploadStates
BY DirectoryAssumption
   DEF Closed, Open, Finished, PageStates, UploadStates, NoUpload, SignedPreKeys

\* The initial state is well typed.
LEMMA InitTypeOK == DirectoryInit => DirectoryTypeOK
<1> SUFFICES ASSUME DirectoryInit
             PROVE  DirectoryTypeOK
  OBVIOUS
<1> USE DirectoryAssumption DEF DirectoryInit
<1>1. signed \in SignedPreKeys /\ keys \in 0..MaxKeys /\ version \in 0..MaxVersions
  BY DEF SignedPreKeys
<1>2. local \in [Devices -> DeviceStores]
  BY DEF DeviceStores, SignedPreKeys
<1>3. page \in [Pages -> PageStates] /\ upload \in [Uploads -> UploadStates]
  BY RestTypes
<1>4. listed \in [Listings -> [spk : SignedPreKeys, rows : SUBSET Rows]]
  BY DEF SignedPreKeys
<1>5. request \in [Requests -> RequestStates]
  BY DEF RequestStates, Listings
<1> QED
  BY <1>1, <1>2, <1>3, <1>4, <1>5 DEF DirectoryTypeOK

\* The end of a transaction keeps the types of uploads and pages.
LEMMA EndTypeOK ==
    ASSUME DirectoryTypeOK, NEW u \in Uploads, End(u)
    PROVE  page' \in [Pages -> PageStates] /\ upload' \in [Uploads -> UploadStates]
<1>1. page' \in [Pages -> PageStates]
  BY RestTypes DEF DirectoryTypeOK, End
<1>2. ASSUME NEW w \in Uploads
      PROVE  [upload[w] EXCEPT !.after = @ \ {u}] \in UploadStates
  <2>1. CASE upload[w] \in RunningUploads
    BY <2>1 DEF UploadStates, RunningUploads
  <2>2. CASE upload[w] \in NoUpload
    BY <2>2 DEF UploadStates, NoUpload
  <2> QED
    BY <2>1, <2>2 DEF DirectoryTypeOK, UploadStates
<1> QED
  BY <1>1, <1>2, RestTypes DEF DirectoryTypeOK, End

\* Every step of a page keeps the types.
LEMMA PageTypeOK ==
    ASSUME DirectoryTypeOK, NEW p \in Pages, PageStep(p)
    PROVE  DirectoryTypeOK'
<1> USE DirectoryAssumption
<1>0. /\ HomeOf[p] \in Devices
      /\ local[HomeOf[p]] \in DeviceStores
      /\ page[p] \in PageStates
  BY DEF DirectoryTypeOK
<1>1. CASE Load(p)
  BY <1>0, <1>1 DEF DirectoryTypeOK, Load, serverVars, history, PageStates, DeviceStores
<1>2. ASSUME NEW rotate \in BOOLEAN, PutSigned(p, rotate)
      PROVE  DirectoryTypeOK'
  <2> DEFINE spk == IF rotate \/ page[p].spk = 0 THEN signed + 1 ELSE page[p].spk
             st == [local[HomeOf[p]] EXCEPT !.spk = spk]
             pg == [page[p] EXCEPT !.pc = "fill", !.spk = spk]
  <2>1. spk \in SignedPreKeys /\ signed' \in SignedPreKeys
    BY <1>0, <1>2 DEF DirectoryTypeOK, PutSigned, SignedPreKeys, PageStates
  <2>2. st \in DeviceStores /\ pg \in PageStates
    BY <1>0, <2>1 DEF DeviceStores, PageStates
  <2>3. local' = [local EXCEPT ![HomeOf[p]] = st] /\ page' = [page EXCEPT ![p] = pg]
    BY <1>2 DEF PutSigned
  <2>4. UNCHANGED <<keys, serverVars, request, seen, synced, overlapped, history>>
    BY <1>2 DEF PutSigned
  <2> HIDE DEF spk, st, pg
  <2> QED
    BY <1>0, <2>1, <2>2, <2>3, <2>4 DEF DirectoryTypeOK, serverVars, history
<1>3. CASE Fill(p)
  <2> DEFINE d == HomeOf[p]
             missing == IF Cardinality(page[p].unused) < Batch
                        THEN Batch - Cardinality(page[p].unused) ELSE 0
             unused == page[p].unused \cup (keys + 1 .. keys + missing)
             st == [local[d] EXCEPT !.unused = unused, !.used = page[p].used]
             pg == [page[p] EXCEPT !.pc = "clean", !.unused = unused]
  <2>1. IsFiniteSet(page[p].unused)
    <3>1. IsFiniteSet(1..MaxKeys)
      BY FS_Interval
    <3> QED
      BY <1>0, <3>1, FS_Subset DEF PageStates, OneTimeKeys
  <2>2. missing \in Nat
    BY <2>1, FS_CardinalityType
  <2>3. keys' \in 0..MaxKeys /\ keys \in Nat /\ keys + missing <= MaxKeys
    BY <1>3, <2>2 DEF DirectoryTypeOK, Fill
  <2>4. unused \in SUBSET OneTimeKeys
    BY <1>0, <2>2, <2>3 DEF PageStates, OneTimeKeys
  <2>5. st \in DeviceStores /\ pg \in PageStates
    BY <1>0, <2>4 DEF DeviceStores, PageStates
  <2>6. /\ local' = local \/ local' = [local EXCEPT ![d] = st]
        /\ page' = [page EXCEPT ![p] = pg]
    BY <1>3 DEF Fill
  <2> HIDE DEF d, missing, unused, st, pg
  <2>7. local' \in [Devices -> DeviceStores]
    BY <1>0, <2>5, <2>6 DEF DirectoryTypeOK
  <2>8. UNCHANGED <<signed, serverVars, request, seen, synced, overlapped, history>>
    BY <1>3 DEF Fill
  <2> QED
    BY <2>3, <2>5, <2>6, <2>7, <2>8 DEF DirectoryTypeOK, serverVars, history
<1>4. ASSUME NEW purge \in SUBSET local[HomeOf[p]].used, Clean(p, purge)
      PROVE  DirectoryTypeOK'
  <2> DEFINE d == HomeOf[p]
             kept == local[d].used \ purge
             st == [local[d] EXCEPT !.used = kept]
             pg == [page[p] EXCEPT !.pc = "post", !.unused = local[d].unused, !.used = kept]
  <2>1. st \in DeviceStores /\ pg \in PageStates
    BY <1>0 DEF DeviceStores, PageStates
  <2>2. local' = [local EXCEPT ![d] = st] /\ page' = [page EXCEPT ![p] = pg]
    BY <1>4 DEF Clean
  <2> QED
    BY <1>0, <1>4, <2>1, <2>2 DEF DirectoryTypeOK, Clean, serverVars, history
<1>5. ASSUME NEW u \in Uploads, Post(p, u)
      PROVE  DirectoryTypeOK'
  <2>1. [Closed EXCEPT !.pc = "wait", !.sent = u] \in PageStates
    BY RestTypes DEF Closed, PageStates
  <2>2. [Finished EXCEPT !.pc = "sent", !.page = p, !.of = HomeOf[p], !.spk = page[p].spk,
                         !.keys = PostedKeys(p)] \in UploadStates
    BY <1>0 DEF Finished, PostedKeys, PageStates, UploadStates, RunningUploads
  <2> QED
    BY <1>5, <2>1, <2>2 DEF DirectoryTypeOK, Post, history
<1>6. CASE ReplyLost(p)
  BY <1>6, RestTypes DEF DirectoryTypeOK, ReplyLost, serverVars, history
<1>7. CASE ConsumeRead(p)
  <2> DEFINE d == HomeOf[p]
             pg == [page[p] EXCEPT !.pc = "mark", !.unused = local[d].unused,
                                   !.used = local[d].used]
  <2>1. pg \in PageStates
    BY <1>0 DEF PageStates, DeviceStores
  <2>2. page' = [page EXCEPT ![p] = pg]
    BY <1>7 DEF ConsumeRead
  <2> QED
    BY <1>7, <2>1, <2>2 DEF DirectoryTypeOK, ConsumeRead, serverVars, history
<1>8. ASSUME NEW k \in OneTimeKeys, ConsumePut(p, k)
      PROVE  DirectoryTypeOK'
  <2> DEFINE d == HomeOf[p]
             st == [local[d] EXCEPT !.unused = page[p].unused \ {k},
                                    !.used = page[p].used \cup {k}]
  <2>1. st \in DeviceStores
    BY <1>0 DEF PageStates, DeviceStores
  <2>2. local' = [local EXCEPT ![d] = st] /\ page' = [page EXCEPT ![p] = Open]
    BY <1>8 DEF ConsumePut
  <2>3. late' \in SUBSET OneTimeKeys
    BY <1>8 DEF DirectoryTypeOK, ConsumePut
  <2> QED
    BY <1>0, <1>8, <2>1, <2>2, <2>3, RestTypes DEF DirectoryTypeOK, ConsumePut, serverVars
<1> QED
  BY <1>1, <1>2, <1>3, <1>4, <1>5, <1>6, <1>7, <1>8 DEF PageStep

\* The rows of a listing have names.
LEMMA RowsOfType ==
    ASSUME DirectoryTypeOK, NEW l \in Listings
    PROVE  RowsOf(l) \in SUBSET RowNames
BY DEF DirectoryTypeOK, RowsOf, Rows, RowNames

\* Every step of an upload keeps the types.
LEMMA UploadTypeOK ==
    ASSUME DirectoryTypeOK, NEW u \in Uploads, UploadStep(u)
    PROVE  DirectoryTypeOK'
<1> USE DirectoryAssumption
<1>0. upload[u] \in RunningUploads
  BY DEF DirectoryTypeOK, UploadStep, UploadBegin, UploadDeletesUser, UploadDeletesDevice,
         UploadCommit, UploadFail, AtServer, UploadStates, NoUpload
<1>1. CASE UploadBegin(u)
  <2> DEFINE up == [upload[u] EXCEPT !.pc = "begun",
                                     !.creates = device[upload[u].of] # "active"]
  <2>1. up \in UploadStates
    BY <1>0 DEF UploadStates, RunningUploads
  <2>2. upload' = [upload EXCEPT ![u] = up]
    BY <1>1 DEF UploadBegin
  <2> QED
    BY <1>1, <2>1, <2>2 DEF DirectoryTypeOK, UploadBegin, deviceVars, history
<1>2. CASE UploadDeletesUser(u)
  <2> DEFINE up == [upload[u] EXCEPT !.pc = "user", !.doomed = RowsOf(User),
                                     !.after = Blockers(u, User)]
  <2>1. up \in UploadStates
    BY <1>0, RowsOfType DEF UploadStates, RunningUploads, Blockers, Listings
  <2>2. upload' = [upload EXCEPT ![u] = up]
    BY <1>2 DEF UploadDeletesUser
  <2> QED
    BY <1>2, <2>1, <2>2 DEF DirectoryTypeOK, UploadDeletesUser, deviceVars, history
<1>3. CASE UploadDeletesDevice(u)
  <2> DEFINE d == upload[u].of
             up == [upload[u] EXCEPT !.pc = "device", !.doomed = @ \cup RowsOf(d),
                                     !.after = Blockers(u, d)]
  <2>1. up \in UploadStates
    BY <1>0, RowsOfType DEF UploadStates, RunningUploads, Blockers, Listings
  <2>2. upload' = [upload EXCEPT ![u] = up]
    BY <1>3 DEF UploadDeletesDevice
  <2> QED
    BY <1>3, <2>1, <2>2 DEF DirectoryTypeOK, UploadDeletesDevice, deviceVars, history
<1>4. CASE UploadCommit(u)
  <2>1. page' \in [Pages -> PageStates] /\ upload' \in [Uploads -> UploadStates]
    BY <1>4, EndTypeOK DEF UploadCommit
  <2>2. version' \in 0..MaxVersions /\ version + 1 \in 1..MaxVersions
    BY <1>4 DEF DirectoryTypeOK, UploadCommit
  <2>3. NewRows(u) \in SUBSET Rows
    <3>1. ASSUME NEW k \in upload[u].keys
          PROVE  [key |-> k, version |-> version + 1, used |-> FALSE] \in Rows
      BY <1>0, <2>2 DEF Rows, RunningUploads
    <3> QED
      BY <3>1 DEF NewRows
  <2>4. \A l \in Listings : Survivors(u, l) \in SUBSET Rows
    BY DEF DirectoryTypeOK, Survivors
  <2>5. listed' \in [Listings -> [spk : SignedPreKeys, rows : SUBSET Rows]]
    BY <1>0, <1>4, <2>3, <2>4 DEF DirectoryTypeOK, UploadCommit, RunningUploads
  <2> QED
    BY <1>0, <1>4, <2>1, <2>2, <2>5 DEF DirectoryTypeOK, UploadCommit, RunningUploads
<1>5. CASE UploadFail(u)
  BY <1>5, EndTypeOK DEF DirectoryTypeOK, UploadFail
<1> QED
  BY <1>1, <1>2, <1>3, <1>4, <1>5 DEF UploadStep

\* Revocation and the calls of other users keep the types.
LEMMA RequestTypeOK ==
    ASSUME DirectoryTypeOK, RequestStep \/ \E d \in Devices : Revoke(d)
    PROVE  DirectoryTypeOK'
<1>1. ASSUME NEW d \in Devices, Revoke(d)
      PROVE  DirectoryTypeOK'
  <2>1. [listed[d] EXCEPT !.rows = {}] \in [spk : SignedPreKeys, rows : SUBSET Rows]
    BY DEF DirectoryTypeOK, Listings
  <2>2. listed' = [listed EXCEPT ![d] = [listed[d] EXCEPT !.rows = {}]]
    BY <1>1 DEF Revoke
  <2>3. listed' \in [Listings -> [spk : SignedPreKeys, rows : SUBSET Rows]]
    BY <2>1, <2>2 DEF DirectoryTypeOK
  <2>4. device' \in [Devices -> {"none", "active", "revoked"}]
    BY <1>1 DEF DirectoryTypeOK, Revoke
  <2>5. UNCHANGED <<deviceVars, upload, version, uploader, request, seen, synced, overlapped,
                  history>>
    BY <1>1 DEF Revoke
  <2> QED
    BY <2>3, <2>4, <2>5 DEF DirectoryTypeOK, deviceVars, history
<1>2. ASSUME NEW l \in Listings, NEW row \in Rows, NEW r \in Requests, Select(r, l, row)
      PROVE  DirectoryTypeOK'
  BY <1>2 DEF DirectoryTypeOK, Select, deviceVars, serverVars, history, RequestStates, Rows,
                 OneTimeKeys
<1>3. ASSUME NEW l \in Listings, NEW row \in Rows, Peek(l, row)
      PROVE  DirectoryTypeOK'
  BY <1>3 DEF DirectoryTypeOK, Peek, deviceVars, serverVars, history, Rows
<1>4. ASSUME NEW l \in Listings, NEW row \in Rows, Purge(l, row)
      PROVE  DirectoryTypeOK'
  BY <1>4 DEF DirectoryTypeOK, Purge, deviceVars, history
<1>5. ASSUME NEW r \in Requests, Give(r)
      PROVE  DirectoryTypeOK'
  <2>1. PICK row \in listed[request[r].at].rows :
             row \in Selected(r) /\ row.key = request[r].key
    BY <1>5 DEF Give, Selected
  <2>2. request[r].at \in Listings /\ request[r] \in RequestStates
    BY DEF DirectoryTypeOK, RequestStates
  <2>3. row \in Rows /\ request[r].key \in OneTimeKeys
    BY <2>1, <2>2 DEF DirectoryTypeOK, Rows
  <2>4. {[x EXCEPT !.used = TRUE] : x \in Selected(r)} \in SUBSET Rows
    <3>1. ASSUME NEW x \in Selected(r)
          PROVE  [x EXCEPT !.used = TRUE] \in Rows
      <4>1. x \in Rows
        BY <2>2 DEF DirectoryTypeOK, Selected
      <4> QED
        BY <4>1 DEF Rows
    <3> QED
      BY <3>1
  <2>5. listed' \in [Listings -> [spk : SignedPreKeys, rows : SUBSET Rows]]
    BY <1>5, <2>2, <2>4 DEF DirectoryTypeOK, Give
  <2>6. request' \in [Requests -> RequestStates]
    BY <1>5, <2>2 DEF DirectoryTypeOK, Give, RequestStates
  <2> QED
    BY <1>5, <2>3, <2>5, <2>6 DEF DirectoryTypeOK, Give, deviceVars, history
<1>6. ASSUME NEW r \in Requests, GiveFails(r)
      PROVE  DirectoryTypeOK'
  BY ZenonT(40), <1>6 DEF DirectoryTypeOK, GiveFails, deviceVars, serverVars, history, RequestStates
<1>7. \A l \in Listings : listed[l].rows \subseteq Rows
  BY DEF DirectoryTypeOK
<1> QED
  BY <1>1, <1>2, <1>3, <1>4, <1>5, <1>6, <1>7 DEF RequestStep

(***************************************************************************)
(* The directory is well typed in every reachable state: keys, rows and    *)
(* row versions stay within their bounds, and an upload that is at the     *)
(* server belongs to a page and a device.                                  *)
(***************************************************************************)
THEOREM DirectoryTypeCorrect == DirectorySpec => []DirectoryTypeOK
<1>1. DirectoryTypeOK /\ [DirectoryNext]_vars => DirectoryTypeOK'
  <2> SUFFICES ASSUME DirectoryTypeOK, [DirectoryNext]_vars
               PROVE  DirectoryTypeOK'
    OBVIOUS
  <2>1. CASE UNCHANGED vars
    BY <2>1 DEF vars, history, DirectoryTypeOK
  <2>2. CASE DirectoryNext
    BY <2>2, PageTypeOK, UploadTypeOK, RequestTypeOK DEF DirectoryNext
  <2> QED
    BY <2>1, <2>2
<1> QED
  BY <1>1, InitTypeOK, PTL DEF DirectorySpec

-----------------------------------------------------------------------------
(***************************************************************************)
(* A given row is spent.  The invariant: no request names a row version    *)
(* that has yet to be written, a listed row that a finished call was given *)
(* is marked used, and a call names another row than every call that had   *)
(* finished when it selected.                                              *)
(***************************************************************************)
Engaged(r) == request[r].pc \in {"selected", "given"}

Names(r, row) == row.key = request[r].key /\ row.version = request[r].version

SpentInv ==
    /\ \A r \in Requests : Engaged(r) => request[r].version <= version
    /\ \A r \in Requests : request[r].pc = "given" =>
          \A row \in listed[request[r].at].rows : Names(r, row) => row.used
    /\ \A r, s \in Requests : Engaged(r) /\ s \in request[r].before =>
          /\ request[s].pc = "given"
          /\ request[r].at = request[s].at =>
                request[r].key # request[s].key \/ request[r].version # request[s].version
    /\ \A l \in Listings : \A row \in listed[l].rows : row.version <= version

\* A step that leaves the requests alone and writes no row but new ones keeps it.
LEMMA SpentKept ==
    ASSUME DirectoryTypeOK, DirectoryTypeOK', SpentInv, request' = request,
           version' >= version,
           \A l \in Listings : \A row \in listed'[l].rows :
              row \in listed[l].rows \/ (row.version = version + 1 /\ version' = version + 1)
    PROVE  SpentInv'
BY DEF SpentInv, Engaged, Names, DirectoryTypeOK, RequestStates, Rows

\* Every step of the specification keeps the invariant.
LEMMA SpentStep ==
    ASSUME DirectoryTypeOK, DirectoryTypeOK', SpentInv, [DirectoryNext]_vars
    PROVE  SpentInv'
<1>0. version \in Nat
  BY DEF DirectoryTypeOK
<1>1. CASE UNCHANGED <<listed, request, version>>
  BY <1>0, <1>1, SpentKept
<1>2. ASSUME NEW p \in Pages, PageStep(p)
      PROVE  SpentInv'
  BY <1>1, <1>2 DEF PageStep, Load, PutSigned, Fill, Clean, Post, ReplyLost, ConsumeRead,
                    ConsumePut, serverVars
<1>3. ASSUME NEW u \in Uploads, UploadStep(u)
      PROVE  SpentInv'
  <2>1. CASE UploadCommit(u)
    <3>1. version' = version + 1 /\ request' = request
      BY <2>1 DEF UploadCommit
    <3>2. ASSUME NEW l \in Listings, NEW row \in listed'[l].rows
          PROVE  row \in listed[l].rows \/ row.version = version + 1
      BY <2>1, <3>2 DEF UploadCommit, Survivors, NewRows
    <3> QED
      BY <1>0, <3>1, <3>2, SpentKept
  <2> QED
    BY <1>1, <1>3, <2>1 DEF UploadStep, UploadBegin, UploadDeletesUser,
                            UploadDeletesDevice, UploadFail
<1>4. ASSUME NEW d \in Devices, Revoke(d)
      PROVE  SpentInv'
  <2>1. \A l \in Listings : listed'[l].rows \subseteq listed[l].rows
    BY <1>4 DEF Revoke, DirectoryTypeOK, Listings
  <2> QED
    BY <1>0, <1>4, <2>1, SpentKept DEF Revoke
<1>5. ASSUME NEW l \in Listings, NEW row \in Rows, Purge(l, row)
      PROVE  SpentInv'
  <2>1. \A m \in Listings : listed'[m].rows \subseteq listed[m].rows
    BY <1>5 DEF Purge, DirectoryTypeOK
  <2> QED
    BY <1>0, <1>5, <2>1, SpentKept DEF Purge
<1>6. ASSUME NEW l \in Listings, NEW row \in Rows, NEW r \in Requests, Select(r, l, row)
      PROVE  SpentInv'
  <2>1. /\ row \in listed[l].rows /\ ~ row.used /\ row.version <= version
        /\ request[r].pc = "idle"
        /\ UNCHANGED <<listed, version>>
    BY <1>6 DEF Select, IsFirst, Unused, SpentInv, serverVars
  <2>2. /\ \A s \in Requests \ {r} : request'[s] = request[s]
        /\ request'[r] = [pc |-> "selected", at |-> l, key |-> row.key,
                          version |-> row.version,
                          before |-> {q \in Requests : request[q].pc = "given"}]
    BY <1>6 DEF Select, DirectoryTypeOK
  <2>3. \A s \in Requests : request[s].pc = "given" /\ request[s].at = l => ~ Names(s, row)
    BY <2>1 DEF SpentInv
  <2>4. \A s \in Requests : request[s].pc = "given" => s # r
    BY <2>1
  <2> QED
    BY <2>1, <2>2, <2>3, <2>4 DEF SpentInv, Engaged, Names
<1>7. ASSUME NEW r \in Requests, Give(r)
      PROVE  SpentInv'
  <2>1. /\ request[r].pc = "selected" /\ version' = version
        /\ \A s \in Requests \ {r} : request'[s] = request[s]
        /\ request'[r] = [request[r] EXCEPT !.pc = "given"]
        /\ request[r].at \in Listings
    BY <1>7 DEF Give, DirectoryTypeOK, RequestStates
  <2>2. ASSUME NEW l \in Listings, NEW row \in listed'[l].rows
        PROVE  \/ row \in listed[l].rows /\ (l = request[r].at => ~ Names(r, row))
               \/ row.used /\ \E old \in listed[l].rows :
                     row.key = old.key /\ row.version = old.version
    <3>1. CASE l = request[r].at
      <4>1. listed'[l].rows = (listed[l].rows \ Selected(r))
                                \cup {[x EXCEPT !.used = TRUE] : x \in Selected(r)}
        BY <1>7, <3>1 DEF Give, DirectoryTypeOK
      <4>2. CASE row \in listed[l].rows \ Selected(r)
        BY <3>1, <4>2 DEF Selected, Names
      <4>3. ASSUME NEW x \in Selected(r), row = [x EXCEPT !.used = TRUE]
            PROVE  row.used /\ x \in listed[l].rows
                   /\ row.key = x.key /\ row.version = x.version
        BY <3>1, <4>3 DEF Selected, DirectoryTypeOK, Rows
      <4> QED
        BY <2>2, <4>1, <4>2, <4>3
    <3>2. CASE l # request[r].at
      BY <1>7, <2>2, <3>2 DEF Give, DirectoryTypeOK
    <3> QED
      BY <3>1, <3>2
  <2>3. \A s \in Requests : /\ request'[s].at = request[s].at
                            /\ request'[s].key = request[s].key
                            /\ request'[s].version = request[s].version
                            /\ request'[s].before = request[s].before
                            /\ Engaged(s)' <=> Engaged(s)
                            /\ request[s].pc = "given" => request'[s].pc = "given"
                            /\ request'[s].pc = "given" => request[s].pc = "given" \/ s = r
                            /\ request[s].at \in Listings
    BY <2>1 DEF DirectoryTypeOK, RequestStates, Engaged
  <2>4. ASSUME NEW s \in Requests, request'[s].pc = "given",
               NEW row \in listed'[request[s].at].rows, Names(s, row)
        PROVE  row.used
    BY <2>2, <2>3, <2>4 DEF SpentInv, Names
  <2>5. \A l \in Listings : \A row \in listed'[l].rows : row.version <= version'
    BY <2>1, <2>2 DEF SpentInv
  <2> QED
    BY <2>1, <2>3, <2>4, <2>5 DEF SpentInv, Names
<1>8. ASSUME NEW r \in Requests, GiveFails(r)
      PROVE  SpentInv'
  <2>1. /\ request[r].pc = "selected" /\ UNCHANGED <<listed, version>>
        /\ \A s \in Requests \ {r} : request'[s] = request[s]
        /\ request'[r] = [request[r] EXCEPT !.pc = "failed"]
    BY <1>8 DEF GiveFails, serverVars, DirectoryTypeOK
  <2>2. \A s \in Requests : /\ request'[s].at = request[s].at
                            /\ request'[s].key = request[s].key
                            /\ request'[s].version = request[s].version
                            /\ request'[s].before = request[s].before
                            /\ Engaged(s)' => Engaged(s)
                            /\ request'[s].pc = "given" <=> request[s].pc = "given"
    <3>1. request[r] \in RequestStates
      BY DEF DirectoryTypeOK
    <3>2. TAKE s \in Requests
    <3>3. CASE s = r
      BY <2>1, <3>1, <3>3 DEF RequestStates, Engaged
    <3>4. CASE s # r
      BY <2>1, <3>4 DEF Engaged
    <3> QED
      BY <3>3, <3>4
  <2> QED
    BY <2>1, <2>2 DEF SpentInv, Names
<1>9. ASSUME NEW l \in Listings, NEW row \in Rows, Peek(l, row)
      PROVE  SpentInv'
  BY <1>1, <1>9 DEF Peek, serverVars
<1>10. \A l \in Listings : listed[l].rows \subseteq Rows
  BY DEF DirectoryTypeOK
<1> QED
  BY <1>1, <1>2, <1>3, <1>4, <1>5, <1>6, <1>7, <1>8, <1>9, <1>10
     DEF DirectoryNext, RequestStep, vars

(***************************************************************************)
(* A one-time key row that has been given out is never given to a call     *)
(* that selects later, for any number of devices, pages, uploads and       *)
(* calls: only calls that had both read the row before either committed    *)
(* can share it (issue_device_prekey_bundle, issue_prekey_bundle).         *)
(***************************************************************************)
THEOREM GivenRowsAreSpent == DirectorySpec => []GivenRowIsSpent
<1>1. DirectoryInit => SpentInv
  BY DEF DirectoryInit, SpentInv, Engaged, Listings
<1>2. DirectoryTypeOK /\ DirectoryTypeOK' /\ SpentInv /\ [DirectoryNext]_vars => SpentInv'
  BY SpentStep
<1>3. DirectoryTypeOK /\ SpentInv => GivenRowIsSpent
  BY DEF SpentInv, GivenRowIsSpent, SameRow, Engaged
<1> QED
  BY <1>1, <1>2, <1>3, DirectoryTypeCorrect, PTL DEF DirectorySpec

-----------------------------------------------------------------------------
(***************************************************************************)
(* As long as nothing overlaps, a device holds what is listed for it.  The *)
(* invariant: a device's store keeps used and unused keys apart; an active *)
(* page is the only one of its device and has what the device stores; the  *)
(* one upload at the server carries what its device stores, and deletes    *)
(* all there was; and what is listed for a synced device it holds.         *)
(***************************************************************************)
KeysApart(d) ==
    /\ local[d].unused \cap local[d].used = {}
    /\ local[d].unused \cup local[d].used \subseteq 1..keys

PageReads(p) ==
    LET st == local[HomeOf[p]]
    IN  /\ page[p].pc \in {"sign", "fill", "clean", "post"} => page[p].spk = st.spk
        /\ page[p].pc \in {"sign", "fill", "post", "mark"} =>
              page[p].unused = st.unused /\ page[p].used = st.used

\* No other page of the device is active.
Alone(p) == \A q \in Pages \ {p} : HomeOf[q] = HomeOf[p] => ~ Active(q)

UploadOwn(u) ==
    LET d == upload[u].of
    IN  /\ \A p \in Pages : HomeOf[p] = d => page[p].pc \in {"closed", "open", "wait"}
        /\ upload[u].spk = local[d].spk /\ upload[u].keys \subseteq local[d].unused
        /\ upload[u].pc \in {"user", "device"} => RowsOf(User) \subseteq upload[u].doomed
        /\ upload[u].pc = "device" => RowsOf(d) \subseteq upload[u].doomed

\* Since the upload that synced the device, no page of it has initialised keys.
SyncedHolds(d) ==
    /\ Holds(d, d)
    /\ uploader = d => Holds(d, User)
    /\ \A p \in Pages : HomeOf[p] = d => page[p].pc \notin {"sign", "fill", "clean", "post"}

InTurn ==
    /\ \A d \in Devices : KeysApart(d)
    /\ \A p \in Pages : PageReads(p)
    /\ \A p \in Pages : Active(p) => Alone(p)
    /\ \A u, w \in Uploads : AtServer(u) /\ AtServer(w) => u = w
    /\ \A u \in Uploads : AtServer(u) => UploadOwn(u)
    /\ \A d \in Devices : synced[d] => SyncedHolds(d)

HoldInv == ~ overlapped => InTurn

LEMMA TypesUsed ==
    ASSUME DirectoryTypeOK
    PROVE  /\ local \in [Devices -> DeviceStores] /\ page \in [Pages -> PageStates]
           /\ upload \in [Uploads -> UploadStates] /\ keys \in Nat
           /\ listed \in [Listings -> [spk : SignedPreKeys, rows : SUBSET Rows]]
           /\ synced \in [Devices -> BOOLEAN] /\ overlapped \in BOOLEAN
           /\ HomeOf \in [Pages -> Devices] /\ User \notin Devices /\ User \in Listings
           /\ Devices \subseteq Listings
           /\ \A u \in Uploads : AtServer(u) => upload[u] \in RunningUploads
<1>1. \A u \in Uploads : AtServer(u) => upload[u] \in RunningUploads
  BY DEF DirectoryTypeOK, AtServer, UploadStates, NoUpload
<1>2. keys \in Nat /\ User \in Listings /\ Devices \subseteq Listings
  BY DirectoryAssumption DEF DirectoryTypeOK, Listings
<1> QED BY <1>1, <1>2, DirectoryAssumption DEF DirectoryTypeOK

(***************************************************************************)
(* A step of page p, which is or becomes the only active one of its        *)
(* device, touches nothing but the page and the device's store.            *)
(***************************************************************************)
LEMMA OwnPageStep ==
    ASSUME DirectoryTypeOK, InTurn, NEW p \in Pages, UNCHANGED serverVars, Alone(p),
           \A q \in Pages \ {p} : page'[q] = page[q],
           \A d \in Devices \ {HomeOf[p]} : local'[d] = local[d] /\ synced'[d] = synced[d],
           keys' \in Nat, keys <= keys',
           KeysApart(HomeOf[p])', PageReads(p)',
           \A u \in Uploads : AtServer(u) /\ upload[u].of = HomeOf[p] =>
              local'[HomeOf[p]] = local[HomeOf[p]] /\ page'[p].pc \in {"closed", "open", "wait"},
           synced'[HomeOf[p]] => SyncedHolds(HomeOf[p])'
    PROVE  InTurn'
<1>1. /\ upload' = upload /\ listed' = listed /\ uploader' = uploader
      /\ \A u \in Uploads : AtServer(u)' <=> AtServer(u)
      /\ \A l : RowsOf(l)' = RowsOf(l) /\ Unused(l)' = Unused(l)
  BY DEF serverVars, AtServer, RowsOf, Unused
<1>2. ASSUME NEW d \in Devices PROVE KeysApart(d)'
  <2>1. CASE d = HomeOf[p]
    BY <2>1
  <2>2. CASE d # HomeOf[p]
    <3>1. 1..keys \subseteq 1..keys'
      BY TypesUsed
    <3> QED BY <2>2, <3>1 DEF InTurn, KeysApart
  <2> QED BY <2>1, <2>2
<1>3. ASSUME NEW q \in Pages PROVE PageReads(q)'
  <2>1. CASE q = p
    BY <2>1
  <2>2. CASE q # p /\ HomeOf[q] = HomeOf[p]
    <3>1. page'[q].pc \in {"closed", "open"}
      BY <2>2 DEF Alone, Active
    <3> QED BY <3>1 DEF PageReads
  <2>3. CASE q # p /\ HomeOf[q] # HomeOf[p]
    BY <2>3, TypesUsed DEF InTurn, PageReads
  <2> QED BY <2>1, <2>2, <2>3
<1>4. ASSUME NEW q \in Pages, Active(q)' PROVE Alone(q)'
  <2>1. \A x \in Pages \ {p} : Active(x)' <=> Active(x)
    BY DEF Active
  <2>2. CASE q = p
    BY <2>1, <2>2 DEF Alone
  <2>3. CASE q # p
    <3>1. Active(q) /\ Alone(q) /\ HomeOf[q] # HomeOf[p]
      BY <1>4, <2>1, <2>3 DEF InTurn, Alone
    <3> QED BY <2>1, <3>1 DEF Alone
  <2> QED BY <2>2, <2>3
<1>5. ASSUME NEW u \in Uploads, AtServer(u)' PROVE UploadOwn(u)'
  <2>1. PICK d \in Devices : d = upload[u].of
    BY <1>1, <1>5, TypesUsed DEF RunningUploads
  <2>2. AtServer(u) /\ UploadOwn(u)
    BY <1>1, <1>5 DEF InTurn
  <2>3. local'[d] = local[d]
    BY <2>1, <2>2
  <2>4. \A q \in Pages : HomeOf[q] = d => page'[q].pc \in {"closed", "open", "wait"}
    BY <2>1, <2>2 DEF UploadOwn
  <2> QED BY <1>1, <2>1, <2>2, <2>3, <2>4 DEF UploadOwn
<1>6. ASSUME NEW d \in Devices, synced'[d] PROVE SyncedHolds(d)'
  <2>1. CASE d = HomeOf[p]
    BY <1>6, <2>1
  <2>2. CASE d # HomeOf[p]
    <3>1. SyncedHolds(d) /\ local'[d] = local[d]
      BY <1>6, <2>2 DEF InTurn
    <3>2. \A q \in Pages : HomeOf[q] = d => page'[q] = page[q]
      BY <2>2
    <3> QED BY <1>1, <3>1, <3>2 DEF SyncedHolds, Holds
  <2> QED BY <2>1, <2>2
<1>7. \A u, w \in Uploads : AtServer(u)' /\ AtServer(w)' => u = w
  BY <1>1 DEF InTurn
<1> QED BY <1>2, <1>3, <1>4, <1>5, <1>6, <1>7 DEF InTurn

\* Calls of other users, and revocation, only take from the listings.
LEMMA ListingsShrink ==
    ASSUME DirectoryTypeOK, InTurn, UNCHANGED <<deviceVars, upload, uploader, synced>>,
           \A l \in Listings : /\ listed'[l].spk = listed[l].spk
                               /\ RowsOf(l)' \subseteq RowsOf(l)
                               /\ \A r \in Unused(l)' : \E x \in Unused(l) : x.key = r.key
    PROVE  InTurn'
<1>1. /\ keys' = keys /\ local' = local /\ page' = page /\ upload' = upload
      /\ uploader' = uploader /\ synced' = synced
  BY DEF deviceVars
<1>2. (\A d \in Devices : KeysApart(d)') /\ (\A p \in Pages : PageReads(p)')
  BY <1>1 DEF InTurn, KeysApart, PageReads
<1>3. (\A p \in Pages : Active(p)' => Alone(p)')
      /\ (\A u, w \in Uploads : AtServer(u)' /\ AtServer(w)' => u = w)
  BY <1>1 DEF InTurn, Active, Alone, AtServer
<1>4. ASSUME NEW u \in Uploads, AtServer(u)' PROVE UploadOwn(u)'
  <2>1. AtServer(u) /\ UploadOwn(u) /\ upload[u].of \in Devices
    BY <1>1, <1>4, TypesUsed DEF InTurn, AtServer, RunningUploads
  <2> QED BY <1>1, <2>1, TypesUsed DEF UploadOwn
<1>5. ASSUME NEW d \in Devices, synced'[d] PROVE SyncedHolds(d)'
  <2>1. SyncedHolds(d)
    BY <1>1, <1>5 DEF InTurn
  <2>2. \A l \in Listings : Holds(d, l) => Holds(d, l)'
    BY <1>1 DEF Holds
  <2> QED BY <1>1, <2>1, <2>2, TypesUsed DEF SyncedHolds
<1> QED BY <1>2, <1>3, <1>4, <1>5 DEF InTurn

\* What an active page does while nothing overlaps.
LEMMA PageInTurn ==
    ASSUME DirectoryTypeOK, DirectoryTypeOK', InTurn, NEW p \in Pages, PageStep(p), ~ overlapped'
    PROVE  InTurn'
<1> DEFINE d == HomeOf[p]
<1>0. /\ d \in Devices /\ local[d] \in DeviceStores /\ page[p] \in PageStates /\ KeysApart(d)
      /\ PageReads(p) /\ keys' \in Nat /\ keys \in Nat /\ (Active(p) => Alone(p))
  <2>1. keys' \in Nat
    BY DirectoryAssumption DEF DirectoryTypeOK
  <2> QED BY <2>1, TypesUsed DEF InTurn
\* While the page initialises keys, no upload of the device is at the server.
<1>1. ASSUME page[p].pc \in {"sign", "fill", "clean", "post"}
      PROVE  /\ Alone(p) /\ ~ synced[d]
             /\ \A u \in Uploads : AtServer(u) => upload[u].of # d
  <2>1. Active(p)
    BY <1>1 DEF Active
  <2>2. ~ synced[d]
    BY <1>0, <1>1 DEF InTurn, SyncedHolds
  <2>3. \A u \in Uploads : AtServer(u) => upload[u].of # d
    BY <1>1 DEF InTurn, UploadOwn
  <2> QED BY <1>0, <2>1, <2>2, <2>3
<1>2. CASE Load(p)
  <2>1. /\ Alone(p) /\ \A u \in Uploads : ~ AtServer(u)
    BY <1>2 DEF Load, OthersActive, Alone
  <2>2. /\ UNCHANGED serverVars /\ local' = local /\ keys' = keys
        /\ \A q \in Pages \ {p} : page'[q] = page[q]
        /\ \A e \in Devices \ {d} : synced'[e] = synced[e]
        /\ ~ synced'[d]
        /\ page'[p] = [pc |-> "sign", spk |-> local[d].spk, unused |-> local[d].unused,
                       used |-> local[d].used, sent |-> None]
    BY <1>0, <1>2, TypesUsed DEF Load
  <2>3. PageReads(p)' /\ KeysApart(d)'
    BY <1>0, <2>2 DEF PageReads, KeysApart
  <2> QED BY <1>0, <2>1, <2>2, <2>3, OwnPageStep
<1>3. ASSUME NEW rotate \in BOOLEAN, PutSigned(p, rotate) PROVE InTurn'
  <2>1. page[p].pc = "sign" /\ UNCHANGED <<keys, serverVars, synced>>
    BY <1>3 DEF PutSigned
  <2>2. PICK spk : /\ local' = [local EXCEPT ![d] = [local[d] EXCEPT !.spk = spk]]
                   /\ page' = [page EXCEPT ![p] = [page[p] EXCEPT !.pc = "fill", !.spk = spk]]
    BY <1>3 DEF PutSigned
  <2>3. /\ local'[d] = [local[d] EXCEPT !.spk = spk]
        /\ page'[p] = [page[p] EXCEPT !.pc = "fill", !.spk = spk]
        /\ \A q \in Pages \ {p} : page'[q] = page[q]
        /\ \A e \in Devices \ {d} : local'[e] = local[e]
    BY <1>0, <2>2, TypesUsed
  <2>4. /\ local'[d].spk = spk /\ local'[d].unused = local[d].unused
        /\ local'[d].used = local[d].used
        /\ page'[p].pc = "fill" /\ page'[p].spk = spk /\ page'[p].unused = page[p].unused
        /\ page'[p].used = page[p].used
    BY <1>0, <2>3 DEF DeviceStores, PageStates
  <2>5. PageReads(p)' /\ KeysApart(d)'
    BY <1>0, <2>1, <2>4 DEF PageReads, KeysApart
  <2> QED BY <1>0, <1>1, <2>1, <2>3, <2>5, OwnPageStep
<1>4. CASE Fill(p)
  <2>1. page[p].pc = "fill" /\ UNCHANGED <<serverVars, synced>>
    BY <1>4 DEF Fill
  <2>2. PICK missing : missing = (IF Cardinality(page[p].unused) < Batch
                                  THEN Batch - Cardinality(page[p].unused) ELSE 0)
    OBVIOUS
  <2>3. missing \in Nat /\ keys' = keys + missing
    <3>1. IsFiniteSet(1..MaxKeys)
      BY FS_Interval, DirectoryAssumption
    <3>2. IsFiniteSet(page[p].unused)
      BY <1>0, <3>1, FS_Subset DEF PageStates, OneTimeKeys
    <3>3. Cardinality(page[p].unused) \in Nat
      BY <3>2, FS_CardinalityType
    <3> QED BY <1>4, <2>2, <3>3, DirectoryAssumption DEF Fill
  <2>4. PICK unused : unused = page[p].unused \cup (keys + 1 .. keys + missing)
    OBVIOUS
  <2>5. /\ page' = [page EXCEPT ![p] = [page[p] EXCEPT !.pc = "clean", !.unused = unused]]
        /\ \/ local' = local
           \/ local' = [local EXCEPT ![d] = [local[d] EXCEPT !.unused = unused,
                                                             !.used = page[p].used]]
    BY <1>4, <2>2, <2>4 DEF Fill
  <2>6. page[p].unused = local[d].unused /\ page[p].used = local[d].used
        /\ page[p].spk = local[d].spk
    BY <1>0, <2>1 DEF PageReads
  <2>7. /\ \A q \in Pages \ {p} : page'[q] = page[q]
        /\ \A e \in Devices \ {d} : local'[e] = local[e]
        /\ page'[p].pc = "clean" /\ page'[p].spk = page[p].spk
    BY <1>0, <2>5, TypesUsed DEF PageStates
  <2>8. /\ local'[d].spk = local[d].spk /\ local'[d].used = local[d].used
        /\ local'[d].unused = local[d].unused \/ local'[d].unused = unused
    <3>1. PICK st : st = [local[d] EXCEPT !.unused = unused, !.used = page[p].used]
      OBVIOUS
    <3>2. st.spk = local[d].spk /\ st.used = page[p].used /\ st.unused = unused
      BY <1>0, <3>1 DEF DeviceStores
    <3>3. local'[d] = local[d] \/ local'[d] = st
      BY <1>0, <2>5, <3>1, TypesUsed
    <3> QED BY <2>6, <3>2, <3>3
  <2>9. PageReads(p)'
    BY <2>6, <2>7, <2>8 DEF PageReads
  <2>10. KeysApart(d)'
    <3>1. /\ unused \cap local[d].used = {} /\ unused \subseteq 1..keys'
          /\ 1..keys \subseteq 1..keys'
      BY <1>0, <2>3, <2>4, <2>6 DEF KeysApart
    <3> QED BY <1>0, <2>8, <3>1 DEF KeysApart
  <2>11. keys <= keys'
    BY <1>0, <2>3
  <2> QED BY <1>0, <1>1, <2>1, <2>7, <2>9, <2>10, <2>11, OwnPageStep
<1>5. ASSUME NEW purge \in SUBSET local[d].used, Clean(p, purge) PROVE InTurn'
  <2>1. page[p].pc = "clean" /\ UNCHANGED <<keys, serverVars, synced>>
    BY <1>5 DEF Clean
  <2>2. PICK kept : kept = local[d].used \ purge
    OBVIOUS
  <2>3. /\ local' = [local EXCEPT ![d] = [local[d] EXCEPT !.used = kept]]
        /\ page' = [page EXCEPT ![p] = [page[p] EXCEPT !.pc = "post",
                                          !.unused = local[d].unused, !.used = kept]]
    BY <1>5, <2>2 DEF Clean
  <2>4. /\ local'[d] = [local[d] EXCEPT !.used = kept]
        /\ page'[p] = [page[p] EXCEPT !.pc = "post", !.unused = local[d].unused, !.used = kept]
        /\ \A q \in Pages \ {p} : page'[q] = page[q]
        /\ \A e \in Devices \ {d} : local'[e] = local[e]
    BY <1>0, <2>3, TypesUsed
  <2>5. /\ local'[d].spk = local[d].spk /\ local'[d].unused = local[d].unused
        /\ local'[d].used = kept
        /\ page'[p].pc = "post" /\ page'[p].spk = page[p].spk
        /\ page'[p].unused = local[d].unused /\ page'[p].used = kept
    BY <1>0, <2>4 DEF DeviceStores, PageStates
  <2>6. PageReads(p)' /\ KeysApart(d)'
    BY <1>0, <2>1, <2>2, <2>5 DEF PageReads, KeysApart
  <2> QED BY <1>0, <1>1, <2>1, <2>4, <2>6, OwnPageStep
<1>6. ASSUME NEW u \in Uploads, Post(p, u) PROVE InTurn'
  <2>1. /\ page[p].pc = "post" /\ ~ AtServer(u) /\ \A w \in Uploads : ~ AtServer(w)
        /\ UNCHANGED <<keys, local, listed, uploader, synced>>
    BY <1>6 DEF Post
  <2>2. PICK up : up = [Finished EXCEPT !.pc = "sent", !.page = p, !.of = d, !.spk = page[p].spk,
                                        !.keys = page[p].unused]
    OBVIOUS
  <2>3. up.pc = "sent" /\ up.of = d /\ up.spk = page[p].spk /\ up.keys = page[p].unused
    BY <2>2 DEF Finished
  <2>4. upload' = [upload EXCEPT ![u] = up]
        /\ page' = [page EXCEPT ![p] = [Closed EXCEPT !.pc = "wait", !.sent = u]]
    BY <1>6, <2>2 DEF Post, PostedKeys
  <2>5. /\ upload'[u] = up /\ \A w \in Uploads \ {u} : upload'[w] = upload[w]
        /\ page'[p].pc = "wait" /\ \A q \in Pages \ {p} : page'[q] = page[q]
    BY <2>4, TypesUsed DEF Closed
  <2>6. \A w \in Uploads : AtServer(w)' <=> w = u
    BY <2>1, <2>3, <2>5 DEF AtServer
  <2>7. UploadOwn(u)'
    <3>1. \A q \in Pages : HomeOf[q] = d => page'[q].pc \in {"closed", "open", "wait"}
      BY <1>1, <2>1, <2>5 DEF Alone, Active
    <3>2. page[p].spk = local[d].spk /\ page[p].unused = local[d].unused
      BY <1>0, <2>1 DEF PageReads
    <3> QED BY <2>1, <2>3, <2>5, <3>1, <3>2 DEF UploadOwn
  <2>8. (\A q \in Pages : PageReads(q)') /\ (\A e \in Devices : KeysApart(e)')
    BY <2>1, <2>5 DEF InTurn, PageReads, KeysApart
  <2>9. \A q \in Pages : Active(q)' => Alone(q)'
    <3>1. \A q \in Pages : Active(q)' <=> Active(q)
      BY <2>1, <2>5 DEF Active
    <3> QED BY <3>1 DEF InTurn, Alone
  <2>10. ASSUME NEW e \in Devices, synced'[e] PROVE SyncedHolds(e)'
    <3>1. SyncedHolds(e)
      BY <2>1, <2>10 DEF InTurn
    <3>2. \A q \in Pages : HomeOf[q] = e => page'[q].pc \notin {"sign", "fill", "clean", "post"}
      BY <2>5, <3>1 DEF SyncedHolds
    <3>3. \A l \in Listings : Holds(e, l) => Holds(e, l)'
      BY <2>1 DEF Holds, Unused
    <3> QED BY <2>1, <3>1, <3>2, <3>3, TypesUsed DEF SyncedHolds
  <2> QED BY <2>6, <2>7, <2>8, <2>9, <2>10 DEF InTurn
<1>7. CASE ReplyLost(p)
  <2>1. /\ page[p].pc = "wait" /\ UNCHANGED <<keys, local, serverVars, synced>>
        /\ page' = [page EXCEPT ![p] = Open]
    BY <1>7 DEF ReplyLost
  <2>2. page'[p].pc = "open" /\ \A q \in Pages \ {p} : page'[q] = page[q]
    BY <2>1, TypesUsed DEF Open, Closed
  <2>3. Alone(p) /\ PageReads(p)' /\ KeysApart(d)'
    BY <1>0, <2>1, <2>2 DEF Active, PageReads, KeysApart
  <2>4. ASSUME synced'[d] PROVE SyncedHolds(d)'
    <3>1. SyncedHolds(d)
      BY <1>0, <2>1, <2>4 DEF InTurn
    <3>2. \A q \in Pages : HomeOf[q] = d => page'[q].pc \notin {"sign", "fill", "clean", "post"}
      BY <2>2, <3>1 DEF SyncedHolds
    <3> QED BY <2>1, <3>1, <3>2 DEF SyncedHolds, Holds, Unused, serverVars
  <2> QED BY <1>0, <2>1, <2>2, <2>3, <2>4, OwnPageStep
<1>8. CASE ConsumeRead(p)
  <2>1. /\ Alone(p) /\ (\A u \in Uploads : ~ AtServer(u))
        /\ UNCHANGED <<keys, local, serverVars, synced>>
    BY <1>8 DEF ConsumeRead, OthersActive, Alone
  <2>2. /\ page'[p] = [page[p] EXCEPT !.pc = "mark", !.unused = local[d].unused,
                                      !.used = local[d].used]
        /\ \A q \in Pages \ {p} : page'[q] = page[q]
    BY <1>8, TypesUsed DEF ConsumeRead
  <2>3. page'[p].pc = "mark" /\ page'[p].unused = local[d].unused /\ page'[p].used = local[d].used
    BY <1>0, <2>2 DEF PageStates
  <2>4. PageReads(p)' /\ KeysApart(d)'
    BY <1>0, <2>1, <2>3 DEF PageReads, KeysApart
  <2>5. ASSUME synced'[d] PROVE SyncedHolds(d)'
    <3>1. SyncedHolds(d)
      BY <1>0, <2>1, <2>5 DEF InTurn
    <3>2. \A q \in Pages : HomeOf[q] = d => page'[q].pc \notin {"sign", "fill", "clean", "post"}
      BY <2>2, <2>3, <3>1 DEF SyncedHolds
    <3> QED BY <2>1, <3>1, <3>2 DEF SyncedHolds, Holds, Unused, serverVars
  <2> QED BY <1>0, <2>1, <2>2, <2>4, <2>5, OwnPageStep
<1>9. ASSUME NEW k \in OneTimeKeys, ConsumePut(p, k) PROVE InTurn'
  <2>1. /\ page[p].pc = "mark" /\ k \in page[p].unused
        /\ UNCHANGED <<keys, serverVars, synced>>
    BY <1>9 DEF ConsumePut
  <2>2. page[p].unused = local[d].unused /\ page[p].used = local[d].used
    BY <1>0, <2>1 DEF PageReads
  <2>3. /\ local' = [local EXCEPT ![d] = [local[d] EXCEPT !.unused = page[p].unused \ {k},
                                                          !.used = page[p].used \cup {k}]]
        /\ page' = [page EXCEPT ![p] = Open]
    BY <1>9 DEF ConsumePut
  <2>4. /\ page'[p].pc = "open" /\ \A q \in Pages \ {p} : page'[q] = page[q]
        /\ \A e \in Devices \ {d} : local'[e] = local[e]
        /\ local'[d].spk = local[d].spk /\ local'[d].unused = local[d].unused \ {k}
        /\ local'[d].used = local[d].used \cup {k}
    BY <1>0, <2>2, <2>3, TypesUsed DEF Open, Closed, DeviceStores
  <2>5. Alone(p) /\ PageReads(p)' /\ KeysApart(d)'
    BY <1>0, <2>1, <2>2, <2>4 DEF Active, PageReads, KeysApart
  <2>6. ASSUME synced'[d] PROVE SyncedHolds(d)'
    <3>1. SyncedHolds(d)
      BY <1>0, <2>1, <2>6 DEF InTurn
    <3>2. \A q \in Pages : HomeOf[q] = d => page'[q].pc \notin {"sign", "fill", "clean", "post"}
      BY <2>4, <3>1 DEF SyncedHolds
    <3>3. local'[d].unused \cup local'[d].used = local[d].unused \cup local[d].used
      BY <2>1, <2>2, <2>4
    <3>4. \A l \in Listings : Holds(d, l) => Holds(d, l)'
      BY <2>1, <2>4, <3>3 DEF Holds, Unused, serverVars
    <3> QED BY <1>0, <2>1, <3>1, <3>2, <3>4, TypesUsed DEF SyncedHolds, serverVars
  <2>7. \A u \in Uploads : AtServer(u) => upload[u].of # d
    BY <2>1 DEF InTurn, UploadOwn
  <2> QED BY <1>0, <2>1, <2>4, <2>5, <2>6, <2>7, OwnPageStep
<1> QED BY <1>2, <1>3, <1>4, <1>5, <1>6, <1>7, <1>8, <1>9 DEF PageStep

\* Upload u goes on, or begins its deletions.
LEMMA UploadGoesOn ==
    ASSUME DirectoryTypeOK, InTurn, NEW u \in Uploads, AtServer(u), NEW up,
           upload' = [upload EXCEPT ![u] = up],
           UNCHANGED <<deviceVars, listed, uploader, synced>>,
           up.pc # "done", up.of = upload[u].of, up.spk = upload[u].spk, up.keys = upload[u].keys,
           up.pc \in {"user", "device"} => RowsOf(User) \subseteq up.doomed,
           up.pc = "device" => RowsOf(up.of) \subseteq up.doomed
    PROVE  InTurn'
<1>1. /\ keys' = keys /\ local' = local /\ page' = page /\ listed' = listed
      /\ uploader' = uploader /\ synced' = synced
  BY DEF deviceVars
<1>2. upload'[u] = up /\ \A w \in Uploads \ {u} : upload'[w] = upload[w]
  BY TypesUsed
<1>3. \A w \in Uploads : AtServer(w)' <=> AtServer(w)
  BY <1>2 DEF AtServer
<1>4. ASSUME NEW w \in Uploads, AtServer(w)' PROVE UploadOwn(w)'
  <2>1. w = u /\ UploadOwn(u)
    BY <1>3, <1>4 DEF InTurn
  <2> QED BY <1>1, <1>2, <2>1 DEF UploadOwn, RowsOf
<1>5. (\A d \in Devices : KeysApart(d)') /\ (\A p \in Pages : PageReads(p)')
  BY <1>1 DEF InTurn, KeysApart, PageReads
<1>6. \A p \in Pages : Active(p)' => Alone(p)'
  BY <1>1 DEF InTurn, Active, Alone
<1>7. \A d \in Devices : synced'[d] => SyncedHolds(d)'
  BY <1>1 DEF InTurn, SyncedHolds, Holds, Unused
<1>8. \A v, w \in Uploads : AtServer(v)' /\ AtServer(w)' => v = w
  BY <1>3 DEF InTurn
<1> QED BY <1>4, <1>5, <1>6, <1>7, <1>8 DEF InTurn

\* The transaction is over, and no other is at the server.
LEMMA UploadEnds ==
    ASSUME DirectoryTypeOK, InTurn, NEW u \in Uploads, AtServer(u), End(u),
           UNCHANGED <<keys, local>>, \A d \in Devices : synced'[d] => SyncedHolds(d)'
    PROVE  InTurn'
<1>1. \A w \in Uploads : ~ AtServer(w)'
  <2>1. \A w \in Uploads \ {u} : ~ AtServer(w)
    BY DEF InTurn
  <2>2. ASSUME NEW w \in Uploads PROVE upload'[w].pc = "done"
    <3>1. CASE w = u
      BY <3>1 DEF End, Finished
    <3>2. CASE w # u
      <4>1. upload[w] \in NoUpload
        BY <2>1, <3>2, TypesUsed DEF UploadStates, RunningUploads, AtServer
      <4>2. upload'[w] = [upload[w] EXCEPT !.after = upload[w].after \ {u}]
        BY <3>2 DEF End
      <4> QED BY <4>1, <4>2 DEF NoUpload
    <3> QED BY <3>1, <3>2
  <2> QED BY <2>2 DEF AtServer
<1>2. \A p \in Pages : page'[p] = page[p] \/ page'[p].pc = "open"
  BY DEF End, Open, Closed
<1>3. \A p \in Pages : PageReads(p)'
  BY <1>2 DEF InTurn, PageReads
<1>4. \A p \in Pages : Active(p)' => Alone(p)'
  <2>1. \A p \in Pages : Active(p)' => Active(p)
    BY <1>2 DEF Active
  <2> QED BY <2>1 DEF InTurn, Alone
<1>5. \A d \in Devices : KeysApart(d)'
  BY DEF InTurn, KeysApart
<1> QED BY <1>1, <1>3, <1>4, <1>5 DEF InTurn

\* What an upload writes when nothing overlaps: nothing of the old listings is left.
LEMMA UploadReplaces ==
    ASSUME DirectoryTypeOK, InTurn, NEW u \in Uploads, UploadCommit(u)
    PROVE  /\ upload[u].of \in Devices /\ UploadOwn(u)
           /\ \A l \in {User, upload[u].of} :
                 listed'[l] = [spk |-> upload[u].spk, rows |-> NewRows(u)]
           /\ \A l \in Listings \ {User, upload[u].of} : listed'[l] = listed[l]
           /\ \A r \in NewRows(u) : r.key \in upload[u].keys
<1>1. upload[u].pc = "device" /\ AtServer(u)
  BY DEF UploadCommit, AtServer
<1>2. upload[u].of \in Devices /\ UploadOwn(u)
  BY <1>1, TypesUsed DEF InTurn, RunningUploads
<1>3. \A l \in {User, upload[u].of} : RowsOf(l) \subseteq upload[u].doomed
  BY <1>1, <1>2 DEF UploadOwn
<1>4. \A l \in {User, upload[u].of} : Survivors(u, l) = {}
  BY <1>3 DEF Survivors, RowsOf
<1>5. \A l \in Listings : listed'[l] =
         IF l \in {User, upload[u].of}
         THEN [spk |-> upload[u].spk, rows |-> Survivors(u, l) \cup NewRows(u)] ELSE listed[l]
  BY DEF UploadCommit
<1>6. \A r \in NewRows(u) : r.key \in upload[u].keys
  BY DEF NewRows
<1> QED BY <1>2, <1>4, <1>5, <1>6, TypesUsed

\* What an upload does while nothing overlaps.
LEMMA UploadInTurn ==
    ASSUME DirectoryTypeOK, InTurn, NEW u \in Uploads, UploadStep(u)
    PROVE  InTurn'
<1>0. AtServer(u) /\ upload[u] \in RunningUploads /\ UploadOwn(u)
  <2>1. AtServer(u)
    BY DEF UploadStep, UploadBegin, UploadDeletesUser, UploadDeletesDevice, UploadCommit,
           UploadFail, AtServer
  <2> QED BY <2>1, TypesUsed DEF InTurn
<1>1. CASE UploadBegin(u)
  <2>1. PICK up : up = [upload[u] EXCEPT !.pc = "begun",
                                         !.creates = device[upload[u].of] # "active"]
    OBVIOUS
  <2>2. /\ up.pc = "begun" /\ up.of = upload[u].of /\ up.spk = upload[u].spk
        /\ up.keys = upload[u].keys
    BY <1>0, <2>1 DEF RunningUploads
  <2>3. /\ upload' = [upload EXCEPT ![u] = up]
        /\ UNCHANGED <<deviceVars, listed, uploader, synced>>
    BY <1>1, <2>1 DEF UploadBegin
  <2> QED BY <1>0, <2>2, <2>3, UploadGoesOn
<1>2. CASE UploadDeletesUser(u)
  <2>1. PICK up : up = [upload[u] EXCEPT !.pc = "user", !.doomed = RowsOf(User),
                                         !.after = Blockers(u, User)]
    OBVIOUS
  <2>2. /\ up.pc = "user" /\ up.of = upload[u].of /\ up.spk = upload[u].spk
        /\ up.keys = upload[u].keys /\ up.doomed = RowsOf(User)
    BY <1>0, <2>1 DEF RunningUploads
  <2>3. /\ upload' = [upload EXCEPT ![u] = up]
        /\ UNCHANGED <<deviceVars, listed, uploader, synced>>
    BY <1>2, <2>1 DEF UploadDeletesUser
  <2> QED BY <1>0, <2>2, <2>3, UploadGoesOn
<1>3. CASE UploadDeletesDevice(u)
  <2>1. PICK up : up = [upload[u] EXCEPT !.pc = "device",
                           !.doomed = upload[u].doomed \cup RowsOf(upload[u].of),
                           !.after = Blockers(u, upload[u].of)]
    OBVIOUS
  <2>2. /\ up.pc = "device" /\ up.of = upload[u].of /\ up.spk = upload[u].spk
        /\ up.keys = upload[u].keys /\ up.doomed = upload[u].doomed \cup RowsOf(upload[u].of)
    BY <1>0, <2>1 DEF RunningUploads
  <2>3. /\ upload' = [upload EXCEPT ![u] = up] /\ upload[u].pc = "user"
        /\ UNCHANGED <<deviceVars, listed, uploader, synced>>
    BY <1>3, <2>1 DEF UploadDeletesDevice
  <2>4. RowsOf(User) \subseteq up.doomed /\ RowsOf(up.of) \subseteq up.doomed
    BY <1>0, <2>2, <2>3 DEF UploadOwn
  <2> QED BY <1>0, <2>2, <2>3, <2>4, UploadGoesOn
<1>4. CASE UploadCommit(u)
  <2>1. PICK d \in Devices : d = upload[u].of
    BY <1>4, UploadReplaces
  <2>2. /\ UNCHANGED <<keys, local>> /\ End(u) /\ uploader' = d
        /\ \A e \in Devices \ {d} : synced'[e] = synced[e]
    BY <1>4, <2>1, TypesUsed DEF UploadCommit
  <2>3. /\ listed'[User] = [spk |-> upload[u].spk, rows |-> NewRows(u)]
        /\ listed'[d] = [spk |-> upload[u].spk, rows |-> NewRows(u)]
        /\ \A e \in Devices \ {d} : listed'[e] = listed[e]
        /\ \A r \in NewRows(u) : r.key \in upload[u].keys
    BY <1>4, <2>1, UploadReplaces, TypesUsed
  <2>4. \A p \in Pages : page'[p] = page[p] \/ page'[p].pc = "open"
    BY <2>2 DEF End, Open, Closed
  <2>5. SyncedHolds(d)'
    <3>1. Holds(d, d)' /\ Holds(d, User)'
      BY <1>0, <2>1, <2>2, <2>3 DEF UploadOwn, Holds, Unused
    <3>2. \A p \in Pages : HomeOf[p] = d => page'[p].pc \in {"closed", "open", "wait"}
      BY <1>0, <2>1, <2>4 DEF UploadOwn
    <3> QED BY <3>1, <3>2 DEF SyncedHolds
  <2>6. ASSUME NEW e \in Devices \ {d}, synced'[e] PROVE SyncedHolds(e)'
    <3>1. SyncedHolds(e) /\ uploader' # e
      BY <2>2, <2>6 DEF InTurn
    <3>2. Holds(e, e)'
      BY <2>2, <2>3, <3>1 DEF SyncedHolds, Holds, Unused
    <3>3. \A p \in Pages : HomeOf[p] = e => page'[p].pc \notin {"sign", "fill", "clean", "post"}
      BY <2>4, <3>1 DEF SyncedHolds
    <3> QED BY <3>1, <3>2, <3>3 DEF SyncedHolds
  <2> QED BY <1>0, <2>2, <2>5, <2>6, UploadEnds
<1>5. CASE UploadFail(u)
  <2>1. UNCHANGED <<keys, local, listed, uploader, synced>> /\ End(u)
    BY <1>5 DEF UploadFail
  <2>2. ASSUME NEW e \in Devices, synced'[e] PROVE SyncedHolds(e)'
    <3>1. SyncedHolds(e)
      BY <2>1, <2>2 DEF InTurn
    <3>2. \A p \in Pages : page'[p] = page[p] \/ page'[p].pc = "open"
      BY <2>1 DEF End, Open, Closed
    <3>3. \A p \in Pages : HomeOf[p] = e => page'[p].pc \notin {"sign", "fill", "clean", "post"}
      BY <3>1, <3>2 DEF SyncedHolds
    <3> QED BY <2>1, <3>1, <3>3 DEF SyncedHolds, Holds, Unused
  <2> QED BY <1>0, <2>1, <2>2, UploadEnds
<1> QED BY <1>1, <1>2, <1>3, <1>4, <1>5 DEF UploadStep

\* Calls of other users and revocation, while nothing overlaps.
LEMMA RequestInTurn ==
    ASSUME DirectoryTypeOK, InTurn, RequestStep \/ \E d \in Devices : Revoke(d)
    PROVE  InTurn'
<1>1. CASE listed' = listed /\ UNCHANGED <<deviceVars, upload, uploader, synced>>
  BY <1>1, ListingsShrink DEF RowsOf, Unused
<1>2. ASSUME NEW l \in Listings, \A m \in Listings \ {l} : listed'[m] = listed[m],
             listed'[l].spk = listed[l].spk,
             \A r \in listed'[l].rows : \E x \in listed[l].rows :
                r.key = x.key /\ r.version = x.version /\ (x.used => r.used),
             UNCHANGED <<deviceVars, upload, uploader, synced>>
      PROVE  InTurn'
  <2>1. ASSUME NEW m \in Listings
        PROVE  /\ listed'[m].spk = listed[m].spk /\ RowsOf(m)' \subseteq RowsOf(m)
               /\ \A r \in Unused(m)' : \E x \in Unused(m) : x.key = r.key
    <3>1. CASE m = l
      BY <1>2, <3>1 DEF RowsOf, Unused
    <3>2. CASE m # l
      BY <1>2, <3>2 DEF RowsOf, Unused
    <3> QED BY <3>1, <3>2
  <2> QED BY <1>2, <2>1, ListingsShrink
<1>3. ASSUME NEW d \in Devices, Revoke(d) PROVE InTurn'
  <2>1. /\ listed' = [listed EXCEPT ![d] = [listed[d] EXCEPT !.rows = {}]]
        /\ UNCHANGED <<deviceVars, upload, uploader, synced>>
    BY <1>3 DEF Revoke
  <2>2. /\ \A m \in Listings \ {d} : listed'[m] = listed[m]
        /\ listed'[d].spk = listed[d].spk /\ listed'[d].rows = {}
    BY <2>1, TypesUsed
  <2> QED BY <1>2, <2>1, <2>2, TypesUsed
<1>4. ASSUME NEW l \in Listings, NEW row, Purge(l, row) PROVE InTurn'
  <2>1. /\ listed' = [listed EXCEPT ![l] = [listed[l] EXCEPT !.rows = listed[l].rows \ {row}]]
        /\ UNCHANGED <<deviceVars, upload, uploader, synced>>
    BY <1>4 DEF Purge
  <2>2. /\ \A m \in Listings \ {l} : listed'[m] = listed[m]
        /\ listed'[l].spk = listed[l].spk /\ listed'[l].rows = listed[l].rows \ {row}
    BY <2>1, TypesUsed
  <2> QED BY <1>2, <2>1, <2>2
<1>5. ASSUME NEW r \in Requests, Give(r) PROVE InTurn'
  <2>1. PICK l \in Listings : l = request[r].at
    BY DEF DirectoryTypeOK, RequestStates
  <2>2. PICK rows : rows = (listed[l].rows \ Selected(r))
                             \cup {[row EXCEPT !.used = TRUE] : row \in Selected(r)}
    OBVIOUS
  <2>3. /\ listed' = [listed EXCEPT ![l] = [listed[l] EXCEPT !.rows = rows]]
        /\ UNCHANGED <<deviceVars, upload, uploader, synced>>
    BY <1>5, <2>1, <2>2 DEF Give
  <2>4. /\ \A m \in Listings \ {l} : listed'[m] = listed[m]
        /\ listed'[l].spk = listed[l].spk /\ listed'[l].rows = rows
    BY <2>3, TypesUsed
  <2>5. ASSUME NEW y \in rows
        PROVE  \E x \in listed[l].rows :
                  y.key = x.key /\ y.version = x.version /\ (x.used => y.used)
    <3>1. CASE y \in listed[l].rows
      BY <3>1
    <3>2. CASE y \notin listed[l].rows
      <4>1. PICK x \in Selected(r) : y = [x EXCEPT !.used = TRUE]
        BY <2>2, <2>5, <3>2
      <4>2. x \in listed[l].rows /\ x \in Rows
        BY <2>1, <4>1, TypesUsed DEF Selected
      <4>3. y.key = x.key /\ y.version = x.version /\ y.used
        BY <4>1, <4>2 DEF Rows
      <4> QED BY <4>2, <4>3
    <3> QED BY <3>1, <3>2
  <2> QED BY <1>2, <2>3, <2>4, <2>5
<1>6. ASSUME NEW l \in Listings, NEW row, Peek(l, row) \/ \E r \in Requests : Select(r, l, row)
      PROVE  InTurn'
  BY <1>1, <1>6 DEF Select, Peek, serverVars
<1>7. CASE \E d \in Devices : Revoke(d)
  BY <1>3, <1>7
<1>8. CASE RequestStep
  <2>1. \A r \in Requests : GiveFails(r) => InTurn'
    BY <1>1 DEF GiveFails, serverVars
  <2> QED BY <1>4, <1>5, <1>6, <1>8, <2>1 DEF RequestStep
<1> QED BY <1>7, <1>8

LEMMA HoldStep ==
    DirectoryTypeOK /\ DirectoryTypeOK' /\ HoldInv /\ [DirectoryNext]_vars => HoldInv'
<1> SUFFICES ASSUME DirectoryTypeOK, DirectoryTypeOK', HoldInv, [DirectoryNext]_vars,
                    ~ overlapped'
             PROVE  InTurn'
  BY DEF HoldInv
<1>1. ~ overlapped
  BY SMTT(30), ZenonT(30), TypesUsed
     DEF vars, DirectoryNext, PageStep, Load, PutSigned, Fill, Clean, Post, ReplyLost,
         ConsumeRead, ConsumePut, UploadStep, UploadBegin, UploadDeletesUser,
         UploadDeletesDevice, UploadCommit, UploadFail, Revoke, RequestStep, Select, Give,
         GiveFails, Peek, Purge
<1>2. InTurn
  BY <1>1 DEF HoldInv
<1>3. CASE UNCHANGED vars
  <2>1. UNCHANGED <<deviceVars, upload, uploader, synced>> /\ listed' = listed
    BY <1>3 DEF vars, deviceVars
  <2> QED BY <1>2, <2>1, ListingsShrink DEF RowsOf, Unused
<1> QED BY <1>2, <1>3, PageInTurn, UploadInTurn, RequestInTurn DEF DirectoryNext

LEMMA HoldInvAlways == DirectorySpec => [](DirectoryTypeOK /\ HoldInv)
<1>1. DirectoryInit => HoldInv
  BY DEF DirectoryInit, HoldInv, InTurn, KeysApart, PageReads, Active, Alone, AtServer,
         Closed, Finished
<1> QED BY <1>1, HoldStep, DirectoryTypeCorrect, PTL DEF DirectorySpec

(***************************************************************************)
(* Without overlaps, a device whose last initialisation was committed      *)
(* holds the private half of everything that is listed for it: rotation,   *)
(* replenishment, consumption and purging never leave a listed key behind, *)
(* and each upload leaves nothing of the one before (upload_x3dh_keys).    *)
(***************************************************************************)
THEOREM ListedKeysAreHeld == DirectorySpec => []PublishedKeysHeld
<1>1. HoldInv => PublishedKeysHeld
  BY DEF HoldInv, InTurn, SyncedHolds, PublishedKeysHeld
<1> QED BY <1>1, HoldInvAlways, PTL

-----------------------------------------------------------------------------
(***************************************************************************)
(* The user row, uploads overlapping or not.  The invariant: an upload     *)
(* that no other has passed since its DELETE began still deletes all the   *)
(* rows there are; and after the commit of such an upload every row is of  *)
(* that upload.                                                            *)
(***************************************************************************)
Sweeping(u) == upload[u].pc \in {"user", "device"} /\ u \notin passed

MixInv ==
    /\ \A u \in Uploads : Sweeping(u) => RowsOf(User) \subseteq upload[u].doomed
    /\ unpassed => \A r \in listed[User].rows : r.version = version

\* A step that commits no upload and gives the user row no new row keeps it.
LEMMA MixKept ==
    ASSUME MixInv, RowsOf(User)' \subseteq RowsOf(User), UNCHANGED <<version, unpassed>>,
           \A u \in Uploads : Sweeping(u)' =>
              \/ Sweeping(u) /\ upload[u].doomed \subseteq upload'[u].doomed
              \/ RowsOf(User) \subseteq upload'[u].doomed
    PROVE  MixInv'
<1>1. ASSUME NEW r \in listed'[User].rows
      PROVE  \E x \in listed[User].rows : x.version = r.version
  <2>1. <<User, r.key, r.version>> \in RowsOf(User)
    BY DEF RowsOf
  <2> QED BY <2>1 DEF RowsOf
<1>2. unpassed' => \A r \in listed'[User].rows : r.version = version'
  BY <1>1 DEF MixInv
<1>3. \A u \in Uploads : Sweeping(u)' => RowsOf(User)' \subseteq upload'[u].doomed
  BY DEF MixInv
<1> QED BY <1>2, <1>3 DEF MixInv

\* A step of an upload keeps it.
LEMMA MixUpload ==
    ASSUME DirectoryTypeOK, MixInv, NEW u \in Uploads, UploadStep(u)
    PROVE  MixInv'
<1>0. upload \in [Uploads -> UploadStates] /\ upload[u] \in RunningUploads
  <2>1. AtServer(u)
    BY DEF UploadStep, UploadBegin, UploadDeletesUser, UploadDeletesDevice, UploadCommit,
           UploadFail, AtServer
  <2> QED BY <2>1, TypesUsed
<1>1. CASE UploadBegin(u)
  <2>1. /\ UNCHANGED <<listed, version, unpassed, passed>>
        /\ \A w \in Uploads \ {u} : upload'[w] = upload[w]
        /\ upload'[u].pc = "begun"
    BY <1>0, <1>1 DEF UploadBegin, history, RunningUploads
  <2> QED BY <2>1, MixKept DEF Sweeping, RowsOf
<1>2. CASE UploadDeletesUser(u)
  <2>1. /\ UNCHANGED <<listed, version, unpassed>> /\ passed' = passed \ {u}
        /\ \A w \in Uploads \ {u} : upload'[w] = upload[w]
        /\ upload'[u].doomed = RowsOf(User)
    BY <1>0, <1>2 DEF UploadDeletesUser, RunningUploads
  <2>2. RowsOf(User)' = RowsOf(User)
    BY <2>1 DEF RowsOf
  <2>3. \A w \in Uploads \ {u} : Sweeping(w)' => Sweeping(w)
    BY <2>1 DEF Sweeping
  <2> QED BY <2>1, <2>2, <2>3, MixKept
<1>3. CASE UploadDeletesDevice(u)
  <2>1. /\ UNCHANGED <<listed, version, unpassed, passed>>
        /\ \A w \in Uploads \ {u} : upload'[w] = upload[w]
        /\ upload[u].pc = "user" /\ upload[u].doomed \subseteq upload'[u].doomed
    BY <1>0, <1>3 DEF UploadDeletesDevice, history, RunningUploads
  <2> QED BY <2>1, MixKept DEF Sweeping, RowsOf
<1>4. CASE UploadCommit(u)
  <2>1. /\ version' = version + 1 /\ unpassed' = (u \notin passed) /\ upload[u].pc = "device"
        /\ passed' = (passed \cup {w \in Uploads : upload[w].pc \in {"user", "device"}}) \ {u}
        /\ End(u)
    BY <1>4 DEF UploadCommit
  <2>2. ASSUME NEW w \in Uploads PROVE ~ Sweeping(w)'
    <3>1. CASE w = u
      BY <2>1, <3>1 DEF End, Finished, Sweeping
    <3>2. CASE w # u
      <4>1. upload'[w] = [upload[w] EXCEPT !.after = upload[w].after \ {u}]
        BY <2>1, <3>2 DEF End
      <4>2. upload'[w].pc = upload[w].pc
        BY <1>0, <4>1 DEF UploadStates, RunningUploads, NoUpload
      <4> QED BY <2>1, <3>2, <4>2 DEF Sweeping
    <3> QED BY <3>1, <3>2
  <2>3. listed'[User].rows = Survivors(u, User) \cup NewRows(u)
    BY <1>4, TypesUsed DEF UploadCommit
  <2>4. ASSUME unpassed', NEW r \in listed'[User].rows PROVE r.version = version'
    <3>1. RowsOf(User) \subseteq upload[u].doomed
      BY <2>1, <2>4 DEF MixInv, Sweeping
    <3>2. Survivors(u, User) = {}
      BY <3>1 DEF Survivors, RowsOf
    <3> QED BY <2>1, <2>3, <2>4, <3>2 DEF NewRows
  <2> QED BY <2>2, <2>4 DEF MixInv
<1>5. CASE UploadFail(u)
  <2>1. /\ UNCHANGED <<listed, version, unpassed>> /\ passed' = passed \ {u} /\ End(u)
    BY <1>5 DEF UploadFail
  <2>2. ASSUME NEW w \in Uploads, Sweeping(w)'
        PROVE  Sweeping(w) /\ upload[w].doomed \subseteq upload'[w].doomed
    <3>1. w # u
      BY <2>1, <2>2 DEF End, Finished, Sweeping
    <3>2. upload'[w] = [upload[w] EXCEPT !.after = upload[w].after \ {u}]
      BY <2>1, <3>1 DEF End
    <3>3. upload'[w].pc = upload[w].pc /\ upload'[w].doomed = upload[w].doomed
      BY <1>0, <3>2 DEF UploadStates, RunningUploads, NoUpload
    <3> QED BY <2>1, <2>2, <3>1, <3>3 DEF Sweeping
  <2> QED BY <2>1, <2>2, MixKept DEF RowsOf
<1> QED BY <1>1, <1>2, <1>3, <1>4, <1>5 DEF UploadStep

\* Calls of other users, and revocation, write no new row.
LEMMA RequestsShrink ==
    ASSUME DirectoryTypeOK, RequestStep \/ \E d \in Devices : Revoke(d)
    PROVE  /\ \A l \in Listings : RowsOf(l)' \subseteq RowsOf(l)
           /\ UNCHANGED <<deviceVars, upload, version, history>>
<1>1. ASSUME NEW d \in Devices, Revoke(d)
      PROVE  \A l \in Listings : listed'[l].rows \subseteq listed[l].rows
  BY <1>1, TypesUsed DEF Revoke
<1>2. ASSUME NEW l \in Listings, NEW row, Purge(l, row)
      PROVE  \A m \in Listings : listed'[m].rows \subseteq listed[m].rows
  BY <1>2, TypesUsed DEF Purge
<1>3. ASSUME NEW r \in Requests, Give(r), NEW l \in Listings
      PROVE  RowsOf(l)' \subseteq RowsOf(l)
  <2>1. CASE l = request[r].at
    <3>1. listed'[l].rows = (listed[l].rows \ Selected(r))
                              \cup {[x EXCEPT !.used = TRUE] : x \in Selected(r)}
      BY <1>3, <2>1, TypesUsed DEF Give
    <3>2. ASSUME NEW y \in listed'[l].rows
          PROVE  \E x \in listed[l].rows : x.key = y.key /\ x.version = y.version
      <4>1. CASE y \in listed[l].rows
        BY <4>1
      <4>2. ASSUME NEW x \in Selected(r), y = [x EXCEPT !.used = TRUE]
            PROVE  x \in listed[l].rows /\ x.key = y.key /\ x.version = y.version
        BY <2>1, <4>2, TypesUsed DEF Selected, Rows
      <4> QED BY <3>1, <3>2, <4>1, <4>2
    <3> QED BY <3>2 DEF RowsOf
  <2>2. CASE l # request[r].at
    BY <1>3, <2>2, TypesUsed DEF Give, RowsOf
  <2> QED BY <2>1, <2>2
<1>4. (\A l \in Listings : listed'[l].rows \subseteq listed[l].rows)
         => \A l \in Listings : RowsOf(l)' \subseteq RowsOf(l)
  BY DEF RowsOf
<1>5. ASSUME listed' = listed PROVE \A l \in Listings : RowsOf(l)' \subseteq RowsOf(l)
  BY <1>5 DEF RowsOf
<1>6. \A l \in Listings : RowsOf(l)' \subseteq RowsOf(l)
  BY <1>1, <1>2, <1>3, <1>4, <1>5 DEF RequestStep, Select, Peek, GiveFails, serverVars
<1>7. UNCHANGED <<deviceVars, upload, version, history>>
  BY DEF RequestStep, Revoke, Select, Peek, Purge, Give, GiveFails, serverVars
<1> QED BY <1>6, <1>7

\* The steps of pages leave the listings alone, and the uploads but for a new one.
LEMMA PagesWriteNoListing ==
    ASSUME NEW p \in Pages, PageStep(p)
    PROVE  /\ UNCHANGED <<listed, version, passed, unpassed>>
           /\ \/ upload' = upload
              \/ \E u \in Uploads :
                    upload' = [upload EXCEPT ![u] = [Finished EXCEPT !.pc = "sent", !.page = p,
                                 !.of = HomeOf[p], !.spk = page[p].spk, !.keys = PostedKeys(p)]]
BY DEF PageStep, Load, PutSigned, Fill, Clean, Post, ReplyLost, ConsumeRead, ConsumePut,
       serverVars, history

LEMMA MixStep ==
    DirectoryTypeOK /\ MixInv /\ [DirectoryNext]_vars => MixInv'
<1> SUFFICES ASSUME DirectoryTypeOK, MixInv, [DirectoryNext]_vars
             PROVE  MixInv'
  OBVIOUS
<1>1. ASSUME UNCHANGED <<upload, version, passed, unpassed>>, RowsOf(User)' \subseteq RowsOf(User)
      PROVE  MixInv'
  BY <1>1, MixKept DEF Sweeping
<1>2. ASSUME NEW p \in Pages, PageStep(p) PROVE MixInv'
  <2>1. UNCHANGED <<listed, version, passed, unpassed>>
    BY <1>2, PagesWriteNoListing
  <2>2. RowsOf(User)' = RowsOf(User)
    BY <2>1 DEF RowsOf
  <2>3. CASE upload' = upload
    BY <1>1, <2>1, <2>2, <2>3
  <2>4. CASE upload' # upload
    <3>1. PICK u \in Uploads :
             upload' = [upload EXCEPT ![u] = [Finished EXCEPT !.pc = "sent", !.page = p,
                          !.of = HomeOf[p], !.spk = page[p].spk, !.keys = PostedKeys(p)]]
      BY <1>2, <2>4, PagesWriteNoListing
    <3>2. upload'[u].pc = "sent" /\ \A w \in Uploads \ {u} : upload'[w] = upload[w]
      BY <3>1, TypesUsed DEF Finished
    <3>3. \A w \in Uploads : Sweeping(w)' => w # u /\ Sweeping(w)
      BY <2>1, <3>2 DEF Sweeping
    <3> QED BY <2>1, <2>2, <3>2, <3>3, MixKept
  <2> QED BY <2>3, <2>4
<1>3. CASE UNCHANGED vars
  BY <1>1, <1>3 DEF vars, history, RowsOf
<1>4. CASE RequestStep \/ \E d \in Devices : Revoke(d)
  BY <1>1, <1>4, RequestsShrink, TypesUsed DEF history
<1> QED BY <1>2, <1>3, <1>4, MixUpload DEF DirectoryNext

(***************************************************************************)
(* The keys on the user row are those of the last upload, unless another   *)
(* was committed between the start of its DELETE and its commit, however   *)
(* many devices overwrite the row and however their requests overlap       *)
(* (upload_x3dh_keys); and while pages and uploads do not overlap, the     *)
(* device that uploaded last holds them.                                   *)
(***************************************************************************)
THEOREM UserRowIsOneDevices == DirectorySpec => []UserBundleIsOneDevices
<1>1. DirectoryTypeOK /\ HoldInv /\ MixInv => UserBundleIsOneDevices
  BY DEF DirectoryTypeOK, HoldInv, MixInv, InTurn, SyncedHolds, UserBundleIsOneDevices
<1>2. DirectoryInit => MixInv
  BY TypesUsed, InitTypeOK DEF DirectoryInit, MixInv, Sweeping, Finished
<1> QED BY <1>1, <1>2, MixStep, HoldInvAlways, DirectoryTypeCorrect, PTL DEF DirectorySpec

-----------------------------------------------------------------------------
(***************************************************************************)
(* Consumed keys, whatever overlaps.  The invariant: whoever has a key of  *)
(* a device as used (its store, or a page that has read it) and whoever    *)
(* has it as unused (the store, a page, a request) disagree only on the    *)
(* keys in late; and no such key is yet to be created.                     *)
(***************************************************************************)
HasUnused(d, k) ==
    \/ k \in local[d].unused
    \/ \E p \in Pages : HomeOf[p] = d /\ k \in page[p].unused
    \/ \E u \in Uploads : upload[u].of = d /\ k \in upload[u].keys

HasUsed(d, k) ==
    \/ k \in local[d].used
    \/ \E p \in Pages : HomeOf[p] = d /\ k \in page[p].used

LateInv ==
    \A d \in Devices : \A k \in OneTimeKeys :
        /\ HasUnused(d, k) \/ HasUsed(d, k) => k <= keys
        /\ HasUnused(d, k) /\ HasUsed(d, k) => k \in late

\* A step after which nobody has as used, or as unused, what nobody had so before.
LEMMA LateKept ==
    ASSUME keys \in Nat, keys' \in Nat, keys <= keys', late \subseteq late', LateInv,
           \A d \in Devices : \A k \in OneTimeKeys :
              /\ HasUnused(d, k)' => HasUnused(d, k) \/ (keys < k /\ k <= keys')
              /\ HasUsed(d, k)' => HasUsed(d, k)
    PROVE  LateInv'
<1> SUFFICES ASSUME NEW d \in Devices, NEW k \in OneTimeKeys
             PROVE  /\ HasUnused(d, k)' \/ HasUsed(d, k)' => k <= keys'
                    /\ HasUnused(d, k)' /\ HasUsed(d, k)' => k \in late'
  BY DEF LateInv
<1>1. k \in Nat
  BY DirectoryAssumption DEF OneTimeKeys
<1>2. /\ HasUnused(d, k)' => HasUnused(d, k) \/ (keys < k /\ k <= keys')
      /\ HasUsed(d, k)' => HasUsed(d, k)
      /\ HasUnused(d, k) \/ HasUsed(d, k) => k <= keys
      /\ HasUnused(d, k) /\ HasUsed(d, k) => k \in late
  BY DEF LateInv
<1> HIDE DEF HasUnused, HasUsed
<1> QED BY <1>1, <1>2

(***************************************************************************)
(* A step of page p that changes its device's store, the page and nothing  *)
(* else: each had the keys it has now, but for the new ones.               *)
(***************************************************************************)
LEMMA LatePage ==
    ASSUME DirectoryTypeOK, LateInv, NEW p \in Pages, NEW st, NEW pg,
           keys' \in Nat, keys <= keys', UNCHANGED <<upload, late>>,
           local' = [local EXCEPT ![HomeOf[p]] = st], page' = [page EXCEPT ![p] = pg],
           \A k \in OneTimeKeys :
              /\ k \in st.unused \/ k \in pg.unused =>
                    HasUnused(HomeOf[p], k) \/ (keys < k /\ k <= keys')
              /\ k \in st.used \/ k \in pg.used => HasUsed(HomeOf[p], k)
    PROVE  LateInv'
<1>1. /\ \A e \in Devices : local'[e] = IF e = HomeOf[p] THEN st ELSE local[e]
      /\ \A q \in Pages : page'[q] = IF q = p THEN pg ELSE page[q]
      /\ upload' = upload /\ keys \in Nat
  BY TypesUsed
<1>2. ASSUME NEW d \in Devices, NEW k \in OneTimeKeys, HasUnused(d, k)'
      PROVE  HasUnused(d, k) \/ (keys < k /\ k <= keys')
  <2>1. CASE k \in local'[d].unused
    BY <1>1, <2>1 DEF HasUnused
  <2>2. ASSUME NEW q \in Pages, HomeOf[q] = d, k \in page'[q].unused
        PROVE  HasUnused(d, k) \/ (keys < k /\ k <= keys')
    BY <1>1, <2>2 DEF HasUnused
  <2>3. ASSUME NEW u \in Uploads, upload[u].of = d, k \in upload[u].keys
        PROVE  HasUnused(d, k)
    BY <2>3 DEF HasUnused
  <2> QED BY <1>1, <1>2, <2>1, <2>2, <2>3 DEF HasUnused
<1>3. ASSUME NEW d \in Devices, NEW k \in OneTimeKeys, HasUsed(d, k)'
      PROVE  HasUsed(d, k)
  BY <1>1, <1>3 DEF HasUsed
<1> QED BY <1>1, <1>2, <1>3, LateKept

\* A step after which stores, pages and requests have no key they did not have before.
LEMMA LateShrinks ==
    ASSUME DirectoryTypeOK, LateInv, UNCHANGED <<keys, late>>,
           \A d \in Devices : local'[d].unused \subseteq local[d].unused
                              /\ local'[d].used \subseteq local[d].used,
           \A p \in Pages : page'[p].unused \subseteq page[p].unused
                            /\ page'[p].used \subseteq page[p].used,
           \A u \in Uploads : upload'[u].keys = {}
                              \/ (upload'[u].of = upload[u].of /\ upload'[u].keys = upload[u].keys)
    PROVE  LateInv'
<1>1. ASSUME NEW d \in Devices, NEW k \in OneTimeKeys
      PROVE  (HasUnused(d, k)' => HasUnused(d, k)) /\ (HasUsed(d, k)' => HasUsed(d, k))
  BY DEF HasUnused, HasUsed
<1> QED BY <1>1, LateKept, TypesUsed

LEMMA LateByPage ==
    ASSUME DirectoryTypeOK, DirectoryTypeOK', LateInv, NEW p \in Pages, PageStep(p)
    PROVE  LateInv'
<1> DEFINE d == HomeOf[p]
<1>0. /\ d \in Devices /\ local[d] \in DeviceStores /\ page[p] \in PageStates
      /\ keys \in Nat /\ keys' \in Nat
  BY TypesUsed, DirectoryAssumption DEF DirectoryTypeOK
<1>1. \A k \in OneTimeKeys : /\ k \in local[d].unused \/ k \in page[p].unused => HasUnused(d, k)
                             /\ k \in local[d].used \/ k \in page[p].used => HasUsed(d, k)
  BY DEF HasUnused, HasUsed
<1>a. ASSUME NEW st, NEW pg, UNCHANGED <<keys, upload, late>>,
             local' = [local EXCEPT ![d] = st], page' = [page EXCEPT ![p] = pg],
             \/ st.unused = local[d].unused /\ pg.unused = local[d].unused
             \/ st.unused = local[d].unused /\ pg.unused = page[p].unused,
             st.used \subseteq local[d].used,
             pg.used \subseteq local[d].used \/ pg.used = page[p].used
      PROVE  LateInv'
  <2>1. \A k \in OneTimeKeys :
           /\ k \in st.unused \/ k \in pg.unused => HasUnused(d, k) \/ (keys < k /\ k <= keys')
           /\ k \in st.used \/ k \in pg.used => HasUsed(d, k)
    BY <1>1, <1>a
  <2>2. keys <= keys'
    BY <1>0, <1>a
  <2> QED BY <1>0, <1>a, <2>1, <2>2, LatePage
<1>2. CASE Load(p)
  <2>1. PICK pg : pg = [pc |-> "sign", spk |-> local[d].spk, unused |-> local[d].unused,
                        used |-> local[d].used, sent |-> None]
    OBVIOUS
  <2>2. /\ page' = [page EXCEPT ![p] = pg] /\ local' = local
        /\ UNCHANGED <<keys, upload, late>>
    BY <1>2, <2>1 DEF Load, serverVars, history
  <2>3. local' = [local EXCEPT ![d] = local[d]] /\ pg.unused = local[d].unused
        /\ pg.used = local[d].used
    BY <2>1, <2>2, TypesUsed
  <2> QED BY <1>a, <2>2, <2>3
<1>3. ASSUME NEW rotate \in BOOLEAN, PutSigned(p, rotate) PROVE LateInv'
  <2>1. PICK spk : /\ local' = [local EXCEPT ![d] = [local[d] EXCEPT !.spk = spk]]
                   /\ page' = [page EXCEPT ![p] = [page[p] EXCEPT !.pc = "fill", !.spk = spk]]
    BY <1>3 DEF PutSigned
  <2>2. PICK st, pg : /\ st = [local[d] EXCEPT !.spk = spk]
                      /\ pg = [page[p] EXCEPT !.pc = "fill", !.spk = spk]
    OBVIOUS
  <2>3. /\ st.unused = local[d].unused /\ st.used = local[d].used
        /\ pg.unused = page[p].unused /\ pg.used = page[p].used
    BY <1>0, <2>2 DEF DeviceStores, PageStates
  <2>4. UNCHANGED <<keys, upload, late>>
    BY <1>3 DEF PutSigned, serverVars, history
  <2> QED BY <1>a, <2>1, <2>2, <2>3, <2>4
<1>4. CASE Fill(p)
  <2>1. PICK missing : missing = (IF Cardinality(page[p].unused) < Batch
                                  THEN Batch - Cardinality(page[p].unused) ELSE 0)
    OBVIOUS
  <2>2. missing \in Nat /\ keys' = keys + missing
    <3>1. IsFiniteSet(1..MaxKeys)
      BY FS_Interval, DirectoryAssumption
    <3>2. IsFiniteSet(page[p].unused)
      BY <1>0, <3>1, FS_Subset DEF PageStates, OneTimeKeys
    <3>3. Cardinality(page[p].unused) \in Nat
      BY <3>2, FS_CardinalityType
    <3> QED BY <1>4, <2>1, <3>3, DirectoryAssumption DEF Fill
  <2>3. PICK unused : unused = page[p].unused \cup (keys + 1 .. keys + missing)
    OBVIOUS
  <2>4. PICK st, pg : /\ st = IF missing = 0 THEN local[d]
                              ELSE [local[d] EXCEPT !.unused = unused, !.used = page[p].used]
                      /\ pg = [page[p] EXCEPT !.pc = "clean", !.unused = unused]
    OBVIOUS
  <2>5. /\ local' = [local EXCEPT ![d] = st] /\ page' = [page EXCEPT ![p] = pg]
        /\ UNCHANGED <<upload, late>>
    BY <1>4, <2>1, <2>3, <2>4, TypesUsed DEF Fill, serverVars, history
  <2>6. /\ st.unused \subseteq local[d].unused \cup unused
        /\ st.used \subseteq local[d].used \cup page[p].used
        /\ pg.unused = unused /\ pg.used = page[p].used
    BY <1>0, <2>4 DEF DeviceStores, PageStates
  <2>7. \A k \in OneTimeKeys : k \in unused => k \in page[p].unused \/ (keys < k /\ k <= keys')
    BY <1>0, <2>2, <2>3 DEF OneTimeKeys
  <2>8. \A k \in OneTimeKeys :
           /\ k \in st.unused \/ k \in pg.unused => HasUnused(d, k) \/ (keys < k /\ k <= keys')
           /\ k \in st.used \/ k \in pg.used => HasUsed(d, k)
    BY <1>1, <2>6, <2>7
  <2>9. keys <= keys'
    BY <1>0, <2>2
  <2> QED BY <1>0, <2>5, <2>8, <2>9, LatePage
<1>5. ASSUME NEW purge \in SUBSET local[d].used, Clean(p, purge) PROVE LateInv'
  <2>1. PICK kept : kept = local[d].used \ purge
    OBVIOUS
  <2>2. PICK st, pg : /\ st = [local[d] EXCEPT !.used = kept]
                      /\ pg = [page[p] EXCEPT !.pc = "post", !.unused = local[d].unused,
                                              !.used = kept]
    OBVIOUS
  <2>3. /\ local' = [local EXCEPT ![d] = st] /\ page' = [page EXCEPT ![p] = pg]
        /\ UNCHANGED <<keys, upload, late>>
    BY <1>5, <2>1, <2>2 DEF Clean, serverVars, history
  <2>4. /\ st.unused = local[d].unused /\ st.used \subseteq local[d].used
        /\ pg.unused = local[d].unused /\ pg.used \subseteq local[d].used
    BY <1>0, <2>1, <2>2 DEF DeviceStores, PageStates
  <2> QED BY <1>a, <2>3, <2>4
<1>6. ASSUME NEW u \in Uploads, Post(p, u) PROVE LateInv'
  <2>1. UNCHANGED <<keys, local, late>>
    BY <1>6 DEF Post, history
  <2>2. /\ \A w \in Uploads \ {u} : upload'[w] = upload[w]
        /\ upload'[u].of = d /\ upload'[u].keys = page[p].unused
    BY <1>6, TypesUsed DEF Post, PostedKeys, Finished
  <2>3. /\ \A q \in Pages \ {p} : page'[q] = page[q]
        /\ page'[p].unused = {} /\ page'[p].used = {}
    BY <1>6, TypesUsed DEF Post, Closed
  <2>4. ASSUME NEW e \in Devices, NEW k \in OneTimeKeys
        PROVE  (HasUnused(e, k)' => HasUnused(e, k)) /\ (HasUsed(e, k)' => HasUsed(e, k))
    BY <2>1, <2>2, <2>3 DEF HasUnused, HasUsed
  <2> QED BY <1>0, <2>1, <2>4, LateKept
<1>7. CASE ReplyLost(p)
  <2>1. page' = [page EXCEPT ![p] = Open] /\ UNCHANGED <<keys, local, upload, late>>
    BY <1>7 DEF ReplyLost, serverVars, history
  <2>2. \A q \in Pages : page'[q].unused \subseteq page[q].unused
                         /\ page'[q].used \subseteq page[q].used
    BY <2>1, TypesUsed DEF Open, Closed
  <2> QED BY <2>1, <2>2, LateShrinks
<1>8. CASE ConsumeRead(p)
  <2>1. PICK pg : pg = [page[p] EXCEPT !.pc = "mark", !.unused = local[d].unused,
                                       !.used = local[d].used]
    OBVIOUS
  <2>2. pg.unused = local[d].unused /\ pg.used = local[d].used
    BY <1>0, <2>1 DEF PageStates
  <2>3. /\ page' = [page EXCEPT ![p] = pg] /\ local' = [local EXCEPT ![d] = local[d]]
        /\ UNCHANGED <<keys, upload, late>>
    BY <1>8, <2>1, TypesUsed DEF ConsumeRead, serverVars, history
  <2> QED BY <1>a, <2>2, <2>3
<1>9. ASSUME NEW k \in OneTimeKeys, ConsumePut(p, k) PROVE LateInv'
  <2>1. /\ late' = late \cup {j \in {k} : UnusedElsewhere(p, j)} /\ k \in page[p].unused
        /\ UNCHANGED <<keys, upload>>
    BY <1>9 DEF ConsumePut, serverVars
  <2>2. /\ local'[d].unused = page[p].unused \ {k} /\ local'[d].used = page[p].used \cup {k}
        /\ \A e \in Devices \ {d} : local'[e] = local[e]
    BY <1>0, <1>9, TypesUsed DEF ConsumePut, DeviceStores
  <2>3. /\ page'[p].unused = {} /\ page'[p].used = {}
        /\ \A q \in Pages \ {p} : page'[q] = page[q]
    BY <1>9, TypesUsed DEF ConsumePut, Open, Closed
  <2>4. ASSUME NEW e \in Devices, NEW j \in OneTimeKeys
        PROVE  /\ HasUnused(e, j)' => HasUnused(e, j)
               /\ HasUsed(e, j)' => HasUsed(e, j) \/ (e = d /\ j = k)
               /\ HasUnused(d, k)' => UnusedElsewhere(p, k)
    BY <2>1, <2>2, <2>3 DEF HasUnused, HasUsed, UnusedElsewhere
  <2>5. HasUnused(d, k)
    BY <1>1, <2>1
  <2>6. ASSUME NEW e \in Devices, NEW j \in OneTimeKeys
        PROVE  /\ HasUnused(e, j)' \/ HasUsed(e, j)' => j <= keys'
               /\ HasUnused(e, j)' /\ HasUsed(e, j)' => j \in late'
    <3>1. /\ HasUnused(e, j) \/ HasUsed(e, j) => j <= keys
          /\ HasUnused(e, j) /\ HasUsed(e, j) => j \in late
      BY DEF LateInv
    <3>2. k <= keys
      BY <1>0, <2>5 DEF LateInv
    <3>3. CASE e = d /\ j = k
      BY <2>1, <2>4, <3>2, <3>3
    <3>4. CASE ~ (e = d /\ j = k)
      BY <2>1, <2>4, <3>1, <3>4
    <3> QED BY <3>3, <3>4
  <2> QED BY <2>6 DEF LateInv
<1> QED BY <1>2, <1>3, <1>4, <1>5, <1>6, <1>7, <1>8, <1>9 DEF PageStep

LEMMA LateByUpload ==
    ASSUME DirectoryTypeOK, LateInv, NEW u \in Uploads, UploadStep(u)
    PROVE  LateInv'
<1>0. upload \in [Uploads -> UploadStates] /\ upload[u] \in RunningUploads
  <2>1. AtServer(u)
    BY DEF UploadStep, UploadBegin, UploadDeletesUser, UploadDeletesDevice, UploadCommit,
           UploadFail, AtServer
  <2> QED BY <2>1, TypesUsed
<1>1. CASE UploadBegin(u) \/ UploadDeletesUser(u) \/ UploadDeletesDevice(u)
  <2>1. UNCHANGED <<deviceVars, late>>
    BY <1>1 DEF UploadBegin, UploadDeletesUser, UploadDeletesDevice, history
  <2>2. \A w \in Uploads : upload'[w].of = upload[w].of /\ upload'[w].keys = upload[w].keys
    BY <1>0, <1>1 DEF UploadBegin, UploadDeletesUser, UploadDeletesDevice, RunningUploads
  <2> QED BY <2>1, <2>2, LateShrinks DEF deviceVars
<1>2. CASE UploadCommit(u) \/ UploadFail(u)
  <2>1. UNCHANGED <<keys, local, late>> /\ End(u)
    BY <1>2 DEF UploadCommit, UploadFail
  <2>2. \A p \in Pages : page'[p].unused \subseteq page[p].unused
                         /\ page'[p].used \subseteq page[p].used
    BY <2>1 DEF End, Open, Closed
  <2>3. ASSUME NEW w \in Uploads
        PROVE  upload'[w].keys = {}
               \/ (upload'[w].of = upload[w].of /\ upload'[w].keys = upload[w].keys)
    <3>1. CASE w = u
      BY <2>1, <3>1 DEF End, Finished
    <3>2. CASE w # u
      <4>1. upload'[w] = [upload[w] EXCEPT !.after = upload[w].after \ {u}]
        BY <2>1, <3>2 DEF End
      <4> QED BY <1>0, <4>1 DEF UploadStates, RunningUploads, NoUpload
    <3> QED BY <3>1, <3>2
  <2> QED BY <2>1, <2>2, <2>3, LateShrinks
<1> QED BY <1>1, <1>2 DEF UploadStep

LEMMA LateStep ==
    DirectoryTypeOK /\ DirectoryTypeOK' /\ LateInv /\ [DirectoryNext]_vars => LateInv'
<1> SUFFICES ASSUME DirectoryTypeOK, DirectoryTypeOK', LateInv, [DirectoryNext]_vars
             PROVE  LateInv'
  OBVIOUS
<1>1. CASE UNCHANGED <<deviceVars, upload, history>>
  BY <1>1, LateShrinks DEF deviceVars, history
<1>2. CASE RequestStep \/ \E d \in Devices : Revoke(d)
  BY <1>1, <1>2, RequestsShrink
<1>3. CASE UNCHANGED vars
  BY <1>1, <1>3 DEF vars, deviceVars, history
<1> QED BY <1>2, <1>3, LateByPage, LateByUpload DEF DirectoryNext

(***************************************************************************)
(* An upload lists anew no key that its device has consumed, but for those *)
(* consumed while a request under way or another page still had them as    *)
(* unused, however pages and uploads overlap, are reloaded, fail or come   *)
(* late (initKeysIfNeeded, consumeLocalOneTimePreKey, upload_x3dh_keys).   *)
(***************************************************************************)
THEOREM ConsumedKeysStayUnlisted == DirectorySpec => ConsumedKeysNotRelisted
<1> DEFINE NotRelisted ==
              version' # version =>
                 \A d \in Devices : \A r \in listed'[d].rows \ listed[d].rows :
                    r.key \in local[d].used => r.key \in late
<1>1. ASSUME DirectoryTypeOK, LateInv, [DirectoryNext]_vars PROVE [NotRelisted]_vars
  <2>1. SUFFICES ASSUME NEW d \in Devices, version' # version,
                        NEW r \in listed'[d].rows \ listed[d].rows, r.key \in local[d].used
                 PROVE  r.key \in late
    OBVIOUS
  <2>2. PICK u \in Uploads : UploadCommit(u)
    <3>1. ~ UNCHANGED vars
      BY <2>1 DEF vars
    <3>2. \A p \in Pages : ~ PageStep(p)
      BY <2>1, PagesWriteNoListing
    <3>3. ~ (RequestStep \/ \E e \in Devices : Revoke(e))
      BY <1>1, <2>1, RequestsShrink
    <3>4. PICK u \in Uploads : UploadStep(u)
      BY <1>1, <3>1, <3>2, <3>3 DEF DirectoryNext
    <3> QED BY <2>1, <3>4 DEF UploadStep, UploadBegin, UploadDeletesUser, UploadDeletesDevice,
                              UploadFail
  <2>3. listed'[d] = IF d \in {User, upload[u].of}
                     THEN [spk |-> upload[u].spk, rows |-> Survivors(u, d) \cup NewRows(u)]
                     ELSE listed[d]
    BY <1>1, <2>2, TypesUsed DEF UploadCommit
  <2>4. d = upload[u].of /\ r \in NewRows(u)
    BY <1>1, <2>1, <2>3, TypesUsed DEF Survivors
  <2>5. r.key \in upload[u].keys /\ r.key \in OneTimeKeys
    <3>1. upload[u].keys \subseteq OneTimeKeys
      BY <1>1, <2>2, TypesUsed DEF UploadCommit, AtServer, RunningUploads
    <3> QED BY <2>4, <3>1 DEF NewRows
  <2>6. HasUnused(d, r.key) /\ HasUsed(d, r.key)
    BY <2>1, <2>4, <2>5 DEF HasUnused, HasUsed
  <2> QED BY <1>1, <2>5, <2>6 DEF LateInv
<1>2. DirectoryInit => LateInv
  BY DEF DirectoryInit, LateInv, HasUnused, HasUsed, Closed, Finished
<1>3. DirectoryTypeOK /\ LateInv /\ [DirectoryNext]_vars => [NotRelisted]_vars
  BY <1>1
<1> QED BY <1>2, <1>3, LateStep, DirectoryTypeCorrect, PTL
        DEF DirectorySpec, ConsumedKeysNotRelisted
=============================================================================
