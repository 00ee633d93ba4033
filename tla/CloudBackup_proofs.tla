------------------------- MODULE CloudBackup_proofs -------------------------
(***************************************************************************)
(* Proofs about CloudBackup, for any number of accounts, browsers, tabs    *)
(* and entries: the types, that local stores are kept apart, that a page   *)
(* that cannot open its backup has a cause, and that what is in a store is *)
(* saved in the end.                                                       *)
(***************************************************************************)
EXTENDS CloudBackup, TLAPS

\* A page has an account as long as it is open, and uploads only when it is ready and has
\* a password.
PageOK(p) ==
    /\ p \in PageStates
    /\ p.pc # "closed" => p.account \in Accounts
    /\ p.timer \/ p.up.pc # "none" => p.pc = "ready" /\ p.key \in Passwords
    /\ p.up.pc # "none" => p.up.account \in Accounts

\* The pages that have put their binding.
Past == {"fetch", "apply", "rebind", "fill", "ready", "locked"}

BoundOK == \A t \in Tabs : tab[t].pc \in Past => binding[BrowserOf[t]] # None

TypeInv == BackupTypeOK /\ (\A t \in Tabs : PageOK(tab[t])) /\ BoundOK

UploadStates ==
    [pc : {"none", "started", "taken", "sent"}, account : Accounts \cup {None},
     content : SUBSET Entries, to : Accounts \cup {None}]

LEMMA UploadStatesAre == NoUpload \in UploadStates /\ NoUpload.pc = "none"
  BY DEF UploadStates, NoUpload

LEMMA NewPageOK ==
    ASSUME NEW key \in Passwords \cup {None}
    PROVE  /\ PageOK(NewPage(key))
           /\ NewPage(key).pc = "closed" /\ NewPage(key).key = key
           /\ NewPage(key).up.pc = "none" /\ ~ NewPage(key).timer
  BY DEF PageOK, NewPage, PageStates, NoUpload

\* The steps of a page put another page state into its tab.
LEMMA PagesStayOK ==
    ASSUME TypeInv, NEW t \in Tabs, NEW p, PageOK(p), tab' = [tab EXCEPT ![t] = p]
    PROVE  /\ tab' \in [Tabs -> PageStates] /\ \A u \in Tabs : PageOK(tab'[u])
           /\ binding' = binding /\ (p.pc \in Past => tab[t].pc \in Past) => BoundOK'
  BY BackupAssumption DEF TypeInv, BackupTypeOK, PageOK, BoundOK

LEMMA BackupTypeInit == BackupInit => TypeInv
<1> SUFFICES ASSUME BackupInit PROVE TypeInv
  OBVIOUS
<1>1. PageOK(NewPage(None))
  BY NewPageOK
<1>2. tab \in [Tabs -> PageStates] /\ (\A t \in Tabs : PageOK(tab[t])) /\ BoundOK
  BY <1>1, NewPageOK DEF BackupInit, PageOK, BoundOK, Past
<1>3. made \in Seq(Accounts) /\ Len(made) <= MaxEntries
  BY BackupAssumption DEF BackupInit
<1> QED BY <1>2, <1>3 DEF BackupInit, TypeInv, BackupTypeOK

LEMMA UserTypeStep ==
    ASSUME TypeInv, NEW t \in Tabs,
           \/ Leave(t) \/ Logout(t) \/ ResetLocal(t) \/ Open(t) \/ MakeEntry(t)
           \/ \E a \in Accounts, typed \in Passwords : Login(t, a, typed)
    PROVE  TypeInv'
<1> USE PagesStayOK DEF serverVars, mixVars, Past
<1>0. PageOK(tab[t]) /\ tab[t].key \in Passwords \cup {None} /\ BrowserOf[t] \in Browsers
  BY BackupAssumption DEF TypeInv, PageOK, PageStates
<1>1. Unsent(t) \subseteq Entries
  BY <1>0 DEF Unsent, TypeInv, BackupTypeOK
<1>2. CASE Leave(t)
  <2>1. PICK key \in {tab[t].key, None} : tab' = [tab EXCEPT ![t] = NewPage(key)]
    BY <1>2 DEF Leave
  <2>2. PageOK(NewPage(key)) /\ NewPage(key).pc = "closed"
    BY <1>0, NewPageOK
  <2> QED BY <1>1, <1>2, <2>1, <2>2 DEF Leave, TypeInv, BackupTypeOK
<1>3. CASE Logout(t)
  <2> DEFINE n == NewPage(tab[t].key)
  <2>1. tab' = [tab EXCEPT ![t] = n] /\ binding' = binding
    BY <1>3 DEF Logout
  <2>2. PageOK(n) /\ n.pc = "closed"
    BY <1>0, NewPageOK
  <2> HIDE DEF n
  <2>3. tab' \in [Tabs -> PageStates] /\ (\A u \in Tabs : PageOK(tab'[u])) /\ BoundOK'
    BY ONLY TypeInv, PagesStayOK, <2>1, <2>2 DEF Past
  <2> QED BY <1>0, <1>1, <1>3, <2>3 DEF Logout, TypeInv, BackupTypeOK
<1>4. CASE ResetLocal(t)
  <2> DEFINE n == NewPage(tab[t].key)
  <2>1. tab' = [tab EXCEPT ![t] = n] /\ ~ HeldOpen(t)
        /\ binding' = [binding EXCEPT ![BrowserOf[t]] = None]
    BY <1>4 DEF ResetLocal
  <2>2. PageOK(n) /\ n.pc = "closed"
    BY <1>0, NewPageOK
  <2> HIDE DEF n
  <2>3. tab' \in [Tabs -> PageStates] /\ \A u \in Tabs : PageOK(tab'[u])
    BY ONLY TypeInv, PagesStayOK, <2>1, <2>2
  <2>4. BoundOK'
    BY ONLY TypeInv, <2>1, <2>2, BackupAssumption
       DEF HeldOpen, TypeInv, BackupTypeOK, BoundOK, Past
  <2> QED BY <1>0, <1>1, <1>4, <2>3, <2>4 DEF ResetLocal, TypeInv, BackupTypeOK
<1>5. CASE Open(t)
  <2> DEFINE a == cookie[BrowserOf[t]]
             n == NewPage(tab[t].key)
             p == [n EXCEPT !.pc = "bind", !.account = a]
  <2>1. a \in Accounts
    BY <1>0, <1>5 DEF Open, TypeInv, BackupTypeOK
  <2>2. tab' = [tab EXCEPT ![t] = p]
    BY <1>5 DEF Open
  <2>3. n \in PageStates /\ n.up.pc = "none" /\ ~ n.timer
    BY <1>0, NewPageOK DEF PageOK
  <2> HIDE DEF n
  <2>4. PageOK(p) /\ p.pc = "bind"
    BY <2>1, <2>3 DEF PageOK, PageStates
  <2> HIDE DEF p
  <2> QED BY <1>5, <2>1, <2>2, <2>4 DEF Open, TypeInv, BackupTypeOK
<1>6. CASE MakeEntry(t)
  <2> DEFINE c == Len(made) + 1
             timed == [tab[t] EXCEPT !.timer = TRUE]
  <2>1. PageOK(Scheduled(tab[t]))
    <3>1. CASE tab[t].suppressed \/ tab[t].up.pc # "none" \/ tab[t].key = None
      BY <1>0, <3>1 DEF Scheduled
    <3>2. CASE ~ (tab[t].suppressed \/ tab[t].up.pc # "none" \/ tab[t].key = None)
      <4>1. PageOK(timed)
        BY <1>0, <1>6, <3>2 DEF MakeEntry, PageOK, PageStates
      <4> QED BY <3>2, <4>1 DEF Scheduled
    <3> QED BY <3>1, <3>2
  <2>2. c \in Entries /\ made \in Seq(Accounts) /\ Len(made) \in Nat
    BY <1>6, BackupAssumption DEF MakeEntry, Entries, TypeInv, BackupTypeOK
  <2>3. tab[t].account \in Accounts
    BY <1>0, <1>6 DEF MakeEntry, PageOK
  <2>4. made' \in Seq(Accounts) /\ Len(made') <= MaxEntries
    BY <1>6, <2>2, <2>3 DEF MakeEntry, TypeInv, BackupTypeOK
  <2>5. /\ store' \in [Browsers -> SUBSET Entries]
        /\ excused' \in SUBSET Entries /\ strayed' \in SUBSET Entries
    BY <1>6, <2>2 DEF MakeEntry, Astray, TypeInv, BackupTypeOK
  <2>6. tab' = [tab EXCEPT ![t] = Scheduled(tab[t])]
    BY <1>6 DEF MakeEntry
  <2> QED BY <1>6, <2>1, <2>4, <2>5, <2>6 DEF MakeEntry, TypeInv, BackupTypeOK
<1>7. ASSUME NEW a \in Accounts, NEW typed \in Passwords, Login(t, a, typed) PROVE TypeInv'
  <2>1. PageOK(NewPage(typed)) /\ NewPage(typed).pc = "closed"
    BY NewPageOK
  <2>2. cookie' \in [Browsers -> Accounts \cup {None}] /\ ended' \in SUBSET Browsers
    BY <1>0, <1>7 DEF Login, TypeInv, BackupTypeOK
  <2> QED BY <1>7, <2>1, <2>2 DEF Login, TypeInv, BackupTypeOK
<1> QED BY <1>2, <1>3, <1>4, <1>5, <1>6, <1>7

LEMMA PageTypeStep ==
    ASSUME TypeInv, NEW t \in Tabs, PageStep(t)
    PROVE  TypeInv'
<1> USE PagesStayOK DEF serverVars, mixVars, Past
<1>0. /\ PageOK(tab[t]) /\ tab[t] \in PageStates /\ BrowserOf[t] \in Browsers
      /\ tab[t].got \subseteq Entries
  BY BackupAssumption DEF TypeInv, PageOK, PageStates
<1>1. CASE ReadBinding(t)
  <2> DEFINE to == IF BoundToAnother(t) THEN "erase" ELSE "put"
  <2>1. PageOK([tab[t] EXCEPT !.pc = to]) /\ [tab[t] EXCEPT !.pc = to].pc = to
    BY <1>0, <1>1 DEF ReadBinding, PageOK, PageStates
  <2>2. mixed' \in SUBSET Browsers
    BY <1>0, <1>1 DEF ReadBinding, TypeInv, BackupTypeOK
  <2>3. tab' = [tab EXCEPT ![t] = [tab[t] EXCEPT !.pc = to]] /\ binding' = binding
    BY <1>1 DEF ReadBinding
  <2>4. to \in {"erase", "put"}
    OBVIOUS
  <2> HIDE DEF to
  <2>5. BoundOK'
    BY <2>1, <2>3, <2>4
  <2> QED BY <1>1, <2>1, <2>2, <2>3, <2>5 DEF ReadBinding, TypeInv, BackupTypeOK
<1>6. CASE EraseOther(t)
  <2>1. PageOK([tab[t] EXCEPT !.pc = "put"]) /\ [tab[t] EXCEPT !.pc = "put"].pc = "put"
    BY <1>0, <1>6 DEF EraseOther, PageOK, PageStates
  <2>2. BoundOK'
    BY <1>0, <1>6, <2>1, BackupAssumption
       DEF EraseOther, HeldOpen, TypeInv, BackupTypeOK, BoundOK
  <2>3. binding' \in [Browsers -> Accounts \cup {None}] /\ store' \in [Browsers -> SUBSET Entries]
    BY <1>0, <1>6 DEF EraseOther, TypeInv, BackupTypeOK
  <2> QED BY <1>6, <2>1, <2>2, <2>3 DEF EraseOther, TypeInv, BackupTypeOK
<1>7. ASSUME NEW p, PageOK(p), tab' = [tab EXCEPT ![t] = p], tab[t].pc # "closed",
             binding' = [binding EXCEPT ![BrowserOf[t]] = tab[t].account]
      PROVE  BoundOK' /\ binding' \in [Browsers -> Accounts \cup {None}]
  BY <1>0, <1>7, BackupAssumption DEF TypeInv, BackupTypeOK, BoundOK, PageOK
<1>8. CASE PutBinding(t)
  <2>1. PageOK([tab[t] EXCEPT !.pc = "fetch"])
    BY <1>0, <1>8 DEF PutBinding, PageOK, PageStates
  <2> QED BY <1>7, <1>8, <2>1 DEF PutBinding, TypeInv, BackupTypeOK
<1>9. CASE Rebind(t)
  <2>1. PageOK([tab[t] EXCEPT !.pc = "fill"])
    BY <1>0, <1>9 DEF Rebind, PageOK, PageStates
  <2> QED BY <1>7, <1>9, <2>1 DEF Rebind, TypeInv, BackupTypeOK
<1>2. CASE Fetch(t)
  <2> DEFINE copy == CopyFor(t)
  <2>1. copy # None => copy.content \subseteq Entries
    BY <1>0 DEF CopyFor, TypeInv, BackupTypeOK, Backups
  <2>2. PICK p : tab' = [tab EXCEPT ![t] = p] /\
           \/ p = [tab[t] EXCEPT !.pc = "ready"]
           \/ p = [tab[t] EXCEPT !.pc = "locked"]
           \/ copy # None /\ p = [tab[t] EXCEPT !.pc = "apply", !.got = copy.content]
    BY <1>2, Zenon DEF Fetch
  <2>3. PageOK(p)
    <3> HIDE DEF copy
    <3>1. CASE p = [tab[t] EXCEPT !.pc = "ready"]
      BY <1>0, <1>2, <3>1 DEF Fetch, PageOK, PageStates
    <3>2. CASE p = [tab[t] EXCEPT !.pc = "locked"]
      BY <1>0, <1>2, <3>2 DEF Fetch, PageOK, PageStates
    <3>3. CASE copy # None /\ p = [tab[t] EXCEPT !.pc = "apply", !.got = copy.content]
      BY <1>0, <1>2, <2>1, <3>3 DEF Fetch, PageOK, PageStates
    <3> QED BY <2>2, <3>1, <3>2, <3>3
  <2>4. tab[t].account \in Accounts
    BY <1>0, <1>2 DEF Fetch, PageOK
  <2> QED BY <1>2, <2>2, <2>3, <2>4 DEF Fetch, TypeInv, BackupTypeOK
<1>3. CASE Apply(t)
  <2>1. PageOK([tab[t] EXCEPT !.pc = "rebind", !.suppressed = TRUE])
    BY <1>0, <1>3 DEF Apply, PageOK, PageStates
  <2> QED BY <1>0, <1>3, <2>1 DEF Apply, TypeInv, BackupTypeOK
<1>4. CASE Fill(t)
  <2>1. PICK c \in tab[t].got :
           /\ store' = [store EXCEPT ![BrowserOf[t]] = store[BrowserOf[t]] \cup {c}]
           /\ tab' = [tab EXCEPT ![t] = [tab[t] EXCEPT !.got = tab[t].got \ {c}]]
           /\ strayed' = Astray(BrowserOf[t], c)
    BY <1>4 DEF Fill
  <2>2. PageOK([tab[t] EXCEPT !.got = tab[t].got \ {c}])
    BY <1>0, <1>4 DEF Fill, PageOK, PageStates
  <2>3. store' \in [Browsers -> SUBSET Entries] /\ strayed' \in SUBSET Entries
    BY <1>0, <2>1 DEF TypeInv, BackupTypeOK, Astray
  <2> QED BY <1>4, <2>1, <2>2, <2>3 DEF Fill, TypeInv, BackupTypeOK
<1>5. CASE FillEnds(t)
  <2>1. PageOK(Resume(tab[t]))
    BY <1>0, <1>5 DEF FillEnds, Resume, PageOK, PageStates
  <2> QED BY <1>5, <2>1 DEF FillEnds, TypeInv, BackupTypeOK
<1> QED BY <1>1, <1>2, <1>3, <1>4, <1>5, <1>6, <1>8, <1>9 DEF PageStep

LEMMA UploadTypeStep ==
    ASSUME TypeInv, NEW t \in Tabs, UploadStep(t) \/ UploadFails(t)
    PROVE  TypeInv'
<1> USE PagesStayOK DEF serverVars, mixVars, Past
<1>0. /\ PageOK(tab[t]) /\ tab[t] \in PageStates /\ BrowserOf[t] \in Browsers
      /\ tab[t].up \in UploadStates
  BY BackupAssumption DEF TypeInv, PageOK, PageStates, UploadStates
<1>1. Unsent(t) \subseteq Entries
  BY <1>0 DEF Unsent, TypeInv, BackupTypeOK
<1>2. /\ PageOK(Settled(tab[t])) /\ Settled(tab[t]).pc = tab[t].pc
  <2>1. Settled(tab[t]) \in PageStates
    BY <1>0, UploadStatesAre DEF Settled, PageStates, UploadStates
  <2>2. /\ Settled(tab[t]).pc = tab[t].pc /\ Settled(tab[t]).account = tab[t].account
        /\ Settled(tab[t]).timer = tab[t].timer /\ Settled(tab[t]).key = tab[t].key
        /\ Settled(tab[t]).up.pc = "none"
    BY <1>0, UploadStatesAre DEF Settled, PageStates
  <2> QED BY <1>0, <2>1, <2>2 DEF PageOK
<1>3. ASSUME NEW up \in UploadStates, tab[t].timer \/ tab[t].up.pc # "none",
             up.account \in Accounts
      PROVE  /\ PageOK([tab[t] EXCEPT !.up = up])
             /\ PageOK([tab[t] EXCEPT !.timer = FALSE, !.up = up])
             /\ [tab[t] EXCEPT !.up = up].pc = tab[t].pc
             /\ [tab[t] EXCEPT !.timer = FALSE, !.up = up].pc = tab[t].pc
  BY <1>0, <1>3 DEF PageOK, PageStates, UploadStates
<1>4. CASE StartUpload(t)
  <2> DEFINE up == [NoUpload EXCEPT !.pc = "started", !.account = binding[BrowserOf[t]]]
  <2>1. binding[BrowserOf[t]] \in Accounts
    BY <1>0, <1>4 DEF StartUpload, PageOK, TypeInv, BackupTypeOK, BoundOK
  <2>2. up \in UploadStates /\ up.account \in Accounts
    BY <2>1, UploadStatesAre DEF UploadStates
  <2>3. tab[t].timer /\ tab' = [tab EXCEPT ![t] = [tab[t] EXCEPT !.timer = FALSE, !.up = up]]
    BY <1>4 DEF StartUpload
  <2> HIDE DEF up
  <2> DEFINE p == [tab[t] EXCEPT !.timer = FALSE, !.up = up]
  <2>4. PageOK(p) /\ p.pc = tab[t].pc /\ tab' = [tab EXCEPT ![t] = p] /\ binding' = binding
    BY <1>3, <1>4, <2>2, <2>3 DEF StartUpload
  <2> HIDE DEF p
  <2>5. BoundOK'
    BY <2>4
  <2> QED BY <1>3, <1>4, <2>2, <2>3, <2>5 DEF StartUpload, TypeInv, BackupTypeOK
<1>5. CASE TakeSnapshot(t)
  <2> DEFINE up == [tab[t].up EXCEPT !.pc = "taken", !.content = store[BrowserOf[t]]]
  <2>1. tab[t].up.pc # "none" /\ tab' = [tab EXCEPT ![t] = [tab[t] EXCEPT !.up = up]]
    BY <1>5 DEF TakeSnapshot
  <2>2. up \in UploadStates /\ up.account \in Accounts
    BY <1>0, <2>1 DEF UploadStates, TypeInv, BackupTypeOK, PageOK
  <2> HIDE DEF up
  <2>3. BoundOK'
    BY ZenonT(40), <1>3, <1>5, <2>1, <2>2 DEF TakeSnapshot
  <2> QED BY <1>3, <1>5, <2>1, <2>2, <2>3 DEF TakeSnapshot, TypeInv, BackupTypeOK
<1>6. CASE Send(t)
  <2> DEFINE a == cookie[BrowserOf[t]]
             up == [tab[t].up EXCEPT !.pc = "sent", !.to = a]
  <2>1. /\ a \in Accounts /\ tab[t].account \in Accounts /\ tab[t].key \in Passwords
        /\ tab[t].up.account \in Accounts
    BY <1>0, <1>6 DEF Send, TypeInv, BackupTypeOK, PageOK
  <2>2. up \in UploadStates /\ up.account \in Accounts
    BY <1>0, <2>1 DEF UploadStates
  <2>3. tab[t].up.pc # "none" /\ tab' = [tab EXCEPT ![t] = [tab[t] EXCEPT !.up = up]]
    BY <1>6 DEF Send
  <2> HIDE DEF up
  <2>4. tab[t].up.content \subseteq Entries
    BY <1>0 DEF UploadStates
  <2>5. RequestOf(t, a) \in Requests
    BY <1>0, <2>1, <2>4 DEF RequestOf, Requests
  <2>6. requests' \in SUBSET Requests
    BY <1>6, <2>5 DEF Send, TypeInv, BackupTypeOK
  <2>7. excused' \in SUBSET Entries /\ trouble' \in SUBSET Accounts
    BY <1>6, <2>1, <2>4 DEF Send, TypeInv, BackupTypeOK
  <2> QED BY ZenonT(40), <1>3, <1>6, <2>2, <2>3, <2>6, <2>7 DEF Send, TypeInv, BackupTypeOK
<1>7. CASE Refused(t)
  BY <1>1, <1>2, <1>7 DEF Refused, Settled, TypeInv, BackupTypeOK
<1>8. CASE UploadEnds(t)
  BY <1>2, <1>8 DEF UploadEnds, TypeInv, BackupTypeOK
<1>9. CASE UploadFails(t)
  <2>1. tab[t].up.content \subseteq Entries
    BY <1>0 DEF UploadStates
  <2> QED BY <1>1, <1>2, <1>9, <2>1 DEF UploadFails, TypeInv, BackupTypeOK
<1> QED BY <1>4, <1>5, <1>6, <1>7, <1>8, <1>9 DEF UploadStep

LEMMA ServerTypeStep ==
    ASSUME TypeInv,
           (\E a \in Accounts : ResetPassword(a))
           \/ (\E r \in requests : PutBackup(r) \/ RequestLost(r))
    PROVE  TypeInv'
<1> USE DEF serverVars, mixVars, BoundOK
<1>1. ASSUME NEW a \in Accounts, ResetPassword(a) PROVE TypeInv'
  BY <1>1 DEF ResetPassword, TypeInv, BackupTypeOK
<1>2. ASSUME NEW r \in requests, PutBackup(r) PROVE TypeInv'
  <2>1. r \in Requests
    BY DEF TypeInv, BackupTypeOK
  <2>2. [account |-> r.account, content |-> r.content, key |-> r.key] \in Backups
    BY <2>1 DEF Requests, Backups
  <2>3. backup' \in [Accounts -> Backups \cup {None}]
    BY <1>2, <2>2 DEF PutBackup, Replaced, TypeInv, BackupTypeOK
  <2>4. backup[r.to] # None => backup[r.to].content \subseteq Entries
    BY <2>1 DEF TypeInv, BackupTypeOK, Backups, Requests
  <2>5. Saved(r.to) \subseteq Entries /\ r.content \subseteq Entries
    BY <2>1, <2>4 DEF Saved, Requests
  <2>6. excused' \in SUBSET Entries
    BY <1>2, <2>5 DEF PutBackup, TypeInv, BackupTypeOK
  <2> QED BY <1>2, <2>3, <2>6 DEF PutBackup, TypeInv, BackupTypeOK
<1>3. ASSUME NEW r \in requests, RequestLost(r) PROVE TypeInv'
  <2>1. r.content \subseteq Entries
    BY DEF TypeInv, BackupTypeOK, Requests
  <2> QED BY <1>3, <2>1 DEF RequestLost, TypeInv, BackupTypeOK
<1> QED BY <1>1, <1>2, <1>3

LEMMA BackupTypeStep == TypeInv /\ [BackupNext]_vars => TypeInv'
<1> SUFFICES ASSUME TypeInv, [BackupNext]_vars PROVE TypeInv'
  OBVIOUS
<1>1. CASE UNCHANGED vars
  BY <1>1 DEF vars, serverVars, mixVars, TypeInv, BackupTypeOK, BoundOK
<1> QED
  BY <1>1, UserTypeStep, PageTypeStep, UploadTypeStep, ServerTypeStep DEF BackupNext, UserStep

\* The types, with the entries, uploads and passwords that pages have in hand.
THEOREM BackupTypes == BackupSpec => []BackupTypeOK
<1>1. TypeInv => BackupTypeOK
  BY DEF TypeInv
<1> QED BY <1>1, BackupTypeInit, BackupTypeStep, PTL DEF BackupSpec

-----------------------------------------------------------------------------
(* Local stores are kept apart.                                            *)

\* Every content is of one account, wherever it is, but for what has been in a store that
\* two accounts have bound.
Owned(content, a) == \A c \in content : c \in DOMAIN made /\ (made[c] = a \/ c \in strayed)

\* An open page is of the account its browser is bound to, unless two have bound it.
PageKept(p, b) ==
    /\ p.pc = "put" /\ b \notin mixed => binding[b] \in {None, p.account}
    /\ p.pc \in Past /\ b \notin mixed => binding[b] = p.account
    /\ p.pc \in {"apply", "rebind", "fill"} => Owned(p.got, p.account)
    /\ p.up.pc = "started" /\ b \notin mixed => p.up.account = binding[b]
    /\ p.up.pc \in {"taken", "sent"} => Owned(p.up.content, p.up.account)

\* Pages that are about to put their binding are of one account, or have been seen not to be.
PutTogether ==
    \A t, u \in Tabs :
        /\ BrowserOf[t] = BrowserOf[u] /\ BrowserOf[t] \notin mixed
        /\ tab[t].pc = "put" /\ tab[u].pc = "put"
        => tab[t].account = tab[u].account

KeptInv ==
    /\ \A b \in Browsers : Owned(store[b], binding[b])
    /\ \A b \in mixed : store[b] \subseteq strayed
    /\ \A t \in Tabs : PageKept(tab[t], BrowserOf[t])
    /\ PutTogether
    /\ \A a \in Accounts : backup[a] # None => Owned(backup[a].content, backup[a].account)
    /\ \A r \in requests : Owned(r.content, r.account)

\* Who made an entry, and that it has strayed, stays so.
LEMMA OwnedStays ==
    ASSUME strayed \subseteq strayed',
           \A c \in DOMAIN made : c \in DOMAIN made' /\ made'[c] = made[c]
    PROVE  \A content, a : Owned(content, a) => Owned(content, a)'
  BY DEF Owned

\* No account is None: what is in a store that is not bound has strayed.
LEMMA UnboundIsStrayed ==
    ASSUME TypeInv, KeptInv, NEW b \in Browsers, b \in mixed \/ binding[b] = None
    PROVE  store[b] \subseteq strayed
<1>1. \A c \in DOMAIN made : made[c] # None
  BY BackupAssumption DEF TypeInv, BackupTypeOK
<1> QED BY <1>1 DEF KeptInv, Owned

\* A step of one page that binds nothing.
LEMMA PageStaysKept ==
    ASSUME TypeInv, KeptInv, NEW t \in Tabs, NEW p, tab' = [tab EXCEPT ![t] = p],
           PageKept(p, BrowserOf[t]), p.pc # "put",
           UNCHANGED <<made, binding, mixed>>, strayed \subseteq strayed',
           backup' = backup, requests' \subseteq requests,
           \A b \in Browsers : Owned(store[b], binding[b])',
           \A b \in mixed : store'[b] \subseteq strayed'
    PROVE  KeptInv'
<1>1. tab'[t] = p /\ \A u \in Tabs \ {t} : tab'[u] = tab[u]
  BY DEF TypeInv, BackupTypeOK
<1>2. \A u \in Tabs : PageKept(tab'[u], BrowserOf[u])
  BY <1>1 DEF KeptInv
<1>3. \A content, a : Owned(content, a) => Owned(content, a)'
  BY OwnedStays
<1>4. \A u \in Tabs : PageKept(tab[u], BrowserOf[u])'
  BY <1>2, <1>3 DEF PageKept
<1>5. PutTogether'
  BY <1>1 DEF KeptInv, PutTogether
<1>6. /\ \A b \in Browsers : Owned(store[b], binding[b])'
      /\ \A b \in mixed' : store'[b] \subseteq strayed'
      /\ \A a \in Accounts : backup'[a] # None => Owned(backup[a].content, backup[a].account)'
      /\ \A r \in requests' : Owned(r.content, r.account)'
  BY <1>3 DEF KeptInv
<1> QED BY <1>4, <1>5, <1>6 DEF KeptInv

\* A step of one page that changes no store, either.
LEMMA PageGoesOnKept ==
    ASSUME TypeInv, KeptInv, NEW t \in Tabs, NEW p, tab' = [tab EXCEPT ![t] = p],
           PageKept(p, BrowserOf[t]), p.pc # "put",
           UNCHANGED <<made, store, binding, mixed, strayed>>,
           backup' = backup, requests' \subseteq requests
    PROVE  KeptInv'
<1>1. /\ \A b \in Browsers : Owned(store[b], binding[b])'
      /\ \A b \in mixed : store'[b] \subseteq strayed'
  BY DEF KeptInv, Owned
<1> QED BY <1>1, PageStaysKept

\* The page puts its account as the binding of the store.
LEMMA BindingStaysKept ==
    ASSUME TypeInv, KeptInv, NEW t \in Tabs, NEW p, tab' = [tab EXCEPT ![t] = p],
           tab[t].pc \in {"put", "rebind"}, p.pc \in {"fetch", "fill"},
           p.pc = "fill" => tab[t].pc = "rebind",
           p.account = tab[t].account, p.got = tab[t].got, p.up = tab[t].up,
           binding' = [binding EXCEPT ![BrowserOf[t]] = tab[t].account],
           UNCHANGED <<made, store, backup, requests, mixed, strayed>>
    PROVE  KeptInv'
<1> DEFINE b == BrowserOf[t]
           a == tab[t].account
<1>0. /\ PageOK(tab[t]) /\ b \in Browsers /\ a \in Accounts /\ PageKept(tab[t], b)
      /\ tab[t].up.pc \in {"none", "started", "taken", "sent"}
  BY BackupAssumption DEF TypeInv, PageOK, PageStates, KeptInv
<1>1. tab'[t] = p /\ (\A u \in Tabs \ {t} : tab'[u] = tab[u]) /\ binding'[b] = a
      /\ \A d \in Browsers \ {b} : binding'[d] = binding[d]
  BY <1>0 DEF TypeInv, BackupTypeOK
<1>2. \A content, x : Owned(content, x) => Owned(content, x)'
  BY OwnedStays
<1>3. b \notin mixed => binding[b] \in {None, a}
  BY <1>0 DEF PageKept, Past
<1>4. PageKept(tab[t], b)'
  BY <1>0, <1>1, <1>2 DEF PageKept, PageOK, Past
<1>5. ASSUME NEW u \in Tabs \ {t} PROVE PageKept(tab[u], BrowserOf[u])'
  <2>1. PageKept(tab[u], BrowserOf[u]) /\ PageOK(tab[u]) /\ BrowserOf[u] \in Browsers
    BY BackupAssumption DEF KeptInv, TypeInv
  <2>2. CASE BrowserOf[u] # b \/ b \in mixed
    BY <1>1, <1>2, <2>1, <2>2 DEF PageKept
  <2>3. CASE BrowserOf[u] = b /\ b \notin mixed
    <3>1. tab[u].pc = "put" => tab[u].account = a
      <4>1. CASE tab[t].pc = "put"
        BY <2>3, <4>1 DEF KeptInv, PutTogether
      <4>2. CASE tab[t].pc = "rebind"
        BY <1>0, <2>1, <2>3, <4>2, BackupAssumption DEF PageKept, Past
      <4> QED BY <4>1, <4>2
    <3>2. tab[u].pc \in Past => binding[b] = a
      BY <1>3, <2>1, <2>3, BackupAssumption DEF PageKept, PageOK, Past
    <3>3. tab[u].up.pc = "started" => tab[u].pc \in Past
      BY <2>1 DEF PageOK, Past
    <3> QED BY <1>1, <1>2, <2>1, <2>3, <3>1, <3>2, <3>3 DEF PageKept
  <2> QED BY <2>2, <2>3
<1>6. Owned(store[b], binding[b])'
  <2>1. CASE b \notin mixed /\ binding[b] = a
    BY <1>0, <1>1, <2>1 DEF KeptInv, Owned
  <2>2. CASE b \in mixed \/ binding[b] = None
    BY <1>0, <1>1, <2>2, UnboundIsStrayed DEF KeptInv, Owned
  <2> QED BY <1>3, <2>1, <2>2
<1>7. \A d \in Browsers : Owned(store[d], binding[d])'
  BY <1>1, <1>2, <1>6 DEF KeptInv, Owned
<1>8. PutTogether'
  BY <1>1 DEF KeptInv, PutTogether
<1>9. /\ \A d \in mixed' : store'[d] \subseteq strayed'
      /\ \A x \in Accounts : backup'[x] # None => Owned(backup[x].content, backup[x].account)'
      /\ \A r \in requests' : Owned(r.content, r.account)'
  BY <1>2 DEF KeptInv
<1> QED BY <1>4, <1>5, <1>7, <1>8, <1>9 DEF KeptInv

\* The database is deleted, with every other page of the browser closed or waiting for it.
LEMMA ErasureStaysKept ==
    ASSUME TypeInv, KeptInv, NEW t \in Tabs, NEW p, tab' = [tab EXCEPT ![t] = p],
           p.pc \in {"put", "closed"}, p.up.pc = "none", ~ HeldOpen(t),
           store' = [store EXCEPT ![BrowserOf[t]] = {}],
           binding' = [binding EXCEPT ![BrowserOf[t]] = None],
           mixed' = mixed \ {BrowserOf[t]},
           UNCHANGED <<made, backup, requests, strayed>>
    PROVE  KeptInv'
<1> DEFINE b == BrowserOf[t]
<1>0. b \in Browsers /\ mixed \subseteq Browsers
  BY BackupAssumption DEF TypeInv, BackupTypeOK
<1>1. /\ tab'[t] = p /\ (\A u \in Tabs \ {t} : tab'[u] = tab[u])
      /\ binding'[b] = None /\ store'[b] = {}
      /\ \A d \in Browsers \ {b} : binding'[d] = binding[d] /\ store'[d] = store[d]
  BY <1>0 DEF TypeInv, BackupTypeOK
<1>2. \A content, x : Owned(content, x) => Owned(content, x)'
  BY OwnedStays
<1>3. PageKept(tab[t], b)'
  BY <1>1 DEF PageKept, Past
<1>4. \A u \in Tabs \ {t} : BrowserOf[u] = b =>
         tab[u].pc \in {"closed", "bind", "erase"} /\ tab[u].up.pc = "none"
  BY DEF HeldOpen, TypeInv, PageOK
<1>5. ASSUME NEW u \in Tabs \ {t} PROVE PageKept(tab[u], BrowserOf[u])'
  <2>1. PageKept(tab[u], BrowserOf[u]) /\ BrowserOf[u] \in Browsers
    BY BackupAssumption DEF KeptInv
  <2>2. CASE BrowserOf[u] = b
    BY <1>1, <1>4, <2>2 DEF PageKept, Past
  <2>3. CASE BrowserOf[u] # b
    BY <1>1, <1>2, <2>1, <2>3 DEF PageKept
  <2> QED BY <2>2, <2>3
<1>6. PutTogether'
  BY <1>1, <1>4 DEF KeptInv, PutTogether
<1>7. /\ \A d \in Browsers : Owned(store[d], binding[d])'
      /\ \A d \in mixed' : store'[d] \subseteq strayed'
      /\ \A x \in Accounts : backup'[x] # None => Owned(backup[x].content, backup[x].account)'
      /\ \A r \in requests' : Owned(r.content, r.account)'
  BY <1>0, <1>1, <1>2 DEF KeptInv, Owned
<1> QED BY <1>3, <1>5, <1>6, <1>7 DEF KeptInv

LEMMA NewPageKept ==
    ASSUME NEW key \in Passwords \cup {None}, NEW b
    PROVE  PageKept(NewPage(key), b)
  BY NewPageOK DEF PageKept, NewPage, Past

LEMMA KeptInit == BackupInit => KeptInv
<1> SUFFICES ASSUME BackupInit PROVE KeptInv
  OBVIOUS
<1>1. \A t \in Tabs : PageKept(tab[t], BrowserOf[t]) /\ tab[t].pc # "put"
  BY NewPageKept, NewPageOK DEF BackupInit
<1> QED BY <1>1 DEF BackupInit, KeptInv, PutTogether, Owned

LEMMA UserKeptStep ==
    ASSUME TypeInv, KeptInv, NEW t \in Tabs,
           \/ Leave(t) \/ Logout(t) \/ ResetLocal(t) \/ Open(t) \/ MakeEntry(t)
           \/ \E a \in Accounts, typed \in Passwords : Login(t, a, typed)
    PROVE  KeptInv'
<1> USE PageGoesOnKept, NewPageKept, NewPageOK DEF serverVars, mixVars
<1>0. /\ PageOK(tab[t]) /\ tab[t].key \in Passwords \cup {None} /\ BrowserOf[t] \in Browsers
      /\ tab[t] \in PageStates
  BY BackupAssumption DEF TypeInv, PageOK, PageStates
<1>2. CASE Leave(t)
  <2>1. PICK key \in {tab[t].key, None} : tab' = [tab EXCEPT ![t] = NewPage(key)]
    BY <1>2 DEF Leave
  <2> QED BY <1>0, <1>2, <2>1 DEF Leave
<1>3. CASE Logout(t)
  BY <1>0, <1>3 DEF Logout
<1>4. CASE ResetLocal(t)
  BY <1>0, <1>4, ErasureStaysKept DEF ResetLocal
<1>5. CASE Open(t)
  <2> DEFINE n == NewPage(tab[t].key)
             p == [n EXCEPT !.pc = "bind", !.account = cookie[BrowserOf[t]]]
  <2>1. tab' = [tab EXCEPT ![t] = p]
        /\ UNCHANGED <<made, binding, backup, requests, store, mixed, strayed>>
    BY <1>5 DEF Open
  <2>2. n \in PageStates /\ n.up.pc = "none"
    BY <1>0, NewPageOK DEF PageOK
  <2> HIDE DEF n
  <2>3. PageKept(p, BrowserOf[t]) /\ p.pc = "bind"
    BY <2>2 DEF PageKept, PageStates, Past
  <2> HIDE DEF p
  <2> QED BY <1>0, <2>1, <2>3
<1>6. CASE MakeEntry(t)
  <2> DEFINE b == BrowserOf[t]
             c == Len(made) + 1
             a == tab[t].account
  <2>1. /\ made' = Append(made, a) /\ UNCHANGED <<binding, backup, requests, mixed>>
        /\ store' = [store EXCEPT ![b] = store[b] \cup {c}]
        /\ tab' = [tab EXCEPT ![t] = Scheduled(tab[t])] /\ tab[t].pc = "ready"
        /\ strayed' = Astray(b, c)
    BY <1>6 DEF MakeEntry
  <2>2. made \in Seq(Accounts) /\ a \in Accounts /\ (b \notin mixed => binding[b] = a)
    BY <1>0, <2>1 DEF TypeInv, BackupTypeOK, PageOK, KeptInv, PageKept, Past
  <2>3. /\ \A x \in DOMAIN made : x \in DOMAIN made' /\ made'[x] = made[x]
        /\ c \in DOMAIN made' /\ made'[c] = a
    BY <2>1, <2>2
  <2>4. strayed \subseteq strayed' /\ (b \in mixed => c \in strayed')
    BY <2>1 DEF Astray
  <2>5. \A content, x : Owned(content, x) => Owned(content, x)'
    BY <2>3, <2>4, OwnedStays
  <2>6. /\ Scheduled(tab[t]).pc = tab[t].pc /\ Scheduled(tab[t]).account = tab[t].account
        /\ Scheduled(tab[t]).got = tab[t].got /\ Scheduled(tab[t]).up = tab[t].up
    BY <1>0 DEF Scheduled, PageStates
  <2>7. \A u \in Tabs : /\ tab'[u].pc = tab[u].pc /\ tab'[u].account = tab[u].account
                        /\ tab'[u].got = tab[u].got /\ tab'[u].up = tab[u].up
    BY <2>1, <2>6 DEF TypeInv, BackupTypeOK
  <2>8. \A u \in Tabs : PageKept(tab[u], BrowserOf[u])'
    BY <2>1, <2>5, <2>7 DEF KeptInv, PageKept
  <2>9. PutTogether'
    BY <2>1, <2>7 DEF KeptInv, PutTogether
  <2>10. store'[b] = store[b] \cup {c} /\ \A d \in Browsers \ {b} : store'[d] = store[d]
    BY <1>0, <2>1 DEF TypeInv, BackupTypeOK
  <2> HIDE DEF c
  <2>11. Owned(store[b], binding[b])'
    BY <1>0, <2>1, <2>2, <2>3, <2>4, <2>5, <2>10 DEF KeptInv, Owned
  <2>12. \A d \in Browsers : Owned(store[d], binding[d])'
    BY <2>1, <2>3, <2>4, <2>10, <2>11 DEF KeptInv, Owned
  <2>13. \A d \in mixed' : store'[d] \subseteq strayed'
    BY <1>0, <2>1, <2>4, <2>10 DEF KeptInv, TypeInv, BackupTypeOK
  <2>14. /\ \A x \in Accounts : backup'[x] # None => Owned(backup[x].content, backup[x].account)'
         /\ \A r \in requests' : Owned(r.content, r.account)'
    BY <2>1, <2>5 DEF KeptInv
  <2> QED BY <2>8, <2>9, <2>12, <2>13, <2>14 DEF KeptInv
<1>7. ASSUME NEW a \in Accounts, NEW typed \in Passwords, Login(t, a, typed) PROVE KeptInv'
  BY <1>0, <1>7 DEF Login
<1> QED BY <1>2, <1>3, <1>4, <1>5, <1>6, <1>7

LEMMA ReadingStaysKept ==
    ASSUME TypeInv, KeptInv, NEW t \in Tabs, ReadBinding(t)
    PROVE  KeptInv'
<1> DEFINE b == BrowserOf[t]
           a == tab[t].account
           to == IF BoundToAnother(t) THEN "erase" ELSE "put"
           p == [tab[t] EXCEPT !.pc = to]
<1>0. /\ PageOK(tab[t]) /\ tab[t] \in PageStates /\ b \in Browsers /\ PageKept(tab[t], b)
      /\ tab[t].pc = "bind" /\ a \in Accounts
  BY BackupAssumption DEF TypeInv, PageOK, PageStates, KeptInv, ReadBinding
<1>1. /\ tab' = [tab EXCEPT ![t] = p]
      /\ mixed' = IF to = "put" /\ BindsToo(t) THEN mixed \cup {b} ELSE mixed
      /\ UNCHANGED <<made, store, binding, backup, requests, strayed>>
  BY DEF ReadBinding, serverVars
<1>2. p.pc = to /\ p.account = a /\ p.got = tab[t].got /\ p.up = tab[t].up /\ p.up.pc = "none"
  BY <1>0 DEF PageOK, PageStates
<1>3. to \in {"erase", "put"} /\ (to = "put" => binding[b] \in {None, a})
  BY DEF BoundToAnother
<1> HIDE DEF p, to
<1>4. tab'[t] = p /\ \A u \in Tabs \ {t} : tab'[u] = tab[u]
  BY <1>1 DEF TypeInv, BackupTypeOK
<1>5. \A d \in mixed' : store[d] \subseteq strayed
  <2>1. ASSUME to = "put", BindsToo(t), b \notin mixed PROVE binding[b] = None
    <3>1. PICK s \in Tabs : BrowserOf[s] = b /\ tab[s].pc = "put" /\ tab[s].account # a
      BY <2>1 DEF BindsToo
    <3>2. PageKept(tab[s], b)
      BY <3>1 DEF KeptInv
    <3> QED BY <1>3, <2>1, <3>1, <3>2 DEF PageKept
  <2> QED BY <1>0, <1>1, <2>1, UnboundIsStrayed DEF KeptInv
<1>6. \A content, x : Owned(content, x) => Owned(content, x)'
  BY <1>1, OwnedStays
<1>7. ASSUME NEW u \in Tabs PROVE PageKept(tab[u], BrowserOf[u])'
  <2>1. CASE u = t
    BY <1>1, <1>2, <1>3, <1>4, <2>1 DEF PageKept, Past
  <2>2. CASE u # t
    <3>1. PageKept(tab[u], BrowserOf[u])
      BY DEF KeptInv
    <3> QED BY <1>1, <1>4, <1>6, <2>2, <3>1 DEF PageKept
  <2> QED BY <2>1, <2>2
<1>8. PutTogether'
  <2>1. ASSUME to = "put", b \notin mixed'
        PROVE  \A s \in Tabs : BrowserOf[s] = b /\ tab[s].pc = "put" => tab[s].account = a
    BY <1>1, <2>1 DEF BindsToo
  <2>2. \A u \in Tabs \ {t} : tab[u].pc = "put" /\ BrowserOf[u] = b /\ to = "put"
           /\ b \notin mixed' => tab[u].account = a
    BY <2>1
  <2> QED BY <1>1, <1>2, <1>4, <2>2 DEF KeptInv, PutTogether
<1>9. /\ \A d \in Browsers : Owned(store[d], binding[d])'
      /\ \A d \in mixed' : store'[d] \subseteq strayed'
      /\ \A x \in Accounts : backup'[x] # None => Owned(backup[x].content, backup[x].account)'
      /\ \A r \in requests' : Owned(r.content, r.account)'
  BY <1>1, <1>5, <1>6 DEF KeptInv
<1> QED BY <1>7, <1>8, <1>9 DEF KeptInv

LEMMA PageKeptStep ==
    ASSUME TypeInv, KeptInv, NEW t \in Tabs, PageStep(t)
    PROVE  KeptInv'
<1> USE PageGoesOnKept DEF serverVars, mixVars
<1> DEFINE b == BrowserOf[t]
<1>0. /\ PageOK(tab[t]) /\ tab[t] \in PageStates /\ b \in Browsers /\ PageKept(tab[t], b)
      /\ mixed \subseteq Browsers
  BY BackupAssumption DEF TypeInv, BackupTypeOK, PageOK, PageStates, KeptInv
<1>1. CASE ReadBinding(t)
  BY <1>1, ReadingStaysKept
<1>2. CASE EraseOther(t)
  <2> DEFINE p == [tab[t] EXCEPT !.pc = "put"]
  <2>1. p.pc = "put" /\ p.up.pc = "none"
    BY <1>0, <1>2 DEF EraseOther, PageOK, PageStates
  <2>2. tab' = [tab EXCEPT ![t] = p]
    BY <1>2 DEF EraseOther
  <2> HIDE DEF p
  <2> QED BY <1>2, <2>1, <2>2, ErasureStaysKept DEF EraseOther
<1>3. ASSUME NEW pc \in {"fetch", "fill"}, tab' = [tab EXCEPT ![t] = [tab[t] EXCEPT !.pc = pc]],
             tab[t].pc = IF pc = "fill" THEN "rebind" ELSE "put",
             binding' = [binding EXCEPT ![b] = tab[t].account],
             UNCHANGED <<made, store, backup, requests, mixed, strayed>>
      PROVE  KeptInv'
  <2> DEFINE p == [tab[t] EXCEPT !.pc = pc]
  <2>1. p.pc = pc /\ p.account = tab[t].account /\ p.got = tab[t].got /\ p.up = tab[t].up
    BY <1>0 DEF PageStates
  <2>2. tab' = [tab EXCEPT ![t] = p]
    BY <1>3
  <2> HIDE DEF p
  <2> QED BY <1>3, <2>1, <2>2, BindingStaysKept
<1>4. CASE PutBinding(t)
  BY <1>3, <1>4 DEF PutBinding
<1>5. CASE Rebind(t)
  BY <1>3, <1>5 DEF Rebind
<1>6. CASE Fetch(t)
  <2> DEFINE copy == CopyFor(t)
  <2>1. copy # None => Owned(copy.content, copy.account)
    BY <1>0, BackupAssumption DEF CopyFor, KeptInv, TypeInv, BackupTypeOK
  <2>2. PICK p : tab' = [tab EXCEPT ![t] = p] /\
           \/ p = [tab[t] EXCEPT !.pc = "ready"]
           \/ p = [tab[t] EXCEPT !.pc = "locked"]
           \/ /\ copy # None /\ copy.account = tab[t].account
              /\ p = [tab[t] EXCEPT !.pc = "apply", !.got = copy.content]
    BY <1>6, Zenon DEF Fetch, MayRestore
  <2> HIDE DEF copy
  <2>3. tab[t].pc = "fetch"
        /\ UNCHANGED <<made, store, binding, backup, requests, mixed, strayed>>
    BY <1>6 DEF Fetch
  <2>4. PageKept(p, b) /\ p.pc # "put"
    <3>1. CASE p = [tab[t] EXCEPT !.pc = "ready"]
      BY <1>0, <2>3, <3>1 DEF PageKept, PageStates, Past
    <3>2. CASE p = [tab[t] EXCEPT !.pc = "locked"]
      BY <1>0, <2>3, <3>2 DEF PageKept, PageStates, Past
    <3>3. CASE /\ copy # None /\ copy.account = tab[t].account
               /\ p = [tab[t] EXCEPT !.pc = "apply", !.got = copy.content]
      BY <1>0, <2>1, <2>3, <3>3 DEF PageKept, PageStates, Past
    <3> QED BY <2>2, <3>1, <3>2, <3>3
  <2> QED BY <1>0, <2>2, <2>3, <2>4
<1>7. CASE Apply(t)
  <2> DEFINE p == [tab[t] EXCEPT !.pc = "rebind", !.suppressed = TRUE]
  <2>1. PageKept(p, b) /\ p.pc = "rebind"
    BY <1>0, <1>7 DEF Apply, PageKept, PageStates, Past
  <2>2. /\ tab' = [tab EXCEPT ![t] = p] /\ store' = [store EXCEPT ![b] = {}]
        /\ UNCHANGED <<made, binding, backup, requests, mixed, strayed>>
    BY <1>7 DEF Apply
  <2> HIDE DEF p
  <2>3. store'[b] = {} /\ \A d \in Browsers \ {b} : store'[d] = store[d]
    BY <1>0, <2>2 DEF TypeInv, BackupTypeOK
  <2>4. \A d \in Browsers : Owned(store[d], binding[d])'
    BY <2>2, <2>3 DEF KeptInv, Owned
  <2>5. \A d \in mixed : store'[d] \subseteq strayed'
    BY <1>0, <2>2, <2>3 DEF KeptInv
  <2> QED BY <2>1, <2>2, <2>4, <2>5, PageStaysKept
<1>8. CASE Fill(t)
  <2>1. PICK c \in tab[t].got :
           /\ store' = [store EXCEPT ![b] = store[b] \cup {c}]
           /\ tab' = [tab EXCEPT ![t] = [tab[t] EXCEPT !.got = tab[t].got \ {c}]]
           /\ strayed' = Astray(b, c)
    BY <1>8 DEF Fill
  <2> DEFINE p == [tab[t] EXCEPT !.got = tab[t].got \ {c}]
  <2>2. /\ tab[t].pc = "fill" /\ b \notin mixed => binding[b] = tab[t].account
        /\ tab[t].pc = "fill" /\ Owned(tab[t].got, tab[t].account)
        /\ UNCHANGED <<made, binding, backup, requests, mixed>>
    BY <1>0, <1>8 DEF Fill, PageKept, Past
  <2>3. PageKept(p, b) /\ p.pc # "put"
    BY <1>0, <2>2 DEF PageKept, PageStates, Owned, Past
  <2>4. tab' = [tab EXCEPT ![t] = p]
    BY <2>1
  <2> HIDE DEF p
  <2>5. store'[b] = store[b] \cup {c} /\ \A d \in Browsers \ {b} : store'[d] = store[d]
    BY <1>0, <2>1 DEF TypeInv, BackupTypeOK
  <2>6. strayed \subseteq strayed' /\ (b \in mixed => c \in strayed')
    BY <2>1 DEF Astray
  <2>7. \A content, x : Owned(content, x) => Owned(content, x)'
    BY <2>2, <2>6, OwnedStays
  <2>8. \A d \in Browsers : Owned(store[d], binding[d])'
    BY <2>2, <2>5, <2>6, <2>7 DEF KeptInv, Owned
  <2>9. \A d \in mixed : store'[d] \subseteq strayed'
    BY <1>0, <2>5, <2>6 DEF KeptInv
  <2> QED BY <2>2, <2>3, <2>4, <2>6, <2>8, <2>9, PageStaysKept
<1>9. CASE FillEnds(t)
  <2>1. PageKept(Resume(tab[t]), b) /\ Resume(tab[t]).pc = "ready"
    BY <1>0, <1>9 DEF FillEnds, Resume, PageKept, PageStates, Past
  <2> QED BY <1>0, <1>9, <2>1 DEF FillEnds
<1> QED BY <1>1, <1>2, <1>4, <1>5, <1>6, <1>7, <1>8, <1>9 DEF PageStep

LEMMA UploadKeptStep ==
    ASSUME TypeInv, KeptInv, NEW t \in Tabs, UploadStep(t) \/ UploadFails(t)
    PROVE  KeptInv'
<1> USE PageGoesOnKept DEF serverVars, mixVars
<1> DEFINE b == BrowserOf[t]
<1>0. /\ PageOK(tab[t]) /\ tab[t] \in PageStates /\ b \in Browsers /\ PageKept(tab[t], b)
      /\ tab[t].up \in UploadStates
  BY BackupAssumption DEF TypeInv, PageOK, PageStates, KeptInv, UploadStates
<1>1. tab[t].up.pc # "none" =>
        PageKept(Settled(tab[t]), b) /\ Settled(tab[t]).pc = "ready"
  BY <1>0, UploadStatesAre DEF Settled, PageKept, PageOK, PageStates, Past
<1>2. ASSUME NEW up \in UploadStates, tab[t].pc = "ready",
             up.pc = "started" /\ b \notin mixed => up.account = binding[b],
             up.pc \in {"taken", "sent"} => Owned(up.content, up.account)
      PROVE  /\ PageKept([tab[t] EXCEPT !.up = up], b)
             /\ PageKept([tab[t] EXCEPT !.timer = FALSE, !.up = up], b)
             /\ [tab[t] EXCEPT !.up = up].pc = "ready"
             /\ [tab[t] EXCEPT !.timer = FALSE, !.up = up].pc = "ready"
  BY <1>0, <1>2 DEF PageKept, PageStates, Past
<1>3. CASE StartUpload(t)
  <2> DEFINE up == [NoUpload EXCEPT !.pc = "started", !.account = binding[b]]
  <2>1. up \in UploadStates /\ up.pc = "started" /\ up.account = binding[b]
    BY <1>0, UploadStatesAre DEF UploadStates, TypeInv, BackupTypeOK
  <2>2. tab[t].pc = "ready"
    BY <1>0, <1>3 DEF StartUpload, PageOK
  <2>3. tab' = [tab EXCEPT ![t] = [tab[t] EXCEPT !.timer = FALSE, !.up = up]]
        /\ UNCHANGED <<made, store, binding, backup, requests, mixed, strayed>>
    BY <1>3 DEF StartUpload
  <2> HIDE DEF up
  <2> QED BY <1>2, <2>1, <2>2, <2>3
<1>4. CASE TakeSnapshot(t)
  <2> DEFINE up == [tab[t].up EXCEPT !.pc = "taken", !.content = store[b]]
  <2>1. up \in UploadStates /\ up.pc = "taken" /\ up.content = store[b]
        /\ up.account = tab[t].up.account
    BY <1>0 DEF UploadStates, TypeInv, BackupTypeOK
  <2>2. tab[t].up.pc = "started" /\ tab[t].pc = "ready"
    BY <1>0, <1>4 DEF TakeSnapshot, PageOK
  <2>3. Owned(store[b], tab[t].up.account)
    <3>1. CASE b \in mixed
      BY <1>0, <3>1 DEF KeptInv, Owned
    <3>2. CASE b \notin mixed
      BY <1>0, <2>2, <3>2 DEF KeptInv, PageKept
    <3> QED BY <3>1, <3>2
  <2>4. tab' = [tab EXCEPT ![t] = [tab[t] EXCEPT !.up = up]]
        /\ UNCHANGED <<made, store, binding, backup, requests, mixed, strayed>>
    BY <1>4 DEF TakeSnapshot
  <2> HIDE DEF up
  <2> QED BY <1>2, <2>1, <2>2, <2>3, <2>4
<1>5. CASE Send(t)
  <2> DEFINE a == cookie[b]
             up == [tab[t].up EXCEPT !.pc = "sent", !.to = a]
             r == RequestOf(t, a)
  <2>1. up \in UploadStates /\ up.content = tab[t].up.content
        /\ up.account = tab[t].up.account /\ up.pc = "sent"
    BY <1>0, <1>5 DEF UploadStates, Send, TypeInv, BackupTypeOK
  <2>2. Owned(tab[t].up.content, tab[t].up.account) /\ tab[t].pc = "ready"
    BY <1>0, <1>5 DEF Send, PageKept, PageOK
  <2>3. r.content = tab[t].up.content /\ r.account = tab[t].up.account
    BY DEF RequestOf
  <2>4. /\ tab' = [tab EXCEPT ![t] = [tab[t] EXCEPT !.up = up]]
        /\ UNCHANGED <<made, store, binding, backup, mixed, strayed>>
        /\ requests' = requests \cup {r}
    BY <1>5 DEF Send
  <2> HIDE DEF up, r
  <2> DEFINE p == [tab[t] EXCEPT !.up = up]
  <2>5. PageKept(p, b) /\ p.pc = "ready"
    BY <1>2, <2>1, <2>2
  <2>6. tab'[t] = p /\ \A u \in Tabs \ {t} : tab'[u] = tab[u]
    BY <2>4 DEF TypeInv, BackupTypeOK
  <2> HIDE DEF p
  <2>7. \A u \in Tabs : PageKept(tab'[u], BrowserOf[u])
    BY <2>5, <2>6 DEF KeptInv
  <2>8. \A u \in Tabs : PageKept(tab[u], BrowserOf[u])'
    BY <2>4, <2>7 DEF PageKept, Owned
  <2>9. PutTogether'
    BY <2>4, <2>5, <2>6 DEF KeptInv, PutTogether
  <2>10. \A q \in requests' : Owned(q.content, q.account)
    BY <2>2, <2>3, <2>4 DEF KeptInv
  <2> QED BY <2>4, <2>8, <2>9, <2>10 DEF KeptInv, Owned
<1>6. CASE Refused(t)
  BY <1>0, <1>1, <1>6 DEF Refused, Settled
<1>7. CASE UploadEnds(t)
  BY <1>0, <1>1, <1>7 DEF UploadEnds
<1>8. CASE UploadFails(t)
  BY <1>0, <1>1, <1>8 DEF UploadFails, OnItsWay
<1> QED BY <1>3, <1>4, <1>5, <1>6, <1>7, <1>8 DEF UploadStep

LEMMA ServerKeptStep ==
    ASSUME TypeInv, KeptInv,
           (\E a \in Accounts : ResetPassword(a))
           \/ (\E r \in requests : PutBackup(r) \/ RequestLost(r))
    PROVE  KeptInv'
<1> USE DEF serverVars, mixVars
<1>0. \A t \in Tabs : PageKept(tab[t], BrowserOf[t])
  BY DEF KeptInv
<1>1. ASSUME NEW a \in Accounts, ResetPassword(a) PROVE KeptInv'
  BY <1>1 DEF ResetPassword, KeptInv, PageKept, PutTogether, Owned
<1>2. ASSUME NEW r \in requests, PutBackup(r) PROVE KeptInv'
  <2>1. r \in Requests /\ Owned(r.content, r.account)
    BY DEF TypeInv, BackupTypeOK, KeptInv
  <2>2. \A a \in Accounts : \/ backup'[a] = backup[a]
                            \/ backup'[a].content = r.content /\ backup'[a].account = r.account
    BY <1>2, <2>1 DEF PutBackup, Replaced, TypeInv, BackupTypeOK
  <2>3. \A a \in Accounts : backup'[a] # None =>
           Owned(backup'[a].content, backup'[a].account)
    BY <2>1, <2>2 DEF KeptInv
  <2>4. UNCHANGED <<made, store, binding, tab>> /\ requests' \subseteq requests
        /\ UNCHANGED <<mixed, strayed>>
    BY <1>2 DEF PutBackup
  <2> QED BY <2>3, <2>4 DEF KeptInv, PageKept, PutTogether, Owned
<1>3. ASSUME NEW r \in requests, RequestLost(r) PROVE KeptInv'
  BY <1>3 DEF RequestLost, KeptInv, PageKept, PutTogether, Owned
<1> QED BY <1>1, <1>2, <1>3

LEMMA KeptStep == TypeInv /\ KeptInv /\ [BackupNext]_vars => KeptInv'
<1> SUFFICES ASSUME TypeInv, KeptInv, [BackupNext]_vars PROVE KeptInv'
  OBVIOUS
<1>1. CASE UNCHANGED vars
  BY <1>1 DEF vars, serverVars, mixVars, KeptInv, PageKept, PutTogether, Owned
<1> QED
  BY <1>1, UserKeptStep, PageKeptStep, UploadKeptStep, ServerKeptStep DEF BackupNext, UserStep

\* No store of a browser holds an entry of another account than the one it is bound to, for
\* any number of accounts, tabs and uploads under way, unless the entry has been in a store
\* that pages of two accounts bound at once (ensureLocalAccountBinding,
\* restoreCloudBackupIfNeeded).
THEOREM StoresStayApart == BackupSpec => []StoresKeptApart
<1>1. KeptInv => StoresKeptApart
  BY DEF KeptInv, StoresKeptApart, Owned
<1> QED BY <1>1, KeptInit, BackupTypeInit, BackupTypeStep, KeptStep, PTL DEF BackupSpec

-----------------------------------------------------------------------------
(* A page that cannot open its backup has a cause.                         *)

\* Where there is no trouble, every copy and every page has the password of the account.
LockInv ==
    /\ \A a \in Accounts \ trouble : backup[a] # None => backup[a].key = password[a]
    /\ \A r \in requests : r.to \notin trouble => r.key = password[r.to]
    /\ \A t \in Tabs : (tab[t].pc # "closed" /\ tab[t].account \notin trouble)
          => tab[t].key \in {None, password[tab[t].account]} /\ tab[t].pc # "locked"

\* A page goes on as another one of its account with its password, or is closed.
LEMMA PageKeepsKey ==
    ASSUME TypeInv, LockInv, NEW t \in Tabs, NEW p, tab' = [tab EXCEPT ![t] = p],
           \/ p.pc = "closed"
           \/ /\ tab[t].pc # "closed" /\ p.account = tab[t].account /\ p.key = tab[t].key
              /\ p.pc = "locked" => tab[t].pc = "locked" \/ p.account \in trouble',
           UNCHANGED <<password, backup>>, trouble \subseteq trouble',
           \A r \in requests' \ requests : r.to \notin trouble' => r.key = password[r.to]
    PROVE  LockInv'
<1>1. tab'[t] = p /\ \A u \in Tabs \ {t} : tab'[u] = tab[u]
  BY DEF TypeInv, BackupTypeOK
<1> QED BY <1>1 DEF LockInv

\* A page that goes on with its account and its password, and nothing else happens.
LEMMA PageGoesOn ==
    ASSUME TypeInv, LockInv, NEW t \in Tabs, NEW p, tab' = [tab EXCEPT ![t] = p],
           tab[t].pc # "closed", p.pc = tab[t].pc, p.account = tab[t].account,
           p.key = tab[t].key, UNCHANGED <<password, backup, requests, trouble>>
    PROVE  LockInv'
<1>1. tab'[t] = p /\ \A u \in Tabs \ {t} : tab'[u] = tab[u]
  BY DEF TypeInv, BackupTypeOK
<1> QED BY <1>1 DEF LockInv

LEMMA LockInit == BackupInit => LockInv
<1>1. ASSUME BackupInit PROVE \A t \in Tabs : tab[t].pc = "closed"
  BY <1>1, NewPageOK DEF BackupInit
<1> QED BY <1>1 DEF BackupInit, LockInv

LEMMA UserLockStep ==
    ASSUME TypeInv, LockInv, NEW t \in Tabs,
           \/ Leave(t) \/ Logout(t) \/ ResetLocal(t) \/ Open(t) \/ MakeEntry(t)
           \/ \E a \in Accounts, typed \in Passwords : Login(t, a, typed)
    PROVE  LockInv'
<1> USE PageKeepsKey, NewPageOK DEF serverVars
<1>0. /\ PageOK(tab[t]) /\ tab[t].key \in Passwords \cup {None} /\ BrowserOf[t] \in Browsers
      /\ tab[t] \in PageStates
  BY BackupAssumption DEF TypeInv, PageOK, PageStates
<1>1. CASE Leave(t)
  <2>1. PICK key \in {tab[t].key, None} : tab' = [tab EXCEPT ![t] = NewPage(key)]
    BY <1>1 DEF Leave
  <2>2. key \in Passwords \cup {None} /\ NewPage(key).pc = "closed"
    BY <1>0, NewPageOK
  <2>3. UNCHANGED <<password, backup, requests, trouble>>
    BY <1>1 DEF Leave
  <2> QED BY <2>1, <2>2, <2>3
<1>2. CASE Logout(t)
  BY <1>0, <1>2 DEF Logout
<1>3. CASE ResetLocal(t)
  BY <1>0, <1>3 DEF ResetLocal
<1>4. CASE Open(t)
  <2> DEFINE a == cookie[BrowserOf[t]]
             n == NewPage(tab[t].key)
             p == [n EXCEPT !.pc = "bind", !.account = a]
  <2>1. /\ tab' = [tab EXCEPT ![t] = p] /\ UNCHANGED <<password, backup, requests>>
        /\ trouble \subseteq trouble' /\ (tab[t].key \in {None, password[a]} \/ a \in trouble')
    BY <1>4 DEF Open
  <2>2. n \in PageStates /\ n.key = tab[t].key
    BY <1>0, NewPageOK DEF PageOK
  <2> HIDE DEF n
  <2>3. p.pc = "bind" /\ p.account = a /\ p.key = tab[t].key
    BY <2>2 DEF PageStates
  <2> HIDE DEF p
  <2>4. tab'[t] = p /\ \A u \in Tabs \ {t} : tab'[u] = tab[u]
    BY <2>1 DEF TypeInv, BackupTypeOK
  <2> QED BY <2>1, <2>3, <2>4 DEF LockInv
<1>5. CASE MakeEntry(t)
  <2> DEFINE p == Scheduled(tab[t])
  <2>1. p.pc = tab[t].pc /\ p.account = tab[t].account /\ p.key = tab[t].key
    BY <1>0 DEF Scheduled, PageStates
  <2>2. tab' = [tab EXCEPT ![t] = p] /\ UNCHANGED <<password, backup, requests, trouble>>
        /\ tab[t].pc = "ready"
    BY <1>5 DEF MakeEntry
  <2> HIDE DEF p
  <2> QED BY <2>1, <2>2, PageGoesOn
<1>6. ASSUME NEW a \in Accounts, NEW typed \in Passwords, Login(t, a, typed) PROVE LockInv'
  BY <1>6 DEF Login
<1> QED BY <1>1, <1>2, <1>3, <1>4, <1>5, <1>6

LEMMA PageLockStep ==
    ASSUME TypeInv, LockInv, NEW t \in Tabs, PageStep(t)
    PROVE  LockInv'
<1> USE PageKeepsKey DEF serverVars
<1>0. PageOK(tab[t]) /\ tab[t] \in PageStates /\ BrowserOf[t] \in Browsers
  BY BackupAssumption DEF TypeInv, PageOK
<1>1. ASSUME NEW pc \in {"erase", "put", "fetch", "fill"}, tab[t].pc # "closed",
             tab' = [tab EXCEPT ![t] = [tab[t] EXCEPT !.pc = pc]],
             UNCHANGED <<password, backup, requests, trouble>>
      PROVE  LockInv'
  <2> DEFINE p == [tab[t] EXCEPT !.pc = pc]
  <2>1. p.pc = pc /\ p.account = tab[t].account /\ p.key = tab[t].key
    BY <1>0 DEF PageStates
  <2>2. tab' = [tab EXCEPT ![t] = p]
    BY <1>1
  <2> HIDE DEF p
  <2> QED BY <1>1, <2>1, <2>2
<1>6. CASE ReadBinding(t) \/ EraseOther(t) \/ PutBinding(t) \/ Rebind(t)
  BY <1>1, <1>6 DEF ReadBinding, EraseOther, PutBinding, Rebind
<1>2. CASE Fetch(t)
  <2> DEFINE copy == CopyFor(t)
             a == tab[t].account
  <2>1. PICK p : tab' = [tab EXCEPT ![t] = p] /\
           \/ p = [tab[t] EXCEPT !.pc = "ready"]
           \/ /\ tab[t].key # None /\ copy # None /\ copy.key # tab[t].key
              /\ p = [tab[t] EXCEPT !.pc = "locked"]
           \/ p = [tab[t] EXCEPT !.pc = "apply", !.got = copy.content]
    BY <1>2, Zenon DEF Fetch
  <2>2. /\ tab[t].pc = "fetch" /\ UNCHANGED <<password, backup, requests>>
        /\ trouble \subseteq trouble'
        /\ cookie[BrowserOf[t]] \in {None, a} \/ a \in trouble'
    BY <1>2 DEF Fetch
  <2>3. copy # None => copy = backup[cookie[BrowserOf[t]]] /\ cookie[BrowserOf[t]] # None
    BY DEF CopyFor
  <2> HIDE DEF copy
  <2>4. p.account = a /\ p.key = tab[t].key /\ p.pc \in {"ready", "locked", "apply"}
    BY <1>0, <2>1 DEF PageStates
  <2>5. p.pc = "locked" => a \in trouble'
    <3> SUFFICES ASSUME p.pc = "locked", a \notin trouble'
                 PROVE  FALSE
      OBVIOUS
    <3>1. tab[t].key # None /\ copy # None /\ copy.key # tab[t].key
      BY <1>0, <2>1 DEF PageStates
    <3>2. a \in Accounts \ trouble /\ copy = backup[a]
      BY <1>0, <2>2, <2>3, <3>1 DEF PageOK
    <3>3. tab[t].key = password[a] /\ copy.key = password[a]
      BY <2>2, <3>1, <3>2 DEF LockInv
    <3> QED BY <3>1, <3>3
  <2> QED BY <2>1, <2>2, <2>4, <2>5
<1>3. CASE Apply(t)
  <2> DEFINE p == [tab[t] EXCEPT !.pc = "rebind", !.suppressed = TRUE]
  <2>1. p.pc = "rebind" /\ p.account = tab[t].account /\ p.key = tab[t].key
    BY <1>0 DEF PageStates
  <2>2. tab' = [tab EXCEPT ![t] = p] /\ UNCHANGED <<password, backup, requests, trouble>>
        /\ tab[t].pc # "closed"
    BY <1>3 DEF Apply
  <2> HIDE DEF p
  <2> QED BY <2>1, <2>2
<1>4. CASE Fill(t)
  <2>1. PICK c \in tab[t].got :
           tab' = [tab EXCEPT ![t] = [tab[t] EXCEPT !.got = tab[t].got \ {c}]]
    BY <1>4 DEF Fill
  <2> DEFINE p == [tab[t] EXCEPT !.got = tab[t].got \ {c}]
  <2>2. p.pc = tab[t].pc /\ p.account = tab[t].account /\ p.key = tab[t].key
    BY <1>0 DEF PageStates
  <2>3. UNCHANGED <<password, backup, requests, trouble>> /\ tab[t].pc = "fill"
    BY <1>4 DEF Fill
  <2> QED BY <2>1, <2>2, <2>3
<1>5. CASE FillEnds(t)
  <2>1. /\ Resume(tab[t]).pc = "ready" /\ Resume(tab[t]).account = tab[t].account
        /\ Resume(tab[t]).key = tab[t].key
    BY <1>0 DEF Resume, PageStates
  <2> QED BY <1>5, <2>1 DEF FillEnds
<1> QED BY <1>2, <1>3, <1>4, <1>5, <1>6 DEF PageStep

LEMMA UploadLockStep ==
    ASSUME TypeInv, LockInv, NEW t \in Tabs, UploadStep(t) \/ UploadFails(t)
    PROVE  LockInv'
<1> USE DEF serverVars
<1>0. PageOK(tab[t]) /\ tab[t] \in PageStates /\ BrowserOf[t] \in Browsers
  BY BackupAssumption DEF TypeInv, PageOK
<1>1. tab[t].timer \/ tab[t].up.pc # "none" => tab[t].pc = "ready"
  BY <1>0 DEF PageOK
<1>2. ASSUME NEW p, tab' = [tab EXCEPT ![t] = p], tab[t].pc = "ready",
             \E up : p = [tab[t] EXCEPT !.up = up] \/ p = [tab[t] EXCEPT !.timer = FALSE, !.up = up],
             UNCHANGED <<password, backup, requests, trouble>>
      PROVE  LockInv'
  <2>1. p.pc = tab[t].pc /\ p.account = tab[t].account /\ p.key = tab[t].key
    BY <1>0, <1>2 DEF PageStates
  <2> QED BY <1>2, <2>1, PageGoesOn
<1>3. CASE StartUpload(t)
  <2> DEFINE p == [tab[t] EXCEPT !.timer = FALSE, !.up = [NoUpload EXCEPT !.pc = "started",
                                            !.account = binding[BrowserOf[t]]]]
  <2>1. \E up : p = [tab[t] EXCEPT !.up = up] \/ p = [tab[t] EXCEPT !.timer = FALSE, !.up = up]
    OBVIOUS
  <2>2. tab' = [tab EXCEPT ![t] = p] /\ UNCHANGED <<password, backup, requests, trouble>>
        /\ tab[t].pc = "ready"
    BY <1>1, <1>3 DEF StartUpload
  <2> HIDE DEF p
  <2> QED BY <1>2, <2>1, <2>2
<1>4. CASE TakeSnapshot(t)
  <2> DEFINE p == [tab[t] EXCEPT !.up = [tab[t].up EXCEPT !.pc = "taken",
                                              !.content = store[BrowserOf[t]]]]
  <2>1. \E up : p = [tab[t] EXCEPT !.up = up] \/ p = [tab[t] EXCEPT !.timer = FALSE, !.up = up]
    OBVIOUS
  <2>2. tab' = [tab EXCEPT ![t] = p] /\ UNCHANGED <<password, backup, requests, trouble>>
        /\ tab[t].pc = "ready"
    BY <1>1, <1>4 DEF TakeSnapshot
  <2> HIDE DEF p
  <2> QED BY <1>2, <2>1, <2>2
<1>5. CASE Send(t)
  <2> DEFINE a == cookie[BrowserOf[t]]
             r == RequestOf(t, a)
             p == [tab[t] EXCEPT !.up = [tab[t].up EXCEPT !.pc = "sent", !.to = a]]
  <2>1. tab' = [tab EXCEPT ![t] = p]
    BY <1>5 DEF Send
  <2>2. /\ UNCHANGED <<password, backup>> /\ requests' = requests \cup {r}
        /\ trouble \subseteq trouble' /\ (a = tab[t].account \/ a \in trouble')
        /\ tab[t].up.pc = "taken"
    BY <1>5 DEF Send
  <2>3. r.to = a /\ r.key = tab[t].key
    BY DEF RequestOf
  <2>4. tab[t].pc = "ready" /\ tab[t].key # None
    BY <1>0, <2>2, BackupAssumption DEF PageOK
  <2>5. p.pc = tab[t].pc /\ p.account = tab[t].account /\ p.key = tab[t].key
    BY <1>0 DEF PageStates
  <2> HIDE DEF p, r
  <2>6. r.to \notin trouble' => r.key = password[r.to]
    BY <2>2, <2>3, <2>4 DEF LockInv
  <2>7. \A q \in requests' \ requests : q.to \notin trouble' => q.key = password[q.to]
    BY <2>2, <2>6
  <2> QED BY <2>1, <2>2, <2>4, <2>5, <2>7, PageKeepsKey
<1>6. ASSUME tab' = [tab EXCEPT ![t] = Settled(tab[t])],
             UNCHANGED <<password, backup, requests, trouble>>, tab[t].up.pc # "none"
      PROVE  LockInv'
  <2> DEFINE p == Settled(tab[t])
  <2>1. \E up : p = [tab[t] EXCEPT !.up = up] \/ p = [tab[t] EXCEPT !.timer = FALSE, !.up = up]
    BY DEF Settled
  <2>2. tab' = [tab EXCEPT ![t] = p] /\ tab[t].pc = "ready"
    BY <1>1, <1>6
  <2> HIDE DEF p
  <2> QED BY <1>2, <1>6, <2>1, <2>2
<1>7. CASE Refused(t)
  BY <1>6, <1>7 DEF Refused, Settled
<1>8. CASE UploadEnds(t)
  BY <1>6, <1>8 DEF UploadEnds
<1>9. CASE UploadFails(t)
  BY <1>6, <1>9 DEF UploadFails, OnItsWay
<1> QED BY <1>3, <1>4, <1>5, <1>7, <1>8, <1>9 DEF UploadStep

LEMMA ServerLockStep ==
    ASSUME TypeInv, LockInv,
           (\E a \in Accounts : ResetPassword(a))
           \/ (\E r \in requests : PutBackup(r) \/ RequestLost(r))
    PROVE  LockInv'
<1> USE DEF serverVars
<1>1. ASSUME NEW a \in Accounts, ResetPassword(a) PROVE LockInv'
  <2>1. /\ UNCHANGED <<backup, requests, tab>> /\ trouble' = trouble \cup {a}
        /\ \A x : x # a => password'[x] = password[x]
    <3>1. PICK new : password' = [password EXCEPT ![a] = new]
      BY <1>1 DEF ResetPassword
    <3>2. \A x : x # a => (x \in Accounts => password'[x] = password[x])
      BY <3>1 DEF TypeInv, BackupTypeOK
    <3> QED BY <1>1, <3>1, <3>2 DEF ResetPassword
  <2> QED BY <2>1 DEF LockInv
<1>2. ASSUME NEW r \in requests, PutBackup(r) PROVE LockInv'
  <2>1. r \in Requests
    BY DEF TypeInv, BackupTypeOK
  <2>2. \A a \in Accounts : \/ backup'[a] = backup[a]
                            \/ a = r.to /\ backup'[a].key = r.key
    BY <1>2, <2>1 DEF PutBackup, Replaced, TypeInv, BackupTypeOK
  <2>3. UNCHANGED <<password, tab, trouble>> /\ requests' \subseteq requests
    BY <1>2 DEF PutBackup
  <2> QED BY <2>2, <2>3 DEF LockInv
<1>3. ASSUME NEW r \in requests, RequestLost(r) PROVE LockInv'
  BY <1>3 DEF RequestLost, LockInv
<1> QED BY <1>1, <1>2, <1>3

LEMMA LockStep == TypeInv /\ LockInv /\ [BackupNext]_vars => LockInv'
<1> SUFFICES ASSUME TypeInv, LockInv, [BackupNext]_vars PROVE LockInv'
  OBVIOUS
<1>1. CASE UNCHANGED vars
  BY <1>1 DEF vars, serverVars, LockInv
<1> QED
  BY <1>1, UserLockStep, PageLockStep, UploadLockStep, ServerLockStep DEF BackupNext, UserStep

\* Nobody is locked out of his backup without one of the three causes, whatever tabs,
\* browsers and uploads there are (restoreCloudBackupIfNeeded, reset_password_submit).
THEOREM LockoutsHaveCause == BackupSpec => []LockoutHasCause
<1>1. LockInv => LockoutHasCause
  BY DEF LockInv, LockoutHasCause
<1> QED BY <1>1, LockInit, BackupTypeInit, BackupTypeStep, LockStep, PTL DEF BackupSpec
-----------------------------------------------------------------------------
(* What is in a store is saved, excused, or on its way.                    *)

Covered(c) == c \in Saved(made[c]) \cup excused \cup strayed

OwedByPage(p, c) == p.timer \/ p.up.pc = "started" \/ (p.up.pc = "taken" /\ c \in p.up.content)

OwedByRequest(r, c) == r.to = r.account /\ c \in r.content

Owed(b, c) ==
    \/ \E t \in Tabs : BrowserOf[t] = b /\ OwedByPage(tab[t], c)
    \/ \E r \in requests : r.from = b /\ OwedByRequest(r, c)

\* Backups and the snapshots that are being restored hold nothing that is not covered:
\* what a later upload drops is excused.
SavedInv ==
    /\ \A b \in Browsers : \A c \in store[b] : Covered(c) \/ Owed(b, c)
    /\ \A a \in Accounts : backup[a] # None => \A c \in backup[a].content : Covered(c)
    /\ \A t \in Tabs : tab[t].pc \in {"apply", "rebind", "fill"} => \A c \in tab[t].got : Covered(c)
    /\ \A t \in Tabs : tab[t].suppressed => tab[t].pc \in {"rebind", "fill"}

\* Everything anywhere is an entry that has been made.
LEMMA EntriesAreMade ==
    ASSUME KeptInv
    PROVE  /\ \A b \in Browsers : \A c \in store[b] : c \in DOMAIN made
           /\ \A a \in Accounts : backup[a] # None => \A c \in backup[a].content : c \in DOMAIN made
           /\ \A t \in Tabs : tab[t].pc \in {"apply", "rebind", "fill"} => \A c \in tab[t].got : c \in DOMAIN made
  BY DEF KeptInv, Owned, PageKept

\* Unless an upload arrives nothing loses its cover.
LEMMA CoveredStays ==
    ASSUME backup' = backup, excused \subseteq excused', strayed \subseteq strayed',
           \A c \in DOMAIN made : made'[c] = made[c]
    PROVE  \A c \in DOMAIN made : Covered(c) => Covered(c)'
  BY DEF Covered, Saved

\* A step of one page: what it puts into the store is covered, and what the page owed is
\* covered now, or still owed.
LEMMA PageStaysSaved ==
    ASSUME TypeInv, KeptInv, SavedInv, NEW t \in Tabs, NEW p, tab' = [tab EXCEPT ![t] = p],
           made' = made, backup' = backup, requests \subseteq requests',
           excused \subseteq excused', strayed \subseteq strayed',
           p.pc \in {"apply", "rebind", "fill"} => \A c \in p.got : Covered(c),
           p.suppressed => p.pc \in {"rebind", "fill"},
           \A b \in Browsers : \A c \in store'[b] : c \in store[b] \/ Covered(c),
           \A c \in store[BrowserOf[t]] : OwedByPage(tab[t], c) =>
               \/ Covered(c)' \/ OwedByPage(p, c)
               \/ \E r \in requests' : r.from = BrowserOf[t] /\ OwedByRequest(r, c)
    PROVE  SavedInv'
<1>1. tab'[t] = p /\ \A u \in Tabs \ {t} : tab'[u] = tab[u]
  BY DEF TypeInv, BackupTypeOK
<1>2. \A c : Covered(c) => Covered(c)'
  BY DEF Covered, Saved
<1>3. ASSUME NEW b \in Browsers, NEW c \in store'[b] PROVE Covered(c)' \/ Owed(b, c)'
  <2>1. CASE c \notin store[b] \/ Covered(c)
    BY <1>2, <1>3, <2>1
  <2>2. ASSUME c \in store[b], NEW u \in Tabs, BrowserOf[u] = b, OwedByPage(tab[u], c)
        PROVE  Covered(c)' \/ Owed(b, c)'
    <3>1. CASE u # t
      BY <1>1, <2>2, <3>1 DEF Owed
    <3>2. CASE u = t
      BY <1>1, <2>2, <3>2 DEF Owed
    <3> QED BY <3>1, <3>2
  <2>3. ASSUME NEW r \in requests, r.from = b, OwedByRequest(r, c) PROVE Owed(b, c)'
    BY <2>3 DEF Owed
  <2>4. c \in store[b] => Covered(c) \/ Owed(b, c)
    BY DEF SavedInv
  <2> QED BY <2>1, <2>2, <2>3, <2>4 DEF Owed
<1>4. \A a \in Accounts : backup'[a] # None => \A c \in backup'[a].content : Covered(c)'
  BY <1>2 DEF SavedInv
<1>5. \A u \in Tabs : tab'[u].pc \in {"apply", "rebind", "fill"} => \A c \in tab'[u].got : Covered(c)'
  BY <1>1, <1>2 DEF SavedInv
<1>6. \A u \in Tabs : tab'[u].suppressed => tab'[u].pc \in {"rebind", "fill"}
  BY <1>1 DEF SavedInv
<1> QED BY <1>3, <1>4, <1>5, <1>6 DEF SavedInv

LEMMA SavedInit == BackupInit => SavedInv
  BY DEF BackupInit, SavedInv, NewPage

\* Giving up what a page has not sent covers it.
LEMMA UnsentIsCovered ==
    ASSUME NEW t \in Tabs, excused' = excused \cup Unsent(t) \/ Unsent(t) \subseteq excused',
           made' = made, backup' = backup
    PROVE  \A c \in store[BrowserOf[t]] : OwedByPage(tab[t], c) => Covered(c)'
  BY DEF Unsent, OwedByPage, Covered, Saved

LEMMA UserSavedStep ==
    ASSUME TypeInv, KeptInv, SavedInv, NEW t \in Tabs,
           \/ Leave(t) \/ Logout(t) \/ ResetLocal(t) \/ Open(t) \/ MakeEntry(t)
           \/ \E a \in Accounts, typed \in Passwords : Login(t, a, typed)
    PROVE  SavedInv'
<1> USE PageStaysSaved DEF serverVars, mixVars
<1>0. /\ PageOK(tab[t]) /\ tab[t].key \in Passwords \cup {None} /\ BrowserOf[t] \in Browsers
      /\ tab[t] \in PageStates /\ store \in [Browsers -> SUBSET Entries]
  BY BackupAssumption DEF TypeInv, BackupTypeOK, PageOK, PageStates
<1>1. tab[t].pc = "closed" => \A c : ~ OwedByPage(tab[t], c)
  BY <1>0 DEF PageOK, OwedByPage
<1>2. ASSUME NEW key \in Passwords \cup {None}, tab' = [tab EXCEPT ![t] = NewPage(key)],
             \A b \in Browsers : store'[b] \subseteq store[b], UNCHANGED <<made, backup, requests, strayed>>,
             excused \subseteq excused', tab[t].pc # "closed" => Unsent(t) \subseteq excused'
      PROVE  SavedInv'
  <2>1. \A c \in store[BrowserOf[t]] : OwedByPage(tab[t], c) => Covered(c)'
    BY <1>1, <1>2, UnsentIsCovered
  <2>2. ~ NewPage(key).suppressed /\ NewPage(key).pc = "closed"
    BY DEF NewPage
  <2> QED BY <1>2, <2>1, <2>2
<1>3. CASE Leave(t)
  BY <1>0, <1>2, <1>3 DEF Leave
<1>4. CASE Logout(t)
  BY <1>0, <1>2, <1>4 DEF Logout
<1>5. CASE ResetLocal(t)
  BY <1>0, <1>2, <1>5 DEF ResetLocal
<1>6. CASE Open(t)
  <2> DEFINE n == NewPage(tab[t].key)
             p == [n EXCEPT !.pc = "bind", !.account = cookie[BrowserOf[t]]]
  <2>1. /\ tab' = [tab EXCEPT ![t] = p]
        /\ UNCHANGED <<made, backup, requests, store, excused, strayed>>
        /\ tab[t].pc = "closed"
    BY <1>6 DEF Open
  <2>2. n \in PageStates /\ ~ n.suppressed
    BY <1>0, NewPageOK DEF PageOK, NewPage
  <2> HIDE DEF n
  <2>3. p.pc = "bind" /\ ~ p.suppressed
    BY <2>2 DEF PageStates
  <2> HIDE DEF p
  <2> QED BY <1>1, <2>1, <2>3
<1>7. CASE MakeEntry(t)
  <2> DEFINE b == BrowserOf[t]
  <2>0. PICK c : c = Len(made) + 1
    OBVIOUS
  <2>1. /\ made' = Append(made, tab[t].account) /\ UNCHANGED <<backup, requests>>
        /\ store' = [store EXCEPT ![b] = store[b] \cup {c}]
        /\ tab' = [tab EXCEPT ![t] = Scheduled(tab[t])] /\ tab[t].pc = "ready"
        /\ excused \subseteq excused' /\ strayed \subseteq strayed'
        /\ tab[t].key = None \/ tab[t].up.pc \in {"taken", "sent"} => c \in excused'
    BY <1>7, <2>0 DEF MakeEntry, Astray
  <2>2. made \in Seq(Accounts) /\ tab[t].account \in Accounts
    BY <1>0, <2>1 DEF TypeInv, BackupTypeOK, PageOK
  <2>3. \A d \in DOMAIN made : Covered(d) => Covered(d)'
    BY <2>1, <2>2, CoveredStays
  <2>4. /\ Scheduled(tab[t]).pc = tab[t].pc /\ Scheduled(tab[t]).got = tab[t].got
        /\ Scheduled(tab[t]).up = tab[t].up
        /\ Scheduled(tab[t]).suppressed = tab[t].suppressed
        /\ tab[t].timer => Scheduled(tab[t]).timer
    BY <1>0 DEF Scheduled, PageStates
  <2>5. \A u \in Tabs : /\ tab'[u].pc = tab[u].pc /\ tab'[u].got = tab[u].got
                        /\ tab'[u].up = tab[u].up /\ tab'[u].suppressed = tab[u].suppressed
                        /\ (tab[u].timer => tab'[u].timer)
    BY <2>1, <2>4 DEF TypeInv, BackupTypeOK
  <2>6. \A d, x : Owed(d, x) => Owed(d, x)'
    <3>1. \A u \in Tabs : \A x : OwedByPage(tab[u], x) => OwedByPage(tab[u], x)'
      BY <2>5 DEF OwedByPage
    <3> QED BY <2>1, <3>1 DEF Owed
  <2>7. Covered(c)' \/ Owed(b, c)'
    <3>1. CASE c \in excused'
      BY <3>1 DEF Covered
    <3>2. CASE tab[t].up.pc = "started"
      BY <2>5, <3>2 DEF Owed, OwedByPage
    <3>3. CASE c \notin excused' /\ tab[t].up.pc # "started"
      <4>1. tab[t].up.pc \in {"none", "started", "taken", "sent"}
        BY <1>0 DEF PageStates
      <4>2. tab[t].key # None /\ tab[t].up.pc = "none" /\ ~ tab[t].suppressed
        BY <2>1, <3>3, <4>1 DEF SavedInv
      <4>3. Scheduled(tab[t]) = [tab[t] EXCEPT !.timer = TRUE]
        BY <4>2 DEF Scheduled
      <4>4. tab'[t].timer
        BY <1>0, <2>1, <4>3 DEF PageStates, TypeInv, BackupTypeOK
      <4> QED BY <4>4 DEF Owed, OwedByPage
    <3> QED BY <3>1, <3>2, <3>3
  <2>8. ASSUME NEW d \in Browsers, NEW x \in store'[d] PROVE Covered(x)' \/ Owed(d, x)'
    <3>1. CASE x \in store[d]
      BY <2>3, <2>6, <3>1, EntriesAreMade DEF SavedInv
    <3>2. CASE x \notin store[d]
      BY <1>0, <2>1, <2>7, <3>2
    <3> QED BY <3>1, <3>2
  <2>9. /\ \A a \in Accounts : backup'[a] # None => \A x \in backup'[a].content : Covered(x)'
        /\ \A u \in Tabs : tab'[u].pc \in {"apply", "rebind", "fill"} => \A x \in tab'[u].got : Covered(x)'
        /\ \A u \in Tabs : tab'[u].suppressed => tab'[u].pc \in {"rebind", "fill"}
    BY <2>1, <2>3, <2>5, EntriesAreMade DEF SavedInv
  <2> QED BY <2>8, <2>9 DEF SavedInv
<1>8. ASSUME NEW a \in Accounts, NEW typed \in Passwords, Login(t, a, typed) PROVE SavedInv'
  BY <1>2, <1>8 DEF Login
<1> QED BY <1>3, <1>4, <1>5, <1>6, <1>7, <1>8

LEMMA PageSavedStep ==
    ASSUME TypeInv, KeptInv, SavedInv, NEW t \in Tabs, PageStep(t)
    PROVE  SavedInv'
<1> USE PageStaysSaved DEF serverVars, mixVars
<1> DEFINE b == BrowserOf[t]
<1>0. /\ tab[t] \in PageStates /\ b \in Browsers /\ store \in [Browsers -> SUBSET Entries]
      /\ tab[t].suppressed => tab[t].pc \in {"rebind", "fill"}
      /\ tab[t].pc \in {"apply", "rebind", "fill"} => \A c \in tab[t].got : Covered(c)
  BY BackupAssumption DEF TypeInv, BackupTypeOK, PageOK, SavedInv
<1>1. ASSUME NEW pc \in {"erase", "put", "fetch", "fill"},
             tab' = [tab EXCEPT ![t] = [tab[t] EXCEPT !.pc = pc]],
             UNCHANGED <<made, backup, requests, excused, strayed>>,
             \A d \in Browsers : store'[d] \subseteq store[d],
             IF pc = "fill" THEN tab[t].pc = "rebind" ELSE tab[t].pc \in {"bind", "erase", "put"}
      PROVE  SavedInv'
  <2> DEFINE p == [tab[t] EXCEPT !.pc = pc]
  <2>1. p.pc = pc /\ p.suppressed = tab[t].suppressed /\ p.timer = tab[t].timer
        /\ p.up = tab[t].up /\ p.got = tab[t].got
    BY <1>0 DEF PageStates
  <2>2. tab' = [tab EXCEPT ![t] = p]
    BY <1>1
  <2> HIDE DEF p
  <2>3. p.suppressed => p.pc \in {"rebind", "fill"}
    BY <1>0, <1>1, <2>1
  <2>4. p.pc \in {"apply", "rebind", "fill"} => \A c \in p.got : Covered(c)
    BY <1>0, <1>1, <2>1
  <2>5. \A c : OwedByPage(tab[t], c) => OwedByPage(p, c)
    BY <2>1 DEF OwedByPage
  <2>6. \A d \in Browsers : \A c \in store'[d] : c \in store[d] \/ Covered(c)
    BY <1>1
  <2> QED BY <1>1, <2>2, <2>3, <2>4, <2>5, <2>6
<1>6. CASE ReadBinding(t) \/ EraseOther(t) \/ PutBinding(t) \/ Rebind(t)
  BY <1>0, <1>1, <1>6 DEF ReadBinding, EraseOther, PutBinding, Rebind
<1>2. CASE Fetch(t)
  <2> DEFINE copy == CopyFor(t)
  <2>1. copy # None => \A c \in copy.content : Covered(c)
    BY <1>0, BackupAssumption DEF CopyFor, SavedInv, TypeInv, BackupTypeOK
  <2>2. PICK p : tab' = [tab EXCEPT ![t] = p] /\
           \/ p = [tab[t] EXCEPT !.pc = "ready"]
           \/ p = [tab[t] EXCEPT !.pc = "locked"]
           \/ copy # None /\ p = [tab[t] EXCEPT !.pc = "apply", !.got = copy.content]
    BY <1>2, Zenon DEF Fetch
  <2> HIDE DEF copy
  <2>3. tab[t].pc = "fetch" /\ UNCHANGED <<made, store, backup, requests, excused, strayed>>
    BY <1>2 DEF Fetch
  <2>4. /\ p.pc \in {"ready", "locked", "apply"} /\ p.suppressed = tab[t].suppressed
        /\ p.timer = tab[t].timer /\ p.up = tab[t].up
        /\ p.pc = "apply" => copy # None /\ p.got = copy.content
    BY <1>0, <2>2 DEF PageStates
  <2> QED BY <1>0, <2>1, <2>2, <2>3, <2>4 DEF OwedByPage
<1>3. CASE Apply(t)
  <2> DEFINE p == [tab[t] EXCEPT !.pc = "rebind", !.suppressed = TRUE]
  <2>1. /\ tab' = [tab EXCEPT ![t] = p] /\ UNCHANGED <<made, backup, requests, strayed>>
        /\ \A d \in Browsers : store'[d] \subseteq store[d]
        /\ excused \subseteq excused' /\ tab[t].pc = "apply"
    BY <1>0, <1>3 DEF Apply
  <2>2. p.pc = "rebind" /\ p.got = tab[t].got /\ p.timer = tab[t].timer /\ p.up = tab[t].up
    BY <1>0 DEF PageStates
  <2> HIDE DEF p
  <2> QED BY <1>0, <2>1, <2>2 DEF OwedByPage
<1>4. CASE Fill(t)
  <2>1. PICK c \in tab[t].got :
           /\ store' = [store EXCEPT ![b] = store[b] \cup {c}]
           /\ tab' = [tab EXCEPT ![t] = [tab[t] EXCEPT !.got = tab[t].got \ {c}]]
           /\ strayed' = Astray(b, c)
    BY <1>4 DEF Fill
  <2> DEFINE p == [tab[t] EXCEPT !.got = tab[t].got \ {c}]
  <2>2. p.pc = "fill" /\ p.got \subseteq tab[t].got /\ p.timer = tab[t].timer /\ p.up = tab[t].up
        /\ tab[t].pc = "fill"
    BY <1>0, <1>4 DEF Fill, PageStates
  <2>3. UNCHANGED <<made, backup, requests, excused>> /\ strayed \subseteq strayed' /\ tab' = [tab EXCEPT ![t] = p]
    BY <1>4, <2>1 DEF Fill, Astray
  <2> HIDE DEF p
  <2>4. \A d \in Browsers : \A x \in store'[d] : x \in store[d] \/ Covered(x)
    BY <1>0, <2>1, <2>2
  <2> QED BY <1>0, <2>2, <2>3, <2>4 DEF OwedByPage
<1>5. CASE FillEnds(t)
  <2> DEFINE p == Resume(tab[t])
  <2>1. p.pc = "ready" /\ ~ p.suppressed /\ p.timer = tab[t].timer /\ p.up = tab[t].up
    BY <1>0 DEF Resume, PageStates
  <2>2. tab' = [tab EXCEPT ![t] = p] /\ UNCHANGED <<made, store, backup, requests, excused, strayed>>
    BY <1>5 DEF FillEnds
  <2> HIDE DEF p
  <2> QED BY <2>1, <2>2 DEF OwedByPage
<1> QED BY <1>2, <1>3, <1>4, <1>5, <1>6 DEF PageStep

LEMMA UploadSavedStep ==
    ASSUME TypeInv, KeptInv, SavedInv, NEW t \in Tabs, UploadStep(t) \/ UploadFails(t)
    PROVE  SavedInv'
<1> USE DEF serverVars, mixVars
<1> DEFINE b == BrowserOf[t]
<1>0. /\ tab[t] \in PageStates /\ b \in Browsers /\ store \in [Browsers -> SUBSET Entries]
      /\ tab[t].suppressed => tab[t].pc \in {"rebind", "fill"}
      /\ tab[t].up \in UploadStates
      /\ tab[t].pc \in {"apply", "rebind", "fill"} => \A c \in tab[t].got : Covered(c)
      /\ tab[t].up.pc # "none" => tab[t].pc = "ready"
  BY BackupAssumption DEF TypeInv, BackupTypeOK, PageOK, SavedInv, PageStates, UploadStates
<1>1. ASSUME NEW p, tab' = [tab EXCEPT ![t] = p], NEW up, NEW timer,
             p = [tab[t] EXCEPT !.timer = timer, !.up = up],
             UNCHANGED <<made, store, backup, strayed>>, requests \subseteq requests',
             excused \subseteq excused',
             \A c \in store[b] : OwedByPage(tab[t], c) =>
               \/ Covered(c)' \/ timer \/ up.pc = "started" \/ (up.pc = "taken" /\ c \in up.content)
               \/ \E r \in requests' : r.from = b /\ OwedByRequest(r, c)
      PROVE  SavedInv'
  <2>1. /\ p.pc = tab[t].pc /\ p.got = tab[t].got /\ p.suppressed = tab[t].suppressed
        /\ p.timer = timer /\ p.up = up
    BY <1>0, <1>1 DEF PageStates
  <2>2. \A c \in store[b] : OwedByPage(tab[t], c) =>
           \/ Covered(c)' \/ OwedByPage(p, c)
           \/ \E r \in requests' : r.from = b /\ OwedByRequest(r, c)
    BY <1>1, <2>1 DEF OwedByPage
  <2> QED BY <1>0, <1>1, <2>1, <2>2, PageStaysSaved
<1>2. ASSUME NEW p, p = [tab[t] EXCEPT !.up = NoUpload], tab' = [tab EXCEPT ![t] = p],
             UNCHANGED <<made, store, backup, requests, strayed>>, excused \subseteq excused',
             \A c \in store[b] : OwedByPage(tab[t], c) /\ ~ tab[t].timer => Covered(c)'
      PROVE  SavedInv'
  <2>1. p = [tab[t] EXCEPT !.timer = tab[t].timer, !.up = NoUpload]
    BY <1>0, <1>2 DEF PageStates
  <2> QED BY <1>1, <1>2, <2>1
<1>3. CASE StartUpload(t)
  <2> DEFINE up == [NoUpload EXCEPT !.pc = "started", !.account = binding[b]]
  <2>1. up.pc = "started"
    BY UploadStatesAre DEF UploadStates
  <2>2. /\ tab' = [tab EXCEPT ![t] = [tab[t] EXCEPT !.timer = FALSE, !.up = up]]
        /\ UNCHANGED <<made, store, backup, requests, excused, strayed>>
    BY <1>3 DEF StartUpload
  <2> HIDE DEF up
  <2> QED BY <1>1, <2>1, <2>2
<1>4. CASE TakeSnapshot(t)
  <2> DEFINE up == [tab[t].up EXCEPT !.pc = "taken", !.content = store[b]]
             p == [tab[t] EXCEPT !.up = up]
  <2>1. up.pc = "taken" /\ up.content = store[b]
    BY <1>0 DEF UploadStates
  <2>2. tab' = [tab EXCEPT ![t] = p] /\ UNCHANGED <<made, store, backup, requests, excused, strayed>>
    BY <1>4 DEF TakeSnapshot
  <2> HIDE DEF up
  <2>3. p = [tab[t] EXCEPT !.timer = tab[t].timer, !.up = up]
    BY <1>0 DEF PageStates
  <2> HIDE DEF p
  <2> QED BY <1>1, <2>1, <2>2, <2>3
<1>5. CASE Send(t)
  <2> DEFINE a == cookie[b]
             r == RequestOf(t, a)
             up == [tab[t].up EXCEPT !.pc = "sent", !.to = a]
             p == [tab[t] EXCEPT !.up = up]
  <2>1. /\ tab' = [tab EXCEPT ![t] = p] /\ UNCHANGED <<made, store, backup, strayed>>
        /\ requests' = requests \cup {r} /\ excused \subseteq excused'
        /\ tab[t].up.pc = "taken"
        /\ a = tab[t].up.account \/ tab[t].up.content \subseteq excused'
    BY <1>5 DEF Send
  <2>2. /\ r.to = a /\ r.from = b /\ r.content = tab[t].up.content
        /\ r.account = tab[t].up.account
    BY DEF RequestOf
  <2> HIDE DEF up, r
  <2>3. p = [tab[t] EXCEPT !.timer = tab[t].timer, !.up = up]
    BY <1>0 DEF PageStates
  <2>4. \A c \in store[b] : OwedByPage(tab[t], c) =>
           \/ Covered(c)' \/ tab[t].timer \/ \E q \in requests' : q.from = b /\ OwedByRequest(q, c)
    BY <2>1, <2>2 DEF OwedByPage, OwedByRequest, Covered
  <2> HIDE DEF p
  <2> QED BY <1>1, <2>1, <2>3, <2>4
<1>6. CASE Refused(t)
  BY <1>2, <1>6, UnsentIsCovered DEF Refused
<1>7. CASE UploadEnds(t)
  <2>1. tab[t].up.pc = "sent"
    BY <1>7 DEF UploadEnds
  <2> QED BY <1>2, <1>7, <2>1 DEF UploadEnds, Settled, OwedByPage
<1>8. CASE UploadFails(t)
  BY <1>2, <1>8, UnsentIsCovered DEF UploadFails, Settled
<1> QED BY <1>3, <1>4, <1>5, <1>6, <1>7, <1>8 DEF UploadStep

LEMMA ServerSavedStep ==
    ASSUME TypeInv, KeptInv, SavedInv,
           (\E a \in Accounts : ResetPassword(a))
           \/ (\E r \in requests : PutBackup(r) \/ RequestLost(r))
    PROVE  SavedInv'
<1> USE DEF serverVars, mixVars
<1>1. ASSUME NEW a \in Accounts, ResetPassword(a) PROVE SavedInv'
  BY <1>1 DEF ResetPassword, SavedInv, Covered, Saved, Owed
<1>2. ASSUME NEW r \in requests, UNCHANGED <<made, store, tab, strayed>>, requests' = requests \ {r},
             \A c \in DOMAIN made : Covered(c) => Covered(c)',
             \A c \in r.content : OwedByRequest(r, c) => Covered(c)',
             \A a \in Accounts : backup'[a] # None => \A c \in backup'[a].content : Covered(c)'
      PROVE  SavedInv'
  <2>1. ASSUME NEW b \in Browsers, NEW c \in store[b] PROVE Covered(c)' \/ Owed(b, c)'
    <3>1. c \in DOMAIN made
      BY EntriesAreMade
    <3>2. ASSUME NEW u \in Tabs, BrowserOf[u] = b, OwedByPage(tab[u], c) PROVE Owed(b, c)'
      BY <1>2, <3>2 DEF Owed
    <3>3. ASSUME NEW q \in requests, q.from = b, OwedByRequest(q, c)
          PROVE  Covered(c)' \/ Owed(b, c)'
      <4>1. CASE q = r
        BY <1>2, <3>3, <4>1 DEF OwedByRequest
      <4>2. CASE q # r
        BY <1>2, <3>3, <4>2 DEF Owed
      <4> QED BY <4>1, <4>2
    <3> QED BY <1>2, <3>1, <3>2, <3>3 DEF SavedInv, Owed
  <2>2. \A u \in Tabs : tab'[u].pc \in {"apply", "rebind", "fill"} => \A c \in tab'[u].got : Covered(c)'
    BY <1>2, EntriesAreMade DEF SavedInv
  <2>3. \A u \in Tabs : tab'[u].suppressed => tab'[u].pc \in {"rebind", "fill"}
    BY <1>2 DEF SavedInv
  <2> QED BY <1>2, <2>1, <2>2, <2>3 DEF SavedInv
<1>3. ASSUME NEW r \in requests, PutBackup(r) PROVE SavedInv'
  <2> DEFINE own == IF r.to = r.account THEN r.content ELSE {}
             row == [account |-> r.account, content |-> r.content, key |-> r.key]
  <2>1. r \in Requests /\ r.to \in Accounts /\ r.account \in Accounts /\ Owned(r.content, r.account)
    BY DEF TypeInv, BackupTypeOK, Requests, KeptInv
  <2>2. /\ row.account = r.account /\ row.content = r.content /\ row # None
    <3>1. row \in Backups
      BY <2>1 DEF Requests, Backups
    <3> QED BY <3>1, BackupAssumption
  <2>3. /\ UNCHANGED <<made, store, tab, strayed>> /\ requests' = requests \ {r}
        /\ excused' = (excused \ own) \cup {c \in Saved(r.to) : c \notin r.content}
                                     \cup (r.content \ own)
        /\ backup' = [backup EXCEPT ![r.to] = row]
    BY <1>3 DEF PutBackup, Replaced
  <2> HIDE DEF row
  <2>4. backup'[r.to] = row /\ \A a \in Accounts \ {r.to} : backup'[a] = backup[a]
    BY <2>1, <2>3 DEF TypeInv, BackupTypeOK
  <2>5. \A c \in r.content : Covered(c)'
    <3>1. CASE r.to = r.account
      <4>1. \A c \in r.content : made'[c] = r.to \/ c \in strayed'
        BY <2>1, <2>3, <3>1 DEF Owned
      <4> QED BY <2>2, <2>4, <3>1, <4>1 DEF Covered, Saved
    <3>2. CASE r.to # r.account
      BY <2>3, <3>2 DEF Covered
    <3> QED BY <3>1, <3>2
  <2>6. ASSUME NEW c \in DOMAIN made, Covered(c) PROVE Covered(c)'
    <3>1. CASE c \in r.content
      BY <2>5, <3>1
    <3>2. CASE c \notin r.content /\ c \in excused
      BY <2>3, <3>2 DEF Covered
    <3>3. CASE c \notin r.content /\ c \in Saved(made[c])
      <4>1. CASE made[c] = r.to
        BY <2>3, <3>3, <4>1 DEF Covered
      <4>2. CASE made[c] # r.to
        <5>1. made[c] \in Accounts
          BY DEF TypeInv, BackupTypeOK
        <5> QED BY <2>3, <2>4, <3>3, <4>2, <5>1 DEF Covered, Saved
      <4> QED BY <4>1, <4>2
    <3>4. CASE c \in strayed
      BY <2>3, <3>4 DEF Covered
    <3> QED BY <2>6, <3>1, <3>2, <3>3, <3>4 DEF Covered
  <2>7. ASSUME NEW a \in Accounts, backup'[a] # None, NEW c \in backup'[a].content
        PROVE  Covered(c)'
    <3>1. CASE a = r.to
      BY <2>2, <2>4, <2>5, <2>7, <3>1
    <3>2. CASE a # r.to
      <4>1. backup'[a] = backup[a] /\ c \in DOMAIN made
        BY <2>4, <2>7, <3>2, EntriesAreMade
      <4> QED BY <2>6, <2>7, <4>1 DEF SavedInv
    <3> QED BY <3>1, <3>2
  <2> QED BY <1>2, <2>3, <2>5, <2>6, <2>7
<1>4. ASSUME NEW r \in requests, RequestLost(r) PROVE SavedInv'
  <2>1. /\ UNCHANGED <<made, store, tab, backup, strayed>> /\ requests' = requests \ {r}
        /\ excused' = excused \cup r.content
    BY <1>4 DEF RequestLost
  <2>2. \A c : Covered(c) => Covered(c)'
    BY <2>1 DEF Covered, Saved
  <2>3. \A c \in r.content : Covered(c)'
    BY <2>1 DEF Covered
  <2>4. \A a \in Accounts : backup'[a] # None => \A c \in backup'[a].content : Covered(c)'
    BY <2>1, <2>2 DEF SavedInv
  <2> QED BY <1>2, <2>1, <2>2, <2>3, <2>4
<1> QED BY <1>1, <1>3, <1>4

LEMMA SavedStep == TypeInv /\ KeptInv /\ SavedInv /\ [BackupNext]_vars => SavedInv'
<1> SUFFICES ASSUME TypeInv, KeptInv, SavedInv, [BackupNext]_vars PROVE SavedInv'
  OBVIOUS
<1>1. CASE UNCHANGED vars
  BY <1>1 DEF vars, serverVars, mixVars, SavedInv, Covered, Saved, Owed
<1> QED
  BY <1>1, UserSavedStep, PageSavedStep, UploadSavedStep, ServerSavedStep
  DEF BackupNext, UserStep

\* Once a browser has no timer, no upload and no request left, each entry of its store is on
\* the server or has one of the excuses: none is forgotten, whatever its tabs, other browsers
\* and other accounts do (scheduleCloudBackupSync, syncCloudBackupNow, put_key_backup).
THEOREM QuietStoresAreSaved == BackupSpec => []QuietMeansSaved
<1>1. SavedInv => QuietMeansSaved
  BY DEF SavedInv, QuietMeansSaved, Quiet, Owed, OwedByPage, Covered
<1> QED BY <1>1, SavedInit, KeptInit, BackupTypeInit, BackupTypeStep, KeptStep, SavedStep, PTL
        DEF BackupSpec
=============================================================================
