------------------------ MODULE AccountStore_proofs ------------------------
(***************************************************************************)
(* CloudBackup implements AccountStore: whatever the pages of all accounts *)
(* do, each step is one that the owner of an account expects of his store, *)
(* or one that he does not see.                                            *)
(***************************************************************************)
EXTENDS CloudBackup_proofs

Writing(p) == p.up.pc \in {"taken", "sent"} /\ p.up.account = Owner

Loading(p) == p.pc = "apply" /\ p.account = Owner

Restores(p) == p.pc \in {"rebind", "fill"}

USE DEF Restores

\* No two accounts' pages have bound one store at once, nor do they in this step.
Unshared == mixed = {} /\ strayed = {} /\ mixed' = {} /\ strayed' = {}

\* The refinement mapping, element by element.
WrittenIs ==
    \A x : x \in WrittenOf(Owner) <=>
        \/ \E u \in Tabs : Writing(tab[u]) /\ x = tab[u].up.content
        \/ \E r \in requests : r.account = Owner /\ x = r.content

LoadedIs ==
    \A x : x \in LoadedOf(Owner) <=> \E u \in Tabs : Loading(tab[u]) /\ x = tab[u].got

AdoptingIs ==
    /\ AdoptingOf(Owner) \subseteq Browsers
    /\ \A b \in Browsers : b \in AdoptingOf(Owner) <=>
          \E u \in Tabs : BrowserOf[u] = b /\ tab[u].account = Owner /\ Restores(tab[u])

SavedIs ==
    \A x : x \in SavedOf(Owner) <=>
        \E a \in Accounts : /\ backup[a] # None /\ backup[a].account = Owner
                            /\ x = backup[a].content

LocalIs ==
    /\ LocalOf(Owner) = [b \in Browsers |-> LocalOf(Owner)[b]]
    /\ \A b \in Browsers : \A c : c \in LocalOf(Owner)[b] <=>
          /\ binding[b] = Owner
          /\ c \in store[b]
             \/ \E u \in Tabs : BrowserOf[u] = b /\ Restores(tab[u]) /\ c \in tab[u].got

ViewsAre == WrittenIs /\ LoadedIs /\ AdoptingIs /\ SavedIs /\ LocalIs

LEMMA Views == ViewsAre /\ ViewsAre'
<1>1. WrittenIs /\ WrittenIs'
  BY DEF WrittenIs, WrittenOf, Writing
<1>2. LoadedIs /\ LoadedIs'
  BY DEF LoadedIs, LoadedOf, Loading
<1>3. AdoptingIs /\ AdoptingIs'
  BY DEF AdoptingIs, AdoptingOf
<1>4. SavedIs /\ SavedIs'
  BY DEF SavedIs, SavedOf
<1>5. \A b, c : c \in ComingTo(b) <=>
         \E u \in Tabs : BrowserOf[u] = b /\ Restores(tab[u]) /\ c \in tab[u].got
  BY DEF ComingTo
<1>6. \A b, c : c \in ComingTo(b)' <=>
         \E u \in Tabs : BrowserOf[u] = b /\ Restores(tab'[u]) /\ c \in tab'[u].got
  BY DEF ComingTo
<1>7. LocalIs
  BY <1>5 DEF LocalIs, LocalOf
<1>8. LocalIs'
  <2>1. \A b \in Browsers : LocalOf(Owner)'[b]
           = IF binding'[b] = Owner THEN store'[b] \cup ComingTo(b)' ELSE {}
    BY DEF LocalOf
  <2> QED BY <1>6, <2>1 DEF LocalIs, LocalOf
<1> QED BY <1>1, <1>2, <1>3, <1>4, <1>7, <1>8 DEF ViewsAre

LEMMA LocalAt ==
    ASSUME NEW b \in Browsers, NEW c
    PROVE  /\ c \in LocalOf(Owner)[b] <=>
                /\ binding[b] = Owner
                /\ c \in store[b]
                   \/ \E u \in Tabs : BrowserOf[u] = b /\ Restores(tab[u]) /\ c \in tab[u].got
           /\ c \in LocalOf(Owner)'[b] <=>
                /\ binding'[b] = Owner
                /\ c \in store'[b]
                   \/ \E u \in Tabs : BrowserOf[u] = b /\ Restores(tab'[u]) /\ c \in tab'[u].got
  BY Views DEF ViewsAre, LocalIs

LEMMA LocalChangesAt ==
    ASSUME NEW b \in Browsers, NEW content,
           \A d \in Browsers \ {b} : \A c : c \in LocalOf(Owner)'[d] <=> c \in LocalOf(Owner)[d],
           \A c : c \in LocalOf(Owner)'[b] <=> c \in content
    PROVE  LocalOf(Owner)' = [LocalOf(Owner) EXCEPT ![b] = content]
<1>1. \A d \in Browsers \ {b} : LocalOf(Owner)'[d] = LocalOf(Owner)[d]
  OBVIOUS
<1>2. LocalOf(Owner)'[b] = content
  OBVIOUS
<1> QED BY <1>1, <1>2, Views DEF ViewsAre, LocalIs

LEMMA LocalUnchanged ==
    ASSUME \A b \in Browsers : \A c : c \in LocalOf(Owner)'[b] <=> c \in LocalOf(Owner)[b]
    PROVE  LocalOf(Owner)' = LocalOf(Owner)
<1>1. \A b \in Browsers : LocalOf(Owner)'[b] = LocalOf(Owner)[b]
  OBVIOUS
<1> QED BY <1>1, Views DEF ViewsAre, LocalIs

LEMMA AdoptingUnchanged ==
    ASSUME \A b \in Browsers :
              (\E u \in Tabs : BrowserOf[u] = b /\ tab'[u].account = Owner /\ Restores(tab'[u]))
              <=> (\E u \in Tabs : BrowserOf[u] = b /\ tab[u].account = Owner /\ Restores(tab[u]))
    PROVE  AdoptingOf(Owner)' = AdoptingOf(Owner)
<1>1. AdoptingOf(Owner) \subseteq Browsers /\ AdoptingOf(Owner)' \subseteq Browsers
  BY Views DEF ViewsAre, AdoptingIs
<1>2. \A b \in Browsers : b \in AdoptingOf(Owner)' <=> b \in AdoptingOf(Owner)
  BY Views DEF ViewsAre, AdoptingIs
<1> QED BY <1>1, <1>2

LEMMA ImplementsInit == BackupInit => OwnersStore!StoreInit
<1> SUFFICES ASSUME BackupInit PROVE OwnersStore!StoreInit
  OBVIOUS
<1>1. \A t \in Tabs : tab[t].pc = "closed" /\ tab[t].up.pc = "none"
  BY NewPageOK DEF BackupInit
<1>2. /\ \A x : x \notin WrittenOf(Owner) /\ x \notin LoadedOf(Owner) /\ x \notin SavedOf(Owner)
      /\ AdoptingOf(Owner) = {}
  BY <1>1, Views DEF BackupInit, ViewsAre, WrittenIs, LoadedIs, AdoptingIs, SavedIs, Writing, Loading
<1>3. \A b \in Browsers : LocalOf(Owner)[b] = {}
  BY <1>1, Views DEF BackupInit, ViewsAre, LocalIs
<1>4. LocalOf(Owner) = [b \in Browsers |-> {}]
  BY <1>3, Views DEF ViewsAre, LocalIs
<1> QED BY <1>2, <1>4 DEF BackupInit, OwnersStore!StoreInit

-----------------------------------------------------------------------------
(* Pages that lose what they have in hand, or nothing.                     *)

LEMMA Forgetting ==
    ASSUME WrittenOf(Owner)' \subseteq WrittenOf(Owner), LoadedOf(Owner)' \subseteq LoadedOf(Owner),
           LocalOf(Owner)' = LocalOf(Owner), AdoptingOf(Owner)' = AdoptingOf(Owner),
           SavedOf(Owner)' = SavedOf(Owner)
    PROVE  OwnersStore!OwnStep
  BY DEF OwnersStore!OwnStep, OwnersStore!Forget, OwnersStore!Drop

\* A page changes and writes or loads nothing that it did not write or load before.
LEMMA PageDrops ==
    ASSUME TypeInv, NEW t \in Tabs, NEW p, tab' = [tab EXCEPT ![t] = p],
           requests' \subseteq requests,
           Writing(p) => Writing(tab[t]) /\ p.up.content = tab[t].up.content,
           Loading(p) => Loading(tab[t]) /\ p.got = tab[t].got
    PROVE  /\ WrittenOf(Owner)' \subseteq WrittenOf(Owner)
           /\ LoadedOf(Owner)' \subseteq LoadedOf(Owner)
<1>1. tab'[t] = p /\ \A u \in Tabs \ {t} : tab'[u] = tab[u]
  BY DEF TypeInv, BackupTypeOK
<1>2. \A u \in Tabs : /\ Writing(tab'[u]) => Writing(tab[u]) /\ tab'[u].up.content = tab[u].up.content
                      /\ Loading(tab'[u]) => Loading(tab[u]) /\ tab'[u].got = tab[u].got
  BY <1>1
<1>3. \A x : x \in WrittenOf(Owner)' <=>
          \/ \E u \in Tabs : Writing(tab'[u]) /\ x = tab'[u].up.content
          \/ \E r \in requests' : r.account = Owner /\ x = r.content
  BY Views DEF ViewsAre, WrittenIs, Writing
<1>4. \A x : x \in LoadedOf(Owner)' <=> \E u \in Tabs : Loading(tab'[u]) /\ x = tab'[u].got
  BY Views DEF ViewsAre, LoadedIs, Loading
<1>5. WrittenOf(Owner)' \subseteq WrittenOf(Owner)
  BY <1>2, <1>3, Views DEF ViewsAre, WrittenIs
<1>6. LoadedOf(Owner)' \subseteq LoadedOf(Owner)
  BY <1>2, <1>4, Views DEF ViewsAre, LoadedIs
<1> QED BY <1>5, <1>6

\* A page changes, but not what it puts back, and the stores and the server do not.
LEMMA PageUnseen ==
    ASSUME TypeInv, NEW t \in Tabs, NEW p, tab' = [tab EXCEPT ![t] = p],
           UNCHANGED <<binding, store, backup>>,
           Restores(p) <=> Restores(tab[t]),
           Restores(p) => p.account = tab[t].account /\ p.got = tab[t].got
    PROVE  /\ LocalOf(Owner)' = LocalOf(Owner) /\ AdoptingOf(Owner)' = AdoptingOf(Owner)
           /\ SavedOf(Owner)' = SavedOf(Owner)
<1>1. tab'[t] = p /\ \A u \in Tabs \ {t} : tab'[u] = tab[u]
  BY DEF TypeInv, BackupTypeOK
<1>2. \A u \in Tabs : /\ Restores(tab'[u]) <=> Restores(tab[u])
                      /\ Restores(tab[u]) => tab'[u].account = tab[u].account
                                               /\ tab'[u].got = tab[u].got
  BY <1>1
<1>3. \A b : (\E u \in Tabs : BrowserOf[u] = b /\ tab'[u].account = Owner /\ Restores(tab'[u]))
         <=> (\E u \in Tabs : BrowserOf[u] = b /\ tab[u].account = Owner /\ Restores(tab[u]))
  BY <1>2
<1>4. \A b, c : (\E u \in Tabs : BrowserOf[u] = b /\ Restores(tab'[u]) /\ c \in tab'[u].got)
            <=> (\E u \in Tabs : BrowserOf[u] = b /\ Restores(tab[u]) /\ c \in tab[u].got)
  BY <1>2
<1>5. AdoptingOf(Owner)' = AdoptingOf(Owner)
  BY <1>3, AdoptingUnchanged
<1>6. \A b \in Browsers : \A c : c \in LocalOf(Owner)'[b] <=> c \in LocalOf(Owner)[b]
  BY <1>4, LocalAt
<1>7. LocalOf(Owner)' = LocalOf(Owner)
  BY <1>6, LocalUnchanged
<1>8. SavedOf(Owner)' = SavedOf(Owner)
  BY DEF SavedOf
<1> QED BY <1>5, <1>7, <1>8

LEMMA PageForgets ==
    ASSUME TypeInv, NEW t \in Tabs, NEW p, tab' = [tab EXCEPT ![t] = p],
           UNCHANGED <<binding, store, backup>>, requests' \subseteq requests,
           Writing(p) => Writing(tab[t]) /\ p.up.content = tab[t].up.content,
           Loading(p) => Loading(tab[t]) /\ p.got = tab[t].got,
           Restores(p) <=> Restores(tab[t]),
           Restores(p) => p.account = tab[t].account /\ p.got = tab[t].got
    PROVE  OwnersStore!OwnStep
  BY PageDrops, PageUnseen, Forgetting

-----------------------------------------------------------------------------
(* The steps of the users.                                                 *)

\* An owner's page is left; if it was putting entries back, a part of them is there.
LEMMA PageLeft ==
    ASSUME TypeInv, KeptInv, Unshared, NEW t \in Tabs, NEW p, tab' = [tab EXCEPT ![t] = p],
           p.pc = "closed", p.up.pc = "none",
           UNCHANGED <<binding, store, backup, requests>>
    PROVE  OwnersStore!OwnStep
<1> DEFINE b == BrowserOf[t]
<1>1. tab'[t] = p /\ \A u \in Tabs \ {t} : tab'[u] = tab[u]
  BY DEF TypeInv, BackupTypeOK
<1>2. b \in Browsers
  BY BackupAssumption
<1>3. ~ Writing(p) /\ ~ Loading(p)
  BY DEF Writing, Loading
<1>4. CASE ~ Restores(tab[t])
  BY <1>3, <1>4, PageForgets
<1>5. CASE Restores(tab[t])
  <2>1. OwnersStore!Drop
    BY <1>3, PageDrops DEF OwnersStore!Drop
  <2>2. SavedOf(Owner)' = SavedOf(Owner)
    BY DEF SavedOf
  <2>3. /\ \A u \in Tabs : Restores(tab'[u]) => u # t /\ tab'[u] = tab[u]
        /\ binding[b] = tab[t].account
    BY <1>1, <1>5 DEF KeptInv, PageKept, Past, Unshared
  <2>4. \A d \in Browsers : d # b =>
          ((\E u \in Tabs : BrowserOf[u] = d /\ tab'[u].account = Owner /\ Restores(tab'[u]))
           <=> (\E u \in Tabs : BrowserOf[u] = d /\ tab[u].account = Owner /\ Restores(tab[u])))
    BY <1>1
  <2>5. \A d \in Browsers \ {b} : \A c :
          (\E u \in Tabs : BrowserOf[u] = d /\ Restores(tab'[u]) /\ c \in tab'[u].got)
          <=> (\E u \in Tabs : BrowserOf[u] = d /\ Restores(tab[u]) /\ c \in tab[u].got)
    BY <1>1
  <2>6. \A c, u : u \in Tabs /\ BrowserOf[u] = b /\ Restores(tab'[u]) /\ c \in tab'[u].got
          => Restores(tab[u]) /\ c \in tab[u].got
    BY <2>3
  <2>7. \A d \in Browsers \ {b} : \A c : c \in LocalOf(Owner)'[d] <=> c \in LocalOf(Owner)[d]
    BY <2>5, LocalAt
  <2>8. LocalOf(Owner)'[b] \subseteq LocalOf(Owner)[b]
    BY <1>2, <2>6, LocalAt
  <2>9. LocalOf(Owner)' = [LocalOf(Owner) EXCEPT ![b] = LocalOf(Owner)'[b]]
    BY <1>2, <2>7, LocalChangesAt
  <2>10. CASE tab[t].account = Owner
    <3>1. b \in AdoptingOf(Owner)
      BY <1>2, <1>5, <2>10, Views DEF ViewsAre, AdoptingIs
    <3>2. AdoptingOf(Owner)' \in {AdoptingOf(Owner), AdoptingOf(Owner) \ {b}}
      <4>1. AdoptingOf(Owner) \subseteq Browsers /\ AdoptingOf(Owner)' \subseteq Browsers
        BY Views DEF ViewsAre, AdoptingIs
      <4>2. \A d \in Browsers \ {b} : d \in AdoptingOf(Owner)' <=> d \in AdoptingOf(Owner)
        BY <2>4, Views DEF ViewsAre, AdoptingIs
      <4>3. CASE b \in AdoptingOf(Owner)'
        BY <3>1, <4>1, <4>2, <4>3
      <4>4. CASE b \notin AdoptingOf(Owner)'
        BY <4>1, <4>2, <4>4
      <4> QED BY <4>3, <4>4
    <3> QED BY <1>2, <2>1, <2>2, <2>8, <2>9, <3>1, <3>2
            DEF OwnersStore!OwnStep, OwnersStore!BreakOff
  <2>11. CASE tab[t].account # Owner
    <3>1. \A c : c \notin LocalOf(Owner)[b]
      BY <1>2, <2>3, <2>11, LocalAt
    <3>2. LocalOf(Owner)' = LocalOf(Owner)
      BY <2>7, <2>8, <3>1, LocalUnchanged
    <3>3. \A d : (\E u \in Tabs : BrowserOf[u] = d /\ tab'[u].account = Owner /\ Restores(tab'[u]))
            <=> (\E u \in Tabs : BrowserOf[u] = d /\ tab[u].account = Owner /\ Restores(tab[u]))
      BY <1>1, <2>11
    <3>4. AdoptingOf(Owner)' = AdoptingOf(Owner)
      BY <3>3, AdoptingUnchanged
    <3> QED BY <2>1, <2>2, <3>2, <3>4, Forgetting DEF OwnersStore!Drop
  <2> QED BY <2>10, <2>11
<1> QED BY <1>4, <1>5

\* The store of a browser is deleted with its binding.
LEMMA ErasureImplements ==
    ASSUME TypeInv, NEW t \in Tabs, NEW p, tab' = [tab EXCEPT ![t] = p],
           p.pc \in {"put", "closed"}, ~ Restores(tab[t]),
           Writing(p) => Writing(tab[t]) /\ p.up.content = tab[t].up.content,
           store' = [store EXCEPT ![BrowserOf[t]] = {}],
           binding' = [binding EXCEPT ![BrowserOf[t]] = None],
           UNCHANGED <<backup, requests>>
    PROVE  OwnersStore!OwnStep
<1> DEFINE b == BrowserOf[t]
<1>1. /\ tab'[t] = p /\ \A u \in Tabs \ {t} : tab'[u] = tab[u]
      /\ b \in Browsers
  BY BackupAssumption DEF TypeInv, BackupTypeOK
<1>2. /\ \A u \in Tabs : Restores(tab'[u]) <=> Restores(tab[u])
      /\ \A u \in Tabs : Restores(tab[u]) => tab'[u] = tab[u]
  BY <1>1
<1>3. OwnersStore!Drop /\ SavedOf(Owner)' = SavedOf(Owner)
  BY PageDrops DEF OwnersStore!Drop, SavedOf, Loading
<1>4. AdoptingOf(Owner)' = AdoptingOf(Owner)
  BY <1>2, AdoptingUnchanged
<1>5. \A d, x :
        (\E u \in Tabs : BrowserOf[u] = d /\ Restores(tab'[u]) /\ x \in tab'[u].got)
        <=> (\E u \in Tabs : BrowserOf[u] = d /\ Restores(tab[u]) /\ x \in tab[u].got)
  BY <1>2
<1>6. /\ binding'[b] = None /\ None # Owner
      /\ \A d \in Browsers \ {b} : store'[d] = store[d] /\ binding'[d] = binding[d]
  BY <1>1, BackupAssumption DEF TypeInv, BackupTypeOK
<1>7. /\ \A d \in Browsers \ {b} : \A x : x \in LocalOf(Owner)'[d] <=> x \in LocalOf(Owner)[d]
      /\ \A x : x \in LocalOf(Owner)'[b] <=> x \in {}
  BY <1>1, <1>5, <1>6, LocalAt
<1>8. LocalOf(Owner)' = [LocalOf(Owner) EXCEPT ![b] = {}]
  BY <1>1, <1>7, LocalChangesAt
<1> QED BY <1>1, <1>3, <1>4, <1>8 DEF OwnersStore!OwnStep, OwnersStore!Erase

LEMMA UserImplements ==
    ASSUME TypeInv, KeptInv, Unshared, NEW t \in Tabs,
           \/ Leave(t) \/ Logout(t) \/ ResetLocal(t) \/ Open(t) \/ MakeEntry(t)
           \/ \E a \in Accounts, typed \in Passwords : Login(t, a, typed)
    PROVE  OwnersStore!OwnStep
<1> USE DEF serverVars
<1> DEFINE b == BrowserOf[t]
<1>0. /\ tab[t] \in PageStates /\ tab[t].key \in Passwords \cup {None} /\ b \in Browsers
      /\ NewPage(tab[t].key).pc = "closed" /\ NewPage(tab[t].key).up.pc = "none"
  BY NewPageOK, BackupAssumption DEF TypeInv, PageOK, PageStates
<1>1. CASE Leave(t)
  <2>1. PICK key \in {tab[t].key, None} : tab' = [tab EXCEPT ![t] = NewPage(key)]
    BY <1>1 DEF Leave
  <2>2. NewPage(key).pc = "closed" /\ NewPage(key).up.pc = "none"
    BY <1>0, NewPageOK
  <2>3. UNCHANGED <<binding, store, backup, requests>>
    BY <1>1 DEF Leave
  <2> QED BY <2>1, <2>2, <2>3, PageLeft
<1>2. CASE Logout(t)
  <2>1. tab' = [tab EXCEPT ![t] = NewPage(tab[t].key)]
        /\ UNCHANGED <<binding, store, backup, requests>>
    BY <1>2 DEF Logout
  <2> QED BY <1>0, <2>1, PageLeft
<1>3. ASSUME NEW a \in Accounts, NEW typed \in Passwords, Login(t, a, typed)
      PROVE  OwnersStore!OwnStep
  <2>1. tab' = [tab EXCEPT ![t] = NewPage(typed)] /\ UNCHANGED <<binding, store, backup, requests>>
    BY <1>3 DEF Login
  <2>2. NewPage(typed).pc = "closed" /\ NewPage(typed).up.pc = "none"
    BY NewPageOK
  <2> QED BY <2>1, <2>2, PageLeft
<1>4. CASE Open(t)
  <2> DEFINE n == NewPage(tab[t].key)
             p == [n EXCEPT !.pc = "bind", !.account = cookie[b]]
  <2>1. tab' = [tab EXCEPT ![t] = p] /\ UNCHANGED <<binding, store, backup, requests>>
        /\ tab[t].pc = "closed"
    BY <1>4 DEF Open
  <2>2. n \in PageStates
    BY <1>0, NewPageOK DEF PageOK
  <2> HIDE DEF n
  <2>3. p.pc = "bind" /\ p.up = n.up
    BY <2>2 DEF PageStates
  <2>4. ~ Writing(p) /\ ~ Loading(p)
    BY <1>0, <2>3 DEF Writing, Loading, n
  <2> HIDE DEF p
  <2> QED BY <2>1, <2>3, <2>4, PageForgets
<1>5. CASE MakeEntry(t)
  <2> DEFINE c == Len(made) + 1
             p == Scheduled(tab[t])
  <2>1. /\ UNCHANGED <<binding, backup, requests>> /\ c \in Entries /\ tab[t].pc = "ready"
        /\ store' = [store EXCEPT ![b] = store[b] \cup {c}] /\ tab' = [tab EXCEPT ![t] = p]
    BY <1>5, BackupAssumption DEF MakeEntry, TypeInv, BackupTypeOK, Entries
  <2>2. p.pc = "ready" /\ p.account = tab[t].account /\ p.up = tab[t].up
    BY <1>0, <2>1 DEF Scheduled, PageStates
  <2>3. tab'[t] = p /\ \A u \in Tabs \ {t} : tab'[u] = tab[u]
    BY <2>1 DEF TypeInv, BackupTypeOK
  <2> HIDE DEF p, c
  <2>4. /\ WrittenOf(Owner)' = WrittenOf(Owner) /\ LoadedOf(Owner)' = LoadedOf(Owner)
        /\ SavedOf(Owner)' = SavedOf(Owner)
    <3>1. \A u \in Tabs : /\ tab'[u].pc = tab[u].pc /\ tab'[u].account = tab[u].account
                          /\ tab'[u].up = tab[u].up
                          /\ tab'[u].pc = "apply" => tab'[u].got = tab[u].got
      BY <2>1, <2>2, <2>3
    <3>2. /\ WrittenOf(Owner)' \subseteq WrittenOf(Owner) /\ LoadedOf(Owner)' \subseteq LoadedOf(Owner)
          /\ WrittenOf(Owner) \subseteq WrittenOf(Owner)' /\ LoadedOf(Owner) \subseteq LoadedOf(Owner)'
      BY <2>1, <3>1, Views DEF ViewsAre, WrittenIs, LoadedIs, Writing, Loading
    <3> QED BY <2>1, <3>2 DEF SavedOf
  <2>5. /\ \A u \in Tabs : Restores(tab'[u]) <=> Restores(tab[u])
        /\ \A u \in Tabs : Restores(tab[u]) => tab'[u] = tab[u]
    BY <2>1, <2>2, <2>3
  <2>6. AdoptingOf(Owner)' = AdoptingOf(Owner)
    BY <2>5, AdoptingUnchanged
  <2>7. \A d, x : (\E u \in Tabs : BrowserOf[u] = d /\ Restores(tab'[u]) /\ x \in tab'[u].got)
              <=> (\E u \in Tabs : BrowserOf[u] = d /\ Restores(tab[u]) /\ x \in tab[u].got)
    BY <2>5
  <2>8. \A d \in Browsers \ {b} : \A x : x \in LocalOf(Owner)'[d] <=> x \in LocalOf(Owner)[d]
    BY <1>0, <2>1, <2>7, LocalAt DEF TypeInv, BackupTypeOK
  <2>9. store'[b] = store[b] \cup {c} /\ binding' = binding
    BY <1>0, <2>1 DEF TypeInv, BackupTypeOK
  <2>10. CASE binding[b] = Owner
    <3>1. \A x : x \in LocalOf(Owner)'[b] <=> x \in LocalOf(Owner)[b] \cup {c}
      BY <1>0, <2>7, <2>9, <2>10, LocalAt
    <3>2. LocalOf(Owner)' = [LocalOf(Owner) EXCEPT ![b] = LocalOf(Owner)[b] \cup {c}]
      BY <1>0, <2>8, <3>1, LocalChangesAt
    <3> QED BY <1>0, <2>1, <2>4, <2>6, <3>2 DEF OwnersStore!OwnStep, OwnersStore!Make
  <2>11. CASE binding[b] # Owner
    <3>1. \A x : x \in LocalOf(Owner)'[b] <=> x \in LocalOf(Owner)[b]
      BY <1>0, <2>9, <2>11, LocalAt
    <3>2. LocalOf(Owner)' = LocalOf(Owner)
      BY <2>8, <3>1, LocalUnchanged
    <3> QED BY <2>4, <2>6, <3>2, Forgetting
  <2> QED BY <2>10, <2>11
<1>6. CASE ResetLocal(t)
  <2> DEFINE p == NewPage(tab[t].key)
  <2>1. /\ tab' = [tab EXCEPT ![t] = p] /\ tab[t].pc = "ready"
        /\ UNCHANGED <<backup, requests>>
        /\ store' = [store EXCEPT ![b] = {}] /\ binding' = [binding EXCEPT ![b] = None]
    BY <1>6 DEF ResetLocal
  <2>2. p.pc = "closed" /\ ~ Writing(p)
    BY <1>0 DEF Writing
  <2> HIDE DEF p
  <2> QED BY <2>1, <2>2, ErasureImplements
<1> QED BY <1>1, <1>2, <1>3, <1>4, <1>5, <1>6

-----------------------------------------------------------------------------
(* The steps of a page that is loading.                                    *)

\* A page puts the binding of a store that is bound to its account or has none.
LEMMA BindingImplements ==
    ASSUME TypeInv, KeptInv, Unshared, NEW t \in Tabs, PutBinding(t)
    PROVE  OwnersStore!OwnStep
<1> USE DEF serverVars
<1> DEFINE b == BrowserOf[t]
           p == [tab[t] EXCEPT !.pc = "fetch"]
           a == tab[t].account
<1>0. PageOK(tab[t]) /\ tab[t] \in PageStates /\ b \in Browsers /\ PageKept(tab[t], b)
  BY BackupAssumption DEF TypeInv, PageOK, KeptInv
<1>1. /\ tab' = [tab EXCEPT ![t] = p] /\ tab[t].pc = "put" /\ UNCHANGED <<store, backup, requests>>
      /\ \A d \in Browsers \ {b} : binding'[d] = binding[d]
      /\ binding'[b] = a /\ a \in Accounts /\ binding[b] \in {None, a}
  BY <1>0 DEF PutBinding, PageOK, PageKept, Unshared, TypeInv, BackupTypeOK
<1>2. p.pc = "fetch" /\ p.account = a /\ p.up = tab[t].up
  BY <1>0 DEF PageStates
<1>3. tab'[t] = p /\ \A u \in Tabs \ {t} : tab'[u] = tab[u]
  BY <1>1 DEF TypeInv, BackupTypeOK
<1>4. Writing(p) => Writing(tab[t]) /\ p.up.content = tab[t].up.content
  BY <1>2 DEF Writing
<1>5. ~ Loading(p)
  BY <1>2 DEF Loading
<1> HIDE DEF p
<1>6. WrittenOf(Owner)' \subseteq WrittenOf(Owner) /\ LoadedOf(Owner)' \subseteq LoadedOf(Owner)
  BY <1>1, <1>4, <1>5, PageDrops
<1>7. SavedOf(Owner)' = SavedOf(Owner)
  BY <1>1 DEF SavedOf
<1>8. /\ \A u \in Tabs : Restores(tab'[u]) <=> Restores(tab[u])
      /\ \A u \in Tabs : Restores(tab[u]) => tab'[u] = tab[u]
  BY <1>1, <1>2, <1>3
<1>9. AdoptingOf(Owner)' = AdoptingOf(Owner)
  BY <1>8, AdoptingUnchanged
<1>10. \A d, x :
        (\E u \in Tabs : BrowserOf[u] = d /\ Restores(tab'[u]) /\ x \in tab'[u].got)
        <=> (\E u \in Tabs : BrowserOf[u] = d /\ Restores(tab[u]) /\ x \in tab[u].got)
  BY <1>8
<1>11. \A d \in Browsers \ {b} : \A x : x \in LocalOf(Owner)'[d] <=> x \in LocalOf(Owner)[d]
  BY <1>1, <1>10, LocalAt
<1>12. binding[b] = None => store[b] = {}
  BY <1>0, UnboundIsStrayed DEF Unshared
<1>13. binding[b] = None => \A u \in Tabs : BrowserOf[u] = b => ~ Restores(tab[u])
  BY DEF TypeInv, BoundOK, Past
<1>14. \A x : x \in LocalOf(Owner)'[b] <=> x \in LocalOf(Owner)[b]
  <2>1. CASE binding[b] = a
    BY <1>0, <1>1, <1>10, <2>1, LocalAt
  <2>2. CASE binding[b] = None
    <3>1. \A x : x \notin LocalOf(Owner)'[b] /\ x \notin LocalOf(Owner)[b]
      BY <1>0, <1>1, <1>10, <1>12, <1>13, <2>2, LocalAt
    <3> QED BY <3>1
  <2> QED BY <1>1, <2>1, <2>2
<1>15. LocalOf(Owner)' = LocalOf(Owner)
  BY <1>11, <1>14, LocalUnchanged
<1> QED BY <1>6, <1>7, <1>9, <1>15, Forgetting

LEMMA LoadingIsUnseen ==
    ASSUME TypeInv, KeptInv, Unshared, NEW t \in Tabs,
           ReadBinding(t) \/ EraseOther(t) \/ Rebind(t) \/ Fetch(t)
    PROVE  OwnersStore!OwnStep
<1> USE DEF serverVars
<1> DEFINE b == BrowserOf[t]
<1>0. PageOK(tab[t]) /\ tab[t] \in PageStates /\ b \in Browsers /\ PageKept(tab[t], b)
  BY BackupAssumption DEF TypeInv, PageOK, KeptInv
<1>1. ASSUME NEW pc, pc \in {"erase", "put", "fill"}
      PROVE  LET p == [tab[t] EXCEPT !.pc = pc]
             IN  /\ p.pc = pc /\ p.up = tab[t].up /\ p.account = tab[t].account
                 /\ p.got = tab[t].got /\ ~ Loading(p)
                 /\ Writing(p) => Writing(tab[t]) /\ p.up.content = tab[t].up.content
  BY <1>0, <1>1 DEF PageStates, Writing, Loading
<1>3. CASE ReadBinding(t)
  <2>1. PICK pc \in {"erase", "put"} : tab' = [tab EXCEPT ![t] = [tab[t] EXCEPT !.pc = pc]]
    BY <1>3 DEF ReadBinding
  <2>2. tab[t].pc = "bind" /\ UNCHANGED <<binding, store, backup, requests>>
    BY <1>3 DEF ReadBinding
  <2> DEFINE p == [tab[t] EXCEPT !.pc = pc]
  <2>3. /\ tab' = [tab EXCEPT ![t] = p] /\ p.pc = pc /\ ~ Loading(p)
        /\ Writing(p) => Writing(tab[t]) /\ p.up.content = tab[t].up.content
    BY <1>1, <2>1
  <2> HIDE DEF p
  <2> QED BY <2>2, <2>3, PageForgets
<1>4. CASE EraseOther(t)
  <2> DEFINE p == [tab[t] EXCEPT !.pc = "put"]
  <2>1. /\ tab' = [tab EXCEPT ![t] = p] /\ tab[t].pc = "erase" /\ UNCHANGED <<backup, requests>>
        /\ store' = [store EXCEPT ![b] = {}] /\ binding' = [binding EXCEPT ![b] = None]
    BY <1>4 DEF EraseOther
  <2>2. /\ p.pc = "put"
        /\ Writing(p) => Writing(tab[t]) /\ p.up.content = tab[t].up.content
    BY <1>1
  <2> HIDE DEF p
  <2> QED BY <2>1, <2>2, ErasureImplements
<1>5. CASE Rebind(t)
  <2> DEFINE p == [tab[t] EXCEPT !.pc = "fill"]
  <2>1. /\ tab' = [tab EXCEPT ![t] = p] /\ tab[t].pc = "rebind"
        /\ UNCHANGED <<store, backup, requests>>
        /\ binding' = [binding EXCEPT ![b] = tab[t].account]
    BY <1>5 DEF Rebind
  <2>2. binding' = binding
    BY <1>0, <2>1 DEF PageKept, Past, Unshared, TypeInv, BackupTypeOK
  <2>3. /\ p.pc = "fill" /\ p.account = tab[t].account /\ p.got = tab[t].got /\ ~ Loading(p)
        /\ Writing(p) => Writing(tab[t]) /\ p.up.content = tab[t].up.content
    BY <1>1
  <2> HIDE DEF p
  <2> QED BY <2>1, <2>2, <2>3, PageForgets
<1>2. CASE Fetch(t)
  <2> DEFINE copy == CopyFor(t)
  <2>1. PICK p : tab' = [tab EXCEPT ![t] = p] /\
           \/ p = [tab[t] EXCEPT !.pc = "ready"]
           \/ p = [tab[t] EXCEPT !.pc = "locked"]
           \/ /\ copy # None /\ copy.account = tab[t].account
              /\ p = [tab[t] EXCEPT !.pc = "apply", !.got = copy.content]
    BY <1>2, Zenon DEF Fetch, MayRestore
  <2>2. tab[t].pc = "fetch" /\ UNCHANGED <<store, binding, backup, requests>>
    BY <1>2 DEF Fetch
  <2>3. copy # None => \E a \in Accounts : copy = backup[a] /\ backup[a] # None
    BY <1>0 DEF CopyFor, TypeInv, BackupTypeOK
  <2> HIDE DEF copy
  <2>4. /\ p.account = tab[t].account /\ p.up = tab[t].up /\ p.pc \in {"ready", "locked", "apply"}
        /\ p.pc = "apply" => /\ copy # None /\ copy.account = p.account /\ p.got = copy.content
    BY <1>0, <2>1 DEF PageStates
  <2>5. Writing(p) => Writing(tab[t]) /\ p.up.content = tab[t].up.content
    BY <2>4 DEF Writing
  <2>6. CASE ~ Loading(p)
    BY <2>1, <2>2, <2>4, <2>5, <2>6, PageForgets
  <2>7. CASE Loading(p)
    <3>1. copy.content \in SavedOf(Owner) /\ p.got = copy.content
      BY <2>3, <2>4, <2>7, Views DEF ViewsAre, SavedIs, Loading
    <3>2. tab'[t] = p /\ \A u \in Tabs \ {t} : tab'[u] = tab[u]
      BY <2>1 DEF TypeInv, BackupTypeOK
    <3>3. \A x : x \in LoadedOf(Owner)' <=> \E u \in Tabs : Loading(tab'[u]) /\ x = tab'[u].got
      BY Views DEF ViewsAre, LoadedIs, Loading
    <3>4. ~ Loading(tab[t])
      BY <2>2 DEF Loading
    <3>5. \A x : (\E u \in Tabs : Loading(tab'[u]) /\ x = tab'[u].got)
             <=> x = p.got \/ \E u \in Tabs : Loading(tab[u]) /\ x = tab[u].got
      BY <2>7, <3>2, <3>4
    <3>6. LoadedOf(Owner)' = LoadedOf(Owner) \cup {copy.content}
      BY <3>1, <3>3, <3>5, Views DEF ViewsAre, LoadedIs
    <3>7. WrittenOf(Owner)' = WrittenOf(Owner)
      <4>1. \A u \in Tabs : tab'[u].up = tab[u].up /\ tab'[u].account = tab[u].account
        BY <2>4, <3>2
      <4>2. /\ WrittenOf(Owner)' \subseteq WrittenOf(Owner)
            /\ WrittenOf(Owner) \subseteq WrittenOf(Owner)'
        BY <2>2, <4>1, Views DEF ViewsAre, WrittenIs, Writing
      <4> QED BY <4>2
    <3>8. /\ LocalOf(Owner)' = LocalOf(Owner) /\ AdoptingOf(Owner)' = AdoptingOf(Owner)
          /\ SavedOf(Owner)' = SavedOf(Owner)
      BY <2>1, <2>2, <2>4, PageUnseen
    <3> QED BY <3>1, <3>6, <3>7, <3>8 DEF OwnersStore!OwnStep, OwnersStore!Load
  <2> QED BY <2>6, <2>7
<1> QED BY <1>2, <1>3, <1>4, <1>5

LEMMA RestoringImplements ==
    ASSUME TypeInv, KeptInv, Unshared, NEW t \in Tabs, Apply(t) \/ Fill(t) \/ FillEnds(t)
    PROVE  OwnersStore!OwnStep
<1> USE DEF serverVars
<1> DEFINE b == BrowserOf[t]
<1>0. /\ tab[t] \in PageStates /\ b \in Browsers /\ tab[t].pc \in {"apply", "fill"}
      /\ binding[b] = tab[t].account
  BY BackupAssumption DEF TypeInv, PageOK, KeptInv, PageKept, Past, Unshared, Apply, Fill, FillEnds
<1>1. UNCHANGED <<binding, backup, requests>>
  BY DEF Apply, Fill, FillEnds
<1>2. SavedOf(Owner)' = SavedOf(Owner)
  BY <1>1 DEF SavedOf
<1>3. ASSUME NEW p, tab' = [tab EXCEPT ![t] = p],
             p.account = tab[t].account, p.up = tab[t].up
      PROVE  WrittenOf(Owner)' = WrittenOf(Owner)
  <2>1. tab'[t] = p /\ \A u \in Tabs \ {t} : tab'[u] = tab[u]
    BY <1>3 DEF TypeInv, BackupTypeOK
  <2>2. \A u \in Tabs : tab'[u].up = tab[u].up /\ tab'[u].account = tab[u].account
    BY <1>3, <2>1
  <2>3. /\ WrittenOf(Owner)' \subseteq WrittenOf(Owner)
        /\ WrittenOf(Owner) \subseteq WrittenOf(Owner)'
    BY <1>1, <2>2, Views DEF ViewsAre, WrittenIs, Writing
  <2> QED BY <2>3
<1>4. CASE Apply(t)
  <2> DEFINE p == [tab[t] EXCEPT !.pc = "rebind", !.suppressed = TRUE]
             content == tab[t].got
  <2>1. tab' = [tab EXCEPT ![t] = p] /\ tab[t].pc = "apply"
        /\ store'[b] = {} /\ \A d \in Browsers \ {b} : store'[d] = store[d]
    BY <1>0, <1>4 DEF Apply, TypeInv, BackupTypeOK
  <2>2. /\ Restores(p) /\ p.account = tab[t].account /\ p.up = tab[t].up /\ p.got = content
    BY <1>0 DEF PageStates
  <2>3. tab'[t] = p /\ \A u \in Tabs \ {t} : tab'[u] = tab[u]
    BY <2>1 DEF TypeInv, BackupTypeOK
  <2> HIDE DEF p
  <2>4. WrittenOf(Owner)' = WrittenOf(Owner)
    BY <1>3, <2>1, <2>2
  <2>5. \A d \in Browsers \ {b} : \A x : x \in LocalOf(Owner)'[d] <=> x \in LocalOf(Owner)[d]
    <3>1. \A d \in Browsers \ {b} : \A x :
            (\E u \in Tabs : BrowserOf[u] = d /\ Restores(tab'[u]) /\ x \in tab'[u].got)
            <=> (\E u \in Tabs : BrowserOf[u] = d /\ Restores(tab[u]) /\ x \in tab[u].got)
      BY <2>3
    <3> QED BY <1>1, <2>1, <3>1, LocalAt
  <2>6. CASE tab[t].account = Owner
    <3> DEFINE rest == {x \in LocalOf(Owner)[b] :
                  \E u \in Tabs : BrowserOf[u] = b /\ Restores(tab[u]) /\ x \in tab[u].got}
    <3>1. rest = {} \/ b \in AdoptingOf(Owner)
      BY <1>0, <2>6, Views DEF ViewsAre, AdoptingIs, KeptInv, PageKept, Past, Unshared
    <3>2. \A x : x \in rest <=>
             \E u \in Tabs : BrowserOf[u] = b /\ Restores(tab[u]) /\ x \in tab[u].got
      BY <1>0, <2>6, LocalAt
    <3>3. \A x : (\E u \in Tabs : BrowserOf[u] = b /\ Restores(tab'[u]) /\ x \in tab'[u].got)
             <=> x \in content \/
                 \E u \in Tabs : BrowserOf[u] = b /\ Restores(tab[u]) /\ x \in tab[u].got
      BY <2>1, <2>2, <2>3
    <3>4. rest \subseteq LocalOf(Owner)[b]
      OBVIOUS
    <3> HIDE DEF rest
    <3>5. \A x : x \in LocalOf(Owner)'[b] <=> x \in content \cup rest
      BY <1>0, <1>1, <2>1, <2>6, <3>2, <3>3, LocalAt
    <3>6. LocalOf(Owner)' = [LocalOf(Owner) EXCEPT ![b] = content \cup rest]
      BY <1>0, <2>5, <3>5, LocalChangesAt
    <3>7. content \in LoadedOf(Owner)
      BY <2>1, <2>6, Views DEF ViewsAre, LoadedIs, Loading
    <3>8. LoadedOf(Owner)' \in {LoadedOf(Owner), LoadedOf(Owner) \ {content}}
      <4>1. \A x : x \in LoadedOf(Owner)' <=> \E u \in Tabs : Loading(tab'[u]) /\ x = tab'[u].got
        BY Views DEF ViewsAre, LoadedIs, Loading
      <4>2. ~ Loading(tab'[t]) /\ \A u \in Tabs \ {t} : tab'[u] = tab[u]
        BY <2>2, <2>3 DEF Loading
      <4>3. LoadedOf(Owner)' \subseteq LoadedOf(Owner)
        BY <4>1, <4>2, Views DEF ViewsAre, LoadedIs
      <4>4. \A x : x \in LoadedOf(Owner) /\ x # content => x \in LoadedOf(Owner)'
        <5> SUFFICES ASSUME NEW x \in LoadedOf(Owner), x # content
                     PROVE  x \in LoadedOf(Owner)'
          OBVIOUS
        <5>1. PICK u \in Tabs : Loading(tab[u]) /\ x = tab[u].got
          BY Views DEF ViewsAre, LoadedIs
        <5> QED BY <4>1, <4>2, <5>1
      <4> QED BY <4>3, <4>4
    <3>9. AdoptingOf(Owner)' = AdoptingOf(Owner) \cup {b}
      <4>1. AdoptingOf(Owner) \subseteq Browsers /\ AdoptingOf(Owner)' \subseteq Browsers
        BY Views DEF ViewsAre, AdoptingIs
      <4>2. \A d \in Browsers : d \in AdoptingOf(Owner)' <=> d \in AdoptingOf(Owner) \/ d = b
        <5>1. \A d : (\E u \in Tabs : BrowserOf[u] = d /\ tab'[u].account = Owner /\ Restores(tab'[u]))
                 <=> d = b \/
                     \E u \in Tabs : BrowserOf[u] = d /\ tab[u].account = Owner /\ Restores(tab[u])
          BY <2>1, <2>2, <2>3, <2>6
        <5> QED BY <5>1, Views DEF ViewsAre, AdoptingIs
      <4> QED BY <1>0, <4>1, <4>2
    <3> QED BY <1>0, <1>2, <2>4, <3>1, <3>4, <3>6, <3>7, <3>8, <3>9
            DEF OwnersStore!OwnStep, OwnersStore!Adopt
  <2>7. CASE tab[t].account # Owner
    <3>1. \A x : x \notin LocalOf(Owner)'[b] /\ x \notin LocalOf(Owner)[b]
      BY <1>0, <1>1, <2>7, LocalAt
    <3>2. LocalOf(Owner)' = LocalOf(Owner)
      BY <2>5, <3>1, LocalUnchanged
    <3>3. \A d : (\E u \in Tabs : BrowserOf[u] = d /\ tab'[u].account = Owner /\ Restores(tab'[u]))
             <=> (\E u \in Tabs : BrowserOf[u] = d /\ tab[u].account = Owner /\ Restores(tab[u]))
      BY <2>2, <2>3, <2>7
    <3>4. AdoptingOf(Owner)' = AdoptingOf(Owner)
      BY <3>3, AdoptingUnchanged
    <3>5. ~ Loading(p) /\ (Writing(p) => Writing(tab[t]) /\ p.up.content = tab[t].up.content)
      BY <2>2 DEF Loading, Writing
    <3>6. LoadedOf(Owner)' \subseteq LoadedOf(Owner)
      BY <1>1, <2>1, <3>5, PageDrops
    <3> QED BY <1>2, <2>4, <3>2, <3>4, <3>6, Forgetting
  <2> QED BY <2>6, <2>7
<1>5. CASE Fill(t)
  <2>1. PICK c \in tab[t].got :
           /\ store' = [store EXCEPT ![b] = store[b] \cup {c}]
           /\ tab' = [tab EXCEPT ![t] = [tab[t] EXCEPT !.got = tab[t].got \ {c}]]
    BY <1>5 DEF Fill
  <2> DEFINE p == [tab[t] EXCEPT !.got = tab[t].got \ {c}]
  <2>2. /\ Restores(p) /\ p.account = tab[t].account /\ p.up = tab[t].up
        /\ p.got = tab[t].got \ {c} /\ Restores(tab[t])
    BY <1>0, <1>5 DEF PageStates, Fill
  <2>3. tab' = [tab EXCEPT ![t] = p]
    BY <2>1
  <2> HIDE DEF p
  <2>4. tab'[t] = p /\ \A u \in Tabs \ {t} : tab'[u] = tab[u]
    BY <2>3 DEF TypeInv, BackupTypeOK
  <2>5. store'[b] = store[b] \cup {c} /\ \A d \in Browsers \ {b} : store'[d] = store[d]
    BY <1>0, <2>1 DEF TypeInv, BackupTypeOK
  <2>6. \A d \in Browsers : \A x : x \in LocalOf(Owner)'[d] <=> x \in LocalOf(Owner)[d]
    <3>1. \A d \in Browsers \ {b} : \A x :
            (\E u \in Tabs : BrowserOf[u] = d /\ Restores(tab'[u]) /\ x \in tab'[u].got)
            <=> (\E u \in Tabs : BrowserOf[u] = d /\ Restores(tab[u]) /\ x \in tab[u].got)
      BY <2>4
    <3>2. \A d \in Browsers \ {b} : \A x : x \in LocalOf(Owner)'[d] <=> x \in LocalOf(Owner)[d]
      BY <1>1, <2>5, <3>1, LocalAt
    <3>3. \A x : x # c =>
            ((\E u \in Tabs : BrowserOf[u] = b /\ Restores(tab'[u]) /\ x \in tab'[u].got)
             <=> (\E u \in Tabs : BrowserOf[u] = b /\ Restores(tab[u]) /\ x \in tab[u].got))
      BY <2>2, <2>4
    <3>4. \A x : (x \in store'[b] \/
                  \E u \in Tabs : BrowserOf[u] = b /\ Restores(tab'[u]) /\ x \in tab'[u].got)
             <=> (x \in store[b] \/
                  \E u \in Tabs : BrowserOf[u] = b /\ Restores(tab[u]) /\ x \in tab[u].got)
      BY <2>1, <2>2, <2>5, <3>3
    <3>5. \A x : x \in LocalOf(Owner)'[b] <=> x \in LocalOf(Owner)[b]
      BY <1>0, <1>1, <3>4, LocalAt
    <3> QED BY <3>2, <3>5
  <2>7. LocalOf(Owner)' = LocalOf(Owner)
    BY <2>6, LocalUnchanged
  <2>8. AdoptingOf(Owner)' = AdoptingOf(Owner)
    <3>1. \A d : (\E u \in Tabs : BrowserOf[u] = d /\ tab'[u].account = Owner /\ Restores(tab'[u]))
             <=> (\E u \in Tabs : BrowserOf[u] = d /\ tab[u].account = Owner /\ Restores(tab[u]))
      BY <2>2, <2>4
    <3> QED BY <3>1, AdoptingUnchanged
  <2>9. ~ Loading(p) /\ (Writing(p) => Writing(tab[t]) /\ p.up.content = tab[t].up.content)
    BY <2>2 DEF Loading, Writing
  <2>10. /\ WrittenOf(Owner)' \subseteq WrittenOf(Owner)
         /\ LoadedOf(Owner)' \subseteq LoadedOf(Owner)
    BY <1>1, <2>3, <2>9, PageDrops
  <2> QED BY <1>2, <2>7, <2>8, <2>10, Forgetting
<1>6. CASE FillEnds(t)
  <2> DEFINE p == Resume(tab[t])
  <2>1. tab' = [tab EXCEPT ![t] = p] /\ store' = store /\ Restores(tab[t]) /\ tab[t].got = {}
    BY <1>6 DEF FillEnds
  <2>2. p.pc = "ready" /\ p.account = tab[t].account /\ p.up = tab[t].up
    BY <1>0 DEF Resume, PageStates
  <2>3. tab'[t] = p /\ \A u \in Tabs \ {t} : tab'[u] = tab[u]
    BY <2>1 DEF TypeInv, BackupTypeOK
  <2> HIDE DEF p
  <2>4. WrittenOf(Owner)' = WrittenOf(Owner)
    BY <1>3, <2>1, <2>2
  <2>5. LoadedOf(Owner)' = LoadedOf(Owner)
    <3>1. \A u \in Tabs : /\ Loading(tab'[u]) <=> Loading(tab[u])
                          /\ Loading(tab[u]) => tab'[u] = tab[u]
      BY <2>1, <2>2, <2>3 DEF Loading
    <3>2. \A x : x \in LoadedOf(Owner)' <=> \E u \in Tabs : Loading(tab'[u]) /\ x = tab'[u].got
      BY Views DEF ViewsAre, LoadedIs, Loading
    <3>3. /\ LoadedOf(Owner)' \subseteq LoadedOf(Owner) /\ LoadedOf(Owner) \subseteq LoadedOf(Owner)'
      BY <3>1, <3>2, Views DEF ViewsAre, LoadedIs
    <3> QED BY <3>3
  <2>6. LocalOf(Owner)' = LocalOf(Owner)
    <3>1. \A d, x : (\E u \in Tabs : BrowserOf[u] = d /\ Restores(tab'[u]) /\ x \in tab'[u].got)
                <=> (\E u \in Tabs : BrowserOf[u] = d /\ Restores(tab[u]) /\ x \in tab[u].got)
      BY <2>1, <2>2, <2>3
    <3>2. \A d \in Browsers : \A x : x \in LocalOf(Owner)'[d] <=> x \in LocalOf(Owner)[d]
      BY <1>1, <2>1, <3>1, LocalAt
    <3> QED BY <3>2, LocalUnchanged
  <2>7. AdoptingOf(Owner)' = AdoptingOf(Owner) \/ AdoptingOf(Owner)' = AdoptingOf(Owner) \ {b}
    <3>1. AdoptingOf(Owner) \subseteq Browsers /\ AdoptingOf(Owner)' \subseteq Browsers
      BY Views DEF ViewsAre, AdoptingIs
    <3>2. \A d \in Browsers : /\ d \in AdoptingOf(Owner)' => d \in AdoptingOf(Owner)
                              /\ d \in AdoptingOf(Owner) /\ d # b => d \in AdoptingOf(Owner)'
      <4>1. \A d : (\E u \in Tabs : BrowserOf[u] = d /\ tab'[u].account = Owner /\ Restores(tab'[u]))
               => \E u \in Tabs : BrowserOf[u] = d /\ tab[u].account = Owner /\ Restores(tab[u])
        BY <2>2, <2>3
      <4>2. \A d : d # b
               /\ (\E u \in Tabs : BrowserOf[u] = d /\ tab[u].account = Owner /\ Restores(tab[u]))
               => \E u \in Tabs : BrowserOf[u] = d /\ tab'[u].account = Owner /\ Restores(tab'[u])
        BY <2>3
      <4> QED BY <4>1, <4>2, Views DEF ViewsAre, AdoptingIs
    <3> QED BY <3>1, <3>2
  <2> QED BY <1>0, <1>2, <2>4, <2>5, <2>6, <2>7, Forgetting
          DEF OwnersStore!OwnStep, OwnersStore!Adopted
<1> QED BY <1>4, <1>5, <1>6

-----------------------------------------------------------------------------
(* Uploads and the server.                                                 *)

LEMMA UploadImplements ==
    ASSUME TypeInv, KeptInv, Unshared, NEW t \in Tabs, UploadStep(t) \/ UploadFails(t)
    PROVE  OwnersStore!OwnStep
<1> USE DEF serverVars
<1> DEFINE b == BrowserOf[t]
<1>0. /\ PageOK(tab[t]) /\ tab[t] \in PageStates /\ tab[t].up \in UploadStates /\ b \in Browsers
      /\ PageKept(tab[t], b)
  BY BackupAssumption DEF TypeInv, PageOK, PageStates, KeptInv, UploadStates
<1>1. UNCHANGED <<binding, store, backup>>
  BY DEF UploadStep, StartUpload, TakeSnapshot, Send, Refused, UploadEnds, UploadFails
\* What an upload does to the page: only its last field and the timer change.
<1>2. ASSUME NEW p, tab' = [tab EXCEPT ![t] = p],
             \E up : p = [tab[t] EXCEPT !.up = up] \/ p = [tab[t] EXCEPT !.timer = FALSE, !.up = up]
      PROVE  /\ p.pc = tab[t].pc /\ p.account = tab[t].account /\ p.got = tab[t].got
             /\ LocalOf(Owner)' = LocalOf(Owner) /\ AdoptingOf(Owner)' = AdoptingOf(Owner)
             /\ SavedOf(Owner)' = SavedOf(Owner) /\ LoadedOf(Owner)' = LoadedOf(Owner)
  <2>1. p.pc = tab[t].pc /\ p.account = tab[t].account /\ p.got = tab[t].got
    BY <1>0, <1>2 DEF PageStates
  <2>2. tab'[t] = p /\ \A u \in Tabs \ {t} : tab'[u] = tab[u]
    BY <1>2 DEF TypeInv, BackupTypeOK
  <2>3. \A u \in Tabs : (Loading(tab'[u]) <=> Loading(tab[u])) /\ tab'[u].got = tab[u].got
    BY <2>1, <2>2 DEF Loading
  <2>4. \A x : x \in LoadedOf(Owner)' <=> \E u \in Tabs : Loading(tab'[u]) /\ x = tab'[u].got
    BY Views DEF ViewsAre, LoadedIs, Loading
  <2>5. LoadedOf(Owner)' \subseteq LoadedOf(Owner) /\ LoadedOf(Owner) \subseteq LoadedOf(Owner)'
    BY <2>3, <2>4, Views DEF ViewsAre, LoadedIs
  <2> QED BY <1>1, <1>2, <2>1, <2>5, PageUnseen
\* An upload that has begun or ended has no content.
<1>3. ASSUME NEW p, tab' = [tab EXCEPT ![t] = p], requests' = requests,
             \E up : /\ p = [tab[t] EXCEPT !.up = up] \/ p = [tab[t] EXCEPT !.timer = FALSE, !.up = up]
                     /\ up.pc \notin {"taken", "sent"}
      PROVE  OwnersStore!OwnStep
  <2>1. p.up.pc \notin {"taken", "sent"}
    BY <1>0, <1>3 DEF PageStates
  <2>2. ~ Writing(p) /\ (Loading(p) => Loading(tab[t]) /\ p.got = tab[t].got)
    BY <1>2, <1>3, <2>1 DEF Writing, Loading
  <2>3. WrittenOf(Owner)' \subseteq WrittenOf(Owner)
    BY <1>3, <2>2, PageDrops
  <2> QED BY <1>2, <1>3, <2>3, Forgetting
<1>4. CASE StartUpload(t)
  <2> DEFINE up == [NoUpload EXCEPT !.pc = "started", !.account = binding[b]]
             p == [tab[t] EXCEPT !.timer = FALSE, !.up = up]
  <2>1. tab' = [tab EXCEPT ![t] = p] /\ requests' = requests
    BY <1>4 DEF StartUpload
  <2>2. up.pc = "started"
    BY UploadStatesAre DEF UploadStates
  <2> QED BY <1>3, <2>1, <2>2
<1>5. ASSUME tab' = [tab EXCEPT ![t] = [tab[t] EXCEPT !.up = NoUpload]], requests' = requests
      PROVE  OwnersStore!OwnStep
  BY <1>3, <1>5, UploadStatesAre
<1>6. CASE Refused(t)
  BY <1>5, <1>6 DEF Refused
<1>7. CASE UploadEnds(t)
  BY <1>5, <1>7 DEF UploadEnds, Settled
<1>8. CASE UploadFails(t)
  BY <1>5, <1>8 DEF UploadFails, Settled
<1>9. CASE TakeSnapshot(t)
  <2> DEFINE part == store[b]
             up == [tab[t].up EXCEPT !.pc = "taken", !.content = part]
             p == [tab[t] EXCEPT !.up = up]
  <2>1. tab' = [tab EXCEPT ![t] = p] /\ requests' = requests /\ tab[t].up.pc = "started"
    BY <1>9 DEF TakeSnapshot
  <2>2. up.pc = "taken" /\ up.content = part /\ up.account = tab[t].up.account
    BY <1>0 DEF UploadStates
  <2> HIDE DEF up, part
  <2>3. p.up = up
    BY <1>0 DEF PageStates
  <2>4. tab'[t] = p /\ \A u \in Tabs \ {t} : tab'[u] = tab[u]
    BY <2>1 DEF TypeInv, BackupTypeOK
  <2>5. p.account = tab[t].account
    BY <1>2, <2>1
  <2> HIDE DEF p
  <2>6. \A x : x \in WrittenOf(Owner)' <=>
            \/ \E u \in Tabs : Writing(tab'[u]) /\ x = tab'[u].up.content
            \/ \E r \in requests : r.account = Owner /\ x = r.content
    BY <2>1, Views DEF ViewsAre, WrittenIs, Writing
  <2>7. ~ Writing(tab[t])
    BY <2>1 DEF Writing
  <2>8. CASE tab[t].up.account = Owner
    <3>1. Writing(p) /\ p.up.content = part
      BY <2>2, <2>3, <2>8 DEF Writing
    <3>2. \A x : (\E u \in Tabs : Writing(tab'[u]) /\ x = tab'[u].up.content)
             <=> x = part \/ \E u \in Tabs : Writing(tab[u]) /\ x = tab[u].up.content
      BY <2>4, <2>7, <3>1
    <3>3. WrittenOf(Owner)' = WrittenOf(Owner) \cup {part}
      BY <2>6, <3>2, Views DEF ViewsAre, WrittenIs
    <3>4. binding[b] = Owner
      BY <1>0, <2>1, <2>8 DEF PageKept, Unshared
    <3>5. part \subseteq LocalOf(Owner)[b]
      BY <1>0, <3>4, LocalAt DEF part
    <3>6. part = LocalOf(Owner)[b] \/ b \in AdoptingOf(Owner)
      <4>1. CASE \E u \in Tabs : BrowserOf[u] = b /\ Restores(tab[u])
        <5>1. PICK u \in Tabs : BrowserOf[u] = b /\ Restores(tab[u])
          BY <4>1
        <5>2. tab[u].account = Owner
          BY <3>4, <5>1 DEF KeptInv, PageKept, Past, Unshared
        <5> QED BY <1>0, <5>1, <5>2, Views DEF ViewsAre, AdoptingIs
      <4>2. CASE ~ \E u \in Tabs : BrowserOf[u] = b /\ Restores(tab[u])
        <5>1. \A x : x \in LocalOf(Owner)[b] => x \in part
          BY <1>0, <4>2, LocalAt DEF part
        <5> QED BY <3>5, <5>1
      <4> QED BY <4>1, <4>2
    <3> QED BY <1>0, <1>2, <2>1, <3>3, <3>5, <3>6
            DEF p, OwnersStore!OwnStep, OwnersStore!Write
  <2>9. CASE tab[t].up.account # Owner
    <3>1. ~ Writing(p) /\ (Loading(p) => Loading(tab[t]) /\ p.got = tab[t].got)
      BY <1>2, <2>1, <2>2, <2>3, <2>9 DEF p, Writing, Loading
    <3>2. WrittenOf(Owner)' \subseteq WrittenOf(Owner)
      BY <2>1, <3>1, PageDrops
    <3> QED BY <1>2, <2>1, <3>2, Forgetting DEF p
  <2> QED BY <2>8, <2>9
<1>10. CASE Send(t)
  <2> DEFINE a == cookie[b]
             up == [tab[t].up EXCEPT !.pc = "sent", !.to = a]
             p == [tab[t] EXCEPT !.up = up]
             r == RequestOf(t, a)
  <2>1. tab' = [tab EXCEPT ![t] = p] /\ requests' = requests \cup {r} /\ tab[t].up.pc = "taken"
    BY <1>10 DEF Send
  <2>2. r.account = tab[t].up.account /\ r.content = tab[t].up.content
    BY DEF RequestOf
  <2>3. up.pc = "sent" /\ up.content = tab[t].up.content /\ up.account = tab[t].up.account
    BY <1>0 DEF UploadStates
  <2> HIDE DEF up, r
  <2>4. p.up = up /\ p.account = tab[t].account
    BY <1>0, <1>2, <2>1 DEF PageStates
  <2>5. tab'[t] = p /\ \A u \in Tabs \ {t} : tab'[u] = tab[u]
    BY <2>1 DEF TypeInv, BackupTypeOK
  <2>6. \A u \in Tabs : /\ Writing(tab'[u]) <=> Writing(tab[u])
                        /\ tab'[u].up.content = tab[u].up.content
    <3> HIDE DEF p
    <3> QED BY <2>1, <2>3, <2>4, <2>5 DEF Writing
  <2>7. r.account = Owner => Writing(tab[t]) /\ r.content = tab[t].up.content
    BY <2>1, <2>2 DEF Writing
  <2>8. \A x : x \in WrittenOf(Owner)' <=>
            \/ \E u \in Tabs : Writing(tab'[u]) /\ x = tab'[u].up.content
            \/ \E q \in requests' : q.account = Owner /\ x = q.content
    BY Views DEF ViewsAre, WrittenIs, Writing
  <2>9. WrittenOf(Owner)' \subseteq WrittenOf(Owner)
    BY <2>1, <2>6, <2>7, <2>8, Views DEF ViewsAre, WrittenIs
  <2> QED BY <1>2, <2>1, <2>9, Forgetting
<1> QED BY <1>4, <1>6, <1>7, <1>8, <1>9, <1>10 DEF UploadStep

LEMMA ServerImplements ==
    ASSUME TypeInv, KeptInv, Unshared,
           (\E a \in Accounts : ResetPassword(a))
           \/ (\E r \in requests : PutBackup(r) \/ RequestLost(r))
    PROVE  OwnersStore!OwnStep
<1> USE DEF serverVars
<1>1. UNCHANGED <<store, binding, tab>>
  BY DEF ResetPassword, PutBackup, RequestLost
<1>2. /\ LocalOf(Owner)' = LocalOf(Owner) /\ AdoptingOf(Owner)' = AdoptingOf(Owner)
      /\ LoadedOf(Owner)' = LoadedOf(Owner)
  BY <1>1 DEF LocalOf, ComingTo, AdoptingOf, LoadedOf
<1>3. requests' \subseteq requests => WrittenOf(Owner)' \subseteq WrittenOf(Owner)
  BY <1>1, Views DEF ViewsAre, WrittenIs
<1>4. ASSUME NEW a \in Accounts, ResetPassword(a) PROVE OwnersStore!OwnStep
  BY <1>2, <1>3, <1>4, Forgetting DEF ResetPassword, SavedOf
<1>5. ASSUME NEW r \in requests, RequestLost(r) PROVE OwnersStore!OwnStep
  <2>1. requests' \subseteq requests /\ SavedOf(Owner)' = SavedOf(Owner)
    BY <1>5 DEF RequestLost, SavedOf
  <2> QED BY <1>2, <1>3, <2>1, Forgetting
<1>6. ASSUME NEW r \in requests, PutBackup(r) PROVE OwnersStore!OwnStep
  <2> DEFINE copy == [account |-> r.account, content |-> r.content, key |-> r.key]
  <2>1. r \in Requests /\ requests' = requests \ {r} /\ backup' = [backup EXCEPT ![r.to] = copy]
    BY <1>6 DEF PutBackup, Replaced, TypeInv, BackupTypeOK
  <2>2. /\ backup'[r.to] = copy /\ r.to \in Accounts
        /\ \A a \in Accounts \ {r.to} : backup'[a] = backup[a]
    BY <2>1 DEF Requests, TypeInv, BackupTypeOK
  <2>3. copy.account = r.account /\ copy.content = r.content /\ copy # None
    <3>1. copy \in Backups
      BY <2>1 DEF Requests, Backups
    <3> QED BY <3>1, BackupAssumption
  <2> HIDE DEF copy
  <2>4. \A x : x \in SavedOf(Owner)' <=>
            \E a \in Accounts : /\ backup'[a] # None /\ backup'[a].account = Owner
                                /\ x = backup'[a].content
    BY Views DEF ViewsAre, SavedIs
  <2>5. CASE r.account = Owner
    <3> DEFINE kept == {x \in SavedOf(Owner) :
                  \E a \in Accounts \ {r.to} : /\ backup[a] # None /\ backup[a].account = Owner
                                               /\ x = backup[a].content}
    <3>1. \A x : x \in kept <=>
             \E a \in Accounts \ {r.to} : /\ backup[a] # None /\ backup[a].account = Owner
                                          /\ x = backup[a].content
      BY Views DEF ViewsAre, SavedIs
    <3>2. kept \in SUBSET SavedOf(Owner)
      OBVIOUS
    <3> HIDE DEF kept
    <3>3. SavedOf(Owner)' = kept \cup {r.content}
      BY <2>2, <2>3, <2>4, <2>5, <3>1
    <3>4. r.content \in WrittenOf(Owner)
      BY <2>5, Views DEF ViewsAre, WrittenIs
    <3>5. WrittenOf(Owner)' \in {WrittenOf(Owner), WrittenOf(Owner) \ {r.content}}
      <4>1. \A x : x \in WrittenOf(Owner)' <=>
                \/ \E u \in Tabs : Writing(tab[u]) /\ x = tab[u].up.content
                \/ \E q \in requests' : q.account = Owner /\ x = q.content
        BY <1>1, Views DEF ViewsAre, WrittenIs
      <4>2. \A x : x \in WrittenOf(Owner) /\ x # r.content => x \in WrittenOf(Owner)'
        BY <2>1, <4>1, Views DEF ViewsAre, WrittenIs
      <4> QED BY <1>3, <2>1, <4>2
    <3> QED BY <1>2, <3>2, <3>3, <3>4, <3>5 DEF OwnersStore!OwnStep, OwnersStore!Save
  <2>6. CASE r.account # Owner
    <3>1. SavedOf(Owner)' \subseteq SavedOf(Owner)
      BY <2>2, <2>3, <2>4, <2>6, Views DEF ViewsAre, SavedIs
    <3>2. WrittenOf(Owner)' = WrittenOf(Owner)
      <4>1. \A x : x \in WrittenOf(Owner)' <=>
                \/ \E u \in Tabs : Writing(tab[u]) /\ x = tab[u].up.content
                \/ \E q \in requests' : q.account = Owner /\ x = q.content
        BY <1>1, Views DEF ViewsAre, WrittenIs
      <4>2. \A x : x \in WrittenOf(Owner)' <=> x \in WrittenOf(Owner)
        BY <2>1, <2>6, <4>1, Views DEF ViewsAre, WrittenIs
      <4> QED BY <4>2
    <3> QED BY <1>2, <3>1, <3>2 DEF OwnersStore!OwnStep, OwnersStore!Spoil
  <2> QED BY <2>5, <2>6
<1> QED BY <1>4, <1>5, <1>6

LEMMA EveryStepImplements ==
    TypeInv /\ KeptInv /\ [BackupNext]_vars => [OwnersStore!StoreNext]_(OwnersStore!storeVars)
<1> SUFFICES ASSUME TypeInv, KeptInv, [BackupNext]_vars
             PROVE  [OwnersStore!StoreNext]_(OwnersStore!storeVars)
  OBVIOUS
<1> DEFINE shared == mixed # {} \/ strayed # {}
<1>1. CASE shared \/ shared'
  BY <1>1 DEF OwnersStore!StoreNext, OwnersStore!Sharing
<1>2. CASE ~ (shared \/ shared')
  <2>1. Unshared /\ shared' = shared
    BY <1>2 DEF Unshared
  <2>2. CASE UNCHANGED vars
    <3>1. /\ LocalOf(Owner)' = LocalOf(Owner) /\ AdoptingOf(Owner)' = AdoptingOf(Owner)
          /\ SavedOf(Owner)' = SavedOf(Owner) /\ WrittenOf(Owner)' = WrittenOf(Owner)
          /\ LoadedOf(Owner)' = LoadedOf(Owner)
      BY <2>2 DEF vars, serverVars, LocalOf, ComingTo, AdoptingOf, SavedOf, WrittenOf, LoadedOf
    <3> QED BY <2>1, <3>1, Forgetting DEF OwnersStore!StoreNext
  <2>3. ASSUME NEW t \in Tabs, PageStep(t) PROVE OwnersStore!OwnStep
    BY <2>1, <2>3, BindingImplements, LoadingIsUnseen, RestoringImplements DEF PageStep
  <2>4. CASE BackupNext
    <3>1. OwnersStore!OwnStep
      BY <2>1, <2>3, <2>4, UserImplements, UploadImplements, ServerImplements
         DEF BackupNext, UserStep
    <3> QED BY <2>1, <3>1 DEF OwnersStore!StoreNext
  <2> QED BY <2>2, <2>4
<1> QED BY <1>1, <1>2

\* The store and the backup of an account, as its owner sees them, behave as AccountStore
\* says, whatever the pages and uploads of any number of accounts do in the same browsers, as
\* long as no two accounts' pages have bound one store at once
\* (crypto.js: bind, restore, schedule, sync; auth.py: put_key_backup).
THEOREM BackupImplementsStore == BackupSpec => ImplementsAccountStore
<1>1. ImplementsAccountStore
        <=> OwnersStore!StoreInit /\ [][OwnersStore!StoreNext]_(OwnersStore!storeVars)
  BY DEF ImplementsAccountStore, OwnersStore!StoreSpec
<1> QED
  BY <1>1, ImplementsInit, EveryStepImplements, BackupTypeInit, BackupTypeStep, KeptInit,
     KeptStep, PTL DEF BackupSpec
=============================================================================
