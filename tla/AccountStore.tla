---------------------------- MODULE AccountStore ----------------------------
(***************************************************************************)
(* What an account's owner may expect of the local store and its backup,   *)
(* whatever other accounts do in the same browsers.  A device's copy grows *)
(* by the entries made on it, is replaced by a content that was once saved,*)
(* or is erased; what is saved is a content that one device had, and it    *)
(* may get lost.  Only while a content is being put back may a part of it *)
(* be saved, or be left behind.  Nothing is promised while two accounts    *)
(* share a store.  CloudBackup implements this.                            *)
(***************************************************************************)
CONSTANTS
    Browsers,   \* the devices
    Entries     \* verification marks and attachment keys

VARIABLES
    local,      \* each browser's entries of the account
    adopting,   \* the browsers on which a content is being put back
    saved,      \* contents the server has
    written,    \* contents on their way to the server
    loaded,     \* saved contents on their way to a browser
    shared      \* two accounts' entries have got, or may get, into one store

ownVars == <<local, adopting, saved, written, loaded>>
storeVars == <<ownVars, shared>>

StoreInit ==
    /\ local = [b \in Browsers |-> {}]
    /\ adopting = {}
    /\ saved = {}
    /\ written = {}
    /\ loaded = {}
    /\ shared = FALSE

\* An entry is made on a device, and on no other.
Make(b) ==
    /\ \E c \in Entries : local' = [local EXCEPT ![b] = local[b] \cup {c}]
    /\ UNCHANGED <<adopting, saved, written, loaded>>

\* The device's content is read, to be saved.
Write(b) ==
    /\ \E part \in SUBSET local[b] :
          /\ part = local[b] \/ b \in adopting
          /\ written' = written \cup {part}
    /\ UNCHANGED <<local, adopting, saved, loaded>>

\* A content arrives at the server, in place of another one; its page may be waiting still.
Save ==
    /\ \E content \in written, kept \in SUBSET saved :
          /\ saved' = kept \cup {content}
          /\ written' \in {written, written \ {content}}
    /\ UNCHANGED <<local, adopting, loaded>>

\* Another account's page replaces it.
Spoil ==
    /\ saved' \in SUBSET saved
    /\ UNCHANGED <<local, adopting, written, loaded>>

Load ==
    /\ \E content \in saved : loaded' = loaded \cup {content}
    /\ UNCHANGED <<local, adopting, saved, written>>

\* A device takes over a content that was saved, all of it and nothing else, unless it was
\* just taking over another one.
Adopt(b) ==
    /\ \E content \in loaded, rest \in SUBSET local[b] :
          /\ rest = {} \/ b \in adopting
          /\ local' = [local EXCEPT ![b] = content \cup rest]
          /\ loaded' \in {loaded, loaded \ {content}}
    /\ adopting' = adopting \cup {b}
    /\ UNCHANGED <<saved, written>>

Adopted(b) ==
    /\ adopting' = adopting \ {b}
    /\ UNCHANGED <<local, saved, written, loaded>>

\* Pages are left and requests are lost; what a page had in hand goes with it.
Drop == written' \in SUBSET written /\ loaded' \in SUBSET loaded

Forget == Drop /\ UNCHANGED <<local, adopting, saved>>

\* The page that puts a content back is left before the end.
BreakOff(b) ==
    /\ b \in adopting
    /\ \E part \in SUBSET local[b] : local' = [local EXCEPT ![b] = part]
    /\ adopting' \in {adopting, adopting \ {b}}
    /\ Drop /\ UNCHANGED saved

\* Another account takes the device over, or its user erases the store.
Erase(b) ==
    /\ local' = [local EXCEPT ![b] = {}]
    /\ Drop /\ UNCHANGED <<adopting, saved>>

OwnStep ==
    \/ \E b \in Browsers :
          Make(b) \/ Write(b) \/ Adopt(b) \/ Adopted(b) \/ BreakOff(b) \/ Erase(b)
    \/ Save \/ Spoil \/ Load \/ Forget

Sharing == shared \/ shared'

StoreNext == ([OwnStep]_ownVars /\ UNCHANGED shared) \/ Sharing

StoreSpec == StoreInit /\ [][StoreNext]_storeVars
=============================================================================
