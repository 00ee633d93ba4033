--------------------------- MODULE RatchetSession ---------------------------
(***************************************************************************)
(* A sending device and a receiving device of a direct chat, composed over *)
(* the server's message log.                                               *)
(*                                                                         *)
(* The sender is RatchetSender.  The receiver keeps, in IndexedDB, one     *)
(* signed prekey (initKeysIfNeeded replaces it after seven days), one-time *)
(* prekeys (used ones are purged after seven days) and the ratchet state   *)
(* "<chat>:from:<device>".  Each load of its chat page clears that state   *)
(* and decrypts the visible history again, in message id order, followed   *)
(* by live messages; a failed message makes the page replay everything it  *)
(* received before (rebuildRatchetStateFromTranscript) and try once more.  *)
(***************************************************************************)
EXTENDS RatchetSender, FiniteSets, SequencesExt

CONSTANTS
    MaxSignedPreKeys,  \* bound: signed prekeys the receiver ever creates
    MaxOneTimeKeys,    \* bound: one-time prekeys the receiver ever publishes
    MaxSkippedKeys,    \* MAX_SKIPPED_KEYS
    MaxDeleted         \* bound: messages deleted for everyone

ASSUME SessionAssumption ==
    /\ MaxSignedPreKeys \in Nat \ {0} /\ MaxOneTimeKeys \in Nat \ {0}
    /\ MaxSkippedKeys \in Nat /\ MaxDeleted \in Nat
    /\ Bundles = [spk : 1..MaxSignedPreKeys, otpk : 1..MaxOneTimeKeys]

VARIABLES
    spk,         \* number of the signed prekey whose private half is stored
    used,        \* one-time prekeys consumeLocalOneTimePreKey has marked used
    purged,      \* used one-time prekeys whose private half was deleted
    published,   \* the bundle the server hands out for this device
    session,     \* the ratchet state for the sender's device
    phase,       \* "closed", "loading" (history queried, socket not yet registered), "open"
    inbox,       \* ids received on this page and not yet processed
    read,        \* ids decrypted on this page
    failed,      \* ids shown as undecryptable on this page
    deleted      \* ids deleted for everyone

receiverVars == <<spk, used, purged, published, session, phase, inbox, read,
                  failed, deleted>>
vars == <<senderVars, receiverVars>>

NoKey == 0

-----------------------------------------------------------------------------
(***************************************************************************)
(* X3DH secrets.  Both sides derive the same secret only from the same     *)
(* ephemeral key, signed prekey and one-time prekey.  The responder        *)
(* ignores the handshake's signed_prekey_key_id: it always uses the signed *)
(* prekey it holds now, and no one-time prekey when the private half is    *)
(* gone.  Without a handshake a secret is made from the identity keys.     *)
(***************************************************************************)
InitiatorSecret(r) == [root |-> r, spk |-> roots[r].spk, otpk |-> roots[r].otpk]

ResponderSecret(r) ==
    [root |-> r, spk |-> spk,
     otpk |-> IF roots[r].otpk \in purged THEN NoKey ELSE roots[r].otpk]

IdentitySecret == [root |-> 0, spk |-> 0, otpk |-> NoKey]

(***************************************************************************)
(* Receiving states: none, one that has only a root secret (DHr is null),  *)
(* or one on a chain (DHr), with the index its chain key stands at and the *)
(* indices of the skipped keys in the order they were stored.              *)
(***************************************************************************)
NoSession == [kind |-> "none"]
Bootstrap(secret) == [kind |-> "bootstrap", secret |-> secret]
OnChain(c, nr, skipped) == [kind |-> "chain", chain |-> c, Nr |-> nr, skipped |-> skipped]

\* Fault: the skipped keys are never capped.
SkipToUncapped(st, until) ==
    IF st.Nr >= until THEN st
    ELSE OnChain(st.chain, until,
                 st.skipped \o [i \in 1..(until - st.Nr) |-> st.Nr + i - 1])

\* Fault: a key is dropped as soon as the cap is reached instead of when it is exceeded.
SkipToCapTooSmall(st, until) ==
    IF st.Nr >= until THEN st
    ELSE LET keys == st.skipped \o [i \in 1..(until - st.Nr) |-> st.Nr + i - 1]
             drop == IF Len(keys) >= MaxSkippedKeys THEN Len(keys) - MaxSkippedKeys + 1 ELSE 0
         IN  OnChain(st.chain, until, SubSeq(keys, drop + 1, Len(keys)))

\* skipMessageKeys: keys Nr..until-1 are stored, the oldest beyond the cap dropped.
SkipTo(st, until) ==
    IF st.Nr >= until THEN st
    ELSE LET keys == st.skipped \o [i \in 1..(until - st.Nr) |-> st.Nr + i - 1]
             drop == IF Len(keys) > MaxSkippedKeys THEN Len(keys) - MaxSkippedKeys ELSE 0
         IN  OnChain(st.chain, until, SubSeq(keys, drop + 1, Len(keys)))

\* getOrCreateState on the receiving side.
StateFor(st, m) ==
    IF st.kind # "none" THEN st
    ELSE Bootstrap(IF m.hs THEN ResponderSecret(chains[m.chain]) ELSE IdentitySecret)

\* applyDhRatchet reaches the sender's chain only from the secret it was made from.
OnSenderChain(st, m) ==
    \/ st.kind = "chain" /\ st.chain = m.chain
    \/ st.kind = "bootstrap" /\ st.secret = InitiatorSecret(chains[m.chain])

\* decryptWithState: a state it had to create stays stored when the decryption fails.
DecryptWithState(st0, m) ==
    LET st == StateFor(st0, m)
        at == SkipTo(IF st.kind = "chain" THEN st ELSE OnChain(m.chain, 0, <<>>), m.n)
    IN  IF ~ OnSenderChain(st, m) THEN [ok |-> FALSE, st |-> st]
        ELSE IF st.kind = "chain" /\ Contains(st.skipped, m.n)
             THEN [ok |-> TRUE, st |-> [st EXCEPT !.skipped = RemoveFirst(@, m.n)]]
        ELSE IF at.Nr = m.n THEN [ok |-> TRUE, st |-> [at EXCEPT !.Nr = m.n + 1]]
        ELSE [ok |-> FALSE, st |-> st]

\* shouldAttemptSessionReset; every direct message has pn = 0.
ResetsSession(m) == m.hs \/ m.n = 0

\* Fault: a failed message never resets the session.
DecryptWithoutReset(st, m) == DecryptWithState(st, m)

\* Fault: every failed message resets the session.
DecryptAlwaysReset(st, m) ==
    LET first == DecryptWithState(st, m)
    IN  IF first.ok THEN first ELSE DecryptWithState(NoSession, m)

\* decryptRatchetMessage with allowStateReset.
DecryptRatchetMessage(st, m) ==
    LET first == DecryptWithState(st, m)
    IN  IF first.ok \/ ~ ResetsSession(m) THEN first ELSE DecryptWithState(NoSession, m)

\* rebuildRatchetStateFromTranscript: replay the messages with the given ids, in their
\* order (the greatest is the last one applied), ignoring errors.
Rebuild(st, ids) ==
    MapThenFoldSet(LAMBDA m, s : DecryptRatchetMessage(s, m).st, st,
                   LAMBDA i : wire[i], Max, ids)

\* decryptWithRecovery, given the ids of the transcript that are smaller.
DecryptWithRecovery(st, m, earlier) ==
    LET first == DecryptRatchetMessage(IF m.hs /\ st.kind = "bootstrap" THEN NoSession ELSE st, m)
    IN  IF first.ok THEN first ELSE DecryptRatchetMessage(Rebuild(first.st, earlier), m)

-----------------------------------------------------------------------------
SessionInit ==
    /\ SenderInit
    /\ spk = 1 /\ used = {} /\ purged = {}
    /\ published = [spk |-> 1, otpk |-> 1]
    /\ bundle = published
    /\ session = NoSession
    /\ phase = "closed"
    /\ inbox = {} /\ read = {} /\ failed = {} /\ deleted = {}

\* get_keys peeks at the published bundle.
SenderLoads == LoadPage(published) /\ UNCHANGED receiverVars

SenderLinkBreaks == BreakLink /\ UNCHANGED receiverVars

SenderPrepares(o) ==
    /\ ReadState(o) \/ CreateState(o) \/ SaveChain(o) \/ ClearHandshake(o)
    /\ UNCHANGED receiverVars

\* The server commits the message and broadcasts it to the registered sockets.
SenderTransmits(o) ==
    /\ Transmit(o)
    /\ inbox' = IF phase = "open" /\ linkUp THEN inbox \cup {Len(wire) + 1} ELSE inbox
    /\ UNCHANGED <<spk, used, purged, published, session, phase, read, failed,
                   deleted>>

(***************************************************************************)
(* The receiver loads its page.  initKeysIfNeeded replaces a signed prekey *)
(* that is old enough, purges old used one-time prekeys and uploads the    *)
(* public halves, after which the server offers the first unused one-time  *)
(* prekey; a failed upload (fresh = NoKey) is logged and ignored.          *)
(* openChatSocket then clears the chat's states, and the server reads the  *)
(* history.                                                                *)
(***************************************************************************)
ReceiverLoads(rotate, purge, fresh) ==
    /\ rotate => spk < MaxSignedPreKeys
    /\ spk' = IF rotate THEN spk + 1 ELSE spk
    /\ purge \subseteq used
    /\ purged' = purged \cup purge
    /\ fresh # NoKey => fresh \notin used /\ \A k \in 1..(fresh - 1) : k \in used
    /\ published' = IF fresh = NoKey THEN published ELSE [spk |-> spk', otpk |-> fresh]
    /\ session' = NoSession
    /\ phase' = "loading"
    /\ inbox' = DOMAIN wire \ deleted
    /\ read' = {} /\ failed' = {}
    /\ UNCHANGED <<senderVars, used, deleted>>

\* connect_chat registers the socket; messages committed since the query are lost to it.
ReceiverRegisters ==
    /\ phase = "loading"
    /\ phase' = "open"
    /\ UNCHANGED <<senderVars, spk, used, purged, published, session, inbox, read,
                   failed, deleted>>

\* Ids processed on this page: the transcript a replay starts from.
Processed == read \cup failed

Transcript(m) == {i \in Processed : i < m}

\* processMessage, one at a time in id order.
ReceiverProcesses(m) ==
    /\ phase = "open"
    /\ m \in inbox /\ \A i \in inbox : m <= i
    /\ inbox' = inbox \ {m}
    /\ LET result == DecryptWithRecovery(session, wire[m], Transcript(m))
       IN  /\ session' = result.st
           /\ read' = IF result.ok THEN read \cup {m} ELSE read
           /\ failed' = IF result.ok THEN failed ELSE failed \cup {m}
    /\ used' = IF wire[m].hs THEN used \cup {roots[chains[wire[m].chain]].otpk} ELSE used
    /\ UNCHANGED <<senderVars, spk, purged, published, phase, deleted>>

\* The sender deletes a message for everyone: later history queries leave it out.
DeleteForAll(m) ==
    /\ m \notin deleted
    /\ Cardinality(deleted) < MaxDeleted
    /\ deleted' = deleted \cup {m}
    /\ UNCHANGED <<senderVars, spk, used, purged, published, session, phase, inbox,
                   read, failed>>

SessionNext ==
    \/ SenderLoads
    \/ SenderLinkBreaks
    \/ \E o \in Ops : SenderPrepares(o) \/ SenderTransmits(o)
    \/ \E rotate \in BOOLEAN, purge \in SUBSET used, fresh \in 0..MaxOneTimeKeys :
            ReceiverLoads(rotate, purge, fresh)
    \/ ReceiverRegisters
    \/ \E m \in DOMAIN wire : ReceiverProcesses(m) \/ DeleteForAll(m)

SessionSpec == SessionInit /\ [][SessionNext]_vars

-----------------------------------------------------------------------------
Sessions ==
    {NoSession}
    \cup {Bootstrap(s) : s \in [root : 0..MaxRoots, spk : 0..MaxSignedPreKeys,
                                otpk : 0..MaxOneTimeKeys]}
    \cup {OnChain(c, nr, s) : c \in 1..MaxRoots, nr \in 0..(MaxIndex + 1),
                              s \in UNION {[1..k -> 0..MaxIndex] : k \in 0..MaxSkippedKeys}}

SessionTypeOK ==
    /\ SenderTypeOK
    /\ spk \in 1..MaxSignedPreKeys
    /\ used \subseteq 1..MaxOneTimeKeys /\ purged \subseteq used
    /\ published \in Bundles
    /\ session \in Sessions
    /\ phase \in {"closed", "loading", "open"}
    /\ inbox \subseteq DOMAIN wire /\ Processed \subseteq DOMAIN wire
    /\ read \cap failed = {}
    /\ deleted \subseteq DOMAIN wire

(***************************************************************************)
(* When a message can be expected to open.  Its chain's handshake was      *)
(* received at or before it; the receiver still holds the prekeys the      *)
(* handshake names; no message of another chain reset the session in       *)
(* between; no other received message has its key; and its key was not     *)
(* pushed out of the skipped keys.                                         *)
(***************************************************************************)
OpenerOf(m, i) == i <= m /\ wire[i].hs /\ wire[i].chain = wire[m].chain

KeysHeld(m) ==
    ResponderSecret(chains[wire[m].chain]) = InitiatorSecret(chains[wire[m].chain])

NotInterrupted(m, i) ==
    \A k \in Processed : i < k /\ k < m /\ ResetsSession(wire[k]) => wire[k].chain = wire[m].chain

KeyIsOwn(m) ==
    \A k \in Processed : wire[k].chain = wire[m].chain /\ wire[k].n = wire[m].n => k = m

KeyNotEvicted(m) ==
    \A k \in Processed : k < m /\ wire[k].chain = wire[m].chain
                            => wire[k].n <= wire[m].n + MaxSkippedKeys

Intact(m) ==
    /\ KeysHeld(m) /\ KeyIsOwn(m) /\ KeyNotEvicted(m)
    /\ \E i \in Processed : OpenerOf(m, i) /\ NotInterrupted(m, i)

\* Every message whose session is intact is decrypted, whatever else arrived, failed,
\* was replayed, deleted or sent concurrently.
IntactMessagesDecrypt == \A m \in Processed : Intact(m) => m \in read

\* No message received on this page has the key of index n of chain c, or is so far ahead
\* of it that the key was dropped.
Unspent(c, n) ==
    \A k \in Processed : wire[k].chain = c => wire[k].n # n /\ wire[k].n <= n + MaxSkippedKeys

StillOpens(st, c, n) ==
    st.kind = "chain" /\ st.chain = c /\ (st.Nr <= n \/ Contains(st.skipped, n))

\* A message that fails and does not ask for a reset costs the session that was working
\* none of the keys it still had to give: the replay of the transcript that it brings about,
\* with the resets of the messages replayed, and the second attempt bring the session back.
\* Nothing of the kind holds for a message with a handshake, or with n = 0: if it fails, the
\* reset leaves a session with a wrong secret in place of the working one, and messages
\* after it are not Intact.
RecoveryKeepsSession ==
    [][\A m \in DOMAIN wire :
          ReceiverProcesses(m) /\ m \in failed' /\ ~ ResetsSession(wire[m])
             /\ session.kind = "chain"
          => \A n \in 0..MaxIndex :
                Unspent(session.chain, n) => StillOpens(session', session.chain, n)]_vars
=============================================================================
