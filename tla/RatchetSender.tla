--------------------------- MODULE RatchetSender ---------------------------
(***************************************************************************)
(* The sending half of one per-device ratchet session.                     *)
(*                                                                         *)
(* A browser page that has a direct chat open encrypts each message once   *)
(* per recipient device (encryptMessageForDevices in chatCrypto.js) with   *)
(* the ratchet state stored in IndexedDB under "<chat>:peer:<device>"      *)
(* (encryptRatchetMessage in doubleRatchet.js) and then hands it to the    *)
(* chat websocket (sendCurrentMessage in messagesChatFlow.js).  Every read *)
(* and write of the store is awaited, and nothing stops a second send from *)
(* starting while a first one waits, so a send is modelled as the steps    *)
(* between its awaits.                                                     *)
(*                                                                         *)
(* Keys are named, not computed.  An X3DH secret is named by the number of *)
(* the ephemeral key pair it was derived from (its "root"); a sending      *)
(* chain by the number of the DH key pair initializeSendingChain draws; a  *)
(* message key by a chain and an index.                                    *)
(***************************************************************************)
EXTENDS Naturals, Sequences

CONSTANTS
    Ops,         \* calls of sendCurrentMessage that can be in flight
    Bundles,     \* prekey bundles get_keys can return: [spk, otpk]
    MaxWire,     \* bound: messages that reach the server
    MaxIndex,    \* bound: messages encrypted on one chain
    MaxRoots     \* bound: X3DH secrets, and sending chains

ASSUME BoundsAssumption ==
    MaxWire \in Nat /\ MaxIndex \in Nat /\ MaxRoots \in Nat

VARIABLES
    bundle,      \* window.otherDeviceBundles of the page: fetched once, at load
    linkUp,      \* the chat socket is open; it is never reopened by the page
    stored,      \* the ratchet state in IndexedDB, or NoState
    op,          \* each call: where it waits, and the state it has in hand
    roots,       \* X3DH secrets created: roots[r] is the bundle r was made from
    chains,      \* sending chains created: chains[c] is the root of chain c
    wire,        \* messages the server has committed, by message id
    overlapped   \* two calls were once in flight together

senderVars == <<bundle, linkUp, stored, op, roots, chains, wire, overlapped>>

\* A state without a sending chain has chain 0 (CKs is null).
NoState == [root |-> 0, chain |-> 0, Ns |-> 0, pending |-> FALSE]

States == [root : 0..MaxRoots, chain : 0..MaxRoots, Ns : Nat, pending : BOOLEAN]

Idle == [pc |-> "idle", st |-> NoState, hs |-> FALSE]

OpStates == [pc : {"idle", "create", "chain", "clear", "send"},
             st : States, hs : BOOLEAN]

Messages == [chain : 1..MaxRoots, n : Nat, hs : BOOLEAN]

InFlight(o) == op[o].pc # "idle"

SenderTypeOK ==
    /\ bundle \in Bundles
    /\ linkUp \in BOOLEAN
    /\ stored \in States
    /\ op \in [Ops -> OpStates]
    /\ roots \in Seq(Bundles) /\ Len(roots) <= MaxRoots
    /\ chains \in Seq(1..MaxRoots) /\ Len(chains) <= MaxRoots
    /\ wire \in Seq(Messages)
    /\ overlapped \in BOOLEAN

-----------------------------------------------------------------------------
SenderInit ==
    /\ bundle \in Bundles
    /\ linkUp = TRUE
    /\ stored = NoState
    /\ op = [o \in Ops |-> Idle]
    /\ roots = <<>>
    /\ chains = <<>>
    /\ wire = <<>>
    /\ overlapped = FALSE

\* Fault: the page opens the chat without clearing its ratchet states.
LoadPageKeepsState(b) ==
    /\ bundle' = b
    /\ linkUp' = TRUE
    /\ op' = [o \in Ops |-> Idle]
    /\ UNCHANGED <<stored, roots, chains, wire, overlapped>>

(***************************************************************************)
(* The page is loaded on the chat: get_keys fetches the recipient's        *)
(* bundle, openChatSocket clears the chat's ratchet states and opens a new *)
(* socket.  Calls of the page that was left are gone with it.              *)
(***************************************************************************)
LoadPage(b) ==
    /\ bundle' = b
    /\ linkUp' = TRUE
    /\ stored' = NoState
    /\ op' = [o \in Ops |-> Idle]
    /\ UNCHANGED <<roots, chains, wire, overlapped>>

\* The socket closes; the page keeps it and never opens another one.
BreakLink ==
    /\ linkUp
    /\ linkUp' = FALSE
    /\ UNCHANGED <<bundle, stored, op, roots, chains, wire, overlapped>>

(***************************************************************************)
(* The user presses Enter and getOrCreateState reads the store.  The input *)
(* is cleared only after the send and there is no in-flight flag, so this  *)
(* can happen while another call waits.                                    *)
(***************************************************************************)
ReadState(o) ==
    /\ ~ InFlight(o)
    /\ Len(wire) < MaxWire
    /\ stored.Ns < MaxIndex
    /\ op' = [op EXCEPT ![o] = [pc |-> IF stored = NoState THEN "create" ELSE "chain",
                                st |-> stored, hs |-> FALSE]]
    /\ overlapped' = (overlapped \/ \E p \in Ops : InFlight(p))
    /\ UNCHANGED <<bundle, linkUp, stored, roots, chains, wire>>

(***************************************************************************)
(* No state was stored: createInitialState draws an ephemeral key, derives *)
(* the X3DH secret from the page's bundle, and getOrCreateState saves the  *)
(* state with its handshake still to be sent.                              *)
(***************************************************************************)
CreateState(o) ==
    /\ op[o].pc = "create"
    /\ Len(roots) < MaxRoots
    /\ roots' = Append(roots, bundle)
    /\ LET st == [root |-> Len(roots) + 1, chain |-> 0, Ns |-> 0, pending |-> TRUE]
       IN  /\ stored' = st
           /\ op' = [op EXCEPT ![o] = [pc |-> "chain", st |-> st, hs |-> FALSE]]
    /\ UNCHANGED <<bundle, linkUp, chains, wire, overlapped>>

\* Fault: the state is saved before the chain is stepped, so Ns does not move.
SaveChainBeforeStep(o) ==
    /\ op[o].pc = "chain"
    /\ LET old == op[o].st
           fresh == old.chain = 0
           st == [old EXCEPT !.chain = IF fresh THEN Len(chains) + 1 ELSE @,
                             !.Ns = IF fresh THEN 1 ELSE @ + 1]
       IN  /\ fresh => Len(chains) < MaxRoots
           /\ chains' = IF fresh THEN Append(chains, st.root) ELSE chains
           /\ stored' = [st EXCEPT !.Ns = @ - 1]
           /\ op' = [op EXCEPT ![o] = [pc |-> IF st.pending THEN "clear" ELSE "send",
                                       st |-> st, hs |-> FALSE]]
    /\ UNCHANGED <<bundle, linkUp, roots, wire, overlapped>>

(***************************************************************************)
(* initializeSendingChain draws a DH key pair if the state has no sending  *)
(* chain; the chain is stepped, the header takes the old Ns, and the state *)
(* in hand is saved over whatever the store holds by now.                  *)
(***************************************************************************)
SaveChain(o) ==
    /\ op[o].pc = "chain"
    /\ LET old == op[o].st
           fresh == old.chain = 0
           st == [root |-> old.root, pending |-> old.pending,
                  chain |-> IF fresh THEN Len(chains) + 1 ELSE old.chain,
                  Ns |-> IF fresh THEN 1 ELSE old.Ns + 1]
       IN  /\ fresh => Len(chains) < MaxRoots
           /\ chains' = IF fresh THEN Append(chains, st.root) ELSE chains
           /\ stored' = st
           /\ op' = [op EXCEPT ![o] = [pc |-> IF st.pending THEN "clear" ELSE "send",
                                       st |-> st, hs |-> FALSE]]
    /\ UNCHANGED <<bundle, linkUp, roots, wire, overlapped>>

\* The handshake moves from the state into the message; the state is saved again.
ClearHandshake(o) ==
    /\ op[o].pc = "clear"
    /\ LET st == [op[o].st EXCEPT !.pending = FALSE]
       IN  /\ stored' = st
           /\ op' = [op EXCEPT ![o] = [pc |-> "send", st |-> st, hs |-> TRUE]]
    /\ UNCHANGED <<bundle, linkUp, roots, chains, wire, overlapped>>

\* The message an encrypted call sends: header.dh, header.n and whether x3dh is set.
Encrypted(o) == [chain |-> op[o].st.chain, n |-> op[o].st.Ns - 1, hs |-> op[o].hs]

(***************************************************************************)
(* chatSocket.send.  A closed socket drops the message without an error,   *)
(* and the page goes on as if it had been sent.                            *)
(***************************************************************************)
Transmit(o) ==
    /\ op[o].pc = "send"
    /\ op' = [op EXCEPT ![o] = Idle]
    /\ wire' = IF linkUp THEN Append(wire, Encrypted(o)) ELSE wire
    /\ UNCHANGED <<bundle, linkUp, stored, roots, chains, overlapped>>

SendStep(o) ==
    ReadState(o) \/ CreateState(o) \/ SaveChain(o) \/ ClearHandshake(o) \/ Transmit(o)

SenderNext ==
    \/ \E b \in Bundles : LoadPage(b)
    \/ BreakLink
    \/ \E o \in Ops : SendStep(o)

SenderSpec == SenderInit /\ [][SenderNext]_senderVars

-----------------------------------------------------------------------------
(***************************************************************************)
(* No two messages on the wire are encrypted with the same message key (a  *)
(* chain and an index name it): the store must be advanced and saved       *)
(* before the next send reads it.                                          *)
(***************************************************************************)
NoKeyReuse ==
    \A i, j \in DOMAIN wire :
        i # j => wire[i].chain # wire[j].chain \/ wire[i].n # wire[j].n

\* As long as the user waits for each send to finish, no message key is used twice,
\* across page loads, broken links and dropped messages.
NoKeyReuseWithoutOverlap == ~ overlapped => NoKeyReuse

(***************************************************************************)
(* The recipient can open a session only with the handshake: as long as    *)
(* sends do not overlap, every message that carries none comes after one   *)
(* of its chain that does, although the handshake is erased from the       *)
(* stored state before the message that carries it is sent.                *)
(***************************************************************************)
HandshakeFirstWithoutOverlap ==
    ~ overlapped =>
        \A i \in DOMAIN wire :
            wire[i].hs \/ \E j \in 1..(i-1) : wire[j].hs /\ wire[j].chain = wire[i].chain
=============================================================================
