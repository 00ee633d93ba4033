------------------------ MODULE RatchetSession_proofs ------------------------
(***************************************************************************)
(* Proofs about RatchetSender, for every set of calls, every set of        *)
(* bundles and every bound, and about its composition with the receiver.   *)
(*                                                                         *)
(* NoKeyReuse is not inductive: a message on its way to the socket is      *)
(* encrypted but not on the wire.  SenderInv adds what relates the three   *)
(* places a key index lives in: the wire, the stored state, and the state  *)
(* a waiting call has in hand.  The session with its receiver implements   *)
(* the sender's specification, so what is proved of the wire holds of      *)
(* every message the receiver is given.                                    *)
(*                                                                         *)
(* IntactMessagesDecrypt is not inductive either: it says nothing of the   *)
(* receiver's state.  After relates the state to the set of messages       *)
(* received on the page: if they have opened a chain, the state is on it,  *)
(* and it still has every key that none of them took away.  Receiving the  *)
(* next message keeps this, so replaying any transcript restores it, by    *)
(* induction over the message ids; the rest follows.                       *)
(***************************************************************************)
EXTENDS RatchetSession, TLAPS, SequenceTheorems, WellFoundedInduction

\* What a waiting call has in hand: a chain that exists, and one if it has encrypted.
OpNamed(s, cs) ==
    /\ s.st.chain <= Len(cs)
    /\ s.pc \in {"chain", "clear", "send"} => s.st.root # 0
    /\ s.pc \in {"clear", "send"} => s.st.chain # 0 /\ s.st.Ns # 0

\* Chains on the wire and in states have been created; an encrypted call has a chain.
Named ==
    /\ \A i \in DOMAIN wire : wire[i].chain \in 1..Len(chains)
    /\ stored.chain <= Len(chains)
    /\ stored # NoState => stored.root # 0
    /\ \A o \in Ops : OpNamed(op[o], chains)

\* While sends do not overlap, one call at most is in flight and it holds what is stored.
InHand ==
    /\ \A o, p \in Ops : InFlight(o) /\ InFlight(p) => o = p
    /\ \A o \in Ops : op[o].pc = "create" => stored = NoState
    /\ \A o \in Ops : op[o].pc \in {"chain", "clear", "send"} => op[o].st = stored

\* Every key index below the stored one may be on the wire; the last one is not while
\* the call that took it is still in flight.
KeysInv ==
    /\ NoKeyReuse
    /\ \A i \in DOMAIN wire : wire[i].chain = stored.chain => wire[i].n < stored.Ns
    /\ \A o \in Ops : op[o].pc \in {"clear", "send"} =>
            \A i \in DOMAIN wire : wire[i].chain = stored.chain => wire[i].n + 1 < stored.Ns

HandshakeSent(c) == \E j \in DOMAIN wire : wire[j].hs /\ wire[j].chain = c

\* A handshake that has left the stored state is on the wire, in the call in flight, or
\* was dropped by a link that is still down.
HandshakeInv ==
    /\ \A i \in DOMAIN wire :
            wire[i].hs \/ \E j \in 1..(i-1) : wire[j].hs /\ wire[j].chain = wire[i].chain
    /\ stored # NoState /\ ~ stored.pending =>
            /\ stored.chain # 0
            /\ \/ ~ linkUp
               \/ HandshakeSent(stored.chain)
               \/ \E o \in Ops : op[o].pc = "send" /\ op[o].hs
    /\ \A o \in Ops : op[o].pc = "send" /\ ~ op[o].hs => ~ linkUp \/ HandshakeSent(stored.chain)

SenderInv ==
    /\ SenderTypeOK
    /\ Named
    /\ ~ overlapped => InHand /\ KeysInv /\ HandshakeInv

-----------------------------------------------------------------------------
LEMMA SenderInitInv == SenderInit => SenderInv
<1> SUFFICES ASSUME SenderInit PROVE SenderInv
  OBVIOUS
<1> USE BoundsAssumption DEF SenderInit, NoState, Idle, InFlight
<1>1. NoState \in States /\ Idle \in OpStates
  BY DEF States, OpStates
<1>2. SenderTypeOK
  <2>1. op \in [Ops -> OpStates] /\ stored \in States
    BY <1>1
  <2>2. /\ roots \in Seq(Bundles) /\ Len(roots) <= MaxRoots
        /\ chains \in Seq(1..MaxRoots) /\ Len(chains) <= MaxRoots
        /\ wire \in Seq(Messages)
    OBVIOUS
  <2>3. bundle \in Bundles /\ linkUp \in BOOLEAN /\ overlapped \in BOOLEAN
    OBVIOUS
  <2> QED
    BY <2>1, <2>2, <2>3 DEF SenderTypeOK
<1>3. Named
  BY DEF Named, OpNamed
<1>4. InHand /\ KeysInv
  BY DEF InHand, KeysInv, NoKeyReuse
<1>5. HandshakeInv
  BY DEF HandshakeInv, HandshakeSent
<1> QED
  BY <1>2, <1>3, <1>4, <1>5 DEF SenderInv

(***************************************************************************)
(* The two parts of the invariant that hold whether or not sends overlap.  *)
(* First, what one call's update of op does to them.                       *)
(***************************************************************************)
LEMMA OpUpdate ==
    ASSUME NEW f \in [Ops -> OpStates], NEW o \in Ops, NEW s \in OpStates,
           NEW g, g = [f EXCEPT ![o] = s],
           NEW cs, NEW ds, Len(cs) \in Nat, Len(ds) \in Nat, Len(cs) <= Len(ds),
           \A p \in Ops : OpNamed(f[p], cs), OpNamed(s, ds)
    PROVE  g \in [Ops -> OpStates] /\ \A p \in Ops : OpNamed(g[p], ds)
<1>1. g \in [Ops -> OpStates] /\ g[o] = s /\ \A p \in Ops \ {o} : g[p] = f[p]
  OBVIOUS
<1>2. ASSUME NEW p \in Ops \ {o} PROVE OpNamed(g[p], ds)
  <2>1. f[p].st.chain \in Nat
    BY BoundsAssumption DEF OpStates, States
  <2> QED
    BY <1>1, <2>1 DEF OpNamed
<1> QED
  BY <1>1, <1>2

LEMMA SenderTypeStep ==
    SenderTypeOK /\ Named /\ [SenderNext]_senderVars => SenderTypeOK' /\ Named'
<1> SUFFICES ASSUME SenderTypeOK, Named, [SenderNext]_senderVars
             PROVE  SenderTypeOK' /\ Named'
  OBVIOUS
<1> USE BoundsAssumption
<1>0. NoState \in States /\ Idle \in OpStates
  BY DEF States, OpStates, NoState, Idle
<1>1. ASSUME NEW b \in Bundles, LoadPage(b) PROVE SenderTypeOK' /\ Named'
  BY <1>0, <1>1 DEF LoadPage, SenderTypeOK, Named, OpNamed, NoState, Idle
<1>2. CASE BreakLink
  BY <1>2 DEF BreakLink, SenderTypeOK, Named
<1>3. ASSUME NEW o \in Ops, ReadState(o) PROVE SenderTypeOK' /\ Named'
  <2> DEFINE s == [pc |-> IF stored = NoState THEN "create" ELSE "chain",
                   st |-> stored, hs |-> FALSE]
  <2>1. s \in OpStates /\ OpNamed(s, chains')
    BY <1>3 DEF ReadState, SenderTypeOK, Named, OpNamed, OpStates
  <2>2. op' \in [Ops -> OpStates] /\ \A p \in Ops : OpNamed(op'[p], chains')
    BY <1>3, <2>1, OpUpdate DEF ReadState, SenderTypeOK, Named
  <2> QED
    BY <1>3, <2>2 DEF ReadState, SenderTypeOK, Named
<1>4. ASSUME NEW o \in Ops, CreateState(o) PROVE SenderTypeOK' /\ Named'
  <2> DEFINE st == [root |-> Len(roots) + 1, chain |-> 0, Ns |-> 0, pending |-> TRUE]
             s == [pc |-> "chain", st |-> st, hs |-> FALSE]
  <2>1. st \in States /\ st.chain = 0 /\ st.root # 0
    <3>1. Len(roots) + 1 \in 1..MaxRoots
      BY <1>4 DEF CreateState, SenderTypeOK
    <3> QED
      BY <3>1 DEF States
  <2>3. s \in OpStates /\ OpNamed(s, chains')
    <3>1. s \in OpStates
      BY <2>1 DEF OpStates
    <3>2. Len(chains') \in Nat
      BY <1>4 DEF CreateState, SenderTypeOK
    <3> HIDE DEF st
    <3> QED
      BY <2>1, <3>1, <3>2 DEF OpNamed
  <2>4. op' = [op EXCEPT ![o] = s]
    BY <1>4 DEF CreateState
  <2>5. op' \in [Ops -> OpStates] /\ \A p \in Ops : OpNamed(op'[p], chains')
    <3>1. chains' = chains /\ Len(chains) \in Nat /\ op \in [Ops -> OpStates]
          /\ \A p \in Ops : OpNamed(op[p], chains)
      BY <1>4 DEF CreateState, SenderTypeOK, Named
    <3> HIDE DEF s
    <3> QED
      BY <2>3, <2>4, <3>1, OpUpdate
  <2>6. roots' \in Seq(Bundles) /\ Len(roots') <= MaxRoots
    BY <1>4 DEF CreateState, SenderTypeOK
  <2> QED
    BY <1>4, <2>1, <2>5, <2>6 DEF CreateState, SenderTypeOK, Named, OpNamed
<1>5. ASSUME NEW o \in Ops, SaveChain(o) PROVE SenderTypeOK' /\ Named'
  <2> DEFINE old == op[o].st
             fresh == old.chain = 0
             st == [root |-> old.root, pending |-> old.pending,
                    chain |-> IF fresh THEN Len(chains) + 1 ELSE old.chain,
                    Ns |-> IF fresh THEN 1 ELSE old.Ns + 1]
             s == [pc |-> IF st.pending THEN "clear" ELSE "send", st |-> st, hs |-> FALSE]
  <2>1. op[o] \in OpStates /\ op[o].pc = "chain" /\ old \in States
        /\ old.root # 0 /\ old.chain <= Len(chains)
    BY <1>5 DEF SaveChain, SenderTypeOK, Named, OpNamed, OpStates
  <2>2. /\ fresh => Len(chains) < MaxRoots
        /\ chains' = IF fresh THEN Append(chains, st.root) ELSE chains
        /\ stored' = st
        /\ op' = [op EXCEPT ![o] = s]
    BY <1>5 DEF SaveChain
  <2>3. st \in States /\ st.root # 0 /\ st.Ns # 0 /\ st.chain # 0
    <3>1. fresh => Len(chains) + 1 \in 1..MaxRoots
      BY <2>2 DEF SenderTypeOK
    <3>2. st.chain \in 1..MaxRoots /\ st.Ns \in Nat \ {0}
      BY <2>1, <3>1 DEF States
    <3> QED
      BY <2>1, <3>2 DEF States
  <2>4. /\ chains' \in Seq(1..MaxRoots) /\ Len(chains') <= MaxRoots
        /\ Len(chains) <= Len(chains') /\ st.chain <= Len(chains')
    <3>1. st.root \in 1..MaxRoots
      BY <2>3 DEF States
    <3>2. CASE fresh
      <4>1. chains' = Append(chains, st.root) /\ st.chain = Len(chains) + 1
        BY <2>2, <3>2
      <4> HIDE DEF st
      <4> QED
        BY <2>2, <3>1, <3>2, <4>1 DEF SenderTypeOK
    <3>3. CASE ~ fresh
      <4>1. chains' = chains /\ st.chain = old.chain
        BY <2>2, <3>3
      <4> HIDE DEF st
      <4> QED
        BY <2>1, <4>1 DEF SenderTypeOK
    <3> QED
      BY <3>2, <3>3
  <2>5. s \in OpStates /\ OpNamed(s, chains')
    BY <2>1, <2>3, <2>4 DEF OpStates, OpNamed
  <2>6. op' \in [Ops -> OpStates] /\ \A p \in Ops : OpNamed(op'[p], chains')
    <3>1. /\ Len(chains) \in Nat /\ Len(chains') \in Nat /\ Len(chains) <= Len(chains')
          /\ op \in [Ops -> OpStates] /\ \A p \in Ops : OpNamed(op[p], chains)
          /\ op' = [op EXCEPT ![o] = s]
      BY <2>2, <2>4 DEF SenderTypeOK, Named
    <3> HIDE DEF s
    <3> QED
      BY <2>5, <3>1, OpUpdate
  <2>7. \A i \in DOMAIN wire : wire[i].chain \in 1..Len(chains')
    BY <2>4 DEF Named, SenderTypeOK
  <2>8. UNCHANGED <<bundle, linkUp, roots, wire, overlapped>>
    BY <1>5 DEF SaveChain
  <2> HIDE DEF st, s, fresh, old
  <2> QED
    BY <2>1, <2>2, <2>3, <2>4, <2>6, <2>7, <2>8 DEF SenderTypeOK, Named, OpNamed
<1>6. ASSUME NEW o \in Ops, ClearHandshake(o) PROVE SenderTypeOK' /\ Named'
  <2> DEFINE st == [op[o].st EXCEPT !.pending = FALSE]
             s == [pc |-> "send", st |-> st, hs |-> TRUE]
  <2>1. op[o] \in OpStates /\ op[o].pc = "clear" /\ op[o].st \in States
    BY <1>6 DEF ClearHandshake, SenderTypeOK, OpStates
  <2>2. stored' = st /\ op' = [op EXCEPT ![o] = s]
    BY <1>6 DEF ClearHandshake
  <2>3. UNCHANGED <<bundle, linkUp, roots, chains, wire, overlapped>>
    BY <1>6 DEF ClearHandshake
  <2>4. st \in States /\ st.chain = op[o].st.chain /\ st.Ns = op[o].st.Ns
        /\ st.chain # 0 /\ st.Ns # 0 /\ st.chain <= Len(chains)
    BY <2>1 DEF States, Named, OpNamed
  <2>7. st.root # 0
    BY <2>1 DEF States, Named, OpNamed
  <2>5. s \in OpStates /\ OpNamed(s, chains')
    <3> HIDE DEF st
    <3> QED
      BY <2>3, <2>4, <2>7 DEF OpStates, OpNamed
  <2>6. op' \in [Ops -> OpStates] /\ \A p \in Ops : OpNamed(op'[p], chains')
    <3> HIDE DEF s
    <3> QED
      BY <2>2, <2>3, <2>5, OpUpdate DEF SenderTypeOK, Named
  <2> QED
    BY <2>2, <2>3, <2>4, <2>6, <2>7 DEF SenderTypeOK, Named, OpNamed
<1>7. ASSUME NEW o \in Ops, Transmit(o) PROVE SenderTypeOK' /\ Named'
  <2>1. op[o] \in OpStates /\ op[o].pc = "send" /\ op[o].st \in States
    BY <1>7 DEF Transmit, SenderTypeOK, OpStates
  <2>2. Encrypted(o) \in Messages /\ Encrypted(o).chain \in 1..Len(chains)
    BY SMTT(30), ZenonT(30), <2>1
    DEF Encrypted, Messages, Named, OpNamed, OpStates, States, SenderTypeOK
  <2>3. wire' \in Seq(Messages) /\ \A i \in DOMAIN wire' : wire'[i].chain \in 1..Len(chains)
    BY <1>7, <2>2 DEF Transmit, SenderTypeOK, Named
  <2>4. op' \in [Ops -> OpStates] /\ \A p \in Ops : OpNamed(op'[p], chains')
    <3>1. OpNamed(Idle, chains')
      BY <1>7 DEF Transmit, SenderTypeOK, OpNamed, Idle, NoState
    <3> QED
      BY <1>0, <1>7, <3>1, OpUpdate DEF Transmit, SenderTypeOK, Named
  <2> QED
    BY <1>7, <2>3, <2>4 DEF Transmit, SenderTypeOK, Named, OpNamed
<1>8. CASE UNCHANGED senderVars
  BY <1>8 DEF senderVars, SenderTypeOK, Named
<1> QED
  BY <1>1, <1>2, <1>3, <1>4, <1>5, <1>6, <1>7, <1>8 DEF SenderNext, SendStep

-----------------------------------------------------------------------------
(***************************************************************************)
(* The part that needs sends not to overlap.  A step after which they have *)
(* not overlapped is a step before which they had not.                     *)
(***************************************************************************)
Sequential == InHand /\ KeysInv /\ HandshakeInv

LEMMA WireTyped ==
    ASSUME SenderTypeOK, NEW i \in DOMAIN wire
    PROVE  wire[i].n \in Nat /\ wire[i].chain \in Nat
<1>1. wire[i] \in Messages
  BY DEF SenderTypeOK
<1> QED
  BY <1>1, BoundsAssumption DEF Messages

\* The only call in flight moves on: every other call is idle before and after.
LEMMA OnlyCall ==
    ASSUME SenderTypeOK, InHand, NEW o \in Ops, InFlight(o), NEW s, op' = [op EXCEPT ![o] = s]
    PROVE  /\ op'[o] = s
           /\ \A p \in Ops \ {o} : op'[p] = op[p] /\ op[p].pc = "idle"
  BY DEF SenderTypeOK, InHand, InFlight

LEMMA SequentialLoad ==
    ASSUME SenderTypeOK, Named, Sequential, NEW b \in Bundles, LoadPage(b)
    PROVE  Sequential'
<1>1. stored' = NoState /\ wire' = wire /\ \A o \in Ops : op'[o] = Idle
  BY DEF LoadPage
<1>2. \A i \in DOMAIN wire : wire[i].chain # 0
  BY DEF Named, SenderTypeOK
<1> QED
  BY <1>1, <1>2 DEF Sequential, InHand, KeysInv, HandshakeInv, NoKeyReuse, InFlight,
     Idle, NoState

LEMMA SequentialRead ==
    ASSUME SenderTypeOK, Named, Sequential, NEW o \in Ops, ReadState(o), ~ overlapped'
    PROVE  Sequential'
<1>1. \A p \in Ops : op[p].pc = "idle"
  BY DEF ReadState, InFlight
<1>2. \A p \in Ops \ {o} : op'[p] = op[p]
  BY DEF ReadState, SenderTypeOK
<1>3. op'[o] = [pc |-> IF stored = NoState THEN "create" ELSE "chain",
                st |-> stored, hs |-> FALSE]
  BY DEF ReadState, SenderTypeOK
<1>4. UNCHANGED <<linkUp, stored, wire>>
  BY DEF ReadState
<1>5. InHand'
  BY <1>1, <1>2, <1>3, <1>4 DEF InHand, InFlight
<1>6. KeysInv'
  BY <1>1, <1>2, <1>3, <1>4 DEF Sequential, KeysInv, NoKeyReuse
<1>7. HandshakeInv'
  BY <1>1, <1>2, <1>3, <1>4 DEF Sequential, HandshakeInv, HandshakeSent
<1> QED
  BY <1>5, <1>6, <1>7 DEF Sequential

LEMMA SequentialCreate ==
    ASSUME SenderTypeOK, Named, Sequential, NEW o \in Ops, CreateState(o)
    PROVE  Sequential'
<1> DEFINE st == [root |-> Len(roots) + 1, chain |-> 0, Ns |-> 0, pending |-> TRUE]
           s == [pc |-> "chain", st |-> st, hs |-> FALSE]
<1>1. op' = [op EXCEPT ![o] = s] /\ stored' = st /\ UNCHANGED <<linkUp, wire>>
  BY DEF CreateState
<1>2. op'[o] = s /\ \A p \in Ops \ {o} : op'[p] = op[p] /\ op[p].pc = "idle"
  BY <1>1, OnlyCall DEF CreateState, InFlight, Sequential
<1>3. \A i \in DOMAIN wire : wire[i].chain # 0
  BY DEF Named, SenderTypeOK
<1>4. InHand'
  <2>1. op'[o].pc = "chain" /\ op'[o].st = st
    BY <1>2
  <2> HIDE DEF st, s
  <2> QED
    BY <1>1, <1>2, <2>1 DEF InHand, InFlight
<1>5. KeysInv'
  BY <1>1, <1>2, <1>3 DEF Sequential, KeysInv, NoKeyReuse
<1>6. HandshakeInv'
  BY <1>1, <1>2 DEF Sequential, HandshakeInv, HandshakeSent
<1> QED
  BY <1>4, <1>5, <1>6 DEF Sequential

LEMMA SequentialSave ==
    ASSUME SenderTypeOK, Named, Sequential, NEW o \in Ops, SaveChain(o)
    PROVE  Sequential'
<1> DEFINE old == op[o].st
           fresh == old.chain = 0
           st == [root |-> old.root, pending |-> old.pending,
                  chain |-> IF fresh THEN Len(chains) + 1 ELSE old.chain,
                  Ns |-> IF fresh THEN 1 ELSE old.Ns + 1]
           s == [pc |-> IF st.pending THEN "clear" ELSE "send", st |-> st, hs |-> FALSE]
<1>1. op[o].pc = "chain" /\ old = stored /\ old \in States /\ old.root # 0
  BY DEF SaveChain, Sequential, InHand, SenderTypeOK, Named, OpNamed
<1>2. op' = [op EXCEPT ![o] = s] /\ stored' = st /\ UNCHANGED <<linkUp, wire>>
  BY DEF SaveChain
<1>3. op'[o] = s /\ \A p \in Ops \ {o} : op'[p] = op[p] /\ op[p].pc = "idle"
  <2> HIDE DEF s
  <2> QED
    BY <1>1, <1>2, OnlyCall DEF InFlight, Sequential
<1>4. InHand'
  BY <1>2, <1>3 DEF InHand, InFlight
<1>5. \A i \in DOMAIN wire : wire[i].chain = st.chain => wire[i].n + 1 < st.Ns
  <2> TAKE i \in DOMAIN wire
  <2>1. wire[i].chain \in 1..Len(chains) /\ wire[i].n \in Nat /\ Len(chains) \in Nat
    BY WireTyped DEF Named, SenderTypeOK
  <2>2. wire[i].chain = old.chain => wire[i].n < old.Ns
    BY <1>1 DEF Sequential, KeysInv
  <2> QED
    BY <1>1, <2>1, <2>2 DEF States
<1>6. \A i \in DOMAIN wire : wire[i].n \in Nat
  BY WireTyped
<1>7. st.Ns \in Nat
  BY <1>1 DEF States
<1>8. KeysInv'
  <2> HIDE DEF st, s
  <2> QED
    BY <1>2, <1>3, <1>5, <1>6, <1>7 DEF Sequential, KeysInv, NoKeyReuse
<1>9. ~ old.pending => old.chain # 0 /\ (~ linkUp \/ HandshakeSent(old.chain))
  BY <1>1, <1>3 DEF Sequential, HandshakeInv, NoState
<1>10. ~ st.pending => st.chain # 0 /\ (~ linkUp \/ HandshakeSent(st.chain))
  BY <1>9
<1>11. HandshakeInv'
  <2> HIDE DEF st
  <2> QED
    BY <1>2, <1>3, <1>10 DEF Sequential, HandshakeInv, HandshakeSent
<1> QED
  BY <1>4, <1>8, <1>11 DEF Sequential

LEMMA SequentialClear ==
    ASSUME SenderTypeOK, Named, Sequential, NEW o \in Ops, ClearHandshake(o)
    PROVE  Sequential'
<1> DEFINE st == [op[o].st EXCEPT !.pending = FALSE]
           s == [pc |-> "send", st |-> st, hs |-> TRUE]
<1>1. op[o].pc = "clear" /\ op[o].st = stored /\ stored \in States /\ stored.chain # 0
  BY DEF ClearHandshake, Sequential, InHand, SenderTypeOK, Named, OpNamed
<1>2. op' = [op EXCEPT ![o] = s] /\ stored' = st /\ UNCHANGED <<linkUp, wire>>
  BY DEF ClearHandshake
<1>3. op'[o] = s /\ \A p \in Ops \ {o} : op'[p] = op[p] /\ op[p].pc = "idle"
  <2> HIDE DEF s
  <2> QED
    BY <1>1, <1>2, OnlyCall DEF InFlight, Sequential
<1>4. st.chain = stored.chain /\ st.Ns = stored.Ns /\ ~ st.pending
  BY <1>1 DEF States
<1> HIDE DEF st
<1>5. InHand'
  BY <1>2, <1>3 DEF InHand, InFlight
<1>6. KeysInv'
  BY <1>1, <1>2, <1>3, <1>4 DEF Sequential, KeysInv, NoKeyReuse
<1>7. HandshakeInv'
  BY <1>1, <1>2, <1>3, <1>4 DEF Sequential, HandshakeInv, HandshakeSent
<1> QED
  BY <1>5, <1>6, <1>7 DEF Sequential

LEMMA SequentialTransmit ==
    ASSUME SenderTypeOK, Named, Sequential, NEW o \in Ops, Transmit(o)
    PROVE  Sequential'
<1>1. /\ op[o].pc = "send" /\ op[o].st = stored /\ stored \in States
      /\ stored.chain # 0 /\ stored.Ns # 0 /\ op[o].hs \in BOOLEAN
  BY DEF Transmit, Sequential, InHand, SenderTypeOK, Named, OpNamed, OpStates
<1>2. op' = [op EXCEPT ![o] = Idle] /\ UNCHANGED <<linkUp, stored>>
  BY DEF Transmit
<1>3. op'[o] = Idle /\ \A p \in Ops \ {o} : op'[p] = op[p] /\ op[p].pc = "idle"
  BY <1>1, <1>2, OnlyCall DEF InFlight, Sequential
<1>4. \A p \in Ops : op'[p].pc = "idle"
  BY <1>3 DEF Idle
<1>5. InHand'
  BY <1>4 DEF InHand, InFlight
<1>6. CASE ~ linkUp
  <2>1. wire' = wire
    BY <1>6 DEF Transmit
  <2> QED
    BY <1>2, <1>4, <1>5, <1>6, <2>1
    DEF Sequential, KeysInv, HandshakeInv, HandshakeSent, NoKeyReuse
<1>7. CASE linkUp
  <2> DEFINE m == [chain |-> stored.chain, n |-> stored.Ns - 1, hs |-> op[o].hs]
             k == Len(wire) + 1
  <2>1. /\ wire' = Append(wire, m) /\ wire \in Seq(Messages)
        /\ stored.Ns \in Nat
    BY <1>1, <1>7 DEF Transmit, Encrypted, SenderTypeOK, States
  <2>2. /\ DOMAIN wire' = 1..k /\ DOMAIN wire = 1..Len(wire) /\ Len(wire) \in Nat
        /\ wire'[k] = m /\ \A i \in DOMAIN wire : wire'[i] = wire[i]
    BY <2>1
  <2>3. \A i \in DOMAIN wire : wire[i].chain = stored.chain => wire[i].n + 1 < stored.Ns
    BY <1>1 DEF Sequential, KeysInv
  <2>4. \A i \in DOMAIN wire : wire[i].n \in Nat
    BY WireTyped
  <2>5. NoKeyReuse'
    <3>1. ASSUME NEW i \in DOMAIN wire', NEW j \in DOMAIN wire', i # j
          PROVE  wire'[i].chain # wire'[j].chain \/ wire'[i].n # wire'[j].n
      <4>1. CASE i \in DOMAIN wire /\ j \in DOMAIN wire
        BY <2>2, <3>1, <4>1 DEF Sequential, KeysInv, NoKeyReuse
      <4>2. CASE i = k /\ j \in DOMAIN wire
        BY <2>1, <2>2, <2>3, <2>4, <4>2
      <4>3. CASE j = k /\ i \in DOMAIN wire
        BY <2>1, <2>2, <2>3, <2>4, <4>3
      <4> QED
        BY <2>2, <3>1, <4>1, <4>2, <4>3
    <3> QED
      BY <3>1 DEF NoKeyReuse
  <2>6. \A i \in DOMAIN wire' : wire'[i].chain = stored.chain => wire'[i].n < stored.Ns
    BY <2>1, <2>2, <2>3, <2>4
  <2>7. KeysInv'
    BY <1>2, <1>4, <2>5, <2>6 DEF KeysInv
  <2>8. HandshakeSent(stored.chain)'
    <3>1. CASE op[o].hs
      BY <1>2, <2>2, <3>1 DEF HandshakeSent
    <3>2. CASE ~ op[o].hs
      <4>1. PICK j \in DOMAIN wire : wire[j].hs /\ wire[j].chain = stored.chain
        BY <1>1, <1>7, <3>2 DEF Sequential, HandshakeInv, HandshakeSent
      <4> QED
        BY <1>2, <2>2, <4>1 DEF HandshakeSent
    <3> QED
      BY <3>1, <3>2
  <2>9. ASSUME NEW i \in DOMAIN wire', ~ wire'[i].hs
        PROVE  \E j \in 1..(i-1) : wire'[j].hs /\ wire'[j].chain = wire'[i].chain
    <3>1. CASE i \in DOMAIN wire
      <4>1. PICK j \in 1..(i-1) : wire[j].hs /\ wire[j].chain = wire[i].chain
        BY <2>2, <2>9, <3>1 DEF Sequential, HandshakeInv
      <4>2. j \in DOMAIN wire
        BY <2>2, <3>1
      <4> QED
        BY <2>2, <3>1, <4>1, <4>2
    <3>2. CASE i = k
      <4>1. ~ op[o].hs
        BY <2>2, <2>9, <3>2
      <4>2. PICK j \in DOMAIN wire : wire[j].hs /\ wire[j].chain = stored.chain
        BY <1>1, <1>7, <4>1 DEF Sequential, HandshakeInv, HandshakeSent
      <4> QED
        BY <2>2, <3>2, <4>2
    <3> QED
      BY <2>2, <3>1, <3>2
  <2>10. HandshakeInv'
    BY <1>1, <1>2, <1>4, <2>8, <2>9 DEF HandshakeInv
  <2> QED
    BY <1>5, <2>7, <2>10 DEF Sequential
<1> QED
  BY <1>6, <1>7

LEMMA SequentialStep ==
    ASSUME SenderTypeOK, Named, Sequential, [SenderNext]_senderVars, ~ overlapped'
    PROVE  Sequential'
<1>1. ASSUME BreakLink PROVE Sequential'
  BY <1>1 DEF BreakLink, Sequential, InHand, KeysInv, HandshakeInv, HandshakeSent,
     NoKeyReuse, InFlight
<1>2. ASSUME UNCHANGED senderVars PROVE Sequential'
  BY <1>2 DEF senderVars, Sequential, InHand, KeysInv, HandshakeInv, HandshakeSent,
     NoKeyReuse, InFlight
<1> QED
  BY <1>1, <1>2, SequentialLoad, SequentialRead, SequentialCreate, SequentialSave,
     SequentialClear, SequentialTransmit DEF SenderNext, SendStep

LEMMA SenderStepInv == SenderInv /\ [SenderNext]_senderVars => SenderInv'
<1> SUFFICES ASSUME SenderInv, [SenderNext]_senderVars PROVE SenderInv'
  OBVIOUS
<1>1. SenderTypeOK' /\ Named'
  BY SenderTypeStep DEF SenderInv
<1>2. ~ overlapped' => ~ overlapped
  BY DEF SenderInv, SenderNext, SendStep, LoadPage, BreakLink, ReadState, CreateState,
     SaveChain, ClearHandshake, Transmit, senderVars
<1>3. ~ overlapped' => Sequential'
  BY <1>2, SequentialStep DEF SenderInv, Sequential
<1> QED
  BY <1>1, <1>3 DEF SenderInv, Sequential

-----------------------------------------------------------------------------
(***************************************************************************)
(* The sender's variables keep their types: every message that reaches the *)
(* server names a chain that exists, whatever sends were in flight when    *)
(* the page was reloaded or the link broke.                                *)
(***************************************************************************)
THEOREM SenderTypeCorrect == SenderSpec => []SenderTypeOK
<1>1. SenderInv => SenderTypeOK
  BY DEF SenderInv
<1> QED
  BY <1>1, SenderInitInv, SenderStepInv, PTL DEF SenderSpec

(***************************************************************************)
(* encryptRatchetMessage never encrypts two messages with one key, over    *)
(* any number of page loads and dropped messages, unless sendCurrentMessage*)
(* was called again before it had finished.                                *)
(***************************************************************************)
THEOREM KeysUsedOnce == SenderSpec => []NoKeyReuseWithoutOverlap
<1>1. SenderInv => NoKeyReuseWithoutOverlap
  BY DEF SenderInv, KeysInv, NoKeyReuseWithoutOverlap
<1> QED
  BY <1>1, SenderInitInv, SenderStepInv, PTL DEF SenderSpec

(***************************************************************************)
(* encryptRatchetMessage erases the handshake from the stored state before *)
(* the message that carries it is sent; without overlapping sends no later *)
(* message of the chain reaches the server ahead of it.                    *)
(***************************************************************************)
THEOREM HandshakeComesFirst == SenderSpec => []HandshakeFirstWithoutOverlap
<1>1. SenderInv => HandshakeFirstWithoutOverlap
  BY DEF SenderInv, HandshakeInv, HandshakeFirstWithoutOverlap
<1> QED
  BY <1>1, SenderInitInv, SenderStepInv, PTL DEF SenderSpec
-----------------------------------------------------------------------------
(* The sender and the receiver.                                            *)

PublishedOK == published \in Bundles /\ spk \in 1..MaxSignedPreKeys

LEMMA PublishedInit == SessionInit => PublishedOK
  BY SessionAssumption DEF SessionInit, PublishedOK

LEMMA PublishedStep == PublishedOK /\ [SessionNext]_vars => PublishedOK'
<1> SUFFICES ASSUME PublishedOK, [SessionNext]_vars PROVE PublishedOK'
  OBVIOUS
<1>1. ASSUME NEW rotate \in BOOLEAN, NEW purge \in SUBSET used,
             NEW fresh \in 0..MaxOneTimeKeys, ReceiverLoads(rotate, purge, fresh)
      PROVE  PublishedOK'
  <2>1. spk' \in 1..MaxSignedPreKeys
    BY <1>1, SessionAssumption DEF ReceiverLoads, PublishedOK
  <2>2. fresh # NoKey => fresh \in 1..MaxOneTimeKeys
    BY SessionAssumption DEF NoKey
  <2> QED
    BY <1>1, <2>1, <2>2, SessionAssumption DEF ReceiverLoads, PublishedOK
<1>2. CASE UNCHANGED <<published, spk>>
  BY <1>2 DEF PublishedOK
<1> QED
  BY <1>1, <1>2 DEF SessionNext, SenderLoads, SenderLinkBreaks, SenderPrepares,
     SenderTransmits, ReceiverRegisters, ReceiverProcesses, DeleteForAll, vars, receiverVars

\* Every step of the composition is a step of the sender or leaves the sender alone.
LEMMA SessionStepIsSenderStep ==
    PublishedOK /\ [SessionNext]_vars => [SenderNext]_senderVars
<1> SUFFICES ASSUME PublishedOK, [SessionNext]_vars PROVE [SenderNext]_senderVars
  OBVIOUS
<1>1. CASE SenderLoads
  BY <1>1 DEF SenderLoads, SenderNext, PublishedOK
<1>2. CASE SenderLinkBreaks
  BY <1>2 DEF SenderLinkBreaks, SenderNext
<1>3. ASSUME NEW o \in Ops, SenderPrepares(o) PROVE SenderNext
  BY <1>3 DEF SenderPrepares, SenderNext, SendStep
<1>4. ASSUME NEW o \in Ops, SenderTransmits(o) PROVE SenderNext
  BY <1>4 DEF SenderTransmits, SenderNext, SendStep
<1>5. ASSUME NEW rotate \in BOOLEAN, NEW purge \in SUBSET used,
             NEW fresh \in 0..MaxOneTimeKeys, ReceiverLoads(rotate, purge, fresh)
      PROVE  UNCHANGED senderVars
  BY <1>5 DEF ReceiverLoads
<1>6. CASE ReceiverRegisters
  BY <1>6 DEF ReceiverRegisters
<1>7. ASSUME NEW m \in DOMAIN wire, ReceiverProcesses(m) \/ DeleteForAll(m)
      PROVE  UNCHANGED senderVars
  BY <1>7 DEF ReceiverProcesses, DeleteForAll
<1>8. CASE UNCHANGED vars
  BY <1>8 DEF vars
<1> QED
  BY <1>1, <1>2, <1>3, <1>4, <1>5, <1>6, <1>7, <1>8 DEF SessionNext

(***************************************************************************)
(* The composition of a sending and a receiving device implements the      *)
(* sender's own specification: nothing the receiver, the server's log or a *)
(* deletion does disturbs the sender.                                      *)
(***************************************************************************)
THEOREM SessionImplementsSender == SessionSpec => SenderSpec
<1>1. SessionInit => SenderInit
  BY DEF SessionInit
<1> QED
  BY <1>1, PublishedInit, PublishedStep, SessionStepIsSenderStep, PTL
  DEF SessionSpec, SenderSpec

(***************************************************************************)
(* In the composition no two messages the receiver is given are encrypted  *)
(* with one key, unless a send was started before the one before it ended. *)
(***************************************************************************)
THEOREM SessionKeysUsedOnce == SessionSpec => []NoKeyReuseWithoutOverlap
  BY SessionImplementsSender, KeysUsedOnce, PTL

-----------------------------------------------------------------------------
(* The keys a receiving chain has stored. *)

\* The stored keys of a chain that stands at nr: they ascend, lie below nr and respect the
\* cap.  Said by distances, so that nothing has to be counted later.
KeysOK(sk, nr) ==
    /\ sk \in Seq(0..MaxIndex) /\ Len(sk) <= MaxSkippedKeys
    /\ \A i \in 1..Len(sk) : sk[i] + Len(sk) - i + 1 <= nr
    /\ \A i, j \in 1..Len(sk) : i <= j => sk[j] - sk[i] >= j - i

\* A chain that stands at nr with the keys sk can open index n.
HasKey(sk, nr, n) == nr <= n \/ Contains(sk, n)

\* Skipping to an index keeps the keys that are not too far behind it.
SkipKeeps(sk, nr, sk2, nr2, until) ==
    \A n \in Nat : HasKey(sk, nr, n) /\ until <= n + MaxSkippedKeys => HasKey(sk2, nr2, n)

SkipOK(c, nr, sk, until) ==
    \E nr2 \in 0..MaxIndex, sk2 \in Seq(0..MaxIndex) :
        /\ SkipTo(OnChain(c, nr, sk), until) = OnChain(c, nr2, sk2)
        /\ nr2 = IF nr >= until THEN nr ELSE until
        /\ KeysOK(sk2, nr2)
        /\ SkipKeeps(sk, nr, sk2, nr2, until)

LEMMA SkipKeys ==
    ASSUME NEW c, NEW nr \in 0..MaxIndex, NEW sk, KeysOK(sk, nr), NEW until \in 0..MaxIndex
    PROVE  SkipOK(c, nr, sk, until)
<1>0. MaxIndex \in Nat /\ MaxSkippedKeys \in Nat /\ nr \in Nat /\ until \in Nat
  BY BoundsAssumption, SessionAssumption
<1>s. /\ sk \in Seq(0..MaxIndex) /\ Len(sk) \in Nat /\ DOMAIN sk = 1..Len(sk)
      /\ \A i \in 1..Len(sk) : sk[i] \in Nat /\ sk[i] <= MaxIndex
  BY <1>0 DEF KeysOK
<1>1. CASE nr >= until
  <2>1. SkipTo(OnChain(c, nr, sk), until) = OnChain(c, nr, sk)
    BY <1>1 DEF SkipTo, OnChain
  <2> QED
    BY <1>1, <1>s, <2>1 DEF SkipKeeps, SkipOK
<1>2. CASE nr < until
  <2> DEFINE d == until - nr
             ext == [i \in 1..d |-> nr + i - 1]
             keys == sk \o ext
             drop == IF Len(keys) > MaxSkippedKeys THEN Len(keys) - MaxSkippedKeys ELSE 0
             sk2 == SubSeq(keys, drop + 1, Len(keys))
  <2>1. SkipTo(OnChain(c, nr, sk), until) = OnChain(c, until, sk2)
    <3>1. ~ (OnChain(c, nr, sk).Nr >= until)
      BY <1>0, <1>2 DEF OnChain
    <3>2. /\ OnChain(c, nr, sk).chain = c /\ OnChain(c, nr, sk).Nr = nr
          /\ OnChain(c, nr, sk).skipped = sk
      BY DEF OnChain
    <3> QED BY <3>1, <3>2, Zenon DEF SkipTo
  <2>d. d \in Nat
    BY <1>0, <1>2
  <2>2. ext \in Seq(0..MaxIndex) /\ Len(ext) = d /\ \A i \in 1..d : ext[i] = nr + i - 1
    BY <1>0, <1>2, <2>d
  <2> HIDE DEF ext
  <2>3. /\ keys \in Seq(0..MaxIndex) /\ Len(keys) = Len(sk) + d
        /\ \A i \in 1..Len(keys) :
              keys[i] = IF i <= Len(sk) THEN sk[i] ELSE ext[i - Len(sk)]
    <3>1. /\ sk \o ext \in Seq(0..MaxIndex) /\ Len(sk \o ext) = Len(sk) + Len(ext)
          /\ \A i \in 1..(Len(sk) + Len(ext)) :
                (sk \o ext)[i] = IF i <= Len(sk) THEN sk[i] ELSE ext[i - Len(sk)]
      BY <1>s, <2>2, ConcatProperties
    <3> QED BY <2>2, <3>1
  <2> HIDE DEF keys
  <2>k. \A i \in 1..Len(keys) : keys[i] = IF i <= Len(sk) THEN sk[i] ELSE nr + (i - Len(sk)) - 1
    <3> SUFFICES ASSUME NEW i \in 1..Len(keys), ~ (i <= Len(sk))
                 PROVE  ext[i - Len(sk)] = nr + (i - Len(sk)) - 1
      BY <2>3
    <3>1. i - Len(sk) \in 1..d
      BY <1>s, <2>d, <2>3
    <3> QED BY <2>2, <3>1
  <2>4. \A i \in 1..Len(keys) : keys[i] \in Nat /\ keys[i] + Len(keys) - i + 1 <= until
    <3> TAKE i \in 1..Len(keys)
    <3>1. CASE i <= Len(sk)
      <4>1. i \in 1..Len(sk) /\ keys[i] = sk[i]
        BY <1>s, <2>k, <3>1
      <4>2. sk[i] + Len(sk) - i + 1 <= nr
        BY <4>1 DEF KeysOK
      <4>3. sk[i] \in Nat /\ Len(sk) \in Nat /\ Len(keys) = Len(sk) + (until - nr)
        BY <1>s, <2>3, <4>1
      <4> QED BY <1>0, <4>1, <4>2, <4>3
    <3>2. CASE ~ (i <= Len(sk))
      <4>1. Len(sk) \in Nat /\ Len(keys) = Len(sk) + (until - nr)
        BY <1>s, <2>3
      <4>2. keys[i] = nr + (i - Len(sk)) - 1
        BY <2>k, <3>2
      <4> QED BY <1>0, <3>2, <4>1, <4>2
    <3> QED BY <3>1, <3>2
  <2>5. \A i, j \in 1..Len(keys) : i <= j => keys[j] - keys[i] >= j - i
    <3> SUFFICES ASSUME NEW i \in 1..Len(keys), NEW j \in 1..Len(keys), i <= j
                 PROVE  keys[j] - keys[i] >= j - i
      OBVIOUS
    <3>1. CASE j <= Len(sk)
      <4>1. i \in 1..Len(sk) /\ j \in 1..Len(sk) /\ keys[i] = sk[i] /\ keys[j] = sk[j]
        BY <1>s, <2>k, <3>1
      <4> QED BY <4>1 DEF KeysOK
    <3>2. CASE i <= Len(sk) /\ ~ (j <= Len(sk))
      <4>1. i \in 1..Len(sk) /\ keys[i] = sk[i] /\ keys[j] = nr + (j - Len(sk)) - 1
        BY <1>s, <2>k, <3>2
      <4>2. sk[i] + Len(sk) - i + 1 <= nr
        BY <4>1 DEF KeysOK
      <4>3. sk[i] \in Nat /\ Len(sk) \in Nat /\ Len(keys) \in Nat
        BY <1>s, <2>3, <4>1
      <4> QED BY <1>0, <3>2, <4>1, <4>2, <4>3
    <3>3. CASE ~ (i <= Len(sk)) /\ ~ (j <= Len(sk))
      <4>1. Len(sk) \in Nat /\ Len(keys) \in Nat
        BY <1>s, <2>3
      <4>2. keys[i] = nr + (i - Len(sk)) - 1 /\ keys[j] = nr + (j - Len(sk)) - 1
        BY <2>k, <3>3
      <4> QED BY <1>0, <4>1, <4>2
    <3>4. Len(sk) \in Nat /\ Len(keys) \in Nat
      BY <1>s, <2>3
    <3> QED BY <3>1, <3>2, <3>3, <3>4
  <2>6. drop \in Nat /\ drop <= Len(keys) /\ Len(keys) - drop <= MaxSkippedKeys /\ Len(keys) \in Nat
        /\ (drop > 0 => Len(keys) - drop = MaxSkippedKeys)
    BY <1>0, <2>3
  <2> HIDE DEF drop
  <2>7. /\ sk2 \in Seq(0..MaxIndex) /\ Len(sk2) = Len(keys) - drop
        /\ \A i \in 1..Len(sk2) : sk2[i] = keys[i + drop]
    <3>1. drop + 1 \in 1..(Len(keys) + 1)
      BY <2>6
    <3>2. /\ sk2 \in Seq(0..MaxIndex)
          /\ Len(sk2) = IF drop + 1 <= Len(keys) THEN Len(keys) - (drop + 1) + 1 ELSE 0
          /\ \A i \in 1 .. Len(keys) - (drop + 1) + 1 : sk2[i] = keys[drop + 1 + i - 1]
      <4>1. \A i \in (drop + 1)..Len(keys) : keys[i] \in 0..MaxIndex
        <5>1. \A i \in 1..Len(keys) : keys[i] \in 0..MaxIndex
          <6>1. keys \in Seq(0..MaxIndex)
            BY <2>3
          <6> QED BY <6>1, ElementOfSeq
        <5>2. \A i \in (drop + 1)..Len(keys) : i \in 1..Len(keys)
          BY <2>6
        <5> QED BY <5>1, <5>2
      <4>2. drop + 1 \in Int /\ Len(keys) \in Int
        BY <2>6
      <4> HIDE DEF sk2
      <4> QED BY <4>1, <4>2, SubSeqProperties DEF sk2
    <3> QED BY <2>6, <3>2
  <2> HIDE DEF sk2
  <2>8. KeysOK(sk2, until)
    <3>1. \A i \in 1..Len(sk2) : i + drop \in 1..Len(keys)
      BY <2>6, <2>7
    <3>2. \A i \in 1..Len(sk2) : sk2[i] + Len(sk2) - i + 1 <= until
      <4> TAKE i \in 1..Len(sk2)
      <4>1. keys[i + drop] \in Nat /\ keys[i + drop] + Len(keys) - (i + drop) + 1 <= until
        BY <2>4, <3>1
      <4>2. sk2[i] = keys[i + drop] /\ Len(sk2) = Len(keys) - drop
        BY <2>7
      <4> QED BY <1>0, <2>6, <4>1, <4>2
    <3>3. \A i, j \in 1..Len(sk2) : i <= j => sk2[j] - sk2[i] >= j - i
      <4> TAKE i, j \in 1..Len(sk2)
      <4> HAVE i <= j
      <4>1. keys[j + drop] - keys[i + drop] >= (j + drop) - (i + drop)
        BY <2>5, <2>6, <3>1
      <4>2. keys[j + drop] \in Nat /\ keys[i + drop] \in Nat
        BY <2>4, <3>1
      <4>3. sk2[i] = keys[i + drop] /\ sk2[j] = keys[j + drop]
        BY <2>7
      <4> QED BY <2>6, <2>7, <4>1, <4>2, <4>3
    <3> QED BY <2>6, <2>7, <3>2, <3>3 DEF KeysOK
  <2>9. ASSUME NEW n \in Nat, HasKey(sk, nr, n), until <= n + MaxSkippedKeys, n < until
        PROVE  Contains(sk2, n)
    <3>1. \E p \in 1..Len(keys) : keys[p] = n
      <4>1. CASE nr <= n
        <5> DEFINE p == Len(sk) + n - nr + 1
        <5>1. p \in 1..Len(keys) /\ ~ (p <= Len(sk))
          BY <1>0, <1>s, <1>2, <2>3, <2>9, <4>1
        <5>2. keys[p] = n
          BY <1>0, <1>s, <2>k, <5>1
        <5> QED  BY <5>1, <5>2
      <4>2. CASE Contains(sk, n)
        <5>1. PICK p \in 1..Len(sk) : sk[p] = n
          BY <4>2 DEF Contains
        <5>2. p \in 1..Len(keys)
          BY <1>s, <2>3, <2>d
        <5> QED BY <1>s, <2>k, <5>1, <5>2
      <4> QED  BY <2>9, <4>1, <4>2 DEF HasKey
    <3>2. PICK p \in 1..Len(keys) : keys[p] = n
      BY <3>1
    <3>3. n + Len(keys) - p + 1 <= until
      BY <2>4, <3>2
    <3>4. p > drop
      BY <1>0, <2>6, <2>9, <3>2, <3>3
    <3>5. p - drop \in 1..Len(sk2) /\ (p - drop) + drop = p
      BY <2>6, <2>7, <3>2, <3>4
    <3>6. sk2[p - drop] = n
      BY <2>7, <3>2, <3>5
    <3> QED  BY <3>5, <3>6 DEF Contains
  <2> QED
    <3>1. until \in 0..MaxIndex /\ ~ (nr >= until)
      BY <1>0, <1>2
    <3>2. SkipKeeps(sk, nr, sk2, until, until)
      BY <1>0, <2>9 DEF HasKey, SkipKeeps
    <3> QED BY <2>1, <2>7, <2>8, <3>1, <3>2 DEF SkipOK
<1> QED
  BY <1>0, <1>1, <1>2

\* A stored key is taken out, the others stay.
LEMMA TakeKey ==
    ASSUME NEW nr \in 0..MaxIndex, NEW sk, KeysOK(sk, nr), NEW n \in Nat, Contains(sk, n)
    PROVE  /\ KeysOK(RemoveFirst(sk, n), nr)
           /\ \A k \in Nat : k # n /\ HasKey(sk, nr, k) => HasKey(RemoveFirst(sk, n), nr, k)
<1>0. MaxIndex \in Nat /\ MaxSkippedKeys \in Nat /\ nr \in Nat
  BY BoundsAssumption, SessionAssumption
<1>s. /\ sk \in Seq(0..MaxIndex) /\ Len(sk) \in Nat /\ DOMAIN sk = 1..Len(sk)
      /\ \A i \in 1..Len(sk) : sk[i] \in Nat /\ sk[i] <= MaxIndex
  BY <1>0 DEF KeysOK
<1>d. \A i, j \in 1..Len(sk) : i <= j => sk[j] - sk[i] >= j - i
  BY DEF KeysOK
<1>1. PICK p \in 1..Len(sk) : sk[p] = n
  BY DEF Contains
<1>2. \A i \in 1..Len(sk) : sk[i] = n => i = p
  <2> TAKE i \in 1..Len(sk)
  <2> HAVE sk[i] = n
  <2>1. i <= p => sk[p] - sk[i] >= p - i
    BY <1>d
  <2>2. p <= i => sk[i] - sk[p] >= i - p
    BY <1>d
  <2> QED BY <1>s, <1>1, <2>1, <2>2
<1> DEFINE I == {i \in 1..Len(sk) : sk[i] = n}
<1>3. Min(I) = p
  <2>1. I = {p}
    BY <1>1, <1>2
  <2>2. Min({p}) = p
    BY <1>1 DEF Min
  <2> QED BY <2>1, <2>2
<1> DEFINE sk2 == SubSeq(sk, 1, p - 1) \o SubSeq(sk, p + 1, Len(sk))
<1>4. RemoveFirst(sk, n) = sk2
  <2>1. I # {} /\ \E i \in 1..Len(sk) : sk[i] = n
    BY <1>1
  <2> QED BY <1>3, <2>1, Zenon DEF RemoveFirst, RemoveAt, SelectInSeq
<1>5. /\ sk2 \in Seq(0..MaxIndex) /\ Len(sk2) = Len(sk) - 1
      /\ \A i \in 1..Len(sk2) : sk2[i] = IF i < p THEN sk[i] ELSE sk[i + 1]
  <2> DEFINE a == SubSeq(sk, 1, p - 1)
             b == SubSeq(sk, p + 1, Len(sk))
  <2>1. /\ a \in Seq(0..MaxIndex) /\ Len(a) = p - 1 /\ \A i \in 1..(p - 1) : a[i] = sk[i]
    <3>1. 1 \in 1..(Len(sk) + 1) /\ p - 1 \in 0..Len(sk)
      BY <1>s
    <3>2. /\ a \in Seq(0..MaxIndex) /\ Len(a) = IF 1 <= p - 1 THEN p - 1 - 1 + 1 ELSE 0
          /\ \A i \in 1 .. (p - 1) - 1 + 1 : a[i] = sk[1 + i - 1]
      BY <1>s, <3>1, SubSeqProperties
    <3> QED BY <3>2
  <2>2. /\ b \in Seq(0..MaxIndex) /\ Len(b) = Len(sk) - p
        /\ \A i \in 1..(Len(sk) - p) : b[i] = sk[p + i]
    <3>1. p + 1 \in 1..(Len(sk) + 1) /\ Len(sk) \in p..Len(sk)
      BY <1>s
    <3>2. /\ b \in Seq(0..MaxIndex)
          /\ Len(b) = IF p + 1 <= Len(sk) THEN Len(sk) - (p + 1) + 1 ELSE 0
          /\ \A i \in 1 .. Len(sk) - (p + 1) + 1 : b[i] = sk[p + 1 + i - 1]
      <4>1. \A i \in (p + 1)..Len(sk) : sk[i] \in 0..MaxIndex
        BY <1>0, <1>s
      <4>2. p + 1 \in Int /\ Len(sk) \in Int
        BY <1>s
      <4> QED BY <4>1, <4>2, SubSeqProperties
    <3>3. \A i \in 1..(Len(sk) - p) : i \in 1 .. Len(sk) - (p + 1) + 1 /\ p + 1 + i - 1 = p + i
      BY <1>s
    <3>4. Len(b) = Len(sk) - p
      <4>1. Len(b) = IF p + 1 <= Len(sk) THEN Len(sk) - (p + 1) + 1 ELSE 0
        BY <3>2
      <4> HIDE DEF b
      <4>2. Len(sk) \in Nat /\ p \in Nat /\ p <= Len(sk)
        BY <1>s
      <4> QED BY <4>1, <4>2
    <3> QED BY <3>2, <3>3, <3>4
  <2> HIDE DEF a, b
  <2>3. /\ a \o b \in Seq(0..MaxIndex) /\ Len(a \o b) = Len(a) + Len(b)
        /\ \A i \in 1..(Len(a) + Len(b)) :
              (a \o b)[i] = IF i <= Len(a) THEN a[i] ELSE b[i - Len(a)]
    BY <2>1, <2>2, ConcatProperties
  <2>4. \A i \in 1..(Len(sk) - 1) : (a \o b)[i] = IF i < p THEN sk[i] ELSE sk[i + 1]
    <3> TAKE i \in 1..(Len(sk) - 1)
    <3>1. CASE i < p
      BY <1>s, <2>1, <2>2, <2>3, <3>1
    <3>2. CASE ~ (i < p)
      <4>1. i - (p - 1) \in 1..(Len(sk) - p) /\ p + (i - (p - 1)) = i + 1 /\ ~ (i <= p - 1)
        BY <1>s, <3>2
      <4>2. (a \o b)[i] = b[i - (p - 1)]
        BY <1>s, <2>1, <2>2, <2>3, <4>1
      <4> QED BY <2>2, <3>2, <4>1, <4>2
    <3> QED BY <3>1, <3>2
  <2>5. Len(a \o b) = Len(sk) - 1
    BY <1>s, <2>1, <2>2, <2>3
  <2> QED BY <2>3, <2>4, <2>5 DEF a, b
<1> HIDE DEF sk2
<1>6. KeysOK(sk2, nr)
  <2>1. \A i \in 1..Len(sk2) : /\ i \in 1..Len(sk) /\ i + 1 \in 1..Len(sk)
                               /\ i < p => sk2[i] = sk[i]
                               /\ ~ (i < p) => sk2[i] = sk[i + 1]
    BY <1>s, <1>5
  <2>2. \A i \in 1..Len(sk2) : sk2[i] + Len(sk2) - i + 1 <= nr
    <3> TAKE i \in 1..Len(sk2)
    <3>1. sk[i] + Len(sk) - i + 1 <= nr /\ sk[i + 1] + Len(sk) - (i + 1) + 1 <= nr
      BY <2>1 DEF KeysOK
    <3>2. sk[i] \in Nat /\ sk[i + 1] \in Nat
      BY <1>s, <2>1
    <3>3. sk2[i] = sk[i] \/ sk2[i] = sk[i + 1]
      BY <2>1
    <3>4. ~ (i < p) => sk2[i] = sk[i + 1]
      BY <2>1
    <3>5. i < p => sk2[i] = sk[i]
      BY <2>1
    <3>6. i \in Nat /\ Len(sk) \in Nat /\ Len(sk2) = Len(sk) - 1 /\ nr \in Nat
      BY <1>0, <1>s, <1>5
    <3>7. CASE i < p
      BY <3>1, <3>2, <3>5, <3>6, <3>7
    <3>8. CASE ~ (i < p)
      BY <3>1, <3>2, <3>4, <3>6, <3>8
    <3> QED BY <3>7, <3>8
  <2>3. \A i, j \in 1..Len(sk2) : i <= j => sk2[j] - sk2[i] >= j - i
    <3> TAKE i, j \in 1..Len(sk2)
    <3> HAVE i <= j
    <3>1. /\ sk[j] - sk[i] >= j - i /\ sk[j + 1] - sk[i + 1] >= (j + 1) - (i + 1)
          /\ sk[j + 1] - sk[i] >= (j + 1) - i
      BY <1>d, <2>1
    <3>2. /\ sk[j] \in Nat /\ sk[i] \in Nat /\ sk[j + 1] \in Nat /\ sk[i + 1] \in Nat
      BY <1>s, <2>1
    <3>3. /\ i < p => sk2[i] = sk[i]
          /\ ~ (i < p) => sk2[i] = sk[i + 1]
          /\ j < p => sk2[j] = sk[j]
          /\ ~ (j < p) => sk2[j] = sk[j + 1]
      BY <2>1
    <3>4. i \in Nat /\ j \in Nat
      OBVIOUS
    <3>5. CASE j < p
      <4>1. i < p
        BY <3>4, <3>5, p \in Nat
      <4> QED BY <3>1, <3>2, <3>3, <3>4, <3>5, <4>1
    <3>6. CASE i < p /\ ~ (j < p)
      BY <3>1, <3>2, <3>3, <3>4, <3>6
    <3>7. CASE ~ (i < p) /\ ~ (j < p)
      BY <3>1, <3>2, <3>3, <3>4, <3>7
    <3> QED BY <3>5, <3>6, <3>7
  <2> QED BY <1>0, <1>s, <1>5, <2>2, <2>3 DEF KeysOK
<1>7. ASSUME NEW k \in Nat, k # n, HasKey(sk, nr, k)
      PROVE  HasKey(sk2, nr, k)
  <2>1. CASE Contains(sk, k)
    <3>1. PICK q \in 1..Len(sk) : sk[q] = k
      BY <2>1 DEF Contains
    <3>2. q # p
      BY <1>1, <1>7, <3>1
    <3>3. \E i \in 1..Len(sk2) : sk2[i] = k
      <4>1. CASE q < p
        <5>1. q \in 1..Len(sk2) /\ sk2[q] = sk[q]
          BY <1>s, <1>5, <4>1
        <5> QED BY <3>1, <5>1
      <4>2. CASE q > p
        <5>1. q - 1 \in 1..Len(sk2) /\ ~ (q - 1 < p) /\ (q - 1) + 1 = q
          BY <1>s, <1>5, <4>2
        <5> QED BY <1>5, <3>1, <5>1
      <4> QED BY <3>2, <4>1, <4>2
    <3> QED BY <3>3 DEF HasKey, Contains
  <2> QED BY <1>7, <2>1 DEF HasKey
<1> QED
  BY <1>4, <1>6, <1>7

-----------------------------------------------------------------------------
(* What one decryption does to a state (decryptWithState). *)

\* The receiver's prekeys still give the secret that chain c was made from.
Held(c) == ResponderSecret(chains[c]) = InitiatorSecret(chains[c])

Secrets == [root : 0..MaxRoots, spk : 0..MaxSignedPreKeys, otpk : 0..MaxOneTimeKeys]

\* A secret that a stored state is left with opens no chain: it was made without a
\* handshake, or from a handshake whose prekeys are gone.
DeadSecret(q) ==
    /\ q \in Secrets
    /\ q.root # 0 => /\ q.root \in 1..Len(roots)
                     /\ q = ResponderSecret(q.root) /\ q # InitiatorSecret(q.root)

\* What a receiving state can be.
SessionOK(s) ==
    \/ s = NoSession
    \/ \E q : DeadSecret(q) /\ s = Bootstrap(q)
    \/ \E c \in 1..MaxRoots, nr \in 0..MaxIndex, sk \in Seq(0..MaxIndex) :
            KeysOK(sk, nr) /\ s = OnChain(c, nr, sk)

Stands(s, c) == s.kind = "chain" /\ s.chain = c

Opens(s, n) == HasKey(s.skipped, s.Nr, n)

\* What a message on the wire can be.
MessageOK(m) ==
    /\ m \in Messages /\ m.n < MaxIndex
    /\ m.n = 0 => m.hs
    /\ m.chain \in 1..Len(chains) /\ chains[m.chain] \in 1..Len(roots)

\* What receiving m does to a state: chains are entered by a handshake only, and left only
\* by a reset; an index is lost only when it is used or too far behind.
Effect(s, m, r) ==
    /\ r.ok \in BOOLEAN /\ SessionOK(r.st)
    /\ r.ok => Stands(r.st, m.chain)
    /\ Stands(s, m.chain) /\ Opens(s, m.n) => r.ok
    /\ \A c \in Nat, n \in Nat :
          /\ Stands(r.st, c)
          /\ c = m.chain => n # m.n /\ m.n <= n + MaxSkippedKeys
          /\ Stands(s, c) => Opens(s, n)
          => Opens(r.st, n)

\* decryptWithState neither leaves a chain nor enters one but from nothing.
KeepsEffect(s, m, r) ==
    /\ Effect(s, m, r)
    /\ s.kind = "chain" => Stands(r.st, s.chain) /\ (r.ok \/ r.st = s)
    /\ s.kind # "chain" /\ r.st.kind = "chain" => m.hs /\ Held(m.chain) /\ r.st.chain = m.chain
    /\ s = NoSession /\ m.hs /\ Held(m.chain) => r.ok

LEMMA Kinds ==
    /\ NoSession.kind = "none" /\ \A q : Bootstrap(q).kind = "bootstrap"
    /\ \A q : Bootstrap(q).secret = q
    /\ \A c, nr, sk : /\ OnChain(c, nr, sk).kind = "chain" /\ OnChain(c, nr, sk).chain = c
                      /\ OnChain(c, nr, sk).Nr = nr /\ OnChain(c, nr, sk).skipped = sk
  BY DEF NoSession, Bootstrap, OnChain

\* A result on the message's chain has its effect if the other keys are kept.
LEMMA OnChainEffect ==
    ASSUME NEW m, NEW s, NEW r, NEW nr \in 0..MaxIndex, NEW sk, KeysOK(sk, nr),
           m.chain \in 1..MaxRoots,
           r.ok = TRUE, r.st = OnChain(m.chain, nr, sk),
           (s = NoSession /\ m.hs /\ Held(m.chain)) \/ Stands(s, m.chain),
           \A n \in Nat : n # m.n /\ m.n <= n + MaxSkippedKeys
                             /\ (Stands(s, m.chain) => Opens(s, n)) => HasKey(sk, nr, n)
    PROVE  KeepsEffect(s, m, r)
<1>1. /\ r.st.kind = "chain" /\ r.st.chain = m.chain /\ r.st.Nr = nr /\ r.st.skipped = sk
      /\ NoSession.kind # "chain"
  BY Kinds
<1>2. SessionOK(r.st)
  BY DEF SessionOK, KeysOK
<1>3. Stands(r.st, m.chain) /\ \A n : Opens(r.st, n) <=> HasKey(sk, nr, n)
  BY <1>1 DEF Stands, Opens
<1>4. \A c \in Nat, n \in Nat :
          /\ Stands(r.st, c)
          /\ c = m.chain => n # m.n /\ m.n <= n + MaxSkippedKeys
          /\ Stands(s, c) => Opens(s, n)
          => Opens(r.st, n)
  BY <1>1, <1>3 DEF Stands
<1>5. Effect(s, m, r)
  BY <1>2, <1>3, <1>4 DEF Effect
<1> QED
  BY <1>1, <1>3, <1>5 DEF KeepsEffect, Stands

LEMMA KeysGrow ==
    ASSUME NEW nr \in Nat, NEW sk, KeysOK(sk, nr)
    PROVE  KeysOK(sk, nr + 1)
<1>0. MaxIndex \in Nat
  BY BoundsAssumption
<1>1. \A i \in 1..Len(sk) : sk[i] + Len(sk) - i + 1 <= nr + 1
  <2> TAKE i \in 1..Len(sk)
  <2>1. sk \in Seq(0..MaxIndex)
    BY DEF KeysOK
  <2>2. sk[i] \in 0..MaxIndex
    BY <2>1, ElementOfSeq
  <2>4. Len(sk) \in Nat
    BY <2>1
  <2>3. sk[i] + Len(sk) - i + 1 <= nr
    BY DEF KeysOK
  <2> QED BY <1>0, <2>2, <2>3, <2>4
<1> QED
  BY <1>1 DEF KeysOK

\* On the message's chain: a stored key, the next index or a later one.
LEMMA OnItsChain ==
    ASSUME NEW c \in 1..MaxRoots, NEW nr \in 0..MaxIndex, NEW sk, KeysOK(sk, nr),
           NEW m, MessageOK(m), m.chain = c, NEW s, s = OnChain(c, nr, sk)
    PROVE  KeepsEffect(s, m, DecryptWithState(s, m))
<1>0. MaxIndex \in Nat /\ MaxSkippedKeys \in Nat /\ nr \in Nat /\ m.n \in Nat /\ m.n < MaxIndex
  BY BoundsAssumption, SessionAssumption DEF MessageOK, Messages
<1>1. /\ s.kind = "chain" /\ s.chain = c /\ s.Nr = nr /\ s.skipped = sk
      /\ StateFor(s, m) = s /\ OnSenderChain(s, m) /\ s # NoSession
  BY Kinds DEF StateFor, OnSenderChain
<1> DEFINE r == DecryptWithState(s, m)
           at == SkipTo(s, m.n)
<1>2. r = IF Contains(sk, m.n) THEN [ok |-> TRUE, st |-> [s EXCEPT !.skipped = RemoveFirst(@, m.n)]]
          ELSE IF at.Nr = m.n THEN [ok |-> TRUE, st |-> [at EXCEPT !.Nr = m.n + 1]]
               ELSE [ok |-> FALSE, st |-> s]
  BY <1>1, Zenon DEF DecryptWithState
<1> HIDE DEF r
<1> SUFFICES KeepsEffect(s, m, r)
  BY DEF r
<1>3. CASE Contains(sk, m.n)
  <2> DEFINE sk2 == RemoveFirst(sk, m.n)
  <2>1. r = [ok |-> TRUE, st |-> OnChain(c, nr, sk2)]
    BY <1>1, <1>2, <1>3 DEF OnChain
  <2>2. /\ KeysOK(sk2, nr)
        /\ \A k \in Nat : k # m.n /\ HasKey(sk, nr, k) => HasKey(sk2, nr, k)
    BY <1>0, <1>3, TakeKey
  <2> HIDE DEF sk2
  <2>3. r.ok = TRUE /\ r.st = OnChain(c, nr, sk2)
    BY <2>1
  <2>4. SessionOK(r.st)
    BY <2>2, <2>3 DEF SessionOK, KeysOK
  <2>5. Stands(s, m.chain) /\ \A n : Opens(s, n) <=> HasKey(sk, nr, n)
    BY <1>1 DEF Stands, Opens
  <2> QED
    BY <2>2, <2>3, <2>5, OnChainEffect
<1>4. CASE ~ Contains(sk, m.n)
  <2>1. m.n \in 0..MaxIndex
    BY <1>0
  <2>2. PICK nr2 \in 0..MaxIndex, sk2 \in Seq(0..MaxIndex) :
            /\ at = OnChain(c, nr2, sk2)
            /\ nr2 = IF nr >= m.n THEN nr ELSE m.n
            /\ KeysOK(sk2, nr2)
            /\ SkipKeeps(sk, nr, sk2, nr2, m.n)
    <3>1. SkipOK(c, nr, sk, m.n)
      BY <2>1, SkipKeys
    <3> QED BY <3>1 DEF SkipOK
  <2>3. CASE nr <= m.n
    <3>1. nr2 = m.n /\ at.Nr = m.n
      BY <1>0, <2>2, <2>3, Kinds
    <3>2. r = [ok |-> TRUE, st |-> OnChain(c, m.n + 1, sk2)]
      <4>1. [OnChain(c, nr2, sk2) EXCEPT !.Nr = m.n + 1] = OnChain(c, m.n + 1, sk2)
        BY DEF OnChain
      <4> QED BY <1>2, <1>4, <2>2, <3>1, <4>1, Zenon
    <3>3. r.ok = TRUE /\ r.st = OnChain(c, m.n + 1, sk2)
      BY <3>2
    <3>4. KeysOK(sk2, m.n + 1)
      BY <1>0, <2>2, <3>1, KeysGrow
    <3>6. \A n \in Nat : n # m.n /\ m.n <= n + MaxSkippedKeys /\ HasKey(sk, nr, n)
                            => HasKey(sk2, m.n + 1, n)
      BY <1>0, <2>2, <3>1 DEF HasKey, SkipKeeps
    <3>7. Stands(s, m.chain) /\ \A n : Opens(s, n) <=> HasKey(sk, nr, n)
      BY <1>1 DEF Stands, Opens
    <3>8. m.n + 1 \in 0..MaxIndex
      BY <1>0
    <3> QED
      BY <3>3, <3>4, <3>6, <3>7, <3>8, OnChainEffect
  <2>4. CASE ~ (nr <= m.n)
    <3>1. at.Nr # m.n
      BY <1>0, <2>2, <2>4, Kinds
    <3>2. r.ok = FALSE /\ r.st = s
      BY <1>2, <1>4, <3>1
    <3>3. ~ HasKey(sk, nr, m.n)
      BY <1>4, <2>4 DEF HasKey
    <3>4. SessionOK(s)
      BY DEF SessionOK, KeysOK
    <3>5. Stands(s, m.chain) /\ ~ Opens(s, m.n)
      BY <1>1, <3>3 DEF Stands, Opens
    <3>6. Effect(s, m, r)
      BY <3>2, <3>4, <3>5 DEF Effect
    <3> QED
      BY <1>1, <3>2, <3>6 DEF KeepsEffect, Stands
  <2> QED
    BY <2>3, <2>4
<1> QED
  BY <1>3, <1>4

\* A state that cannot reach the message's chain stays as it is.
LEMMA OffItsChain ==
    ASSUME NEW s, SessionOK(s), s # NoSession, NEW m, MessageOK(m), ~ Stands(s, m.chain)
    PROVE  KeepsEffect(s, m, DecryptWithState(s, m))
<1>1. StateFor(s, m) = s
  BY Kinds DEF StateFor, SessionOK
<1>2. ~ OnSenderChain(s, m)
  <2>1. ASSUME NEW q, DeadSecret(q), s = Bootstrap(q) PROVE ~ OnSenderChain(s, m)
    <3>1. s.kind = "bootstrap" /\ s.secret = q
      BY <2>1, Kinds
    <3>2. chains[m.chain] \in Nat /\ chains[m.chain] # 0
      BY DEF MessageOK
    <3>3. InitiatorSecret(chains[m.chain]).root = chains[m.chain]
      BY DEF InitiatorSecret
    <3>4. q # InitiatorSecret(chains[m.chain])
      BY <2>1, <3>2, <3>3 DEF DeadSecret
    <3> QED BY <3>1, <3>4 DEF OnSenderChain
  <2>2. CASE \E c \in 1..MaxRoots, nr \in 0..MaxIndex, sk \in Seq(0..MaxIndex) :
                 s = OnChain(c, nr, sk)
    BY <2>2, Kinds DEF OnSenderChain, Stands
  <2> QED BY <2>1, <2>2 DEF SessionOK
<1>3. DecryptWithState(s, m) = [ok |-> FALSE, st |-> s]
  BY <1>1, <1>2 DEF DecryptWithState
<1> DEFINE r == DecryptWithState(s, m)
<1>4. r.ok = FALSE /\ r.st = s
  BY <1>3
<1> HIDE DEF r
<1>5. Effect(s, m, r)
  BY <1>4 DEF Effect
<1>6. KeepsEffect(s, m, r)
  BY <1>4, <1>5 DEF KeepsEffect, Stands
<1> QED
  BY <1>6 DEF r

\* From nothing: a handshake whose prekeys are held opens its chain at any index.
LEMMA FromNothing ==
    ASSUME NEW m, MessageOK(m), Len(roots) \in Nat, Len(roots) <= MaxRoots,
           Len(chains) \in Nat, Len(chains) <= MaxRoots,
           NoKey \in 0..MaxOneTimeKeys, spk \in 0..MaxSignedPreKeys,
           \A r \in 1..Len(roots) : roots[r].otpk \in 0..MaxOneTimeKeys
    PROVE  KeepsEffect(NoSession, m, DecryptWithState(NoSession, m))
<1> DEFINE q == IF m.hs THEN ResponderSecret(chains[m.chain]) ELSE IdentitySecret
           r == DecryptWithState(NoSession, m)
<1>0. MaxIndex \in Nat /\ MaxSkippedKeys \in Nat /\ MaxRoots \in Nat
      /\ m.n \in Nat /\ m.n < MaxIndex /\ m.hs \in BOOLEAN
      /\ MaxSignedPreKeys \in Nat /\ MaxOneTimeKeys \in Nat
  BY BoundsAssumption, SessionAssumption DEF MessageOK, Messages
<1>1. StateFor(NoSession, m) = Bootstrap(q)
  BY Kinds DEF StateFor
<1>2. OnSenderChain(Bootstrap(q), m) <=> q = InitiatorSecret(chains[m.chain])
  BY Kinds DEF OnSenderChain
<1>3. q = InitiatorSecret(chains[m.chain]) <=> m.hs /\ Held(m.chain)
  <2>1. chains[m.chain] # 0
    BY DEF MessageOK
  <2>2. IdentitySecret # InitiatorSecret(chains[m.chain])
    BY <2>1 DEF IdentitySecret, InitiatorSecret
  <2> QED BY <1>0, <2>2 DEF Held
<1>4. q \in Secrets /\ (q.root # 0 => q.root \in 1..Len(roots) /\ q = ResponderSecret(q.root))
  <2>1. CASE m.hs
    <3>1. chains[m.chain] \in 1..Len(roots)
      BY DEF MessageOK
    <3>2. roots[chains[m.chain]].otpk \in 0..MaxOneTimeKeys
      BY <3>1
    <3>3. chains[m.chain] \in 0..MaxRoots
      BY <1>0, <3>1
    <3>4. q.root = chains[m.chain] /\ q \in Secrets
      BY <2>1, <3>2, <3>3 DEF ResponderSecret, Secrets
    <3> QED BY <2>1, <3>1, <3>4
  <2>2. CASE ~ m.hs
    BY <1>0, <2>2 DEF IdentitySecret, Secrets
  <2> QED BY <2>1, <2>2
<1> HIDE DEF q
<1>5. CASE ~ (m.hs /\ Held(m.chain))
  <2>1. r = [ok |-> FALSE, st |-> Bootstrap(q)]
    BY <1>1, <1>2, <1>3, <1>5 DEF DecryptWithState
  <2>2. DeadSecret(q)
    <3>1. ASSUME q.root # 0 PROVE q # InitiatorSecret(q.root)
      <4>1. SUFFICES ASSUME q = InitiatorSecret(q.root) PROVE FALSE
        OBVIOUS
      <4>2. q.root = chains[m.chain]
        BY <1>4, <3>1 DEF q, ResponderSecret, IdentitySecret
      <4> QED BY <1>3, <1>5, <4>1, <4>2
    <3> QED BY <1>4, <3>1 DEF DeadSecret
  <2>3. r.ok = FALSE /\ r.st = Bootstrap(q) /\ SessionOK(Bootstrap(q))
    BY <2>1, <2>2 DEF SessionOK
  <2> HIDE DEF r
  <2> QED
    <3>1. Bootstrap(q).kind # "chain" /\ NoSession.kind # "chain"
      BY Kinds
    <3>2. Effect(NoSession, m, r)
      BY <2>3, <3>1 DEF Effect, Stands
    <3>3. KeepsEffect(NoSession, m, r)
      BY <1>5, <2>3, <3>1, <3>2 DEF KeepsEffect
    <3> QED BY <3>3 DEF r
<1>6. CASE m.hs /\ Held(m.chain)
  <2> DEFINE at == SkipTo(OnChain(m.chain, 0, <<>>), m.n)
  <2>1. r = IF at.Nr = m.n THEN [ok |-> TRUE, st |-> [at EXCEPT !.Nr = m.n + 1]]
            ELSE [ok |-> FALSE, st |-> Bootstrap(q)]
    BY <1>1, <1>2, <1>3, <1>6, Kinds, Zenon DEF DecryptWithState
  <2>2. KeysOK(<<>>, 0) /\ m.n \in 0..MaxIndex /\ 0 \in 0..MaxIndex
    BY <1>0 DEF KeysOK
  <2>3. PICK nr2 \in 0..MaxIndex, sk2 \in Seq(0..MaxIndex) :
            /\ at = OnChain(m.chain, nr2, sk2)
            /\ nr2 = IF 0 >= m.n THEN 0 ELSE m.n
            /\ KeysOK(sk2, nr2)
            /\ SkipKeeps(<<>>, 0, sk2, nr2, m.n)
    <3>1. SkipOK(m.chain, 0, <<>>, m.n)
      BY <2>2, SkipKeys
    <3> QED BY <3>1 DEF SkipOK
  <2>4. nr2 = m.n /\ at.Nr = m.n
    BY <1>0, <2>3, Kinds
  <2>5. r = [ok |-> TRUE, st |-> OnChain(m.chain, m.n + 1, sk2)]
    <3>1. [OnChain(m.chain, nr2, sk2) EXCEPT !.Nr = m.n + 1] = OnChain(m.chain, m.n + 1, sk2)
      BY DEF OnChain
    <3> QED BY <2>1, <2>3, <2>4, <3>1, Zenon
  <2> HIDE DEF r, at
  <2>6. r.ok = TRUE /\ r.st = OnChain(m.chain, m.n + 1, sk2)
    BY <2>5
  <2>7. KeysOK(sk2, m.n + 1)
    BY <1>0, <2>3, <2>4, KeysGrow
  <2>8. m.chain \in 1..MaxRoots /\ m.n + 1 \in 0..MaxIndex
    BY <1>0 DEF MessageOK, Messages
  <2>9. \A n \in Nat : n # m.n /\ m.n <= n + MaxSkippedKeys => HasKey(sk2, m.n + 1, n)
    BY <1>0, <2>3, <2>4 DEF HasKey, SkipKeeps
  <2>10. KeepsEffect(NoSession, m, r)
    BY <1>6, <2>6, <2>7, <2>8, <2>9, OnChainEffect
  <2> QED
    BY <2>10 DEF r
<1> QED
  BY <1>5, <1>6

-----------------------------------------------------------------------------
(* What receiving a message does to a state (decryptRatchetMessage), and what is then true
   of a state that has received some messages. *)

\* What the sender and the receiver's prekeys provide for the receiver's states.
WireOK ==
    /\ \A i \in DOMAIN wire : MessageOK(wire[i])
    /\ Len(roots) \in Nat /\ Len(roots) <= MaxRoots
    /\ Len(chains) \in Nat /\ Len(chains) <= MaxRoots
    /\ \A r \in 1..Len(roots) : roots[r].otpk \in 0..MaxOneTimeKeys
    /\ spk \in 0..MaxSignedPreKeys

\* decryptRatchetMessage: a handshake opens its chain whenever its prekeys are held, and
\* a message without one neither enters a chain nor leaves one.
RatchetEffect(s, m, r) ==
    /\ Effect(s, m, r)
    /\ m.hs /\ Held(m.chain) => r.ok
    /\ m.hs /\ r.st.kind = "chain" =>
          r.st.chain = m.chain /\ (Held(m.chain) \/ Stands(s, m.chain))
    /\ ~ m.hs => /\ s.kind = "chain" => Stands(r.st, s.chain) /\ (r.ok \/ r.st = s)
                 /\ r.st.kind = "chain" => s.kind = "chain"

LEMMA OneDecryption ==
    ASSUME WireOK, NEW s, SessionOK(s), NEW m, MessageOK(m)
    PROVE  KeepsEffect(s, m, DecryptWithState(s, m))
<1>1. CASE s = NoSession
  <2>1. NoKey \in 0..MaxOneTimeKeys
    BY SessionAssumption DEF NoKey
  <2> QED
    BY <1>1, <2>1, FromNothing DEF WireOK
<1>2. CASE s # NoSession /\ ~ Stands(s, m.chain)
  BY <1>2, OffItsChain
<1>3. CASE Stands(s, m.chain)
  <2>1. PICK c \in 1..MaxRoots, nr \in 0..MaxIndex, sk \in Seq(0..MaxIndex) :
            KeysOK(sk, nr) /\ s = OnChain(c, nr, sk)
    BY <1>3, Kinds DEF SessionOK, Stands
  <2>2. m.chain = c
    BY <1>3, <2>1, Kinds DEF Stands
  <2> QED
    BY <2>1, <2>2, OnItsChain
<1> QED
  BY <1>1, <1>2, <1>3

LEMMA Reception ==
    ASSUME WireOK, NEW s, SessionOK(s), NEW m, MessageOK(m)
    PROVE  RatchetEffect(s, m, DecryptRatchetMessage(s, m))
<1> DEFINE first == DecryptWithState(s, m)
           again == DecryptWithState(NoSession, m)
           r == DecryptRatchetMessage(s, m)
<1>1. KeepsEffect(s, m, first)
  BY OneDecryption
<1>2. KeepsEffect(NoSession, m, again)
  BY OneDecryption DEF SessionOK
<1>3. r = IF first.ok \/ ~ ResetsSession(m) THEN first ELSE again
  BY DEF DecryptRatchetMessage
<1>4. ResetsSession(m) <=> m.hs
  BY DEF ResetsSession, MessageOK, Messages
<1>5. NoSession.kind # "chain"
  BY Kinds
<1> HIDE DEF first, again, r
<1>6. CASE ~ m.hs
  <2>1. r = first
    BY <1>3, <1>4, <1>6
  <2> QED
    BY <1>1, <1>6, <2>1 DEF RatchetEffect, KeepsEffect, r
<1>7. CASE m.hs /\ first.ok
  <2>1. r = first /\ Effect(s, m, r) /\ Stands(r.st, m.chain)
    BY <1>1, <1>3, <1>7 DEF KeepsEffect, Effect
  <2>2. Held(m.chain) \/ Stands(s, m.chain)
    BY <1>1, <2>1 DEF KeepsEffect, Stands
  <2> QED
    BY <1>7, <2>1, <2>2 DEF RatchetEffect, Stands, r
<1>8. CASE m.hs /\ ~ first.ok
  <2>1. r = again
    BY <1>3, <1>4, <1>8
  <2>2. Effect(NoSession, m, r)
    BY <1>2, <2>1 DEF KeepsEffect
  <2>3. ~ (Stands(s, m.chain) /\ Opens(s, m.n))
    BY <1>1, <1>8 DEF KeepsEffect, Effect
  <2>4. Effect(s, m, r)
    BY <1>5, <2>2, <2>3 DEF Effect, Stands
  <2>5. /\ Held(m.chain) => r.ok
        /\ r.st.kind = "chain" => Held(m.chain) /\ r.st.chain = m.chain
    BY <1>2, <1>5, <1>8, <2>1 DEF KeepsEffect
  <2> QED
    BY <1>8, <2>4, <2>5 DEF RatchetEffect, r
<1> QED
  BY <1>6, <1>7, <1>8

\* Chain c was opened by a handshake among the messages p, and none of another chain has
\* reset the session since.
Opener(i, c, p) ==
    /\ i \in p /\ wire[i].hs /\ wire[i].chain = c
    /\ \A k \in p : i < k /\ wire[k].hs => wire[k].chain = c

Opened(c, p) == Held(c) /\ \E i \in p : Opener(i, c, p)

\* Index n of chain c is neither used by a message of f nor too far behind one.
Fresh(n, c, f) ==
    \A k \in f : wire[k].chain = c => wire[k].n # n /\ wire[k].n <= n + MaxSkippedKeys

Entered(base, p, s) ==
    s.kind = "chain" =>
        \/ Opened(s.chain, p)
        \/ Stands(base, s.chain) /\ \A k \in p : wire[k].hs => wire[k].chain = s.chain

KeepsKeys(f, s) == \A c \in Nat, n \in Nat : Stands(s, c) /\ Fresh(n, c, f) => Opens(s, n)

\* The state s after the messages p were received, starting from base: it is on the chain
\* that p has opened, if there is one, and has every key that no message of f took away.
After(base, f, p, s) ==
    /\ SessionOK(s)
    /\ Entered(base, p, s)
    /\ \A c \in Nat : Opened(c, p) => Stands(s, c)
    /\ KeepsKeys(f, s)

LEMMA Advance ==
    ASSUME WireOK, NEW base, NEW f, NEW p, NEW m, p \subseteq Nat, m \in Nat, m \in DOMAIN wire,
           \A k \in p : k < m, m \in f, NEW s, After(base, f, p, s)
    PROVE  After(base, f, p \cup {m}, DecryptRatchetMessage(s, wire[m]).st)
<1> DEFINE r == DecryptRatchetMessage(s, wire[m])
           w == wire[m]
           q == p \cup {m}
<1>1. MessageOK(w)
  BY DEF WireOK
<1>2. RatchetEffect(s, w, r)
  BY <1>1, Reception DEF After
<1>3. w.chain \in Nat /\ w.n \in Nat /\ w.hs \in BOOLEAN
  BY <1>1, BoundsAssumption DEF MessageOK, Messages
<1> HIDE DEF r
<1>4. SessionOK(r.st)
  BY <1>2 DEF RatchetEffect, Effect
<1>5. KeepsKeys(f, r.st)
  <2> SUFFICES ASSUME NEW c \in Nat, NEW n \in Nat, Stands(r.st, c), Fresh(n, c, f)
               PROVE  Opens(r.st, n)
    BY DEF KeepsKeys
  <2>1. c = w.chain => n # w.n /\ w.n <= n + MaxSkippedKeys
    BY DEF Fresh
  <2>2. Stands(s, c) => Opens(s, n)
    BY DEF After, KeepsKeys
  <2> QED
    BY <1>2, <2>1, <2>2 DEF RatchetEffect, Effect
<1>6. CASE ~ w.hs
  <2>1. \A c : Opened(c, q) <=> Opened(c, p)
    BY <1>6 DEF Opened, Opener
  <2>2. \A c \in Nat : Opened(c, q) => Stands(r.st, c)
    BY <1>2, <1>6, <2>1 DEF After, RatchetEffect, Stands
  <2>3. Entered(base, q, r.st)
    <3> SUFFICES ASSUME r.st.kind = "chain"
                 PROVE  \/ Opened(r.st.chain, q)
                        \/ /\ Stands(base, r.st.chain)
                           /\ \A k \in q : wire[k].hs => wire[k].chain = r.st.chain
      BY DEF Entered
    <3>1. s.kind = "chain" /\ s.chain = r.st.chain
      BY <1>2, <1>6 DEF RatchetEffect, Stands
    <3> QED
      BY <1>6, <2>1, <3>1 DEF After, Entered
  <2> QED
    BY <1>4, <1>5, <2>2, <2>3 DEF After, r
<1>7. CASE w.hs
  <2>1. \A c : Opened(c, q) => c = w.chain
    <3> SUFFICES ASSUME NEW c, NEW i \in q, Opener(i, c, q) PROVE c = w.chain
      BY DEF Opened
    <3> QED
      BY <1>7 DEF Opener
  <2>2. Opener(m, w.chain, q)
    BY <1>7 DEF Opener
  <2>3. \A c \in Nat : Opened(c, q) => Stands(r.st, c)
    <3> SUFFICES ASSUME NEW c \in Nat, Opened(c, q) PROVE Stands(r.st, c)
      OBVIOUS
    <3>1. c = w.chain /\ Held(c)
      BY <2>1 DEF Opened
    <3> QED
      BY <1>2, <1>7, <3>1 DEF RatchetEffect, Effect
  <2>4. Entered(base, q, r.st)
    <3> SUFFICES ASSUME r.st.kind = "chain"
                 PROVE  \/ Opened(r.st.chain, q)
                        \/ /\ Stands(base, r.st.chain)
                           /\ \A k \in q : wire[k].hs => wire[k].chain = r.st.chain
      BY DEF Entered
    <3>1. r.st.chain = w.chain /\ (Held(w.chain) \/ Stands(s, w.chain))
      BY <1>2, <1>7 DEF RatchetEffect
    <3>2. CASE Held(w.chain)
      BY <2>2, <3>1, <3>2 DEF Opened
    <3>3. CASE Stands(s, w.chain) /\ ~ Held(w.chain)
      <4>1. s.kind = "chain" /\ s.chain = w.chain /\ ~ Opened(w.chain, p)
        BY <3>3 DEF Stands, Opened
      <4>2. /\ Stands(base, w.chain)
            /\ \A k \in p : wire[k].hs => wire[k].chain = w.chain
        BY <4>1 DEF After, Entered
      <4> QED
        BY <3>1, <4>2
    <3> QED
      BY <3>1, <3>2, <3>3
  <2> QED
    BY <1>4, <1>5, <2>3, <2>4 DEF After, r
<1> QED
  BY <1>3, <1>6, <1>7

-----------------------------------------------------------------------------
(* The replay of a transcript, message by message.  The induction over message ids goes
   through the least id at which a replay would be wrong. *)

\* Every set of natural numbers that is not empty has a least element: what inductions
\* over message ids rest on.
LEMMA LeastExists ==
    ASSUME NEW T \in SUBSET Nat, T # {}
    PROVE  \E n \in T : \A k \in T : n <= k
<1> DEFINE R == {ss \in Nat \X Nat : ss[1] < ss[2]}
<1>1. IsWellFoundedOn(R, Nat)
  BY NatLessThanWellFounded DEF OpToRel
<1>2. \E n \in T : \A k \in T : <<k, n>> \notin R
  <2> HIDE DEF R
  <2> QED  BY <1>1, WFMin, Zenon
<1>3. \A k, n \in Nat : <<k, n>> \notin R => n <= k
  <2> TAKE k, n \in Nat
  <2> HAVE <<k, n>> \notin R
  <2>1. ~ (k < n)
    OBVIOUS
  <2> QED BY <2>1
<1> HIDE DEF R
<1> QED  BY <1>2, <1>3

\* The function that Rebuild evaluates: the state after each part of a transcript.
StepTo(g, st, S) ==
    IF S = {} THEN st ELSE DecryptRatchetMessage(g[S \ {Max(S)}], wire[Max(S)]).st

IsReplay(g, st, ids) == g = [S \in SUBSET ids |-> StepTo(g, st, S)]

LEMMA MaxOfPrefix ==
    ASSUME NEW n \in Nat, NEW S, S \subseteq 1..n, n \in S
    PROVE  Max(S) = n
<1>1. \A y \in S : n >= y
  OBVIOUS
<1>2. \A x \in S : (\A y \in S : x >= y) => x = n
  OBVIOUS
<1> QED
  BY <1>1, <1>2 DEF Max

\* The recursion over the parts of a transcript has a solution.
LEMMA ReplayExists ==
    ASSUME NEW st, NEW len \in Nat
    PROVE  \E g : IsReplay(g, st, 1..len)
<1> DEFINE T == {n \in Nat : ~ \E g : IsReplay(g, st, 1..n)}
<1>1. SUFFICES ASSUME T # {} PROVE FALSE
  OBVIOUS
<1>2. PICK n \in T : \A k \in T : n <= k
  BY <1>1, LeastExists
<1>3. n \in Nat /\ ~ \E g : IsReplay(g, st, 1..n)
  OBVIOUS
<1>4. CASE n = 0
  <2> DEFINE g == [S \in SUBSET (1..0) |-> st]
  <2>1. SUBSET (1..0) = {{}}
    OBVIOUS
  <2>2. g = [S \in SUBSET (1..0) |-> StepTo(g, st, S)]
    BY <2>1 DEF StepTo
  <2> QED
    BY <1>3, <1>4, <2>2 DEF IsReplay
<1>5. CASE n # 0
  <2>1. n - 1 \in Nat /\ n - 1 \notin T
    BY <1>2, <1>3, <1>5
  <2>2. PICK g : IsReplay(g, st, 1..(n - 1))
    BY <2>1
  <2>3. \A S \in SUBSET (1..(n - 1)) : g[S] = StepTo(g, st, S)
    BY <2>2 DEF IsReplay
  <2> DEFINE h == [S \in SUBSET (1..n) |->
                      IF n \in S THEN DecryptRatchetMessage(g[S \ {n}], wire[n]).st ELSE g[S]]
  <2>4. ASSUME NEW S \in SUBSET (1..n) PROVE h[S] = StepTo(h, st, S)
    <3>1. CASE n \in S
      <4>1. Max(S) = n /\ S # {}
        BY <1>3, <3>1, MaxOfPrefix
      <4>2. h[S \ {n}] = g[S \ {n}]
        OBVIOUS
      <4>3. h[S] = DecryptRatchetMessage(g[S \ {n}], wire[n]).st
        BY <3>1
      <4> HIDE DEF h
      <4> QED BY <4>1, <4>2, <4>3 DEF StepTo
    <3>2. CASE n \notin S
      <4>1. S \in SUBSET (1..(n - 1)) /\ h[S] = g[S] /\ g[S] = StepTo(g, st, S)
        BY <1>3, <2>3, <3>2
      <4>2. h[S \ {Max(S)}] = g[S \ {Max(S)}]
        BY <3>2
      <4> HIDE DEF h
      <4> QED BY <4>1, <4>2 DEF StepTo
    <3> QED BY <3>1, <3>2
  <2>5. h = [S \in SUBSET (1..n) |-> StepTo(h, st, S)]
    <3>1. DOMAIN h = SUBSET (1..n) /\ h = [S \in SUBSET (1..n) |-> h[S]]
      OBVIOUS
    <3> HIDE DEF h
    <3> QED BY <2>4, <3>1
  <2> QED
    BY <1>3, <2>5 DEF IsReplay
<1> QED
  BY <1>4, <1>5

\* Rebuild returns the last state of a replay.
LEMMA RebuildIsReplay ==
    ASSUME NEW st, NEW len \in Nat, NEW ids, ids \subseteq 1..len
    PROVE  \E g : IsReplay(g, st, ids) /\ Rebuild(st, ids) = g[ids]
<1>1. PICK g : IsReplay(g, st, 1..len)
  BY ReplayExists
<1> DEFINE h == [S \in SUBSET ids |-> g[S]]
<1>2. ASSUME NEW S \in SUBSET ids PROVE h[S] = StepTo(h, st, S)
  <2>1. g[S] = StepTo(g, st, S)
    BY <1>1 DEF IsReplay
  <2>2. h[S] = g[S] /\ h[S \ {Max(S)}] = g[S \ {Max(S)}]
    OBVIOUS
  <2> HIDE DEF h
  <2> QED BY <2>1, <2>2 DEF StepTo
<1>3. h = [S \in SUBSET ids |-> StepTo(h, st, S)]
  <2>1. DOMAIN h = SUBSET ids /\ h = [S \in SUBSET ids |-> h[S]]
    OBVIOUS
  <2> HIDE DEF h
  <2> QED BY <1>2, <2>1
<1>4. IsReplay(CHOOSE iter : IsReplay(iter, st, ids), st, ids)
  BY <1>3 DEF IsReplay
<1>5. Rebuild(st, ids) = (CHOOSE iter : IsReplay(iter, st, ids))[ids]
  BY Zenon DEF Rebuild, MapThenFoldSet, IsReplay, StepTo
<1> QED
  BY <1>4, <1>5

-----------------------------------------------------------------------------
(* decryptWithRecovery. *)

\* A replay of the messages ids from any state.
LEMMA ReplayAfter ==
    ASSUME WireOK, NEW len \in Nat, DOMAIN wire = 1..len,
           NEW ids, ids \subseteq 1..len, NEW f, ids \subseteq f,
           NEW base, SessionOK(base), KeepsKeys(f, base)
    PROVE  After(base, f, ids, Rebuild(base, ids))
<1>1. PICK g : IsReplay(g, base, ids) /\ Rebuild(base, ids) = g[ids]
  BY RebuildIsReplay
<1>2. \A S \in SUBSET ids : g[S] = StepTo(g, base, S)
  BY <1>1 DEF IsReplay
<1> DEFINE upTo(n) == ids \cap (1..n)
           T == {n \in Nat : n <= len /\ ~ After(base, f, upTo(n), g[upTo(n)])}
<1>3. ASSUME T # {} PROVE FALSE
  <2>1. PICK n \in T : \A k \in T : n <= k
    BY <1>3, LeastExists
  <2>2. n \in Nat /\ n <= len /\ ~ After(base, f, upTo(n), g[upTo(n)])
    BY <2>1
  <2>3. CASE n = 0
    <3>1. upTo(n) = {} /\ g[{}] = base
      BY <1>2, <2>3 DEF StepTo
    <3>2. /\ \A c : ~ Opened(c, {})
          /\ Entered(base, {}, base)
      BY DEF Opened, Entered, Stands
    <3>3. After(base, f, {}, base)
      BY <3>2 DEF After
    <3> QED BY <2>2, <3>1, <3>3
  <2>4. CASE n # 0
    <3>1. n - 1 \in Nat /\ n - 1 <= len /\ n - 1 \notin T
      BY <2>1, <2>2, <2>4
    <3>2. After(base, f, upTo(n - 1), g[upTo(n - 1)])
      BY <3>1
    <3>3. CASE n \notin ids
      <4>1. upTo(n) = upTo(n - 1)
        BY <2>2, <3>3
      <4> QED BY <2>2, <3>2, <4>1
    <3>4. CASE n \in ids
      <4> DEFINE p == upTo(n - 1)
      <4>1. upTo(n) = p \cup {n} /\ n \in upTo(n) /\ upTo(n) \ {n} = p
        BY <2>2, <2>4, <3>4
      <4>2. Max(upTo(n)) = n
        <5>1. upTo(n) \subseteq 1..n
          OBVIOUS
        <5> HIDE DEF upTo
        <5> QED BY <2>2, <4>1, <5>1, MaxOfPrefix
      <4>3. g[upTo(n)] = DecryptRatchetMessage(g[p], wire[n]).st
        <5>1. g[upTo(n)] = StepTo(g, base, upTo(n))
          BY <1>2
        <5>2. upTo(n) # {}
          BY <4>1
        <5> HIDE DEF upTo, p
        <5> QED BY <4>1, <4>2, <5>1, <5>2 DEF StepTo
      <4>4. /\ p \subseteq Nat /\ n \in DOMAIN wire /\ n \in f
            /\ \A k \in p : k < n
        BY <2>2, <3>4
      <4> HIDE DEF upTo, p
      <4>5. After(base, f, p \cup {n}, DecryptRatchetMessage(g[p], wire[n]).st)
        BY <2>2, <3>2, <4>4, Advance DEF p
      <4> QED BY <2>2, <4>1, <4>3, <4>5
    <3> QED BY <3>3, <3>4
  <2> QED BY <2>3, <2>4
<1>4. After(base, f, upTo(len), g[upTo(len)])
  <2>1. len \notin T
    BY <1>3
  <2>2. len \in Nat /\ len <= len
    OBVIOUS
  <2> HIDE DEF upTo
  <2> QED BY <2>1, <2>2
<1>5. upTo(len) = ids
  OBVIOUS
<1> QED
  BY <1>1, <1>4, <1>5

\* What processMessage does with the next message m after the messages p.
RecoveryEffect(p, s, m, r) ==
    /\ r.ok \in BOOLEAN
    /\ After(NoSession, p \cup {m}, p \cup {m}, r.st)
    /\ Held(wire[m].chain) /\ wire[m].hs => r.ok
    /\ Opened(wire[m].chain, p) /\ Fresh(wire[m].n, wire[m].chain, p) => r.ok
    /\ ~ r.ok /\ ~ wire[m].hs /\ s.kind = "chain" =>
          \A n \in Nat : Fresh(n, s.chain, p) => Stands(r.st, s.chain) /\ Opens(r.st, n)

LEMMA Recovery ==
    ASSUME WireOK, NEW len \in Nat, DOMAIN wire = 1..len, NEW p, p \subseteq 1..len,
           NEW m \in 1..len, \A k \in p : k < m, NEW s, After(NoSession, p, p, s)
    PROVE  RecoveryEffect(p, s, m, DecryptWithRecovery(s, wire[m], p))
<1> DEFINE w == wire[m]
           q == p \cup {m}
           s0 == IF w.hs /\ s.kind = "bootstrap" THEN NoSession ELSE s
           first == DecryptRatchetMessage(s0, w)
           back == Rebuild(first.st, p)
           second == DecryptRatchetMessage(back, w)
           r == DecryptWithRecovery(s, w, p)
<1>1. r = IF first.ok THEN first ELSE second
  BY DEF DecryptWithRecovery
<1>2. /\ MessageOK(w) /\ w.chain \in Nat /\ w.n \in Nat /\ w.hs \in BOOLEAN
      /\ p \subseteq Nat /\ m \in Nat /\ m \in DOMAIN wire /\ m \notin p
  <2>1. MessageOK(w)
    BY DEF WireOK
  <2> QED BY <2>1, BoundsAssumption DEF MessageOK, Messages
<1>3. NoSession.kind = "none" /\ ~ Stands(NoSession, w.chain)
  BY Kinds DEF Stands
<1>4. After(NoSession, p, p, s0)
  <2>1. CASE w.hs /\ s.kind = "bootstrap"
    <3>1. \A c \in Nat : ~ Opened(c, p)
      BY <2>1 DEF After, Stands
    <3> QED
      BY <1>3, <2>1, <3>1 DEF After, Entered, KeepsKeys, SessionOK, Stands
  <2>2. CASE ~ (w.hs /\ s.kind = "bootstrap")
    BY <2>2
  <2> QED BY <2>1, <2>2
<1>5. \A st : KeepsKeys(p, st) => KeepsKeys(q, st)
  BY DEF KeepsKeys, Fresh
<1>6. After(NoSession, q, p, s0)
  BY <1>4, <1>5 DEF After
<1>7. RatchetEffect(s0, w, first)
  BY <1>2, <1>4, Reception DEF After
<1>8. After(NoSession, q, q, first.st)
  BY <1>2, <1>6, Advance
<1>9. SessionOK(first.st) /\ KeepsKeys(q, first.st)
  BY <1>8 DEF After
<1>10. After(first.st, q, p, back)
  <2>1. p \subseteq q
    OBVIOUS
  <2> HIDE DEF q, first
  <2> QED BY <1>9, <2>1, ReplayAfter
<1>11. RatchetEffect(back, w, second)
  BY <1>2, <1>10, Reception DEF After
<1> HIDE DEF first, back, second, r, s0
<1>12. ASSUME ~ first.ok PROVE After(NoSession, q, p, back)
  <2>1. ASSUME back.kind = "chain", Stands(first.st, back.chain) PROVE Opened(back.chain, p)
    <3>1. first.st.kind = "chain" /\ Opened(first.st.chain, q)
      BY <1>3, <1>8, <2>1 DEF After, Entered, Stands
    <3>2. CASE w.hs
      <4>1. ~ Held(w.chain)
        BY <1>7, <1>12, <3>2 DEF RatchetEffect
      <4>2. Stands(s0, w.chain)
        BY <1>7, <3>1, <3>2, <4>1 DEF RatchetEffect
      <4>3. Opened(w.chain, p)
        BY <1>3, <1>4, <4>2 DEF After, Entered, Stands
      <4> QED BY <4>1, <4>3 DEF Opened
    <3>3. CASE ~ w.hs
      <4>1. Opened(first.st.chain, p)
        BY <3>1, <3>3 DEF Opened, Opener
      <4> QED BY <2>1, <4>1 DEF Stands
    <3> QED BY <3>2, <3>3
  <2>2. Entered(NoSession, p, back)
    BY <1>10, <2>1 DEF After, Entered
  <2> QED BY <1>10, <2>2 DEF After
<1>13. ASSUME ~ first.ok PROVE After(NoSession, q, q, second.st)
  BY <1>2, <1>12, <1>13, Advance DEF second
<1>14. After(NoSession, q, q, r.st) /\ r.ok \in BOOLEAN
  BY <1>1, <1>7, <1>8, <1>11, <1>13 DEF RatchetEffect, Effect
<1>15. Held(w.chain) /\ w.hs => r.ok
  BY <1>1, <1>7 DEF RatchetEffect
<1>16. ASSUME Opened(w.chain, p), Fresh(w.n, w.chain, p) PROVE r.ok
  <2>1. Stands(s0, w.chain) /\ Opens(s0, w.n)
    BY <1>2, <1>4, <1>16 DEF After, KeepsKeys
  <2> QED BY <1>1, <1>7, <2>1 DEF RatchetEffect, Effect
<1>17. ASSUME ~ r.ok, ~ w.hs, s.kind = "chain", NEW n \in Nat, Fresh(n, s.chain, p)
       PROVE  Stands(r.st, s.chain) /\ Opens(r.st, n)
  <2>1. ~ first.ok /\ r = second /\ s0 = s
    BY <1>1, <1>17 DEF s0
  <2>2. first.st = s
    BY <1>7, <1>17, <2>1 DEF RatchetEffect
  <2>3. SessionOK(s) /\ KeepsKeys(p, s)
    BY <1>4, <2>1 DEF After
  <2>4. After(s, p, p, back)
    BY <2>2, <2>3, ReplayAfter DEF back
  <2>5. Opened(s.chain, p) /\ s.chain \in Nat
    <3>1. Opened(s.chain, p)
      BY <1>3, <1>4, <1>17, <2>1 DEF After, Entered, Stands
    <3>2. s.chain \in Nat
      BY <1>17, <2>3, Kinds, BoundsAssumption DEF SessionOK
    <3> QED BY <3>1, <3>2
  <2>6. Stands(back, s.chain) /\ Opens(back, n)
    BY <1>17, <2>4, <2>5 DEF After, KeepsKeys
  <2>7. r.st = back
    BY <1>11, <1>17, <2>1, <2>6 DEF RatchetEffect, Stands
  <2> QED BY <2>6, <2>7
<1> QED
  BY <1>14, <1>15, <1>16, <1>17 DEF RecoveryEffect, r

-----------------------------------------------------------------------------
(* What the sender provides, overlapping sends included. *)

\* A state that is stored or in hand: its secret exists, and only a chain has indices.
StateFits(st, rs) ==
    /\ st.root <= Len(rs)
    /\ st.Ns <= MaxIndex
    /\ st.chain = 0 => st = NoState \/ st.pending
    /\ st.chain # 0 => st.Ns # 0

\* A waiting call: there is room for the index it will take, and the first message of a
\* chain goes out with the handshake.
OpFits(s, rs) ==
    /\ StateFits(s.st, rs)
    /\ s.pc \in {"create", "chain"} => s.st.Ns < MaxIndex
    /\ s.pc = "send" /\ s.st.Ns = 1 => s.hs

SenderFits ==
    /\ StateFits(stored, roots)
    /\ \A o \in Ops : OpFits(op[o], roots)
    /\ \A c \in DOMAIN chains : chains[c] \in 1..Len(roots)
    /\ \A i \in DOMAIN wire : wire[i].n < MaxIndex /\ (wire[i].n = 0 => wire[i].hs)

\* Chains and secrets are only ever added.
Grows(f, g) == Len(f) <= Len(g) /\ \A i \in DOMAIN f : g[i] = f[i]

SenderGrows == Grows(roots, roots') /\ Grows(chains, chains') /\ Grows(wire, wire')

LEMMA FitsGrow ==
    ASSUME NEW st \in States, NEW rs, NEW ns, Len(rs) \in Nat, Len(ns) \in Nat,
           Len(rs) <= Len(ns), StateFits(st, rs)
    PROVE  StateFits(st, ns)
  BY BoundsAssumption DEF StateFits, States

LEMMA OpFitsUpdate ==
    ASSUME NEW f \in [Ops -> OpStates], NEW o \in Ops, NEW s, NEW g, g = [f EXCEPT ![o] = s],
           NEW rs, NEW ns, Len(rs) \in Nat, Len(ns) \in Nat, Len(rs) <= Len(ns),
           \A p \in Ops : OpFits(f[p], rs), OpFits(s, ns)
    PROVE  \A p \in Ops : OpFits(g[p], ns)
<1>1. g[o] = s /\ \A p \in Ops \ {o} : g[p] = f[p]
  OBVIOUS
<1>2. ASSUME NEW p \in Ops \ {o} PROVE OpFits(g[p], ns)
  <2>1. f[p].st \in States
    BY DEF OpStates
  <2>2. StateFits(f[p].st, ns)
    BY <2>1, FitsGrow DEF OpFits
  <2> QED
    BY <1>1, <2>2 DEF OpFits
<1> QED
  BY <1>1, <1>2

LEMMA SenderFitsInit == SenderInit => SenderFits
<1> SUFFICES ASSUME SenderInit PROVE SenderFits
  OBVIOUS
<1>1. Len(roots) = 0 /\ DOMAIN chains = {} /\ DOMAIN wire = {}
  BY DEF SenderInit
<1>2. StateFits(NoState, roots)
  BY <1>1, BoundsAssumption DEF StateFits, NoState
<1>3. \A o \in Ops : op[o] = Idle
  BY DEF SenderInit
<1>4. stored = NoState
  BY DEF SenderInit
<1> QED
  BY <1>1, <1>2, <1>3, <1>4 DEF SenderFits, OpFits, Idle

LEMMA SenderFitsStep ==
    SenderTypeOK /\ Named /\ SenderFits /\ [SenderNext]_senderVars
        => SenderFits' /\ SenderGrows
<1> SUFFICES ASSUME SenderTypeOK, Named, SenderFits, [SenderNext]_senderVars
             PROVE  SenderFits' /\ SenderGrows
  OBVIOUS
<1> USE BoundsAssumption
<1>0. /\ Len(roots) \in Nat /\ Len(chains) \in Nat /\ Len(wire) \in Nat
      /\ op \in [Ops -> OpStates] /\ stored \in States
      /\ DOMAIN roots = 1..Len(roots) /\ DOMAIN chains = 1..Len(chains)
      /\ DOMAIN wire = 1..Len(wire)
  BY DEF SenderTypeOK
<1>1. ASSUME NEW b \in Bundles, LoadPage(b) PROVE SenderFits' /\ SenderGrows
  <2>1. StateFits(NoState, roots) /\ OpFits(Idle, roots)
    BY <1>0 DEF OpFits, StateFits, NoState, Idle
  <2> QED
    BY <1>0, <1>1, <2>1 DEF LoadPage, SenderFits, SenderGrows, Grows
<1>2. CASE BreakLink
  BY <1>0, <1>2 DEF BreakLink, SenderFits, SenderGrows, Grows
<1>3. ASSUME NEW o \in Ops, ReadState(o) PROVE SenderFits' /\ SenderGrows
  <2> DEFINE s == [pc |-> IF stored = NoState THEN "create" ELSE "chain",
                   st |-> stored, hs |-> FALSE]
  <2>1. op' = [op EXCEPT ![o] = s] /\ stored.Ns < MaxIndex
        /\ UNCHANGED <<stored, roots, chains, wire>>
    BY <1>3 DEF ReadState
  <2>2. OpFits(s, roots)
    BY <2>1 DEF OpFits, SenderFits
  <2>3. \A p \in Ops : OpFits(op'[p], roots)
    <3> HIDE DEF s
    <3> QED BY <1>0, <2>1, <2>2, OpFitsUpdate DEF SenderFits
  <2> HIDE DEF s
  <2> QED
    BY <1>0, <2>1, <2>3 DEF SenderFits, SenderGrows, Grows
<1>4. ASSUME NEW o \in Ops, CreateState(o) PROVE SenderFits' /\ SenderGrows
  <2> DEFINE st == [root |-> Len(roots) + 1, chain |-> 0, Ns |-> 0, pending |-> TRUE]
             s == [pc |-> "chain", st |-> st, hs |-> FALSE]
  <2>1. /\ roots' = Append(roots, bundle) /\ stored' = st /\ op' = [op EXCEPT ![o] = s]
        /\ op[o].pc = "create" /\ UNCHANGED <<chains, wire>>
    BY <1>4 DEF CreateState
  <2>2. Len(roots') = Len(roots) + 1 /\ \A i \in DOMAIN roots : roots'[i] = roots[i]
    BY <2>1 DEF SenderTypeOK
  <2>3. 0 < MaxIndex
    <3>1. op[o].st.Ns \in Nat /\ op[o].st.Ns < MaxIndex
      BY <1>0, <2>1 DEF SenderFits, OpFits, OpStates, States
    <3> QED BY <3>1
  <2>4. StateFits(st, roots') /\ OpFits(s, roots')
    BY <1>0, <2>2, <2>3 DEF StateFits, OpFits
  <2>5. \A p \in Ops : OpFits(op'[p], roots')
    <3>1. Len(roots') \in Nat /\ Len(roots) <= Len(roots')
      BY <1>0, <2>2
    <3>2. op' = [op EXCEPT ![o] = s] /\ \A p \in Ops : OpFits(op[p], roots)
      BY <2>1 DEF SenderFits
    <3> HIDE DEF st, s
    <3> QED BY <1>0, <2>4, <3>1, <3>2, OpFitsUpdate
  <2>6. \A c \in DOMAIN chains' : chains'[c] \in 1..Len(roots')
    BY <1>0, <2>1, <2>2 DEF SenderFits
  <2> QED
    <3> HIDE DEF st, s
    <3> QED BY <1>0, <2>1, <2>2, <2>4, <2>5, <2>6 DEF SenderFits, SenderGrows, Grows
<1>5. ASSUME NEW o \in Ops, SaveChain(o) PROVE SenderFits' /\ SenderGrows
  <2> DEFINE old == op[o].st
             fresh == old.chain = 0
             st == [root |-> old.root, pending |-> old.pending,
                    chain |-> IF fresh THEN Len(chains) + 1 ELSE old.chain,
                    Ns |-> IF fresh THEN 1 ELSE old.Ns + 1]
             s == [pc |-> IF st.pending THEN "clear" ELSE "send", st |-> st, hs |-> FALSE]
  <2>1. /\ op[o].pc = "chain" /\ stored' = st /\ op' = [op EXCEPT ![o] = s]
        /\ chains' = IF fresh THEN Append(chains, st.root) ELSE chains
        /\ UNCHANGED <<roots, wire>>
    BY <1>5 DEF SaveChain
  <2>2. /\ old \in States /\ old.root # 0 /\ old.Ns < MaxIndex /\ StateFits(old, roots)
        /\ old.chain <= Len(chains)
    BY <1>0, <2>1 DEF Named, OpNamed, SenderFits, OpFits, OpStates
  <2>3. fresh => old.pending
    BY <2>2 DEF StateFits, NoState
  <2>4. StateFits(st, roots)
    BY <1>0, <2>2 DEF StateFits, States
  <2>5. st.pending \/ st.Ns # 1
    BY <2>2, <2>3 DEF StateFits, States
  <2>6. OpFits(s, roots)
    <3> HIDE DEF st
    <3> QED BY <2>4, <2>5 DEF OpFits
  <2>7. \A p \in Ops : OpFits(op'[p], roots)
    <3> HIDE DEF s
    <3> QED BY <1>0, <2>1, <2>6, OpFitsUpdate DEF SenderFits
  <2>8. Grows(chains, chains') /\ \A c \in DOMAIN chains' : chains'[c] \in 1..Len(roots)
    <3>1. CASE ~ fresh
      BY <1>0, <2>1, <3>1 DEF Grows, SenderFits
    <3>2. CASE fresh
      <4>1. st.root \in 1..Len(roots)
        BY <1>0, <2>2 DEF StateFits, States
      <4>2. chains' = Append(chains, st.root) /\ chains \in Seq(1..MaxRoots)
        BY <2>1, <3>2 DEF SenderTypeOK
      <4>3. /\ DOMAIN chains' = 1..(Len(chains) + 1) /\ Len(chains') = Len(chains) + 1
            /\ chains'[Len(chains) + 1] = st.root
            /\ \A c \in DOMAIN chains : chains'[c] = chains[c]
        <5> HIDE DEF st
        <5> QED BY <4>2
      <4> HIDE DEF st
      <4>4. Grows(chains, chains')
        BY <1>0, <4>3 DEF Grows
      <4>5. ASSUME NEW c \in DOMAIN chains' PROVE chains'[c] \in 1..Len(roots)
        <5>1. c \in DOMAIN chains \/ c = Len(chains) + 1
          BY <1>0, <4>3
        <5> QED BY <4>1, <4>3, <5>1 DEF SenderFits
      <4> QED BY <4>4, <4>5
    <3> QED BY <3>1, <3>2
  <2> HIDE DEF st, s
  <2> QED BY <1>0, <2>1, <2>4, <2>7, <2>8 DEF SenderFits, SenderGrows, Grows
<1>6. ASSUME NEW o \in Ops, ClearHandshake(o) PROVE SenderFits' /\ SenderGrows
  <2> DEFINE old == op[o].st
             st == [old EXCEPT !.pending = FALSE]
             s == [pc |-> "send", st |-> st, hs |-> TRUE]
  <2>1. /\ op[o].pc = "clear" /\ stored' = st /\ op' = [op EXCEPT ![o] = s]
        /\ UNCHANGED <<roots, chains, wire>>
    BY <1>6 DEF ClearHandshake
  <2>2. old \in States /\ old.chain # 0 /\ StateFits(old, roots)
    BY <1>0, <2>1 DEF Named, OpNamed, SenderFits, OpFits, OpStates
  <2>3. st.chain = old.chain /\ st.Ns = old.Ns /\ st.root = old.root
    BY <2>2 DEF States
  <2>4. StateFits(st, roots)
    <3> HIDE DEF st
    <3> QED BY <2>2, <2>3 DEF StateFits
  <2>5. OpFits(s, roots)
    <3> HIDE DEF st
    <3> QED BY <2>4 DEF OpFits
  <2>6. \A p \in Ops : OpFits(op'[p], roots)
    <3> HIDE DEF s
    <3> QED BY <1>0, <2>1, <2>5, OpFitsUpdate DEF SenderFits
  <2> HIDE DEF st, s
  <2> QED BY <1>0, <2>1, <2>4, <2>6 DEF SenderFits, SenderGrows, Grows
<1>7. ASSUME NEW o \in Ops, Transmit(o) PROVE SenderFits' /\ SenderGrows
  <2> DEFINE m == Encrypted(o)
  <2>1. /\ op[o].pc = "send" /\ op' = [op EXCEPT ![o] = Idle]
        /\ UNCHANGED <<stored, roots, chains>>
        /\ wire' = IF linkUp THEN Append(wire, m) ELSE wire
    BY <1>7 DEF Transmit
  <2>2. \A p \in Ops : OpFits(op'[p], roots)
    <3>1. OpFits(Idle, roots)
      BY <1>0 DEF OpFits, StateFits, NoState, Idle
    <3> QED BY <1>0, <2>1, <3>1, OpFitsUpdate DEF SenderFits
  <2>3. m.n < MaxIndex /\ (m.n = 0 => m.hs)
    <3>1. op[o].st.Ns \in Nat /\ op[o].st.Ns # 0 /\ op[o].st.Ns <= MaxIndex
          /\ (op[o].st.Ns = 1 => op[o].hs)
      BY <1>0, <2>1 DEF Named, OpNamed, SenderFits, OpFits, StateFits, OpStates, States
    <3> QED BY <3>1 DEF Encrypted
  <2>4. Grows(wire, wire') /\ \A i \in DOMAIN wire' :
            wire'[i].n < MaxIndex /\ (wire'[i].n = 0 => wire'[i].hs)
    <3>1. CASE linkUp
      <4>1. /\ DOMAIN wire' = 1..(Len(wire) + 1) /\ Len(wire') = Len(wire) + 1
            /\ wire'[Len(wire) + 1] = m
            /\ \A i \in DOMAIN wire : wire'[i] = wire[i]
        <5> HIDE DEF m
        <5> QED BY <2>1, <3>1 DEF SenderTypeOK
      <4> HIDE DEF m
      <4> QED BY <1>0, <2>3, <4>1 DEF Grows, SenderFits
    <3>2. CASE ~ linkUp
      BY <1>0, <2>1, <3>2 DEF Grows, SenderFits
    <3> QED BY <3>1, <3>2
  <2> QED BY <1>0, <2>1, <2>2, <2>4 DEF SenderFits, SenderGrows, Grows
<1>8. CASE UNCHANGED senderVars
  BY <1>0, <1>8 DEF senderVars, SenderFits, SenderGrows, Grows
<1> QED
  BY <1>1, <1>2, <1>3, <1>4, <1>5, <1>6, <1>7, <1>8 DEF SenderNext, SendStep

-----------------------------------------------------------------------------
(* The invariant of the composition. *)

\* The ids on this page: what waits comes after what was processed.
PageOK ==
    /\ used \subseteq 1..MaxOneTimeKeys /\ purged \subseteq used
    /\ phase \in {"closed", "loading", "open"}
    /\ inbox \subseteq DOMAIN wire /\ Processed \subseteq DOMAIN wire
    /\ read \cap failed = {}
    /\ deleted \subseteq DOMAIN wire
    /\ \A k \in Processed, i \in inbox : k < i

SessionInv ==
    /\ SenderTypeOK /\ Named /\ SenderFits /\ PublishedOK
    /\ PageOK
    /\ After(NoSession, Processed, Processed, session)
    /\ IntactMessagesDecrypt

LEMMA WireFits == SenderTypeOK /\ Named /\ SenderFits /\ PublishedOK => WireOK
<1> SUFFICES ASSUME SenderTypeOK, Named, SenderFits, PublishedOK PROVE WireOK
  OBVIOUS
<1>1. ASSUME NEW i \in DOMAIN wire PROVE MessageOK(wire[i])
  <2>1. wire[i] \in Messages
    BY DEF SenderTypeOK
  <2>2. wire[i].chain \in 1..Len(chains) /\ DOMAIN chains = 1..Len(chains)
    BY DEF Named, SenderTypeOK
  <2> QED
    BY <2>1, <2>2 DEF SenderFits, MessageOK
<1>2. \A r \in 1..Len(roots) : roots[r].otpk \in 0..MaxOneTimeKeys
  <2> TAKE r \in 1..Len(roots)
  <2>1. roots[r] \in Bundles
    BY ElementOfSeq DEF SenderTypeOK
  <2>2. roots[r].otpk \in 1..MaxOneTimeKeys
    BY <2>1, SessionAssumption
  <2> QED BY <2>2, SessionAssumption
<1>3. /\ Len(roots) \in Nat /\ Len(roots) <= MaxRoots
      /\ Len(chains) \in Nat /\ Len(chains) <= MaxRoots
  BY DEF SenderTypeOK
<1>4. spk \in 0..MaxSignedPreKeys
  BY SessionAssumption DEF PublishedOK
<1> QED
  BY <1>1, <1>2, <1>3, <1>4 DEF WireOK

\* The states that the invariant allows are the ones of the type invariant.
LEMMA SessionsTyped == ASSUME NEW s, SessionOK(s) PROVE s \in Sessions
<1>1. ASSUME NEW c \in 1..MaxRoots, NEW nr \in 0..MaxIndex, NEW sk, KeysOK(sk, nr),
             s = OnChain(c, nr, sk)
      PROVE  s \in Sessions
  <2>1. sk \in Seq(0..MaxIndex) /\ Len(sk) <= MaxSkippedKeys
    BY <1>1 DEF KeysOK
  <2>4. sk \in [1..Len(sk) -> 0..MaxIndex] /\ Len(sk) \in Nat
    BY <2>1, LenProperties
  <2>5. Len(sk) \in 0..MaxSkippedKeys
    BY <2>1, <2>4, SessionAssumption
  <2>2. sk \in UNION {[1..k -> 0..MaxIndex] : k \in 0..MaxSkippedKeys}
    BY <2>4, <2>5
  <2>3. nr \in 0..(MaxIndex + 1)
    BY BoundsAssumption
  <2> QED
    BY <1>1, <2>2, <2>3 DEF Sessions
<1>2. ASSUME NEW q, DeadSecret(q), s = Bootstrap(q) PROVE s \in Sessions
  BY <1>2 DEF DeadSecret, Secrets, Sessions
<1> QED
  BY <1>1, <1>2 DEF SessionOK, Sessions

\* While the sender's side only grows and the prekeys stay, what holds of a state and of
\* the messages received still does.
LEMMA WireStays ==
    ASSUME WireOK, SenderGrows, spk' = spk, purged' = purged
    PROVE  /\ \A i \in DOMAIN wire : wire'[i] = wire[i]
           /\ \A i \in DOMAIN wire : Held(wire[i].chain)' <=> Held(wire[i].chain)
           /\ \A r \in 1..Len(roots) : /\ r \in 1..Len(roots')
                                       /\ ResponderSecret(r)' = ResponderSecret(r)
                                       /\ InitiatorSecret(r)' = InitiatorSecret(r)
<1>1. \A i \in DOMAIN wire : wire'[i] = wire[i]
  BY DEF SenderGrows, Grows
<1>2. ASSUME NEW r \in 1..Len(roots)
      PROVE  /\ r \in 1..Len(roots')
             /\ ResponderSecret(r)' = ResponderSecret(r)
             /\ InitiatorSecret(r)' = InitiatorSecret(r)
  <2>1. r \in DOMAIN roots /\ roots'[r] = roots[r]
    BY DEF SenderGrows, Grows
  <2>2. r \in 1..Len(roots')
    BY DEF SenderGrows, Grows, WireOK
  <2> QED
    BY <2>1, <2>2 DEF ResponderSecret, InitiatorSecret
<1>3. ASSUME NEW i \in DOMAIN wire PROVE Held(wire[i].chain)' <=> Held(wire[i].chain)
  <2>1. wire[i].chain \in 1..Len(chains) /\ chains[wire[i].chain] \in 1..Len(roots)
    BY DEF WireOK, MessageOK
  <2>2. chains'[wire[i].chain] = chains[wire[i].chain]
    BY <2>1 DEF SenderGrows, Grows
  <2> QED
    BY <1>1, <1>2, <2>1, <2>2 DEF Held
<1> QED
  BY <1>1, <1>2, <1>3

LEMMA StateStays ==
    ASSUME WireOK, SenderGrows, spk' = spk, purged' = purged,
           NEW f, f \subseteq DOMAIN wire, NEW s, After(NoSession, f, f, s)
    PROVE  After(NoSession, f, f, s)'
<1>1. \A i \in f : wire'[i] = wire[i] /\ (Held(wire[i].chain)' <=> Held(wire[i].chain))
  BY WireStays
<1>2. SessionOK(s)'
  <2>1. ASSUME NEW q, DeadSecret(q) PROVE DeadSecret(q)'
    BY <2>1, WireStays DEF DeadSecret
  <2> QED
    BY <2>1 DEF After, SessionOK
<1>3. \A c : Opened(c, f)' <=> Opened(c, f)
  <2> TAKE c
  <2>1. \A i : Opener(i, c, f)' <=> Opener(i, c, f)
    BY <1>1 DEF Opener
  <2>2. \A i : Opener(i, c, f) => i \in f /\ wire[i].chain = c
    BY DEF Opener
  <2> QED
    BY <1>1, <2>1, <2>2 DEF Opened
<1>4. \A n, c : Fresh(n, c, f)' <=> Fresh(n, c, f)
  BY <1>1 DEF Fresh
<1>5. Entered(NoSession, f, s)'
  BY <1>1, <1>3 DEF After, Entered
<1>6. KeepsKeys(f, s)'
  BY <1>4 DEF After, KeepsKeys
<1> QED
  BY <1>2, <1>3, <1>5, <1>6 DEF After

\* Receiving more and sending more only takes expectations away.
LEMMA IntactShrinks ==
    ASSUME WireOK, SenderGrows, spk' = spk, purged' = purged,
           Processed \subseteq DOMAIN wire, Processed \subseteq Processed',
           NEW m \in Processed, \A k \in Processed' : k <= m => k \in Processed, Intact(m)'
    PROVE  Intact(m)
<1>1. \A i \in Processed : wire'[i] = wire[i] /\ (Held(wire[i].chain)' <=> Held(wire[i].chain))
  BY WireStays
<1>2. KeysHeld(m)
  <2>1. PICK c : c = wire[m].chain
    OBVIOUS
  <2>2. KeysHeld(m)' <=> Held(c)'
    BY <1>1, <2>1 DEF KeysHeld, Held, ResponderSecret, InitiatorSecret
  <2>3. KeysHeld(m) <=> Held(c)
    BY <2>1 DEF KeysHeld, Held
  <2>4. Held(c)' <=> Held(c)
    BY <1>1, <2>1
  <2> QED
    BY <2>2, <2>3, <2>4 DEF Intact
<1>3. KeyIsOwn(m) /\ KeyNotEvicted(m)
  BY <1>1 DEF Intact, KeyIsOwn, KeyNotEvicted
<1>4. PICK i \in Processed' : OpenerOf(m, i)' /\ NotInterrupted(m, i)'
  BY DEF Intact
<1>5. i \in Processed /\ OpenerOf(m, i)
  BY <1>1, <1>4 DEF OpenerOf
<1>6. NotInterrupted(m, i)
  BY <1>1, <1>4 DEF NotInterrupted
<1> QED
  BY <1>2, <1>3, <1>5, <1>6 DEF Intact

-----------------------------------------------------------------------------
(* Its steps. *)

LEMMA SessionInvInit == SessionInit => SessionInv
<1> SUFFICES ASSUME SessionInit PROVE SessionInv
  OBVIOUS
<1>1. SenderTypeOK /\ Named /\ SenderFits /\ PublishedOK
  BY SenderInitInv, SenderFitsInit, PublishedInit DEF SenderInv, SessionInit
<1>2. Processed = {} /\ inbox = {} /\ session = NoSession
  BY DEF SessionInit, Processed
<1>3. PageOK
  BY <1>2 DEF SessionInit, PageOK
<1>4. After(NoSession, {}, {}, NoSession)
  BY Kinds DEF After, SessionOK, Entered, Opened, KeepsKeys, Stands
<1>5. IntactMessagesDecrypt
  BY <1>2 DEF IntactMessagesDecrypt
<1> QED
  BY <1>1, <1>2, <1>3, <1>4, <1>5 DEF SessionInv

\* A step that lets the session and what was processed be.
LEMMA SessionRests ==
    ASSUME SessionInv, SenderGrows, SenderTypeOK',
           UNCHANGED <<spk, used, purged, session, read, failed>>,
           phase' \in {"closed", "loading", "open"},
           inbox' \subseteq inbox \cup (DOMAIN wire' \ DOMAIN wire),
           deleted' \subseteq DOMAIN wire'
    PROVE  /\ PageOK'
           /\ After(NoSession, Processed, Processed, session)'
           /\ IntactMessagesDecrypt'
<1>1. WireOK
  BY WireFits DEF SessionInv
<1>2. Processed' = Processed /\ Processed \subseteq DOMAIN wire /\ PageOK
  BY DEF SessionInv, PageOK, Processed
<1>3. /\ wire \in Seq(Messages)
      /\ DOMAIN wire = 1..Len(wire) /\ DOMAIN wire \subseteq DOMAIN wire'
      /\ DOMAIN wire' = 1..Len(wire')
  BY DEF SessionInv, SenderTypeOK, SenderGrows, Grows
<1>4. PageOK'
  <2>1. inbox' \subseteq DOMAIN wire' /\ Processed' \subseteq DOMAIN wire'
    BY <1>2, <1>3 DEF PageOK
  <2>2. ASSUME NEW k \in Processed', NEW i \in inbox' PROVE k < i
    <3>1. k \in Processed /\ k \in 1..Len(wire) /\ Len(wire) \in Nat
      BY <1>2, <1>3
    <3>2. CASE i \in inbox
      BY <1>2, <3>1, <3>2 DEF PageOK
    <3>3. CASE i \notin inbox
      <4>1. i \in Nat /\ i \notin 1..Len(wire)
        BY <1>3, <3>3
      <4>2. i # 0
        BY <1>3, <2>1
      <4> QED BY <3>1, <4>1, <4>2
    <3> QED BY <3>2, <3>3
  <2> QED
    BY <1>2, <2>1, <2>2 DEF PageOK
<1>5. After(NoSession, Processed, Processed, session)'
  <2>1. PICK f, s : f = Processed /\ s = session
    OBVIOUS
  <2>2. After(NoSession, f, f, s)'
    BY <1>1, <1>2, <2>1, StateStays DEF SessionInv
  <2> QED
    BY <1>2, <2>1, <2>2
<1>6. IntactMessagesDecrypt'
  <2> SUFFICES ASSUME NEW m \in Processed', Intact(m)' PROVE m \in read'
    BY DEF IntactMessagesDecrypt
  <2>1. Intact(m)
    BY <1>1, <1>2, IntactShrinks
  <2> QED
    BY <1>2, <2>1 DEF SessionInv, IntactMessagesDecrypt
<1> QED
  BY <1>4, <1>5, <1>6

\* A page load starts from nothing.
LEMMA SessionLoads ==
    ASSUME SessionInv, NEW rotate \in BOOLEAN, NEW purge \in SUBSET used,
           NEW fresh \in 0..MaxOneTimeKeys, ReceiverLoads(rotate, purge, fresh)
    PROVE  /\ PageOK'
           /\ After(NoSession, Processed, Processed, session)'
           /\ IntactMessagesDecrypt'
<1>1. /\ Processed' = {} /\ read' = {} /\ failed' = {} /\ session' = NoSession
      /\ UNCHANGED <<wire, used, deleted>> /\ inbox' = DOMAIN wire \ deleted
      /\ phase' = "loading" /\ purged' = purged \cup purge
  BY DEF ReceiverLoads, Processed, senderVars
<1>2. PageOK'
  BY <1>1 DEF SessionInv, PageOK
<1>3. After(NoSession, Processed, Processed, session)'
  BY <1>1, Kinds DEF After, SessionOK, Entered, Opened, KeepsKeys, Stands
<1>4. IntactMessagesDecrypt'
  BY <1>1 DEF IntactMessagesDecrypt
<1> QED
  BY <1>2, <1>3, <1>4

\* The next message of the page: what its decryption has to go by, and what it leaves.
LEMMA SessionReceives ==
    ASSUME SessionInv, NEW m \in DOMAIN wire, ReceiverProcesses(m)
    PROVE  LET r == DecryptWithRecovery(session, wire[m], Processed)
           IN  /\ RecoveryEffect(Processed, session, m, r)
               /\ session' = r.st /\ Processed' = Processed \cup {m}
               /\ read' = IF r.ok THEN read \cup {m} ELSE read
               /\ m \in failed' <=> ~ r.ok
               /\ \A k \in Processed : k < m
<1> DEFINE r == DecryptWithRecovery(session, wire[m], Processed)
<1>1. /\ DOMAIN wire = 1..Len(wire) /\ Len(wire) \in Nat /\ Processed \subseteq 1..Len(wire)
  BY DEF SessionInv, SenderTypeOK, PageOK
<1>2. \A k \in Processed : k < m
  BY DEF SessionInv, PageOK, ReceiverProcesses
<1>3. Transcript(m) = Processed
  BY <1>2 DEF Transcript
<1>4. RecoveryEffect(Processed, session, m, r)
  <2>1. WireOK /\ After(NoSession, Processed, Processed, session)
    BY WireFits DEF SessionInv
  <2> QED
    BY <1>1, <1>2, <2>1, Recovery
<1>5. /\ session' = r.st
      /\ read' = IF r.ok THEN read \cup {m} ELSE read
      /\ failed' = IF r.ok THEN failed ELSE failed \cup {m}
  BY <1>3 DEF ReceiverProcesses
<1>6. m \notin Processed
  BY <1>1, <1>2
<1> HIDE DEF r
<1>7. Processed' = Processed \cup {m} /\ (m \in failed' <=> ~ r.ok)
  BY <1>5, <1>6 DEF Processed
<1> QED
  BY <1>2, <1>4, <1>5, <1>7 DEF r

LEMMA SessionProcesses ==
    ASSUME SessionInv, NEW m \in DOMAIN wire, ReceiverProcesses(m)
    PROVE  /\ PageOK'
           /\ After(NoSession, Processed, Processed, session)'
           /\ IntactMessagesDecrypt'
<1> DEFINE r == DecryptWithRecovery(session, wire[m], Processed)
           p == Processed
           w == wire[m]
<1>1. /\ RecoveryEffect(p, session, m, r)
      /\ session' = r.st /\ Processed' = p \cup {m}
      /\ read' = IF r.ok THEN read \cup {m} ELSE read
      /\ m \in failed' <=> ~ r.ok
      /\ \A k \in p : k < m
  BY SessionReceives
<1>2. /\ UNCHANGED <<roots, chains, wire, spk, purged, phase, deleted>>
      /\ m \in inbox /\ inbox' = inbox \ {m} /\ \A i \in inbox : m <= i
      /\ used' = IF w.hs THEN used \cup {roots[chains[w.chain]].otpk} ELSE used
      /\ failed' \subseteq failed \cup {m} /\ (r.ok => failed' = failed)
  <2>1. Transcript(m) = Processed
    BY <1>1 DEF Transcript
  <2> QED
    BY <2>1 DEF ReceiverProcesses, senderVars
<1> HIDE DEF r
<1>3. WireOK /\ PageOK
  BY WireFits DEF SessionInv
<1>4. /\ DOMAIN wire = 1..Len(wire) /\ Len(wire) \in Nat /\ p \subseteq 1..Len(wire)
      /\ m \in Nat /\ m \notin p
  BY <1>1, <1>3 DEF SessionInv, SenderTypeOK, PageOK
<1>5. SenderGrows
  BY <1>2 DEF SessionInv, SenderTypeOK, SenderGrows, Grows
<1>6. PageOK'
  <2>1. used' \subseteq 1..MaxOneTimeKeys
    <3>1. roots[chains[w.chain]].otpk \in 1..MaxOneTimeKeys
      <4>1. chains[w.chain] \in 1..Len(roots)
        BY <1>3 DEF WireOK, MessageOK
      <4>2. roots[chains[w.chain]] \in Bundles
        BY <4>1, ElementOfSeq DEF SessionInv, SenderTypeOK
      <4> QED
        BY <4>2, SessionAssumption
    <3> QED
      BY <1>2, <1>3, <3>1 DEF PageOK
  <2>2. purged' \subseteq used'
    BY <1>2, <1>3 DEF PageOK
  <2>3. inbox' \subseteq DOMAIN wire' /\ Processed' \subseteq DOMAIN wire'
    BY <1>1, <1>2, <1>3 DEF PageOK
  <2>4. read' \cap failed' = {}
    <3>1. m \notin read /\ m \notin failed
      BY <1>4 DEF Processed
    <3> QED
      BY <1>1, <1>2, <1>3, <3>1 DEF PageOK
  <2>5. \A k \in Processed', i \in inbox' : k < i
    <3> TAKE k \in Processed', i \in inbox'
    <3>1. i \in inbox /\ i # m /\ m <= i /\ i \in Nat
      BY <1>2, <1>3, <1>4 DEF PageOK
    <3>2. k \in p \/ k = m
      BY <1>1
    <3> QED
      BY <1>3, <1>4, <3>1, <3>2 DEF PageOK
  <2> QED
    BY <1>2, <1>3, <2>1, <2>2, <2>3, <2>4, <2>5 DEF PageOK
<1>7. After(NoSession, Processed, Processed, session)'
  <2>1. PICK f, s : f = p \cup {m} /\ s = r.st
    OBVIOUS
  <2>2. After(NoSession, f, f, s) /\ f \subseteq DOMAIN wire
    BY <1>1, <1>4, <2>1 DEF RecoveryEffect
  <2>3. After(NoSession, f, f, s)'
    BY <1>2, <1>3, <1>5, <2>2, StateStays
  <2> QED
    BY <1>1, <2>1, <2>3
<1>8. ASSUME NEW x \in p, Intact(x)' PROVE x \in read'
  <2>1. p \subseteq DOMAIN wire /\ p \subseteq Processed' /\ x < m /\ x \in Nat
    BY <1>1, <1>4
  <2>2. \A k \in Processed' : k <= x => k \in p
    BY <1>1, <1>4, <2>1
  <2>3. Intact(x)
    BY <1>2, <1>3, <1>5, <1>8, <2>1, <2>2, IntactShrinks
  <2> QED
    BY <1>1, <2>3 DEF SessionInv, IntactMessagesDecrypt
<1>9. ASSUME Intact(m)' PROVE r.ok
  <2>1. PICK c : c = w.chain
    OBVIOUS
  <2>2. Held(c)
    BY <1>2, <1>9, <2>1 DEF Intact, KeysHeld, Held, ResponderSecret, InitiatorSecret
  <2>3. PICK i \in Processed' : OpenerOf(m, i)' /\ NotInterrupted(m, i)'
    BY <1>9 DEF Intact
  <2>4. wire[i].hs /\ wire[i].chain = c
    BY <1>2, <2>1, <2>3 DEF OpenerOf
  <2>5. CASE i = m
    BY <1>1, <2>1, <2>2, <2>4, <2>5 DEF RecoveryEffect
  <2>6. CASE i \in p
    <3>1. \A k \in p : i < k /\ wire[k].hs => wire[k].chain = c
      BY <1>1, <1>2, <2>1, <2>3 DEF NotInterrupted, ResetsSession
    <3>2. Opened(c, p)
      BY <2>2, <2>4, <2>6, <3>1 DEF Opened, Opener
    <3>3. Fresh(w.n, c, p)
      BY <1>1, <1>2, <1>4, <1>9, <2>1 DEF Intact, KeyIsOwn, KeyNotEvicted, Fresh
    <3> QED
      BY <1>1, <2>1, <3>2, <3>3 DEF RecoveryEffect
  <2> QED
    BY <1>1, <2>3, <2>5, <2>6
<1>10. IntactMessagesDecrypt'
  <2> SUFFICES ASSUME NEW x \in Processed', Intact(x)' PROVE x \in read'
    BY DEF IntactMessagesDecrypt
  <2>1. CASE x \in p
    BY <1>8, <2>1
  <2>2. CASE x = m
    BY <1>1, <1>9, <2>2
  <2> QED
    BY <1>1, <2>1, <2>2
<1> QED
  BY <1>6, <1>7, <1>10

LEMMA SessionInvStep == SessionInv /\ [SessionNext]_vars => SessionInv'
<1> SUFFICES ASSUME SessionInv, [SessionNext]_vars PROVE SessionInv'
  OBVIOUS
<1>1. PublishedOK'
  BY PublishedStep DEF SessionInv
<1>2. [SenderNext]_senderVars
  BY SessionStepIsSenderStep DEF SessionInv
<1>3. SenderTypeOK' /\ Named'
  BY <1>2, SenderTypeStep DEF SessionInv
<1>4. SenderFits' /\ SenderGrows
  BY <1>2, SenderFitsStep DEF SessionInv
<1>5. DOMAIN wire \subseteq DOMAIN wire' /\ PageOK
  BY <1>4 DEF SessionInv, SenderTypeOK, SenderGrows, Grows
<1> DEFINE Good == /\ PageOK'
                   /\ After(NoSession, Processed, Processed, session)'
                   /\ IntactMessagesDecrypt'
           Rests == /\ UNCHANGED <<spk, used, purged, session, read, failed>>
                    /\ phase' \in {"closed", "loading", "open"}
                    /\ inbox' \subseteq inbox \cup (DOMAIN wire' \ DOMAIN wire)
                    /\ deleted' \subseteq DOMAIN wire'
<1>6. ASSUME Rests PROVE Good
  BY <1>3, <1>4, <1>6, SessionRests
<1>7. ASSUME UNCHANGED receiverVars PROVE Good
  <2>1. Rests
    BY <1>5, <1>7 DEF receiverVars, PageOK
  <2> QED BY <1>6, <2>1
<1>8. ASSUME NEW o \in Ops, SenderTransmits(o) PROVE Good
  <2>1. inbox' \subseteq inbox \cup (DOMAIN wire' \ DOMAIN wire)
    <3>1. CASE phase = "open" /\ linkUp
      <4>1. wire' = Append(wire, Encrypted(o)) /\ inbox' = inbox \cup {Len(wire) + 1}
        BY <1>8, <3>1 DEF SenderTransmits, Transmit
      <4>2. /\ DOMAIN wire = 1..Len(wire) /\ Len(wire) \in Nat
            /\ DOMAIN wire' = 1..(Len(wire) + 1)
        BY <4>1 DEF SessionInv, SenderTypeOK
      <4> QED BY <4>1, <4>2
    <3>2. CASE ~ (phase = "open" /\ linkUp)
      BY <1>8, <3>2 DEF SenderTransmits
    <3> QED BY <3>1, <3>2
  <2>2. Rests
    BY <1>5, <1>8, <2>1 DEF SenderTransmits, PageOK
  <2> QED BY <1>6, <2>2
<1>9. ASSUME NEW rotate \in BOOLEAN, NEW purge \in SUBSET used,
             NEW fresh \in 0..MaxOneTimeKeys, ReceiverLoads(rotate, purge, fresh)
      PROVE  Good
  BY <1>9, SessionLoads
<1>10. ASSUME ReceiverRegisters PROVE Good
  <2>1. Rests
    BY <1>5, <1>10 DEF ReceiverRegisters, PageOK
  <2> QED BY <1>6, <2>1
<1>11. ASSUME NEW m \in DOMAIN wire, ReceiverProcesses(m) PROVE Good
  BY <1>11, SessionProcesses
<1>12. ASSUME NEW m \in DOMAIN wire, DeleteForAll(m) PROVE Good
  <2>1. Rests
    BY <1>5, <1>12 DEF DeleteForAll, PageOK
  <2> QED BY <1>6, <2>1
<1>13. Good
  <2> HIDE DEF Good
  <2>1. CASE SenderLoads \/ SenderLinkBreaks \/ \E o \in Ops : SenderPrepares(o)
    BY <1>7, <2>1 DEF SenderLoads, SenderLinkBreaks, SenderPrepares
  <2>2. CASE UNCHANGED vars
    BY <1>7, <2>2 DEF vars
  <2> QED
    BY <1>8, <1>9, <1>10, <1>11, <1>12, <2>1, <2>2 DEF SessionNext
<1> QED
  BY <1>1, <1>3, <1>4, <1>13 DEF SessionInv

LEMMA SessionInvTyped == SessionInv => SessionTypeOK
<1> SUFFICES ASSUME SessionInv PROVE SessionTypeOK
  OBVIOUS
<1>1. session \in Sessions
  BY SessionsTyped DEF SessionInv, After
<1> QED
  BY <1>1 DEF SessionInv, PageOK, PublishedOK, SessionTypeOK

LEMMA FailureCostsNothing ==
    ASSUME SessionInv, NEW m \in DOMAIN wire, ReceiverProcesses(m), m \in failed',
           ~ ResetsSession(wire[m]), session.kind = "chain",
           NEW n \in 0..MaxIndex, Unspent(session.chain, n)
    PROVE  StillOpens(session', session.chain, n)
<1> DEFINE r == DecryptWithRecovery(session, wire[m], Processed)
<1>1. /\ RecoveryEffect(Processed, session, m, r)
      /\ session' = r.st /\ (m \in failed' <=> ~ r.ok)
  BY SessionReceives
<1> HIDE DEF r
<1>2. Fresh(n, session.chain, Processed) /\ n \in Nat /\ ~ wire[m].hs
  BY BoundsAssumption DEF Unspent, Fresh, ResetsSession
<1>3. Stands(r.st, session.chain) /\ Opens(r.st, n)
  BY <1>1, <1>2 DEF RecoveryEffect
<1> QED
  BY <1>1, <1>3 DEF Stands, Opens, HasKey, StillOpens

(***************************************************************************)
(* The variables of both devices keep their types; in particular no        *)
(* sequence of messages, failures and replays makes skipMessageKeys store  *)
(* more than MAX_SKIPPED_KEYS keys.                                        *)
(***************************************************************************)
THEOREM SessionTypes == SessionSpec => []SessionTypeOK
  BY SessionInvInit, SessionInvStep, SessionInvTyped, PTL DEF SessionSpec

(***************************************************************************)
(* decryptWithRecovery opens every message whose session is intact,        *)
(* whatever else arrived, failed, was replayed, deleted or sent in         *)
(* between, overlapping sends included.                                    *)
(***************************************************************************)
THEOREM IntactMessagesOpen == SessionSpec => []IntactMessagesDecrypt
<1>1. SessionInv => IntactMessagesDecrypt
  BY DEF SessionInv
<1> QED
  BY <1>1, SessionInvInit, SessionInvStep, PTL DEF SessionSpec

(***************************************************************************)
(* When a message fails that does not ask for a reset, the replay of the   *)
(* transcript and the second attempt leave every key of the working        *)
(* session that was not yet spent (decryptWithRecovery).  A handshake that *)
(* fails resets the session, and it is lost: nothing is claimed of it.     *)
(***************************************************************************)
THEOREM FailuresKeepTheSession == SessionSpec => RecoveryKeepsSession
<1>1. SessionInv =>
        \A m \in DOMAIN wire :
          ReceiverProcesses(m) /\ m \in failed' /\ ~ ResetsSession(wire[m])
             /\ session.kind = "chain"
          => \A n \in 0..MaxIndex :
                Unspent(session.chain, n) => StillOpens(session', session.chain, n)
  BY FailureCostsNothing
<1> QED
  BY <1>1, SessionInvInit, SessionInvStep, PTL DEF SessionSpec, RecoveryKeepsSession
=============================================================================
