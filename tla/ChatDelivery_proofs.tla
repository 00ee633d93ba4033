------------------------ MODULE ChatDelivery_proofs ------------------------
(***************************************************************************)
(* Proofs about ChatDelivery, for any number of users, devices, sockets    *)
(* and messages:                                                           *)
(*                                                                         *)
(*   - the three lists of the ConnectionManager agree about every open     *)
(*     socket (ListsInv);                                                  *)
(*   - the types, with what a handler has in hand (TypeInv);               *)
(*   - no message is lost on its way to a page, and the raw envelope comes *)
(*     only for a cause (DeliveryInv: what a page has of each message, on  *)
(*     its way, kept back, waiting or on screen);                          *)
(*   - a message that a registered socket does not get is one of those     *)
(*     that NothingElseIsMissed names (AccountInv: how each message is     *)
(*     accounted for, and who still has to send it).                       *)
(***************************************************************************)
EXTENDS ChatDelivery, FiniteSetTheorems, TLAPS

(***************************************************************************)
(* The inductive invariant: the lists hold sockets, none of which has yet  *)
(* to be opened.  The last part is needed because a page opens a socket    *)
(* without a look at the lists.                                            *)
(***************************************************************************)
ListsInv ==
    /\ registry \in [Lists -> SUBSET Sockets]
    /\ \A s \in Sockets : link[s] = "none" => \A l \in Lists : s \notin registry[l]
    /\ link \in [Sockets -> {"none", "open", "closed"}]
    /\ OpenSocketsFullyListed

\* A step that leaves the lists alone and only closes sockets keeps the invariant.
LEMMA ListsKept ==
    ASSUME ListsInv, registry' = registry,
           link' \in [Sockets -> {"none", "open", "closed"}],
           \A s \in Sockets : link'[s] \in {link[s], "closed"}
    PROVE  ListsInv'
BY DEF ListsInv, OpenSocketsFullyListed

\* Taking a socket out of every list keeps the invariant.
LEMMA DisconnectKeeps ==
    ASSUME ListsInv, NEW s \in Sockets, disconnect_chat(s, Lists), link' = link
    PROVE  ListsInv'
<1>1. \A l \in Lists : registry'[l] = registry[l] \ {s}
  BY DEF disconnect_chat
<1>2. registry' \in [Lists -> SUBSET Sockets]
  BY DEF disconnect_chat, ListsInv
<1> QED
  BY <1>1, <1>2 DEF ListsInv, OpenSocketsFullyListed

\* Every step keeps the invariant.
LEMMA ListsStep ==
    ASSUME ListsInv, [DeliveryNext]_vars
    PROVE  ListsInv'
<1>1. CASE UNCHANGED <<registry, link>>
  BY <1>1, ListsKept DEF ListsInv
<1>2. ASSUME NEW s \in Sockets, PageStep(s)
      PROVE  ListsInv'
  BY <1>1, <1>2 DEF PageStep, Receive, Render
<1>3. ASSUME NEW s \in Sockets, ConnectStep(s)
      PROVE  ListsInv'
  <2>1. CASE Register(s)
    <3>1. link[s] = "open" /\ link' = link
      BY <2>1 DEF Register
    <3>2. registry' = [l \in Lists |-> registry[l] \cup {s}]
      BY <2>1 DEF Register, connect_chat
    <3>3. registry' \in [Lists -> SUBSET Sockets]
      BY <3>2 DEF ListsInv
    <3> QED
      BY <3>1, <3>2, <3>3 DEF ListsInv, OpenSocketsFullyListed
  <2> QED
    BY <1>1, <1>3, <2>1 DEF ConnectStep, MarkRead, LoadPayloads, QueryHistory,
                            AcceptFails, SendHistory, SendHistoryFails
<1>4. ASSUME NEW s \in Sockets, SendStep(s)
      PROVE  ListsInv'
  <2>1. CASE Echo(s)
    <3>1. link' = link /\ (registry' = registry \/ disconnect_chat(s, Lists))
      BY <2>1 DEF Echo
    <3> QED
      BY <1>1, <3>1, DisconnectKeeps
  <2>2. ASSUME NEW d \in Devices, FanOut(s, d)
        PROVE  ListsInv'
    <3>1. PICK failed \in SUBSET {x \in Sockets : link[x] = "closed"} :
             registry' = [registry EXCEPT !["chat"] = @ \ failed, !["device"] = @ \ failed]
      BY <2>2 DEF FanOut, ListsInv, Lists
    <3>2. link' = link
      BY <2>2 DEF FanOut
    <3>3. \A l \in Lists : registry'[l] \in {registry[l], registry[l] \ failed}
      BY <3>1 DEF ListsInv, Lists
    <3>4. registry' \in [Lists -> SUBSET Sockets]
      BY <3>1 DEF ListsInv, Lists
    <3>5. \A x \in Sockets : link[x] = "open" =>
             \A l \in Lists : x \in registry'[l] <=> x \in registry[l]
      BY <3>3
    <3>6. \A x \in Sockets : link[x] = "none" => \A l \in Lists : x \notin registry'[l]
      BY <3>3 DEF ListsInv
    <3> QED
      BY <3>2, <3>4, <3>5, <3>6 DEF ListsInv, OpenSocketsFullyListed
  <2>3. CASE Disconnect(s)
    BY <2>3, DisconnectKeeps DEF Disconnect
  <2> QED
    BY <1>1, <1>4, <2>1, <2>2, <2>3
       DEF SendStep, Commit, PersistPayloads, FanOutEnds
<1>5. ASSUME NEW s \in Sockets, UserStep(s)
      PROVE  ListsInv'
  <2>1. CASE Open(s)
    <3>1. link[s] = "none" /\ registry' = registry
      BY <2>1 DEF Open
    <3>2. link' = [link EXCEPT ![s] = "open"]
      BY <2>1 DEF Open
    <3> QED
      BY <3>1, <3>2 DEF ListsInv, OpenSocketsFullyListed
  <2>2. CASE Close(s) \/ ReplyToDeleted(s)
    <3>1. registry' = registry /\ link' = [link EXCEPT ![s] = "closed"]
      BY <2>2 DEF Close, ReplyToDeleted
    <3> QED
      BY <3>1, ListsKept DEF ListsInv
  <2> QED
    BY <1>1, <1>5, <2>1, <2>2 DEF UserStep, Stamp, DeleteForAll
<1>6. CASE UNCHANGED vars
  BY <1>1, <1>6 DEF vars
<1> QED
  BY <1>2, <1>3, <1>4, <1>5, <1>6 DEF DeliveryNext

(***************************************************************************)
(* While a page's socket is open, the ConnectionManager has it in its      *)
(* lists by chat, by user and by device, or in none of them, whatever      *)
(* sends to other sockets fail and whichever handlers end.                 *)
(***************************************************************************)
THEOREM OpenSocketsAreFullyListed == DeliverySpec => []OpenSocketsFullyListed
<1>1. DeliveryInit => ListsInv
  BY DEF DeliveryInit, ListsInv, OpenSocketsFullyListed
<1>2. ListsInv /\ [DeliveryNext]_vars => ListsInv'
  BY ListsStep
<1>3. ListsInv => OpenSocketsFullyListed
  BY DEF ListsInv
<1> QED
  BY <1>1, <1>2, <1>3, PTL DEF DeliverySpec

-----------------------------------------------------------------------------
(* The types, and what a handler has in hand.                              *)

HandlerStates ==
    [pc : {"none", "rows", "query", "register", "history", "live", "commit",
           "payloads", "echo", "fanout", "ended"},
     rows : SUBSET Ids, history : SUBSET Copies, upto : 0..MaxMessages,
     between : SUBSET Ids, read : BOOLEAN, id : 0..MaxMessages, left : SUBSET Devices]

PageStates ==
    [inbox : Seq(Events), complete : BOOLEAN, kept : SUBSET Copies,
     queue : SUBSET Copies, rendered : SUBSET Ids, shown : SUBSET Copies]

\* A handler works on messages of the table, and its history has one copy of each message
\* that was there, raw only for want of a payload.
HandlerOK(h) ==
    /\ h.upto <= Len(messages)
    /\ h.pc \in {"payloads", "echo", "fanout"} => h.id \in DOMAIN messages
    /\ h.pc \in {"echo", "fanout"} => messages[h.id].payloads
    /\ h.pc \in {"none", "rows", "query"} => h.history = {} /\ h.upto = 0
    /\ \A c \in h.history :
          /\ c[1] \in 1..h.upto
          /\ c[2] = "raw" => c[1] \notin h.rows
          /\ \A d \in h.history : c[1] = d[1] => c = d
    /\ h.pc \in {"register", "history"} =>
          \A i \in 1..h.upto : messages[i].deleted \/ \E f \in Forms : <<i, f>> \in h.history

TypeInv == DeliveryTypeOK /\ \A s \in Sockets : HandlerOK(handler[s])

\* Messages are added; what is deleted, has payloads or has gone out stays so, and where a
\* message comes from and whom it names is settled with its row.
MessagesGrow ==
    /\ messages' \in Seq(MessageRows) /\ Len(messages') <= MaxMessages
    /\ Len(messages) <= Len(messages')
    /\ \A i \in DOMAIN messages : /\ messages[i].deleted => messages'[i].deleted
                                  /\ messages[i].payloads => messages'[i].payloads
                                  /\ messages[i].told \subseteq messages'[i].told
                                  /\ messages'[i].named = messages[i].named
                                  /\ messages'[i].from = messages[i].from

LEMMA TypesUsed ==
    ASSUME TypeInv
    PROVE  /\ messages \in Seq(MessageRows) /\ Len(messages) \in Nat
           /\ Len(messages) <= MaxMessages /\ MaxMessages \in Nat
           /\ DOMAIN messages = 1..Len(messages) /\ DOMAIN messages \subseteq Ids
           /\ \A i \in DOMAIN messages : messages[i] \in MessageRows
           /\ handler \in [Sockets -> HandlerStates]
           /\ page \in [Sockets -> PageStates]
           /\ \A s \in Sockets : HandlerOK(handler[s])
  BY DeliveryAssumption DEF TypeInv, DeliveryTypeOK, HandlerStates, PageStates, Ids

LEMMA SameMessagesGrow ==
    ASSUME TypeInv, messages' = messages
    PROVE  MessagesGrow
  BY TypesUsed DEF MessagesGrow

\* One row is written.
LEMMA RowWritten ==
    ASSUME TypeInv, NEW i \in DOMAIN messages, NEW row \in MessageRows,
           messages' = [messages EXCEPT ![i] = row],
           messages[i].deleted => row.deleted, messages[i].payloads => row.payloads,
           messages[i].told \subseteq row.told, row.named = messages[i].named,
           row.from = messages[i].from
    PROVE  MessagesGrow
<1>1. Len(messages') = Len(messages) /\ messages' \in Seq(MessageRows)
  BY TypesUsed
<1> QED BY <1>1, TypesUsed DEF MessagesGrow

\* What holds of a handler is not undone by what others write.
LEMMA HandlerStaysOK ==
    ASSUME TypeInv, MessagesGrow, NEW h \in HandlerStates, HandlerOK(h)
    PROVE  HandlerOK(h)'
<1>1. /\ h.upto \in Nat /\ Len(messages) \in Nat /\ Len(messages') \in Nat
      /\ DOMAIN messages = 1..Len(messages) /\ DOMAIN messages' = 1..Len(messages')
      /\ Len(messages) <= Len(messages')
      /\ \A i \in DOMAIN messages : /\ messages[i].deleted => messages'[i].deleted
                                    /\ messages[i].payloads => messages'[i].payloads
  BY TypesUsed DEF MessagesGrow, HandlerStates
<1>2. h.upto <= Len(messages)
  BY DEF HandlerOK
<1>3. h.upto <= Len(messages') /\ \A i \in 1..h.upto : i \in DOMAIN messages
  BY <1>1, <1>2
<1>4. h.pc \in {"payloads", "echo", "fanout"} => h.id \in DOMAIN messages'
  BY <1>1 DEF HandlerOK
<1>5. h.pc \in {"echo", "fanout"} => messages'[h.id].payloads
  BY <1>1 DEF HandlerOK
<1>6. h.pc \in {"register", "history"} =>
        \A i \in 1..h.upto : messages'[i].deleted \/ \E f \in Forms : <<i, f>> \in h.history
  BY <1>1, <1>3 DEF HandlerOK
<1> QED BY <1>3, <1>4, <1>5, <1>6 DEF HandlerOK

\* The step of one handler.
LEMMA HandlersStayOK ==
    ASSUME TypeInv, MessagesGrow, NEW s \in Sockets, NEW h \in HandlerStates,
           handler' = [handler EXCEPT ![s] = h], HandlerOK(h)'
    PROVE  handler' \in [Sockets -> HandlerStates] /\ \A x \in Sockets : HandlerOK(handler[x])'
<1>1. handler' \in [Sockets -> HandlerStates]
  BY TypesUsed
<1>2. ASSUME NEW x \in Sockets, x # s PROVE HandlerOK(handler[x])'
  <2>1. PICK g \in HandlerStates : g = handler[x]
    BY TypesUsed
  <2>2. handler'[x] = g /\ HandlerOK(g)
    BY <1>2, <2>1, TypesUsed
  <2>3. HandlerOK(g)'
    BY <2>2, HandlerStaysOK
  <2> QED BY <2>2, <2>3 DEF HandlerOK
<1>3. HandlerOK(handler[s])'
  <2>1. handler'[s] = h
    BY TypesUsed
  <2> QED BY <2>1 DEF HandlerOK
<1> QED BY <1>1, <1>2, <1>3

LEMMA SameHandlersStayOK ==
    ASSUME TypeInv, MessagesGrow, handler' = handler
    PROVE  handler' \in [Sockets -> HandlerStates] /\ \A x \in Sockets : HandlerOK(handler[x])'
<1>1. ASSUME NEW s \in Sockets PROVE HandlerOK(handler[s])'
  <2>1. PICK g \in HandlerStates : g = handler[s]
    BY TypesUsed
  <2>2. HandlerOK(g)'
    BY <2>1, TypesUsed, HandlerStaysOK
  <2> QED BY <2>1, <2>2 DEF HandlerOK
<1> QED BY <1>1, TypesUsed

\* What is left of a handler that has ended.
LEMMA EndedHandlerOK ==
    ASSUME TypeInv, MessagesGrow
    PROVE  /\ [NoHandler EXCEPT !.pc = "ended"] \in HandlerStates
           /\ HandlerOK([NoHandler EXCEPT !.pc = "ended"])'
<1>1. PICK h : h = [NoHandler EXCEPT !.pc = "ended"]
  OBVIOUS
<1>2. h = [pc |-> "ended", rows |-> {}, history |-> {}, upto |-> 0, between |-> {},
           read |-> FALSE, id |-> 0, left |-> {}]
  BY <1>1 DEF NoHandler
<1>3. h \in HandlerStates
  BY <1>2, TypesUsed DEF HandlerStates
<1>4. HandlerOK(h)'
  BY <1>2, TypesUsed DEF HandlerOK, MessagesGrow
<1> QED BY <1>1, <1>3, <1>4

\* The history as a sequence of events: each copy is there, and nothing else.
LEMMA EventsOfHistory ==
    ASSUME NEW history \in SUBSET Copies, MaxMessages \in Nat,
           \A c, d \in history : c[1] = d[1] => c = d
    PROVE  /\ EventsFor(history) \in Seq(Events)
           /\ \A c \in history : \E k \in DOMAIN EventsFor(history) :
                 EventsFor(history)[k] = MessageEvent(c)
           /\ \A k \in DOMAIN EventsFor(history) : \E c \in history :
                 EventsFor(history)[k] = MessageEvent(c)
<1> DEFINE n == Cardinality(history)
           P(c) == {d \in history : d[1] <= c[1]}
           rank == [c \in history |-> Place(history, c)]
           CopyAt(k) == CHOOSE c \in history : Place(history, c) = k
<1>1. \A c \in history : c[1] \in Nat /\ c[1] \in Ids /\ c[2] \in Forms
  BY DEF Copies, Ids
<1>2. IsFiniteSet(history) /\ n \in Nat
  <2>1. IsFiniteSet(Ids) /\ IsFiniteSet(Forms)
    <3>1. IsFiniteSet({"own"}) /\ IsFiniteSet({"raw"}) /\ Forms = {"own"} \cup {"raw"}
      BY FS_Singleton DEF Forms
    <3>2. IsFiniteSet(Forms)
      BY <3>1, FS_Union
    <3>3. IsFiniteSet(Ids)
      BY FS_Interval DEF Ids
    <3> QED BY <3>2, <3>3
  <2>2. IsFiniteSet(Copies)
    BY <2>1, FS_Product DEF Copies
  <2> QED BY <2>2, FS_Subset, FS_CardinalityType
<1>3. ASSUME NEW c \in history PROVE IsFiniteSet(P(c)) /\ Cardinality(P(c)) \in 1..n
  <2>1. P(c) \in SUBSET history
    OBVIOUS
  <2>2. IsFiniteSet(P(c)) /\ Cardinality(P(c)) <= n /\ Cardinality(P(c)) \in Nat
    BY <2>1, <1>2, FS_Subset, FS_CardinalityType
  <2>3. c \in P(c)
    BY <1>1
  <2>4. Cardinality(P(c)) # 0
    BY <2>2, <2>3, FS_EmptySet
  <2> HIDE DEF P
  <2> QED BY <2>2, <2>4, <1>2
<1>4. rank \in [history -> 1..n]
  BY <1>3 DEF Place
<1>5. ASSUME NEW c \in history, NEW d \in history, rank[c] = rank[d] PROVE c = d
  <2>1. ASSUME NEW a \in history, NEW b \in history, a[1] < b[1]
        PROVE  Cardinality(P(a)) # Cardinality(P(b))
    <3>1. P(a) \in SUBSET P(b)
      BY <2>1, <1>1
    <3>2. b \in P(b) /\ b \notin P(a)
      BY <2>1, <1>1
    <3> HIDE DEF P
    <3> QED BY <3>1, <3>2, <1>3, FS_Subset
  <2>2. Cardinality(P(c)) = Cardinality(P(d))
    BY <1>5 DEF Place
  <2> HIDE DEF P
  <2>3. ~ (c[1] < d[1]) /\ ~ (d[1] < c[1])
    BY <2>1, <2>2
  <2> QED BY <2>3, <1>1
<1> HIDE DEF rank
<1>6. rank \in Injection(history, 1..n)
  BY <1>4, <1>5 DEF Injection, IsInjective
<1>7. IsFiniteSet(1..n) /\ Cardinality(1..n) = n
  BY <1>2, FS_Interval
<1>8. rank \in Surjection(history, 1..n)
  BY <1>2, <1>6, <1>7, FS_Injection
<1>9. ASSUME NEW k \in 1..n PROVE CopyAt(k) \in history /\ Place(history, CopyAt(k)) = k
  <2>1. \E c \in history : Place(history, c) = k
    BY <1>8 DEF Surjection, Range, rank
  <2> QED BY <2>1
<1>10. EventsFor(history) = [k \in 1..n |-> MessageEvent(CopyAt(k))]
  BY DEF EventsFor
<1>11. ASSUME NEW c \in history PROVE MessageEvent(c) \in Events
  BY <1>1 DEF MessageEvent, Events
<1>12. ASSUME NEW c \in history PROVE Place(history, c) \in 1..n /\ CopyAt(Place(history, c)) = c
  <2>1. Place(history, c) \in 1..n
    BY <1>3 DEF Place
  <2>2. rank[CopyAt(Place(history, c))] = rank[c] /\ CopyAt(Place(history, c)) \in history
    BY <2>1, <1>9 DEF rank
  <2> QED BY <2>1, <2>2, <1>5
<1> HIDE DEF CopyAt
<1>13. EventsFor(history) \in Seq(Events)
  BY <1>2, <1>9, <1>10, <1>11
<1>14. DOMAIN EventsFor(history) = 1..n
  BY <1>10
<1> QED BY <1>9, <1>10, <1>12, <1>13, <1>14

LEMMA BlankPageIs ==
    BlankPage \in PageStates
  BY DEF BlankPage, PageStates

LEMMA DeliverTyped ==
    ASSUME TypeInv, NEW to, NEW events \in Seq(Events), Deliver(to, events)
    PROVE  page' \in [Sockets -> PageStates]
<1>1. ASSUME NEW s \in Sockets
      PROVE  [page[s] EXCEPT !.inbox = page[s].inbox \o events] \in PageStates
  <2>1. page[s] \in PageStates
    BY TypesUsed
  <2>2. page[s].inbox \o events \in Seq(Events)
    <3>1. page[s].inbox \in Seq(Events)
      BY <2>1 DEF PageStates
    <3> QED BY <3>1
  <2> QED BY <2>1, <2>2 DEF PageStates
<1> QED BY <1>1, TypesUsed DEF Deliver

\* What a page takes in, or puts on the screen.
LEMMA PageTypeStep ==
    ASSUME TypeInv, NEW s \in Sockets, PageStep(s)
    PROVE  page' \in [Sockets -> PageStates]
<1>0. page[s] \in PageStates
  BY TypesUsed
<1>1. CASE Receive(s)
  <2>1. PICK e : e = Head(page[s].inbox)
    OBVIOUS
  <2>2. PICK q : q = [page[s] EXCEPT !.inbox = Tail(page[s].inbox)]
    OBVIOUS
  <2>3. e \in Events /\ Tail(page[s].inbox) \in Seq(Events)
    <3>1. page[s].inbox \in Seq(Events) /\ page[s].inbox # <<>>
      BY <1>0, <1>1 DEF Receive, PageStates
    <3> QED BY <2>1, <3>1
  <2>4. q \in PageStates
    BY <1>0, <2>2, <2>3 DEF PageStates
  <2>5. e.type = "message" => <<e.id, e.form>> \in Copies
    BY <2>3 DEF Events, Copies
  <2>6. PICK p : page' = [page EXCEPT ![s] = p] /\
           \/ e.type = "message" /\ p = [q EXCEPT !.kept = q.kept \cup {<<e.id, e.form>>}]
           \/ e.type = "message" /\ p = [q EXCEPT !.queue = q.queue \cup {<<e.id, e.form>>}]
           \/ p = ReleaseKept(q)
           \/ p = [q EXCEPT !.shown = {c \in q.shown : c[1] # e.id}]
    BY <1>1, <2>1, <2>2 DEF Receive
  <2>7. p \in PageStates
    <3>1. CASE e.type = "message" /\ p = [q EXCEPT !.kept = q.kept \cup {<<e.id, e.form>>}]
      BY <2>4, <2>5, <3>1 DEF PageStates
    <3>2. CASE e.type = "message" /\ p = [q EXCEPT !.queue = q.queue \cup {<<e.id, e.form>>}]
      BY <2>4, <2>5, <3>2 DEF PageStates
    <3>3. CASE p = ReleaseKept(q)
      BY <2>4, <3>3 DEF ReleaseKept, PageStates
    <3>4. CASE p = [q EXCEPT !.shown = {c \in q.shown : c[1] # e.id}]
      BY <2>4, <3>4 DEF PageStates
    <3> QED BY <2>6, <3>1, <3>2, <3>3, <3>4
  <2> QED BY <2>6, <2>7, TypesUsed
<1>2. ASSUME NEW c \in Copies, Render(s, c) PROVE page' \in [Sockets -> PageStates]
  <2>1. c[1] \in Ids
    BY DEF Copies
  <2>2. PICK p : /\ page' = [page EXCEPT ![s] = p]
                 /\ p = [page[s] EXCEPT
                          !.queue = page[s].queue \ {c},
                          !.rendered = page[s].rendered \cup {c[1]},
                          !.shown = IF c[1] \in page[s].rendered THEN page[s].shown
                                    ELSE page[s].shown \cup {c}]
    BY <1>2 DEF Render
  <2>3. p \in PageStates
    BY <1>0, <2>1, <2>2 DEF PageStates
  <2> QED BY <2>2, <2>3, TypesUsed
<1> QED BY <1>1, <1>2 DEF PageStep

\* With the payloads saved, a device that the message names gets its own.
LEMMA LiveEventIs ==
    ASSUME TypeInv, NEW i \in DOMAIN messages, NEW d
    PROVE  /\ <<LiveEvent(i, d)>> \in Seq(Events)
           /\ messages[i].payloads =>
                 \E f \in Forms : /\ LiveEvent(i, d) = MessageEvent(<<i, f>>)
                                  /\ f = "own" \/ d \notin messages[i].named
<1>1. LiveEvent(i, d) \in Events
  BY TypesUsed DEF LiveEvent, Events, Forms
<1>2. LiveEvent(i, d) = MessageEvent(<<i, IF HasPayload(i, d) THEN "own" ELSE "raw">>)
  BY DEF LiveEvent, MessageEvent
<1> QED BY <1>1, <1>2 DEF HasPayload, Forms

\* A handler connects, or fails to.
LEMMA ConnectTypeStep ==
    ASSUME TypeInv, NEW s \in Sockets, ConnectStep(s)
    PROVE  /\ MessagesGrow
           /\ handler' \in [Sockets -> HandlerStates]
           /\ \A x \in Sockets : HandlerOK(handler[x])'
           /\ page' \in [Sockets -> PageStates]
<1>0. handler[s] \in HandlerStates /\ HandlerOK(handler[s])
  BY TypesUsed
<1>1. ASSUME NEW pc, \/ handler[s].pc = "none" /\ pc = "rows"
                     \/ handler[s].pc = "history" /\ pc = "live",
             MessagesGrow, handler' = [handler EXCEPT ![s] = [handler[s] EXCEPT !.pc = pc]]
      PROVE  /\ handler' \in [Sockets -> HandlerStates]
             /\ \A x \in Sockets : HandlerOK(handler[x])'
  <2>1. PICK h : h = [handler[s] EXCEPT !.pc = pc]
    OBVIOUS
  <2>2. h \in HandlerStates
    BY <1>0, <1>1, <2>1 DEF HandlerStates
  <2>3. /\ h.pc = pc /\ h.rows = handler[s].rows /\ h.history = handler[s].history
        /\ h.upto = handler[s].upto
    BY <1>0, <2>1 DEF HandlerStates
  <2>4. HandlerOK(h)
    BY <1>0, <1>1, <2>3 DEF HandlerOK
  <2>5. HandlerOK(h)'
    BY <1>1, <2>2, <2>4, HandlerStaysOK
  <2> QED BY <1>1, <2>1, <2>2, <2>5, HandlersStayOK
<1>2. CASE MarkRead(s)
  <2>1. \A i \in DOMAIN messages : messages'[i] \in MessageRows
    BY <1>2, TypesUsed DEF MarkRead, MessageRows
  <2>2. messages' \in Seq(MessageRows) /\ Len(messages') = Len(messages)
    BY <1>2, <2>1, TypesUsed DEF MarkRead
  <2>3. \A i \in DOMAIN messages : /\ messages'[i].deleted = messages[i].deleted
                                   /\ messages'[i].payloads = messages[i].payloads
                                   /\ messages'[i].told = messages[i].told
                                   /\ messages'[i].named = messages[i].named
                                   /\ messages'[i].from = messages[i].from
    BY <1>2, TypesUsed DEF MarkRead, MessageRows
  <2>4. MessagesGrow
    BY <2>2, <2>3, TypesUsed DEF MessagesGrow
  <2>5. /\ handler' = [handler EXCEPT ![s] = [handler[s] EXCEPT !.pc = "rows"]]
        /\ handler[s].pc = "none" /\ page' = page
    BY <1>2 DEF MarkRead, At
  <2> QED BY <1>1, <2>4, <2>5, TypesUsed
<1>3. CASE LoadPayloads(s)
  <2>1. MessagesGrow
    BY <1>3, SameMessagesGrow DEF LoadPayloads
  <2>2. PICK rows : rows = {i \in DOMAIN messages : HasPayload(i, DeviceOf[s])}
    OBVIOUS
  <2>3. PICK h : h = [handler[s] EXCEPT !.pc = "query", !.rows = rows]
    OBVIOUS
  <2>4. rows \subseteq Ids
    BY <2>2, TypesUsed
  <2>5. h \in HandlerStates
    BY <1>0, <2>3, <2>4 DEF HandlerStates
  <2>6. handler' = [handler EXCEPT ![s] = h]
    BY <1>3, <2>2, <2>3 DEF LoadPayloads
  <2>7. HandlerOK(h)
    <3>1. h.pc = "query" /\ h.history = {} /\ h.upto = 0
      BY <1>0, <1>3, <2>3 DEF LoadPayloads, At, HandlerOK, HandlerStates
    <3> QED BY <3>1, TypesUsed DEF HandlerOK
  <2>8. HandlerOK(h)'
    BY <2>1, <2>5, <2>7, HandlerStaysOK
  <2> QED BY <1>3, <2>1, <2>5, <2>6, <2>8, HandlersStayOK, TypesUsed DEF LoadPayloads
<1>4. CASE QueryHistory(s)
  <2>1. MessagesGrow /\ page' = page /\ messages' = messages
    BY <1>4, SameMessagesGrow DEF QueryHistory
  <2>2. PICK history : history = {<<i, FormIn(handler[s].rows, i)>> :
                                     i \in {j \in DOMAIN messages : ~ messages[j].deleted}}
    OBVIOUS
  <2>3. PICK h : h = [handler[s] EXCEPT !.pc = "register", !.upto = Len(messages),
                                        !.history = history]
    OBVIOUS
  <2>4. history \subseteq Copies
    BY <2>2, TypesUsed DEF Copies, FormIn, Forms
  <2>5. h \in HandlerStates
    <3>1. Len(messages) \in 0..MaxMessages
      BY TypesUsed
    <3> QED BY <1>0, <2>3, <2>4, <3>1 DEF HandlerStates
  <2>6. handler' = [handler EXCEPT ![s] = h]
    BY <1>4, <2>2, <2>3 DEF QueryHistory
  <2>7. /\ h.pc = "register" /\ h.history = history /\ h.upto = Len(messages)
        /\ h.rows = handler[s].rows
    BY <1>0, <2>3 DEF HandlerStates
  <2>8. \A i \in 1..h.upto : messages[i].deleted \/ \E f \in Forms : <<i, f>> \in history
    BY <2>2, <2>7, TypesUsed DEF FormIn, Forms
  <2>9. \A c \in history : /\ c[1] \in 1..h.upto /\ (c[2] = "raw" => c[1] \notin h.rows)
                           /\ c = <<c[1], FormIn(h.rows, c[1])>>
    BY <2>2, <2>7, TypesUsed DEF FormIn
  <2>10. HandlerOK(h)
    <3>1. \A c, d \in history : c[1] = d[1] => c = d
      BY <2>9
    <3>2. h.upto <= Len(messages)
      BY <2>7, TypesUsed
    <3> QED BY <2>7, <2>8, <2>9, <3>1, <3>2 DEF HandlerOK
  <2>11. HandlerOK(h)'
    BY <2>1, <2>5, <2>10, HandlerStaysOK
  <2> QED BY <2>1, <2>5, <2>6, <2>11, HandlersStayOK, TypesUsed
<1>5. CASE Register(s)
  <2>1. handler[s].pc = "register" /\ page' = page /\ messages' = messages /\ MessagesGrow
    BY <1>5, SameMessagesGrow DEF Register, At
  <2>2. PICK between : between = {i \in DOMAIN messages :
                                     i > handler[s].upto /\ ~ Owed(i, DeviceOf[s])}
    OBVIOUS
  <2>3. PICK h : h = [handler[s] EXCEPT !.pc = "history", !.between = between]
    OBVIOUS
  <2>4. between \subseteq Ids
    BY <2>2, TypesUsed
  <2>5. h \in HandlerStates
    BY <1>0, <2>3, <2>4 DEF HandlerStates
  <2>6. handler' = [handler EXCEPT ![s] = h]
    BY <1>5, <2>2, <2>3 DEF Register
  <2>7. /\ h.pc = "history" /\ h.rows = handler[s].rows /\ h.history = handler[s].history
        /\ h.upto = handler[s].upto
    BY <1>0, <2>3 DEF HandlerStates
  <2>8. HandlerOK(h)
    BY <1>0, <2>1, <2>7 DEF HandlerOK
  <2>9. HandlerOK(h)'
    BY <2>1, <2>5, <2>8, HandlerStaysOK
  <2> QED BY <2>1, <2>5, <2>6, <2>9, HandlersStayOK, TypesUsed
<1>6. CASE AcceptFails(s) \/ SendHistoryFails(s)
  <2>1. MessagesGrow /\ page' = page
    BY <1>6, SameMessagesGrow DEF AcceptFails, SendHistoryFails
  <2> QED BY <1>6, <2>1, EndedHandlerOK, HandlersStayOK, TypesUsed DEF AcceptFails, SendHistoryFails
<1>7. CASE SendHistory(s)
  <2>1. MessagesGrow
    BY <1>7, SameMessagesGrow DEF SendHistory
  <2>2. EventsFor(handler[s].history) \in Seq(Events)
    BY <1>0, TypesUsed, EventsOfHistory DEF HandlerOK, HandlerStates
  <2>3. Append(EventsFor(handler[s].history), [type |-> "complete"]) \in Seq(Events)
    <3>1. [type |-> "complete"] \in Events
      BY DEF Events
    <3> QED BY <2>2, <3>1
  <2>4. page' \in [Sockets -> PageStates]
    BY <1>7, <2>3, DeliverTyped DEF SendHistory
  <2>5. /\ handler' = [handler EXCEPT ![s] = [handler[s] EXCEPT !.pc = "live"]]
        /\ handler[s].pc = "history"
    BY <1>7 DEF SendHistory, At
  <2> QED BY <1>1, <2>1, <2>4, <2>5
<1> QED BY <1>2, <1>3, <1>4, <1>5, <1>6, <1>7 DEF ConnectStep

\* A handler saves a message and sends it on.
LEMMA SendTypeStep ==
    ASSUME TypeInv, ListsInv, NEW s \in Sockets, SendStep(s)
    PROVE  /\ MessagesGrow
           /\ handler' \in [Sockets -> HandlerStates]
           /\ \A x \in Sockets : HandlerOK(handler[x])'
           /\ page' \in [Sockets -> PageStates]
<1>0. /\ handler[s] \in HandlerStates /\ HandlerOK(handler[s]) /\ DeviceOf[s] \in Devices
      /\ handler[s].id \in Nat
  BY TypesUsed, DeliveryAssumption DEF HandlerStates
<1> DEFINE i == handler[s].id
\* One more field of the row is written, and the handler goes on.
<1>1. ASSUME MessagesGrow, NEW h \in HandlerStates, handler' = [handler EXCEPT ![s] = h],
             h.history = handler[s].history, h.upto = handler[s].upto, h.rows = handler[s].rows,
             h.pc \in {"payloads", "echo", "fanout"} => h.id \in DOMAIN messages',
             h.pc \in {"echo", "fanout"} => messages'[h.id].payloads,
             h.pc \notin {"none", "rows", "query", "register", "history"}
      PROVE  /\ handler' \in [Sockets -> HandlerStates]
             /\ \A x \in Sockets : HandlerOK(handler[x])'
  <2>1. h.upto <= Len(messages')
    BY <1>0, <1>1, TypesUsed DEF MessagesGrow, HandlerOK, HandlerStates
  <2>2. HandlerOK(h)'
    BY <1>0, <1>1, <2>1 DEF HandlerOK
  <2> QED BY <1>1, <2>2, HandlersStayOK
<1>2. CASE Commit(s)
  <2>0. PICK named \in SUBSET Devices :
           messages' = Append(messages, [from |-> s, named |-> named, read |-> handler[s].read,
                                         deleted |-> FALSE, payloads |-> FALSE, told |-> {},
                                         out |-> FALSE])
    BY <1>2 DEF Commit
  <2>1. PICK row : row = [from |-> s, named |-> named, read |-> handler[s].read,
                          deleted |-> FALSE, payloads |-> FALSE, told |-> {}, out |-> FALSE]
    OBVIOUS
  <2>2. row \in MessageRows
    BY <1>0, <2>1 DEF MessageRows, HandlerStates
  <2>3. messages' = Append(messages, row) /\ page' = page /\ Len(messages) < MaxMessages
    BY <1>2, <2>0, <2>1 DEF Commit
  <2>4. MessagesGrow
    BY <2>2, <2>3, TypesUsed DEF MessagesGrow
  <2>5. PICK h : h = [handler[s] EXCEPT !.pc = "payloads", !.id = Len(messages) + 1]
    OBVIOUS
  <2>6. h \in HandlerStates
    <3>1. Len(messages) + 1 \in 0..MaxMessages
      BY <2>3, TypesUsed
    <3> QED BY <1>0, <2>5, <3>1 DEF HandlerStates
  <2>7. /\ h.history = handler[s].history /\ h.upto = handler[s].upto /\ h.rows = handler[s].rows
        /\ h.pc = "payloads" /\ h.id = Len(messages) + 1
    BY <1>0, <2>5 DEF HandlerStates
  <2>8. h.id \in DOMAIN messages'
    BY <2>2, <2>3, <2>7, TypesUsed
  <2>9. handler' = [handler EXCEPT ![s] = h]
    BY <1>2, <2>5 DEF Commit
  <2> QED BY <1>1, <2>3, <2>4, <2>6, <2>7, <2>8, <2>9, TypesUsed
<1>3. CASE PersistPayloads(s)
  <2>1. i \in DOMAIN messages
    BY <1>0, <1>3 DEF PersistPayloads, At, HandlerOK
  <2>2. PICK row : row = [messages[i] EXCEPT !.payloads = TRUE]
    OBVIOUS
  <2>3. /\ row \in MessageRows /\ row.payloads /\ row.deleted = messages[i].deleted
        /\ row.told = messages[i].told /\ row.named = messages[i].named
        /\ row.from = messages[i].from
    BY <2>1, <2>2, TypesUsed DEF MessageRows
  <2>4. messages' = [messages EXCEPT ![i] = row] /\ page' = page
    BY <1>3, <2>2 DEF PersistPayloads
  <2>5. MessagesGrow
    BY <2>1, <2>3, <2>4, RowWritten
  <2>6. PICK h : h = [handler[s] EXCEPT !.pc = "echo"]
    OBVIOUS
  <2>7. h \in HandlerStates
    BY <1>0, <2>6 DEF HandlerStates
  <2>8. /\ h.history = handler[s].history /\ h.upto = handler[s].upto /\ h.rows = handler[s].rows
        /\ h.pc = "echo" /\ h.id = i
    BY <1>0, <2>6 DEF HandlerStates
  <2>9. i \in DOMAIN messages' /\ messages'[i].payloads
    BY <2>1, <2>3, <2>4, TypesUsed
  <2>10. handler' = [handler EXCEPT ![s] = h]
    BY <1>3, <2>6 DEF PersistPayloads
  <2> QED BY <1>1, <2>4, <2>5, <2>7, <2>8, <2>9, <2>10, TypesUsed
\* The message goes out to one or to several sockets.
<1>4. ASSUME i \in DOMAIN messages, messages[i].payloads, NEW to \in SUBSET Sockets,
             messages' = [messages EXCEPT ![i] = [messages[i] EXCEPT !.told = messages[i].told \cup to]]
      PROVE  MessagesGrow /\ i \in DOMAIN messages' /\ messages'[i].payloads
  <2>1. PICK row : row = [messages[i] EXCEPT !.told = messages[i].told \cup to]
    OBVIOUS
  <2>2. /\ row \in MessageRows /\ row.payloads /\ row.deleted = messages[i].deleted
        /\ messages[i].told \subseteq row.told /\ row.named = messages[i].named
        /\ row.from = messages[i].from
    BY <1>4, <2>1, TypesUsed, ZenonT(40) DEF MessageRows
  <2> QED BY <1>4, <2>1, <2>2, RowWritten, TypesUsed
<1>5. CASE Echo(s)
  <2>1. i \in DOMAIN messages /\ messages[i].payloads
    BY <1>0, <1>5 DEF Echo, At, HandlerOK
  <2>2. PICK to \in SUBSET Sockets : to = {s} \cap registry["device"]
    OBVIOUS
  <2>3. messages' = [messages EXCEPT ![i] = [messages[i] EXCEPT !.told = messages[i].told \cup to]]
    BY <1>5, <2>2 DEF Echo
  <2>4. MessagesGrow /\ i \in DOMAIN messages' /\ messages'[i].payloads
    BY <1>4, <2>1, <2>3
  <2>5. page' \in [Sockets -> PageStates]
    BY <1>5, <2>1, LiveEventIs, DeliverTyped DEF Echo
  <2>6. PICK h : h = [handler[s] EXCEPT !.pc = "fanout", !.left = Devices \ {DeviceOf[s]}]
    OBVIOUS
  <2>7. h \in HandlerStates
    BY <1>0, <2>6 DEF HandlerStates
  <2>8. /\ h.history = handler[s].history /\ h.upto = handler[s].upto /\ h.rows = handler[s].rows
        /\ h.pc = "fanout" /\ h.id = i
    BY <1>0, <2>6 DEF HandlerStates
  <2>9. handler' = [handler EXCEPT ![s] = h]
    BY <1>5, <2>6 DEF Echo
  <2> QED BY <1>1, <2>4, <2>5, <2>7, <2>8, <2>9
<1>6. ASSUME NEW d \in Devices, FanOut(s, d)
      PROVE  /\ MessagesGrow
             /\ handler' \in [Sockets -> HandlerStates]
             /\ \A x \in Sockets : HandlerOK(handler[x])'
             /\ page' \in [Sockets -> PageStates]
  <2>1. i \in DOMAIN messages /\ messages[i].payloads
    BY <1>0, <1>6 DEF FanOut, At, HandlerOK
  <2>2. PICK to : to = {x \in registry["device"] : DeviceOf[x] = d}
    OBVIOUS
  <2>3. to \in SUBSET Sockets
    BY <2>2 DEF ListsInv, Lists
  <2>4. messages' = [messages EXCEPT ![i] = [messages[i] EXCEPT !.told = messages[i].told \cup to]]
        /\ Deliver(to, <<LiveEvent(i, d)>>)
    BY <1>6, <2>2 DEF FanOut, FanOutEvent
  <2>5. MessagesGrow /\ i \in DOMAIN messages' /\ messages'[i].payloads
    BY <1>4, <2>1, <2>3, <2>4
  <2>6. page' \in [Sockets -> PageStates]
    BY <2>1, <2>4, LiveEventIs, DeliverTyped
  <2>7. PICK h : h = [handler[s] EXCEPT !.left = handler[s].left \ {d}]
    OBVIOUS
  <2>8. h \in HandlerStates
    BY <1>0, <2>7 DEF HandlerStates
  <2>9. /\ h.history = handler[s].history /\ h.upto = handler[s].upto /\ h.rows = handler[s].rows
        /\ h.pc = "fanout" /\ h.id = i
    BY <1>0, <1>6, <2>7 DEF FanOut, At, HandlerStates
  <2>10. handler' = [handler EXCEPT ![s] = h]
    BY <1>6, <2>7 DEF FanOut
  <2> QED BY <1>1, <2>5, <2>6, <2>8, <2>9, <2>10
<1>7. CASE FanOutEnds(s)
  <2>1. i \in DOMAIN messages
    BY <1>0, <1>7 DEF FanOutEnds, At, HandlerOK
  <2>2. PICK row : row = [messages[i] EXCEPT !.out = TRUE]
    OBVIOUS
  <2>3. /\ row \in MessageRows /\ row.payloads = messages[i].payloads
        /\ row.deleted = messages[i].deleted /\ row.told = messages[i].told
        /\ row.named = messages[i].named /\ row.from = messages[i].from
    BY <2>1, <2>2, TypesUsed DEF MessageRows
  <2>4. messages' = [messages EXCEPT ![i] = row] /\ page' = page
    BY <1>7, <2>2 DEF FanOutEnds
  <2>5. MessagesGrow
    BY <2>1, <2>3, <2>4, RowWritten
  <2>6. PICK h : h = [handler[s] EXCEPT !.pc = "live", !.id = 0]
    OBVIOUS
  <2>7. h \in HandlerStates
    <3>1. 0 \in 0..MaxMessages
      BY DeliveryAssumption
    <3> QED BY <1>0, <2>6, <3>1 DEF HandlerStates
  <2>8. /\ h.history = handler[s].history /\ h.upto = handler[s].upto /\ h.rows = handler[s].rows
        /\ h.pc = "live"
    BY <1>0, <2>6 DEF HandlerStates
  <2>9. handler' = [handler EXCEPT ![s] = h]
    BY <1>7, <2>6 DEF FanOutEnds
  <2> QED BY <1>1, <2>4, <2>5, <2>7, <2>8, <2>9, TypesUsed
<1>8. CASE Disconnect(s)
  <2>1. MessagesGrow /\ page' = page
    BY <1>8, SameMessagesGrow DEF Disconnect
  <2> QED BY <1>8, <2>1, EndedHandlerOK, HandlersStayOK, TypesUsed DEF Disconnect
<1> QED BY <1>2, <1>3, <1>5, <1>6, <1>7, <1>8 DEF SendStep

LEMMA UserTypeStep ==
    ASSUME TypeInv, NEW s \in Sockets, UserStep(s)
    PROVE  /\ MessagesGrow
           /\ handler' \in [Sockets -> HandlerStates]
           /\ \A x \in Sockets : HandlerOK(handler[x])'
           /\ page' \in [Sockets -> PageStates]
<1>0. handler[s] \in HandlerStates /\ HandlerOK(handler[s])
  BY TypesUsed
<1>1. CASE Open(s) \/ Close(s)
  <2>1. messages' = messages /\ handler' = handler
        /\ (page' = page \/ page' = [page EXCEPT ![s] = BlankPage])
    BY <1>1 DEF Open, Close
  <2>2. MessagesGrow
    BY <2>1, SameMessagesGrow
  <2> QED BY <2>1, <2>2, SameHandlersStayOK, BlankPageIs, TypesUsed
<1>2. CASE ReplyToDeleted(s)
  <2>1. MessagesGrow /\ page' = [page EXCEPT ![s] = BlankPage]
    BY <1>2, SameMessagesGrow DEF ReplyToDeleted
  <2> QED BY <1>2, <2>1, EndedHandlerOK, HandlersStayOK, BlankPageIs, TypesUsed DEF ReplyToDeleted
<1>3. ASSUME NEW online \in BOOLEAN, Stamp(s, online)
      PROVE  /\ MessagesGrow
             /\ handler' \in [Sockets -> HandlerStates]
             /\ \A x \in Sockets : HandlerOK(handler[x])'
             /\ page' \in [Sockets -> PageStates]
  <2>1. PICK read \in BOOLEAN : read = (online /\ \E u \in Users \ {SenderOf(s)} : has_chat_user(u))
    OBVIOUS
  <2>2. PICK h : h = [handler[s] EXCEPT !.pc = "commit", !.read = read]
    OBVIOUS
  <2>3. h \in HandlerStates
    BY <1>0, <2>2 DEF HandlerStates
  <2>4. /\ h.history = handler[s].history /\ h.upto = handler[s].upto /\ h.rows = handler[s].rows
        /\ h.pc = "commit"
    BY <1>0, <2>2 DEF HandlerStates
  <2>5. handler' = [handler EXCEPT ![s] = h] /\ page' = page /\ messages' = messages
    BY <1>3, <2>1, <2>2 DEF Stamp
  <2>6. HandlerOK(h)
    BY <1>0, <2>4 DEF HandlerOK
  <2>7. MessagesGrow
    BY <2>5, SameMessagesGrow
  <2>8. HandlerOK(h)'
    BY <2>3, <2>6, <2>7, HandlerStaysOK
  <2> QED BY <2>3, <2>5, <2>7, <2>8, HandlersStayOK, TypesUsed
<1>4. ASSUME NEW i \in DOMAIN messages, DeleteForAll(s, i)
      PROVE  /\ MessagesGrow
             /\ handler' \in [Sockets -> HandlerStates]
             /\ \A x \in Sockets : HandlerOK(handler[x])'
             /\ page' \in [Sockets -> PageStates]
  <2>1. PICK row : row = [messages[i] EXCEPT !.deleted = TRUE]
    OBVIOUS
  <2>2. /\ row \in MessageRows /\ row.deleted /\ row.payloads = messages[i].payloads
        /\ row.told = messages[i].told /\ row.named = messages[i].named
        /\ row.from = messages[i].from
    BY <2>1, TypesUsed DEF MessageRows
  <2>3. messages' = [messages EXCEPT ![i] = row] /\ handler' = handler
        /\ Deliver(registry["user"], <<[type |-> "deleted", id |-> i]>>)
    BY <1>4, <2>1 DEF DeleteForAll
  <2>4. MessagesGrow
    BY <2>2, <2>3, RowWritten
  <2>5. <<[type |-> "deleted", id |-> i]>> \in Seq(Events)
    <3>1. [type |-> "deleted", id |-> i] \in Events
      BY TypesUsed DEF Events
    <3> QED BY <3>1
  <2> QED BY <2>3, <2>4, <2>5, SameHandlersStayOK, DeliverTyped
<1> QED BY <1>1, <1>2, <1>3, <1>4 DEF UserStep

LEMMA TypeInit == DeliveryInit => TypeInv
<1> SUFFICES ASSUME DeliveryInit PROVE TypeInv
  OBVIOUS
<1>1. NoHandler \in HandlerStates /\ HandlerOK(NoHandler)
  BY DeliveryAssumption DEF NoHandler, HandlerStates, HandlerOK, DeliveryInit
<1>2. messages \in Seq(MessageRows) /\ Len(messages) <= MaxMessages
  BY DeliveryAssumption DEF DeliveryInit
<1>3. /\ handler \in [Sockets -> HandlerStates] /\ page \in [Sockets -> PageStates]
      /\ \A s \in Sockets : HandlerOK(handler[s])
  BY <1>1, BlankPageIs DEF DeliveryInit
<1> QED BY <1>2, <1>3 DEF TypeInv, DeliveryTypeOK, HandlerStates, PageStates, DeliveryInit

LEMMA TypeStep == TypeInv /\ ListsInv /\ [DeliveryNext]_vars => TypeInv'
<1> SUFFICES ASSUME TypeInv, ListsInv, [DeliveryNext]_vars PROVE TypeInv'
  OBVIOUS
<1>1. ListsInv'
  BY ListsStep
<1>2. CASE UNCHANGED vars
  <2>1. messages' = messages /\ handler' = handler /\ page' = page
    BY <1>2 DEF vars
  <2> QED BY <1>1, <2>1, SameMessagesGrow, SameHandlersStayOK, TypesUsed
          DEF TypeInv, DeliveryTypeOK, ListsInv, HandlerStates, PageStates
<1>3. ASSUME NEW s \in Sockets, PageStep(s) PROVE TypeInv'
  <2>1. messages' = messages /\ handler' = handler
    BY <1>3 DEF PageStep, Receive, Render
  <2>2. page' \in [Sockets -> PageStates]
    BY <1>3, PageTypeStep
  <2> QED BY <1>1, <2>1, <2>2, SameMessagesGrow, SameHandlersStayOK
          DEF TypeInv, DeliveryTypeOK, ListsInv, HandlerStates, PageStates, MessagesGrow
<1>4. ASSUME NEW s \in Sockets, ConnectStep(s) \/ SendStep(s) \/ UserStep(s) PROVE TypeInv'
  BY <1>1, <1>4, ConnectTypeStep, SendTypeStep, UserTypeStep
     DEF TypeInv, DeliveryTypeOK, ListsInv, HandlerStates, PageStates, MessagesGrow
<1> QED BY <1>2, <1>3, <1>4 DEF DeliveryNext

\* The types of the rows, handlers and pages, for any number of users, devices, sockets and
\* messages; a handler that sends a message on works on a row that has its payloads.
THEOREM DeliveryTypes == DeliverySpec => []DeliveryTypeOK
<1>1. DeliveryInit => ListsInv
  BY DEF DeliveryInit, ListsInv, OpenSocketsFullyListed
<1>2. ListsInv /\ [DeliveryNext]_vars => ListsInv'
  BY ListsStep
<1>3. TypeInv => DeliveryTypeOK
  BY DEF TypeInv
<1> QED BY <1>1, <1>2, <1>3, TypeInit, TypeStep, PTL DEF DeliverySpec

-----------------------------------------------------------------------------
(* What a page has of each message.                                        *)

\* The copy is on its way to the page, kept back, waiting to be processed or on screen.
HasCopy(p, c) ==
    \/ c \in p.kept \cup p.queue \cup p.shown
    \/ \E k \in DOMAIN p.inbox : p.inbox[k] = MessageEvent(c)

HasMessage(p, i) == \E f \in Forms : HasCopy(p, <<i, f>>)

HistorySent(s) == handler[s].pc \notin {"none", "rows", "query", "register", "history"}

\* The message was in the table when the history was read, or has gone out to the socket.
Due(s, i) ==
    /\ ~ messages[i].deleted
    /\ s \in messages[i].told \/ (HistorySent(s) /\ i <= handler[s].upto)

\* The sender's page had no payload for the device of the page.
Unnamed(s, i) == DeviceOf[s] \notin messages[i].named

\* The history was read before the message's payloads were saved.
ReadEarly(s, i) == HistorySent(s) /\ i \in 1..handler[s].upto /\ i \notin handler[s].rows

PageInv(s) ==
    LET p == page[s] IN
    /\ \A c \in Copies : HasCopy(p, c) =>
          /\ c[1] \in DOMAIN messages
          /\ c[2] = "raw" => Unnamed(s, c[1]) \/ ReadEarly(s, c[1])
    /\ \A i \in p.rendered : i \in DOMAIN messages /\ (messages[i].deleted \/ Shows(s, i))
    /\ \A k \in DOMAIN p.inbox : p.inbox[k].type = "deleted" =>
          p.inbox[k].id \in DOMAIN messages /\ messages[p.inbox[k].id].deleted
    /\ link[s] = "open" => \A i \in DOMAIN messages : Due(s, i) => HasMessage(p, i)

\* Nothing is under way to a page that is not there, and nothing runs before it is.
LinkInv(s) ==
    /\ link[s] = "none" => handler[s].pc = "none" /\ \A i \in DOMAIN messages : s \notin messages[i].told
    /\ link[s] # "open" => page[s] = BlankPage

DeliveryInv == \A s \in Sockets : LinkInv(s) /\ PageInv(s)

LEMMA BlankPageInv ==
    ASSUME NEW s \in Sockets, page'[s] = BlankPage, link'[s] # "open"
    PROVE  PageInv(s)'
<1>1. \A c : ~ HasCopy(BlankPage, c)
  BY DEF HasCopy, BlankPage
<1>2. \A c : ~ HasCopy(page[s], c)'
  BY <1>1 DEF HasCopy
<1> QED BY <1>2 DEF PageInv, BlankPage

\* What excuses a raw copy lasts.
LEMMA CauseLasts ==
    ASSUME TypeInv, MessagesGrow, NEW s \in Sockets, NEW i \in DOMAIN messages,
           \/ /\ handler'[s].upto = handler[s].upto /\ handler'[s].rows = handler[s].rows
              /\ HistorySent(s)' <=> HistorySent(s)
           \/ ~ HistorySent(s),
           Unnamed(s, i) \/ ReadEarly(s, i)
    PROVE  Unnamed(s, i)' \/ ReadEarly(s, i)'
BY DEF Unnamed, ReadEarly, MessagesGrow

\* The page keeps what it has, and gets only what has gone out to it or was deleted.
LEMMA PageGoesOn ==
    ASSUME TypeInv, MessagesGrow, NEW s \in Sockets, PageInv(s), link'[s] = "open" => link[s] = "open",
           \/ /\ handler'[s].upto = handler[s].upto /\ handler'[s].rows = handler[s].rows
              /\ HistorySent(s)' <=> HistorySent(s)
           \/ ~ HistorySent(s) /\ ~ HistorySent(s)',
           \A i \in DOMAIN messages' : link'[s] = "open" /\ s \in messages'[i].told =>
              (i \in DOMAIN messages /\ s \in messages[i].told) \/ HasMessage(page[s], i)',
           \A c \in Copies : link'[s] = "open" /\ HasCopy(page[s], c) =>
              HasMessage(page[s], c[1])' \/ messages'[c[1]].deleted,
           \A c \in Copies : HasCopy(page[s], c)' =>
              \/ HasCopy(page[s], c)
              \/ (c[2] = "own" \/ Unnamed(s, c[1])') /\ c[1] \in DOMAIN messages',
           \A i \in page'[s].rendered : i \in DOMAIN messages' /\ (messages'[i].deleted \/ Shows(s, i)'),
           \A k \in DOMAIN page'[s].inbox : page'[s].inbox[k].type = "deleted" =>
              page'[s].inbox[k].id \in DOMAIN messages' /\ messages'[page'[s].inbox[k].id].deleted
    PROVE  PageInv(s)'
<1>0. /\ DOMAIN messages = 1..Len(messages) /\ DOMAIN messages' = 1..Len(messages')
      /\ Len(messages) <= Len(messages') /\ Len(messages) \in Nat /\ Len(messages') \in Nat
      /\ handler[s].upto \in Nat /\ handler[s].upto <= Len(messages)
      /\ DOMAIN messages \subseteq Ids
  BY TypesUsed DEF MessagesGrow, HandlerStates, HandlerOK
<1>1. DOMAIN messages \subseteq DOMAIN messages'
  BY <1>0
<1>2. ASSUME NEW c \in Copies, HasCopy(page[s], c)'
      PROVE  /\ c[1] \in DOMAIN messages'
             /\ c[2] = "raw" => Unnamed(s, c[1])' \/ ReadEarly(s, c[1])'
  <2>1. CASE HasCopy(page[s], c)
    <3>1. /\ c[1] \in DOMAIN messages
          /\ c[2] = "raw" => Unnamed(s, c[1]) \/ ReadEarly(s, c[1])
      BY <2>1 DEF PageInv
    <3> QED BY <1>1, <3>1, CauseLasts
  <2>2. CASE ~ HasCopy(page[s], c)
    <3>1. (c[2] = "own" \/ Unnamed(s, c[1])') /\ c[1] \in DOMAIN messages'
      BY <1>2, <2>2
    <3> QED BY <3>1
  <2> QED BY <2>1, <2>2
<1>3. ASSUME link'[s] = "open", NEW i \in DOMAIN messages', Due(s, i)' PROVE HasMessage(page[s], i)'
  <2>1. CASE s \in messages'[i].told /\ ~ (i \in DOMAIN messages /\ s \in messages[i].told)
    BY <1>3, <2>1
  <2>2. CASE ~ (s \in messages'[i].told /\ ~ (i \in DOMAIN messages /\ s \in messages[i].told))
    <3>1. /\ i \in DOMAIN messages /\ ~ messages'[i].deleted
          /\ s \in messages[i].told \/ (HistorySent(s) /\ i <= handler[s].upto)
      BY <1>0, <1>3, <2>2 DEF Due
    <3>2. Due(s, i) /\ i \in Ids
      BY <1>0, <3>1 DEF Due, MessagesGrow
    <3>3. PICK f \in Forms : HasCopy(page[s], <<i, f>>)
      BY <1>3, <3>1, <3>2 DEF PageInv, HasMessage
    <3>4. PICK c \in Copies : c = <<i, f>>
      BY <3>2 DEF Copies
    <3>5. HasMessage(page[s], c[1])' \/ messages'[c[1]].deleted
      BY <1>3, <3>3, <3>4
    <3>6. c[1] = i
      BY <3>4
    <3> QED BY <3>1, <3>5, <3>6
  <2> QED BY <2>1, <2>2
<1> QED BY <1>2, <1>3 DEF PageInv

\* No message has gone out to the socket but those that had before.
NoneTold(s) ==
    \A i \in DOMAIN messages' : s \in messages'[i].told =>
        i \in DOMAIN messages /\ s \in messages[i].told

LEMMA SamePage ==
    ASSUME TypeInv, MessagesGrow, NEW s \in Sockets, LinkInv(s), PageInv(s), page'[s] = page[s],
           link'[s] = link[s], NoneTold(s),
           link[s] = "none" => handler'[s].pc = "none",
           \/ /\ handler'[s].upto = handler[s].upto /\ handler'[s].rows = handler[s].rows
              /\ HistorySent(s)' <=> HistorySent(s)
           \/ ~ HistorySent(s) /\ ~ HistorySent(s)'
    PROVE  LinkInv(s)' /\ PageInv(s)'
<1>1. LinkInv(s)'
  BY DEF LinkInv, NoneTold
<1>2. \A c : HasCopy(page[s], c)' <=> HasCopy(page[s], c)
  BY DEF HasCopy
<1>3. \A i : Shows(s, i)' <=> Shows(s, i)
  BY DEF Shows
<1>4. /\ \A i \in DOMAIN messages : i \in DOMAIN messages'
      /\ \A i \in DOMAIN messages : messages[i].deleted => messages'[i].deleted
  BY TypesUsed DEF MessagesGrow
<1>5. \A i \in page'[s].rendered : i \in DOMAIN messages' /\ (messages'[i].deleted \/ Shows(s, i)')
  BY <1>3, <1>4 DEF PageInv
<1>6. \A k \in DOMAIN page'[s].inbox : page'[s].inbox[k].type = "deleted" =>
        page'[s].inbox[k].id \in DOMAIN messages' /\ messages'[page'[s].inbox[k].id].deleted
  BY <1>4 DEF PageInv
<1>7. \A c \in Copies : HasCopy(page[s], c) => HasMessage(page[s], c[1])'
  <2>1. \A c \in Copies : c = <<c[1], c[2]>> /\ c[2] \in Forms
    BY DEF Copies
  <2> QED BY <1>2, <2>1 DEF HasMessage
<1>8. PageInv(s)'
  BY <1>2, <1>5, <1>6, <1>7, PageGoesOn DEF NoneTold
<1> QED BY <1>1, <1>8

\* Sockets whose handler, link and page are as they were.
LEMMA OtherPages ==
    ASSUME TypeInv, MessagesGrow, NEW s \in Sockets, LinkInv(s), PageInv(s), page'[s] = page[s],
           link'[s] = link[s], NoneTold(s), handler'[s] = handler[s]
    PROVE  LinkInv(s)' /\ PageInv(s)'
<1>1. HistorySent(s)' <=> HistorySent(s)
  BY DEF HistorySent
<1>2. link[s] = "none" => handler'[s].pc = "none"
  BY DEF LinkInv
<1> QED BY <1>1, <1>2, SamePage

\* A message of the table or a deletion is delivered to an open page.
LEMMA DeliveredPage ==
    ASSUME TypeInv, MessagesGrow, NEW s \in Sockets, PageInv(s), NEW e,
           link[s] = "open", link'[s] = "open",
           page'[s] = [page[s] EXCEPT !.inbox = page[s].inbox \o <<e>>],
           \A c \in Copies : e = MessageEvent(c) =>
              (c[2] = "own" \/ Unnamed(s, c[1])') /\ c[1] \in DOMAIN messages',
           e.type = "deleted" => e.id \in DOMAIN messages' /\ messages'[e.id].deleted,
           \A i \in DOMAIN messages' : s \in messages'[i].told =>
              \/ i \in DOMAIN messages /\ s \in messages[i].told
              \/ \E f \in Forms : e = MessageEvent(<<i, f>>),
           handler'[s].upto = handler[s].upto, handler'[s].rows = handler[s].rows,
           HistorySent(s)' <=> HistorySent(s)
    PROVE  PageInv(s)'
<1>1. /\ page'[s].kept = page[s].kept /\ page'[s].queue = page[s].queue
      /\ page'[s].shown = page[s].shown /\ page'[s].rendered = page[s].rendered
      /\ page'[s].inbox = page[s].inbox \o <<e>>
  BY TypesUsed DEF PageStates
<1>2. /\ \A k \in DOMAIN page'[s].inbox : \/ page'[s].inbox[k] = e
                                          \/ k \in DOMAIN page[s].inbox /\ page'[s].inbox[k] = page[s].inbox[k]
      /\ \E k \in DOMAIN page'[s].inbox : page'[s].inbox[k] = e
      /\ \A k \in DOMAIN page[s].inbox : k \in DOMAIN page'[s].inbox /\ page'[s].inbox[k] = page[s].inbox[k]
  <2>1. PICK q \in Seq(Events) : q = page[s].inbox
    BY TypesUsed DEF PageStates
  <2>2. /\ \A k \in DOMAIN (q \o <<e>>) : (q \o <<e>>)[k] = e \/ (k \in DOMAIN q /\ (q \o <<e>>)[k] = q[k])
        /\ (q \o <<e>>)[Len(q) + 1] = e /\ Len(q) + 1 \in DOMAIN (q \o <<e>>)
        /\ \A k \in DOMAIN q : k \in DOMAIN (q \o <<e>>) /\ (q \o <<e>>)[k] = q[k]
    BY <2>1, SMTT(60)
  <2>3. PICK r : r = q \o <<e>>
    OBVIOUS
  <2>4. page'[s].inbox = r
    BY <1>1, <2>1, <2>3, Zenon
  <2>5. /\ \A k \in DOMAIN r : r[k] = e \/ (k \in DOMAIN q /\ r[k] = q[k])
        /\ r[Len(q) + 1] = e /\ Len(q) + 1 \in DOMAIN r
        /\ \A k \in DOMAIN q : k \in DOMAIN r /\ r[k] = q[k]
    BY <2>2, <2>3, Zenon
  <2>6. \E k \in DOMAIN r : r[k] = e
    BY <2>5, Zenon
  <2> QED BY <2>1, <2>4, <2>5, <2>6, Zenon
<1>3. \A c : HasCopy(page[s], c)' <=> HasCopy(page[s], c) \/ e = MessageEvent(c)
  BY <1>1, <1>2 DEF HasCopy
<1>4. \A i : Shows(s, i)' <=> Shows(s, i)
  BY <1>1 DEF Shows
<1>5. /\ \A i \in DOMAIN messages : i \in DOMAIN messages'
      /\ \A i \in DOMAIN messages : messages[i].deleted => messages'[i].deleted
  BY TypesUsed DEF MessagesGrow
<1>6. \A i \in page'[s].rendered : i \in DOMAIN messages' /\ (messages'[i].deleted \/ Shows(s, i)')
  BY <1>1, <1>4, <1>5 DEF PageInv
<1>7. \A k \in DOMAIN page'[s].inbox : page'[s].inbox[k].type = "deleted" =>
        page'[s].inbox[k].id \in DOMAIN messages' /\ messages'[page'[s].inbox[k].id].deleted
  BY <1>2, <1>5 DEF PageInv
<1>8. \A c \in Copies : HasCopy(page[s], c) => HasMessage(page[s], c[1])'
  <2>1. \A c \in Copies : c = <<c[1], c[2]>> /\ c[2] \in Forms
    BY DEF Copies
  <2> QED BY <1>3, <2>1 DEF HasMessage
<1>9. \A i : \A f \in Forms : e = MessageEvent(<<i, f>>) => HasMessage(page[s], i)'
  BY <1>3 DEF HasMessage
<1> QED BY <1>3, <1>6, <1>7, <1>8, <1>9, PageGoesOn

\* The sockets to which something is delivered, and the others.
LEMMA DeliverKeeps ==
    ASSUME TypeInv, MessagesGrow, NEW s \in Sockets, LinkInv(s), PageInv(s), NEW e, NEW to,
           Deliver(to, <<e>>), link' = link, handler'[s].pc = "none" <=> handler[s].pc = "none",
           handler'[s].upto = handler[s].upto, handler'[s].rows = handler[s].rows,
           HistorySent(s)' <=> HistorySent(s),
           s \in to => \A c \in Copies : e = MessageEvent(c) =>
              (c[2] = "own" \/ Unnamed(s, c[1])') /\ c[1] \in DOMAIN messages',
           e.type = "deleted" => e.id \in DOMAIN messages' /\ messages'[e.id].deleted,
           s \notin to => NoneTold(s),
           link[s] = "none" => NoneTold(s),
           \A i \in DOMAIN messages' : s \in messages'[i].told =>
              \/ i \in DOMAIN messages /\ s \in messages[i].told
              \/ \E f \in Forms : e = MessageEvent(<<i, f>>)
    PROVE  LinkInv(s)' /\ PageInv(s)'
<1>1. CASE s \in to /\ link[s] = "open"
  <2>1. page'[s] = [page[s] EXCEPT !.inbox = page[s].inbox \o <<e>>]
    BY <1>1 DEF Deliver
  <2>2. PageInv(s)'
    BY <1>1, <2>1, DeliveredPage
  <2> QED BY <1>1, <2>2 DEF LinkInv
<1>2. CASE link[s] # "open"
  <2>1. page'[s] = page[s]
    BY <1>2 DEF Deliver
  <2>2. page'[s] = BlankPage /\ link'[s] # "open"
    BY <1>2, <2>1 DEF LinkInv
  <2>3. LinkInv(s)'
    BY <2>2 DEF LinkInv, NoneTold
  <2> QED BY <2>2, <2>3, BlankPageInv
<1>3. CASE link[s] = "open" /\ s \notin to
  <2>1. page'[s] = page[s]
    BY <1>3 DEF Deliver
  <2> QED BY <1>3, <2>1, SamePage
<1> QED BY <1>1, <1>2, <1>3

LEMMA PagePageStep ==
    ASSUME TypeInv, DeliveryInv, NEW s \in Sockets, PageStep(s)
    PROVE  DeliveryInv'
<1>0. /\ page[s] \in PageStates /\ page \in [Sockets -> PageStates] /\ PageInv(s) /\ LinkInv(s)
      /\ messages' = messages /\ handler' = handler /\ link' = link /\ MessagesGrow
      /\ link[s] = "open"
  BY TypesUsed, SameMessagesGrow DEF PageStep, Receive, Render, DeliveryInv
<1>1. (HistorySent(s)' <=> HistorySent(s)) /\ \A x \in Sockets : NoneTold(x)
  BY <1>0 DEF HistorySent, NoneTold
\* The page is in a state with every message it had.
<1>2. ASSUME NEW p, page' = [page EXCEPT ![s] = p],
             \A c \in Copies : HasCopy(p, c) => HasCopy(page[s], c),
             \A c \in Copies : HasCopy(page[s], c) => HasMessage(p, c[1]) \/ messages[c[1]].deleted,
             \A i \in p.rendered : i \in DOMAIN messages /\
                (messages[i].deleted \/ \E f \in Forms : <<i, f>> \in p.shown),
             \A k \in DOMAIN p.inbox : \E j \in DOMAIN page[s].inbox : p.inbox[k] = page[s].inbox[j]
      PROVE  DeliveryInv'
  <2>1. page'[s] = p /\ \A x \in Sockets \ {s} : page'[x] = page[x]
    BY <1>0, <1>2
  <2>2. \A k \in DOMAIN p.inbox : p.inbox[k].type = "deleted" =>
           p.inbox[k].id \in DOMAIN messages /\ messages[p.inbox[k].id].deleted
    BY <1>0, <1>2 DEF PageInv
  <2>3. \A c : (HasCopy(page[s], c)' <=> HasCopy(p, c)) /\ (HasMessage(page[s], c)' <=> HasMessage(p, c))
    BY <2>1 DEF HasCopy, HasMessage
  <2>4. \A i : Shows(s, i)' <=> \E f \in Forms : <<i, f>> \in p.shown
    BY <2>1 DEF Shows
  <2>5. PageInv(s)'
    BY <1>0, <1>1, <1>2, <2>1, <2>2, <2>3, <2>4, PageGoesOn DEF NoneTold
  <2>6. LinkInv(s)'
    BY <1>0 DEF LinkInv
  <2>7. ASSUME NEW x \in Sockets \ {s} PROVE LinkInv(x)' /\ PageInv(x)'
    BY <1>0, <1>1, <2>1, OtherPages DEF DeliveryInv
  <2> QED BY <2>5, <2>6, <2>7 DEF DeliveryInv
<1>3. CASE Receive(s)
  <2>1. PICK q \in Seq(Events) : q = page[s].inbox
    BY <1>0 DEF PageStates
  <2>2. PICK e : e = Head(q)
    OBVIOUS
  <2>3. PICK p0 : p0 = [page[s] EXCEPT !.inbox = Tail(page[s].inbox)]
    OBVIOUS
  <2>4. /\ e \in Events /\ Tail(q) \in Seq(Events)
        /\ \A k \in DOMAIN Tail(q) : \E j \in DOMAIN q : Tail(q)[k] = q[j]
        /\ \A k \in DOMAIN q : q[k] = e \/ \E j \in DOMAIN Tail(q) : Tail(q)[j] = q[k]
        /\ \E k \in DOMAIN q : q[k] = e
    <3>1. q # <<>>
      BY <1>3, <2>1 DEF Receive
    <3>2. e \in Events /\ Tail(q) \in Seq(Events) /\ q[1] = e /\ 1 \in DOMAIN q
      BY <2>2, <3>1
    <3>3. \A k \in DOMAIN Tail(q) : k + 1 \in DOMAIN q /\ Tail(q)[k] = q[k + 1]
      BY <3>1
    <3>4. \A k \in DOMAIN q : k = 1 \/ (k - 1 \in DOMAIN Tail(q) /\ Tail(q)[k - 1] = q[k])
      BY <3>1
    <3> QED BY <3>2, <3>3, <3>4
  <2>5. /\ p0 \in PageStates /\ p0.inbox = Tail(q) /\ p0.kept = page[s].kept
        /\ p0.queue = page[s].queue /\ p0.shown = page[s].shown /\ p0.rendered = page[s].rendered
    BY <1>0, <2>1, <2>3, <2>4 DEF PageStates
  <2>6. PICK p : page' = [page EXCEPT ![s] = p] /\
           \/ e.type = "message" /\ p = [p0 EXCEPT !.kept = p0.kept \cup {<<e.id, e.form>>}]
           \/ e.type = "message" /\ p = [p0 EXCEPT !.queue = p0.queue \cup {<<e.id, e.form>>}]
           \/ e.type = "complete" /\ p = ReleaseKept(p0)
           \/ e.type = "deleted" /\ p = [p0 EXCEPT !.shown = {c \in p0.shown : c[1] # e.id}]
    BY <1>3, <2>1, <2>2, <2>3 DEF Receive
  <2>7. p.inbox = Tail(q) /\ p.rendered = page[s].rendered
    BY <2>5, <2>6 DEF ReleaseKept, PageStates
  <2>8. \A c \in Copies : HasCopy(page[s], c) <=>
           c \in page[s].kept \cup page[s].queue \cup page[s].shown \/ e = MessageEvent(c)
                \/ \E k \in DOMAIN Tail(q) : Tail(q)[k] = MessageEvent(c)
    <3>1. PICK t : t = Tail(q)
      OBVIOUS
    <3>2. /\ \A k \in DOMAIN t : \E j \in DOMAIN q : t[k] = q[j]
          /\ \A k \in DOMAIN q : q[k] = e \/ \E j \in DOMAIN t : t[j] = q[k]
          /\ \E k \in DOMAIN q : q[k] = e
      BY <2>4, <3>1
    <3>3. \A c : (\E k \in DOMAIN q : q[k] = MessageEvent(c)) <=>
                e = MessageEvent(c) \/ \E k \in DOMAIN t : t[k] = MessageEvent(c)
      <4>1. ASSUME NEW c, NEW k \in DOMAIN q, q[k] = MessageEvent(c)
            PROVE  e = MessageEvent(c) \/ \E j \in DOMAIN t : t[j] = MessageEvent(c)
        BY <3>2, <4>1
      <4>2. ASSUME NEW c, e = MessageEvent(c) \/ \E k \in DOMAIN t : t[k] = MessageEvent(c)
            PROVE  \E k \in DOMAIN q : q[k] = MessageEvent(c)
        BY <3>2, <4>2
      <4> QED BY <4>1, <4>2
    <3> QED BY <2>1, <3>1, <3>3 DEF HasCopy
  <2>9. \A c : HasCopy(p, c) <=>
           c \in p.kept \cup p.queue \cup p.shown \/ \E k \in DOMAIN Tail(q) : Tail(q)[k] = MessageEvent(c)
    BY <2>7 DEF HasCopy
  <2>10. \A k \in DOMAIN p.inbox : \E j \in DOMAIN page[s].inbox : p.inbox[k] = page[s].inbox[j]
    BY <2>1, <2>4, <2>7
  <2>11. CASE e.type = "message"
    <3>1. /\ <<e.id, e.form>> \in Copies
          /\ \A c \in Copies : e = MessageEvent(c) <=> c = <<e.id, e.form>>
      BY <2>4, <2>11 DEF Events, Copies, MessageEvent
    <3>2. /\ p.shown = page[s].shown
          /\ p.kept \cup p.queue = page[s].kept \cup page[s].queue \cup {<<e.id, e.form>>}
      BY <2>5, <2>6, <2>11 DEF PageStates
    <3>3. \A c \in Copies : HasCopy(p, c) <=> HasCopy(page[s], c)
      BY <2>8, <2>9, <3>1, <3>2
    <3>4. \A c \in Copies : HasCopy(page[s], c) => HasMessage(p, c[1])
      <4>1. \A c \in Copies : c = <<c[1], c[2]>> /\ c[2] \in Forms
        BY DEF Copies
      <4> QED BY <3>3, <4>1 DEF HasMessage
    <3>5. \A i \in p.rendered : i \in DOMAIN messages /\
                (messages[i].deleted \/ \E f \in Forms : <<i, f>> \in p.shown)
      BY <1>0, <2>7, <3>2 DEF PageInv, Shows
    <3> QED BY <1>2, <2>6, <2>10, <3>3, <3>4, <3>5
  <2>12. CASE e.type = "complete"
    <3>1. \A c \in Copies : e # MessageEvent(c)
      BY <2>12 DEF MessageEvent
    <3>2. p = ReleaseKept(p0)
      BY <2>6, <2>12
    <3>3. /\ p.shown = page[s].shown
          /\ p.kept \cup p.queue = page[s].kept \cup page[s].queue
      BY <2>5, <3>2 DEF ReleaseKept, PageStates
    <3>4. \A c \in Copies : HasCopy(p, c) <=> HasCopy(page[s], c)
      BY <2>8, <2>9, <3>1, <3>3
    <3>5. \A c \in Copies : HasCopy(page[s], c) => HasMessage(p, c[1])
      <4>1. \A c \in Copies : c = <<c[1], c[2]>> /\ c[2] \in Forms
        BY DEF Copies
      <4> QED BY <3>4, <4>1 DEF HasMessage
    <3>6. \A i \in p.rendered : i \in DOMAIN messages /\
                (messages[i].deleted \/ \E f \in Forms : <<i, f>> \in p.shown)
      BY <1>0, <2>7, <3>3 DEF PageInv, Shows
    <3> QED BY <1>2, <2>6, <2>10, <3>4, <3>5, <3>6
  <2>13. CASE e.type = "deleted"
    <3>1. \A c \in Copies : e # MessageEvent(c)
      BY <2>13 DEF MessageEvent
    <3>2. p = [p0 EXCEPT !.shown = {c \in p0.shown : c[1] # e.id}]
      BY <2>6, <2>13
    <3>3. /\ p.shown = {c \in page[s].shown : c[1] # e.id} /\ p.kept = page[s].kept
          /\ p.queue = page[s].queue
      BY <2>5, <3>2 DEF PageStates
    <3>4. e.id \in DOMAIN messages /\ messages[e.id].deleted
      BY <1>0, <2>1, <2>4, <2>13 DEF PageInv
    <3>5. \A c \in Copies : /\ HasCopy(p, c) => HasCopy(page[s], c)
                            /\ HasCopy(page[s], c) => HasCopy(p, c) \/ c[1] = e.id
      BY <2>8, <2>9, <3>1, <3>3
    <3>6. \A c \in Copies : HasCopy(page[s], c) => HasMessage(p, c[1]) \/ messages[c[1]].deleted
      <4>1. \A c \in Copies : c = <<c[1], c[2]>> /\ c[2] \in Forms
        BY DEF Copies
      <4> QED BY <3>4, <3>5, <4>1 DEF HasMessage
    <3>7. \A i \in p.rendered : i \in DOMAIN messages /\
                (messages[i].deleted \/ \E f \in Forms : <<i, f>> \in p.shown)
      <4>1. \A i, f : <<i, f>>[1] = i
        OBVIOUS
      <4> QED BY <1>0, <2>7, <3>3, <3>4, <4>1 DEF PageInv, Shows
    <3> QED BY <1>2, <2>6, <2>10, <3>5, <3>6, <3>7
  <2> QED BY <2>6, <2>11, <2>12, <2>13
<1>4. ASSUME NEW c \in Copies, Render(s, c) PROVE DeliveryInv'
  <2>1. PICK p : /\ page' = [page EXCEPT ![s] = p]
                 /\ p = [page[s] EXCEPT
                          !.queue = page[s].queue \ {c},
                          !.rendered = page[s].rendered \cup {c[1]},
                          !.shown = IF c[1] \in page[s].rendered THEN page[s].shown
                                    ELSE page[s].shown \cup {c}]
    BY <1>4 DEF Render
  <2>2. /\ p.inbox = page[s].inbox /\ p.kept = page[s].kept
        /\ p.queue = page[s].queue \ {c} /\ p.rendered = page[s].rendered \cup {c[1]}
        /\ p.shown = IF c[1] \in page[s].rendered THEN page[s].shown ELSE page[s].shown \cup {c}
    BY <1>0, <2>1 DEF PageStates
  <2>3. c \in page[s].queue /\ c = <<c[1], c[2]>> /\ c[2] \in Forms
    BY <1>4 DEF Render, Copies
  <2>4. c[1] \in DOMAIN messages
    BY <1>0, <2>3 DEF PageInv, HasCopy
  <2>5. \A x \in Copies : HasCopy(p, x) => HasCopy(page[s], x)
    BY <2>2, <2>3 DEF HasCopy
  <2>6. \A i \in p.rendered : i \in DOMAIN messages /\
                (messages[i].deleted \/ \E f \in Forms : <<i, f>> \in p.shown)
    <3>1. \A i \in page[s].rendered : i \in DOMAIN messages /\
                (messages[i].deleted \/ \E f \in Forms : <<i, f>> \in page[s].shown)
      BY <1>0 DEF PageInv, Shows
    <3>2. CASE c[1] \in page[s].rendered
      BY <2>2, <3>1, <3>2
    <3>3. CASE c[1] \notin page[s].rendered
      BY <2>2, <2>3, <2>4, <3>1, <3>3
    <3> QED BY <3>2, <3>3
  <2>7. ASSUME NEW x \in Copies, HasCopy(page[s], x)
        PROVE  HasMessage(p, x[1]) \/ messages[x[1]].deleted
    <3>1. x = <<x[1], x[2]>> /\ x[2] \in Forms
      BY DEF Copies
    <3>2. CASE x # c
      <4>1. HasCopy(p, x)
        BY <2>2, <2>7, <3>2 DEF HasCopy
      <4> QED BY <3>1, <4>1 DEF HasMessage
    <3>3. CASE x = c
      <4>1. messages[c[1]].deleted \/ \E f \in Forms : <<c[1], f>> \in p.shown
        BY <2>2, <2>6
      <4> QED BY <3>3, <4>1 DEF HasMessage, HasCopy
    <3> QED BY <3>2, <3>3
  <2>8. \A k \in DOMAIN p.inbox : \E j \in DOMAIN page[s].inbox : p.inbox[k] = page[s].inbox[j]
    BY <2>2
  <2>9. \A x \in Copies : HasCopy(page[s], x) => HasMessage(p, x[1]) \/ messages[x[1]].deleted
    BY <2>7
  <2>10. page' = [page EXCEPT ![s] = p]
    BY <2>1
  <2> QED BY <1>2, <2>5, <2>6, <2>8, <2>9, <2>10
<1> QED BY <1>3, <1>4 DEF PageStep

\* The history goes out: the page gets a copy of every message that was read.
LEMMA HistoryPage ==
    ASSUME TypeInv, NEW s \in Sockets, LinkInv(s), PageInv(s), SendHistory(s)
    PROVE  LinkInv(s)' /\ PageInv(s)'
<1> DEFINE history == handler[s].history
           complete == [type |-> "complete"]
<1>1. /\ handler[s] \in HandlerStates /\ page[s] \in PageStates /\ history \in SUBSET Copies
      /\ messages' = messages /\ link[s] = "open" /\ link'[s] = "open" /\ ~ HistorySent(s)
  BY TypesUsed DEF HandlerStates, SendHistory, At, HistorySent
<1>2. /\ handler'[s].upto = handler[s].upto /\ handler'[s].rows = handler[s].rows
      /\ HistorySent(s)'
  BY <1>1, TypesUsed DEF HandlerStates, SendHistory, At, HistorySent
<1>3. /\ \A c \in history : c[1] \in 1..handler[s].upto /\ (c[2] = "raw" => c[1] \notin handler[s].rows)
      /\ \A i \in 1..handler[s].upto :
            i \in DOMAIN messages /\ (messages[i].deleted \/ \E f \in Forms : <<i, f>> \in history)
  <2>1. HandlerOK(handler[s]) /\ handler[s].pc = "history" /\ handler[s].upto \in Nat
    BY <1>1, TypesUsed DEF SendHistory, At, HandlerStates
  <2>2. \A i \in 1..handler[s].upto : i \in DOMAIN messages
    BY <2>1, TypesUsed DEF HandlerOK
  <2> QED BY <2>1, <2>2 DEF HandlerOK
<1>4. PICK es : es = EventsFor(history)
  OBVIOUS
<1>5. /\ es \in Seq(Events)
      /\ \A c \in history : \E k \in DOMAIN es : es[k] = MessageEvent(c)
      /\ \A k \in DOMAIN es : \E c \in history : es[k] = MessageEvent(c)
  <2>1. \A c, d \in history : c[1] = d[1] => c = d
    BY TypesUsed DEF HandlerOK
  <2> QED BY <1>1, <1>4, <2>1, EventsOfHistory, TypesUsed
<1>6. PICK q \in Seq(Events) : q = page[s].inbox
  BY <1>1 DEF PageStates
<1>7. PICK t : t = q \o Append(es, complete)
  OBVIOUS
<1>8. page'[s] = [page[s] EXCEPT !.inbox = t]
  BY <1>1, <1>4, <1>6, <1>7 DEF SendHistory, Deliver
<1>9. /\ page'[s].kept = page[s].kept /\ page'[s].queue = page[s].queue
      /\ page'[s].shown = page[s].shown /\ page'[s].rendered = page[s].rendered
      /\ page'[s].inbox = t
  BY <1>1, <1>8 DEF PageStates
<1>10. /\ \A k \in DOMAIN q : k \in DOMAIN t /\ t[k] = q[k]
       /\ \A k \in DOMAIN es : Len(q) + k \in DOMAIN t /\ t[Len(q) + k] = es[k]
       /\ \A k \in DOMAIN t : \/ k \in DOMAIN q /\ t[k] = q[k]
                              \/ k - Len(q) \in DOMAIN es /\ t[k] = es[k - Len(q)]
                              \/ t[k] = complete
  BY <1>5, <1>7, SMTT(40)
<1>11. \A c : MessageEvent(c) # complete /\ MessageEvent(c).type = "message"
  BY DEF MessageEvent
<1>12. ASSUME NEW c \in Copies, HasCopy(page[s], c)'
       PROVE  HasCopy(page[s], c) \/ c \in history
  <2>1. CASE c \in page[s].kept \cup page[s].queue \cup page[s].shown
    BY <2>1 DEF HasCopy
  <2>2. CASE c \notin page[s].kept \cup page[s].queue \cup page[s].shown
    <3>1. PICK k \in DOMAIN t : t[k] = MessageEvent(c)
      BY <1>9, <1>12, <2>2 DEF HasCopy
    <3>2. CASE k \in DOMAIN q /\ t[k] = q[k]
      BY <1>6, <3>1, <3>2 DEF HasCopy
    <3>3. CASE k - Len(q) \in DOMAIN es /\ t[k] = es[k - Len(q)]
      <4>1. PICK d \in history : MessageEvent(c) = MessageEvent(d)
        BY <1>5, <3>1, <3>3
      <4>2. c = <<c[1], c[2]>> /\ d = <<d[1], d[2]>>
        BY <1>1 DEF Copies
      <4>3. c = d
        BY <4>1, <4>2 DEF MessageEvent
      <4> QED BY <4>3
    <3> QED BY <1>10, <1>11, <3>1, <3>2, <3>3
  <2> QED BY <2>1, <2>2
<1>13. \A c \in Copies : HasCopy(page[s], c) \/ c \in history => HasCopy(page[s], c)'
  <2>1. ASSUME NEW c \in Copies, HasCopy(page[s], c) PROVE HasCopy(page[s], c)'
    BY <1>6, <1>9, <1>10, <2>1 DEF HasCopy
  <2>2. ASSUME NEW c \in history PROVE HasCopy(page[s], c)'
    BY <1>5, <1>9, <1>10 DEF HasCopy
  <2> QED BY <2>1, <2>2
<1>14. ASSUME NEW c \in Copies, HasCopy(page[s], c)'
       PROVE  /\ c[1] \in DOMAIN messages'
              /\ c[2] = "raw" => Unnamed(s, c[1])' \/ ReadEarly(s, c[1])'
  <2>1. CASE HasCopy(page[s], c)
    BY <1>1, <2>1, CauseLasts, SameMessagesGrow DEF PageInv
  <2>2. CASE c \in history
    BY <1>1, <1>2, <1>3, <2>2 DEF ReadEarly
  <2> QED BY <1>12, <1>14, <2>1, <2>2
<1>15. \A i \in page'[s].rendered : i \in DOMAIN messages' /\ (messages'[i].deleted \/ Shows(s, i)')
  BY <1>1, <1>9 DEF PageInv, Shows
<1>16. \A k \in DOMAIN page'[s].inbox : page'[s].inbox[k].type = "deleted" =>
          page'[s].inbox[k].id \in DOMAIN messages' /\ messages'[page'[s].inbox[k].id].deleted
  <2>1. \A k \in DOMAIN q : q[k].type = "deleted" =>
           q[k].id \in DOMAIN messages /\ messages[q[k].id].deleted
    BY <1>6 DEF PageInv
  <2>2. \A k \in DOMAIN es : es[k].type # "deleted"
    BY <1>5, <1>11
  <2> QED BY <1>1, <1>9, <1>10, <2>1, <2>2
<1>17. ASSUME NEW i \in DOMAIN messages', Due(s, i)' PROVE HasMessage(page[s], i)'
  <2>0. i \in Ids /\ i \in Nat /\ i >= 1 /\ i \in DOMAIN messages
    BY <1>1, TypesUsed DEF Ids
  <2>1. \E f \in Forms : HasCopy(page[s], <<i, f>>) \/ <<i, f>> \in history
    <3>1. CASE s \in messages[i].told
      BY <1>1, <1>17, <2>0, <3>1 DEF Due, PageInv, HasMessage
    <3>2. CASE i <= handler[s].upto
      <4>1. i \in 1..handler[s].upto
        BY <1>1, <2>0, <3>2 DEF HandlerStates
      <4> QED BY <1>1, <1>3, <1>17, <4>1 DEF Due
    <3> QED BY <1>1, <1>2, <1>17, <3>1, <3>2 DEF Due
  <2>2. \A f \in Forms : <<i, f>> \in Copies
    BY <2>0 DEF Copies
  <2> QED BY <1>13, <2>1, <2>2 DEF HasMessage
<1> HIDE DEF history
<1>18. PageInv(s)'
  BY <1>14, <1>15, <1>16, <1>17 DEF PageInv
<1> QED BY <1>1, <1>18 DEF LinkInv

\* A handler connects, or fails to.
LEMMA ConnectPageStep ==
    ASSUME TypeInv, DeliveryInv, NEW s \in Sockets, ConnectStep(s)
    PROVE  DeliveryInv'
<1>0. MessagesGrow /\ handler[s] \in HandlerStates /\ LinkInv(s) /\ PageInv(s)
  BY ConnectTypeStep, TypesUsed DEF DeliveryInv
<1>1. link' = link /\ \A x \in Sockets \ {s} : page'[x] = page[x] /\ handler'[x] = handler[x]
  <2>1. link' = link /\ (page' = page \/ SendHistory(s))
    BY DEF ConnectStep, MarkRead, LoadPayloads, QueryHistory, Register, AcceptFails,
           SendHistory, SendHistoryFails
  <2>2. \A x \in Sockets \ {s} : page'[x] = page[x]
    BY <2>1 DEF SendHistory, Deliver
  <2>3. \A x \in Sockets \ {s} : handler'[x] = handler[x]
    BY TypesUsed DEF ConnectStep, MarkRead, LoadPayloads, QueryHistory, Register, AcceptFails,
           SendHistory, SendHistoryFails
  <2> QED BY <2>1, <2>2, <2>3
<1>2. \A x \in Sockets : NoneTold(x)
  <2>1. CASE messages' = messages
    BY <2>1 DEF NoneTold
  <2>2. CASE MarkRead(s)
    <3>1. /\ DOMAIN messages' = DOMAIN messages
          /\ \A i \in DOMAIN messages : messages'[i].told = messages[i].told
      BY <2>2, TypesUsed DEF MarkRead, MessageRows
    <3> QED BY <3>1 DEF NoneTold
  <2> QED BY <2>1, <2>2 DEF ConnectStep, LoadPayloads, QueryHistory, Register, AcceptFails,
           SendHistory, SendHistoryFails
<1>3. ASSUME NEW x \in Sockets \ {s} PROVE LinkInv(x)' /\ PageInv(x)'
  BY <1>0, <1>1, <1>2, OtherPages DEF DeliveryInv
<1>4. CASE MarkRead(s) \/ LoadPayloads(s) \/ QueryHistory(s) \/ Register(s)
  <2>1. page' = page /\ ~ HistorySent(s) /\ link[s] # "none"
    BY <1>0, <1>4 DEF MarkRead, LoadPayloads, QueryHistory, Register, At, HistorySent, LinkInv
  <2>2. handler'[s].pc \in {"rows", "query", "register", "history"}
    BY <1>0, <1>4, TypesUsed DEF MarkRead, LoadPayloads, QueryHistory, Register, HandlerStates
  <2>3. ~ HistorySent(s)'
    BY <2>2 DEF HistorySent
  <2>4. LinkInv(s)' /\ PageInv(s)'
    BY <1>0, <1>1, <1>2, <2>1, <2>3, SamePage
  <2> QED BY <1>3, <2>4 DEF DeliveryInv
<1>5. CASE AcceptFails(s) \/ SendHistoryFails(s)
  <2>1. link[s] = "closed" /\ link'[s] = "closed" /\ page'[s] = page[s]
    BY <1>1, <1>5 DEF AcceptFails, SendHistoryFails
  <2>2. page'[s] = BlankPage /\ LinkInv(s)'
    BY <1>0, <2>1 DEF LinkInv
  <2>3. PageInv(s)'
    BY <2>1, <2>2, BlankPageInv
  <2> QED BY <1>3, <2>2, <2>3 DEF DeliveryInv
<1>6. CASE SendHistory(s)
  BY <1>0, <1>3, <1>6, HistoryPage DEF DeliveryInv
<1> QED BY <1>4, <1>5, <1>6 DEF ConnectStep

\* One handler goes on and one row is written; nothing is delivered.
LEMMA QuietPageStep ==
    ASSUME TypeInv, DeliveryInv, MessagesGrow, NEW s \in Sockets, page' = page, link' = link,
           \A x \in Sockets : NoneTold(x), \A x \in Sockets \ {s} : handler'[x] = handler[x],
           HistorySent(s), HistorySent(s)', handler[s].pc # "none",
           handler'[s].upto = handler[s].upto, handler'[s].rows = handler[s].rows
    PROVE  DeliveryInv'
<1>1. ASSUME NEW x \in Sockets \ {s} PROVE LinkInv(x)' /\ PageInv(x)'
  BY OtherPages DEF DeliveryInv
<1>2. LinkInv(s) /\ PageInv(s) /\ link[s] # "none"
  BY DEF DeliveryInv, LinkInv
<1>3. LinkInv(s)' /\ PageInv(s)'
  BY <1>2, SamePage
<1> QED BY <1>1, <1>3 DEF DeliveryInv

\* Message i goes out to the sockets in to, and the row says so.
LEMMA SentPageStep ==
    ASSUME TypeInv, DeliveryInv, ListsInv, MessagesGrow, NEW s \in Sockets,
           NEW i \in DOMAIN messages, messages[i].payloads, NEW to \in SUBSET Sockets,
           NEW d, \A x \in to : DeviceOf[x] = d, NEW told \in SUBSET Sockets, told \subseteq to, told \subseteq registry["device"],
           messages' = [messages EXCEPT ![i] = [messages[i] EXCEPT !.told = messages[i].told \cup told]],
           Deliver(to, <<LiveEvent(i, d)>>), link' = link,
           \A x \in Sockets : /\ handler'[x].upto = handler[x].upto
                              /\ handler'[x].rows = handler[x].rows
                              /\ handler'[x].pc = "none" <=> handler[x].pc = "none"
                              /\ HistorySent(x)' <=> HistorySent(x)
    PROVE  DeliveryInv'
<1>0. PICK f \in Forms : /\ LiveEvent(i, d) = MessageEvent(<<i, f>>)
                         /\ f = "own" \/ d \notin messages[i].named
  BY LiveEventIs
<1>1. PICK e : e = MessageEvent(<<i, f>>)
  OBVIOUS
<1>2. e = LiveEvent(i, d) /\ e.type = "message"
  BY <1>0, <1>1 DEF MessageEvent
<1>3. DOMAIN messages' = DOMAIN messages /\ messages'[i].named = messages[i].named
  BY TypesUsed DEF MessagesGrow
<1>4. \A x \in to : \A c \in Copies : e = MessageEvent(c) =>
         (c[2] = "own" \/ Unnamed(x, c[1])') /\ c[1] \in DOMAIN messages'
  BY <1>0, <1>1, <1>3 DEF MessageEvent, Unnamed
<1>5. \A j \in DOMAIN messages' : \A x \in Sockets : x \in messages'[j].told =>
         x \in messages[j].told \/ (j = i /\ x \in told)
  BY TypesUsed DEF MessageRows
<1>6. ASSUME NEW x \in Sockets PROVE LinkInv(x)' /\ PageInv(x)'
  <2>1. link[x] = "none" => x \notin told
    BY DEF ListsInv, Lists
  <2>2. (x \notin to => NoneTold(x)) /\ (link[x] = "none" => NoneTold(x))
    BY <1>3, <1>5, <2>1 DEF NoneTold
  <2>3. \A j \in DOMAIN messages' : x \in messages'[j].told =>
           \/ j \in DOMAIN messages /\ x \in messages[j].told
           \/ \E g \in Forms : e = MessageEvent(<<j, g>>)
    BY <1>1, <1>3, <1>5
  <2>4. LinkInv(x) /\ PageInv(x) /\ Deliver(to, <<e>>)
    BY <1>2 DEF DeliveryInv
  <2>5. x \in to => \A c \in Copies : e = MessageEvent(c) =>
           (c[2] = "own" \/ Unnamed(x, c[1])') /\ c[1] \in DOMAIN messages'
    BY <1>4
  <2>6. e.type # "deleted"
    BY <1>2
  <2> QED BY <2>2, <2>3, <2>4, <2>5, <2>6, DeliverKeeps
<1> QED BY <1>6 DEF DeliveryInv

\* A handler saves a message and sends it on, or notices that its socket is gone.
LEMMA SendPageStep ==
    ASSUME TypeInv, DeliveryInv, ListsInv, NEW s \in Sockets, SendStep(s)
    PROVE  DeliveryInv'
<1>0. MessagesGrow /\ handler[s] \in HandlerStates /\ LinkInv(s) /\ PageInv(s)
      /\ HandlerOK(handler[s])
  BY SendTypeStep, TypesUsed DEF DeliveryInv
<1>1. link' = link /\ \A x \in Sockets \ {s} : handler'[x] = handler[x]
  BY TypesUsed DEF SendStep, Commit, PersistPayloads, Echo, FanOut, FanOutEnds, Disconnect
<1>2. CASE Commit(s) \/ PersistPayloads(s) \/ FanOutEnds(s)
  <2>1. page' = page /\ handler[s].pc \in {"commit", "payloads", "fanout"}
    BY <1>2 DEF Commit, PersistPayloads, FanOutEnds, At
  <2>2. /\ handler'[s].upto = handler[s].upto /\ handler'[s].rows = handler[s].rows
        /\ handler'[s].pc \in {"payloads", "echo", "live"}
    BY <1>0, <1>2, TypesUsed DEF Commit, PersistPayloads, FanOutEnds, HandlerStates
  <2>3. \A x \in Sockets : NoneTold(x)
    <3>1. CASE Commit(s)
      <4>1. PICK row : row.told = {} /\ messages' = Append(messages, row)
        BY <3>1 DEF Commit
      <4>2. /\ \A i \in DOMAIN messages : i \in DOMAIN messages' /\ messages'[i] = messages[i]
            /\ \A i \in DOMAIN messages' : i \in DOMAIN messages \/ messages'[i] = row
        BY <4>1, TypesUsed
      <4> QED BY <4>1, <4>2 DEF NoneTold
    <3>2. CASE PersistPayloads(s) \/ FanOutEnds(s)
      <4>0. PICK i : i = handler[s].id
        OBVIOUS
      <4>1. i \in DOMAIN messages
        BY <1>0, <3>2, <4>0 DEF PersistPayloads, FanOutEnds, At, HandlerOK
      <4>2. /\ DOMAIN messages' = DOMAIN messages
            /\ \A j \in DOMAIN messages : messages'[j].told = messages[j].told
        <5>1. PICK row : messages' = [messages EXCEPT ![i] = row] /\ row.told = messages[i].told
          <6>1. /\ [messages[i] EXCEPT !.payloads = TRUE].told = messages[i].told
                /\ [messages[i] EXCEPT !.out = TRUE].told = messages[i].told
            BY <4>1, TypesUsed DEF MessageRows
          <6> QED BY <3>2, <4>0, <6>1 DEF PersistPayloads, FanOutEnds
        <5> QED BY <4>1, <5>1, TypesUsed
      <4> QED BY <4>2 DEF NoneTold
    <3> QED BY <1>2, <3>1, <3>2
  <2>4. HistorySent(s) /\ HistorySent(s)' /\ handler[s].pc # "none"
    BY <2>1, <2>2 DEF HistorySent
  <2> QED BY <1>0, <1>1, <2>1, <2>2, <2>3, <2>4, QuietPageStep
\* The handlers of the sockets to which the message is delivered stay where they are.
<1>3. ASSUME handler[s].pc \in {"echo", "fanout"}, handler'[s].pc = "fanout",
             handler'[s].upto = handler[s].upto, handler'[s].rows = handler[s].rows
      PROVE  \A x \in Sockets : /\ handler'[x].upto = handler[x].upto
                                /\ handler'[x].rows = handler[x].rows
                                /\ handler'[x].pc = "none" <=> handler[x].pc = "none"
                                /\ HistorySent(x)' <=> HistorySent(x)
  <2>1. HistorySent(s) /\ HistorySent(s)'
    BY <1>3 DEF HistorySent
  <2>2. \A x \in Sockets \ {s} : HistorySent(x)' <=> HistorySent(x)
    BY <1>1 DEF HistorySent
  <2> QED BY <1>1, <1>3, <2>1, <2>2
<1>4. CASE Echo(s)
  <2>1. PICK i : i = handler[s].id
    OBVIOUS
  <2>2. i \in DOMAIN messages /\ messages[i].payloads /\ handler[s].pc = "echo"
    BY <1>0, <1>4, <2>1 DEF Echo, At, HandlerOK
  <2>3. PICK told \in SUBSET Sockets : told = {s} \cap registry["device"]
    OBVIOUS
  <2>4. /\ messages' = [messages EXCEPT ![i] = [messages[i] EXCEPT !.told = messages[i].told \cup told]]
        /\ Deliver({s}, <<LiveEvent(i, DeviceOf[s])>>)
    BY <1>4, <2>1, <2>3 DEF Echo
  <2>5. /\ handler'[s].pc = "fanout" /\ handler'[s].upto = handler[s].upto
        /\ handler'[s].rows = handler[s].rows
    BY <1>0, <1>4, TypesUsed DEF Echo, HandlerStates
  <2>6. /\ {s} \in SUBSET Sockets /\ told \subseteq {s} /\ told \subseteq registry["device"]
        /\ \A x \in {s} : DeviceOf[x] = DeviceOf[s]
    BY <2>3
  <2> QED BY <1>0, <1>1, <1>3, <2>2, <2>4, <2>5, <2>6, SentPageStep
<1>5. ASSUME NEW d \in Devices, FanOut(s, d) PROVE DeliveryInv'
  <2>1. PICK i : i = handler[s].id
    OBVIOUS
  <2>2. i \in DOMAIN messages /\ messages[i].payloads /\ handler[s].pc = "fanout"
    BY <1>0, <1>5, <2>1 DEF FanOut, At, HandlerOK
  <2>3. PICK to : to = {x \in registry["device"] : DeviceOf[x] = d}
    OBVIOUS
  <2>4. to \in SUBSET Sockets /\ to \subseteq registry["device"] /\ \A x \in to : DeviceOf[x] = d
    BY <2>3 DEF ListsInv, Lists
  <2>5. /\ messages' = [messages EXCEPT ![i] = [messages[i] EXCEPT !.told = messages[i].told \cup to]]
        /\ Deliver(to, <<LiveEvent(i, d)>>)
    BY <1>5, <2>1, <2>3 DEF FanOut, FanOutEvent
  <2>6. /\ handler'[s].pc = "fanout" /\ handler'[s].upto = handler[s].upto
        /\ handler'[s].rows = handler[s].rows
    BY <1>0, <1>5, TypesUsed DEF FanOut, At, HandlerStates
  <2> QED BY <1>0, <1>1, <1>3, <2>2, <2>4, <2>5, <2>6, SentPageStep
<1>6. CASE Disconnect(s)
  <2>1. link[s] = "closed" /\ page' = page /\ \A x \in Sockets : NoneTold(x)
    BY <1>6 DEF Disconnect, NoneTold
  <2>2. \A x \in Sockets \ {s} : LinkInv(x)' /\ PageInv(x)'
    BY <1>0, <1>1, <2>1, OtherPages DEF DeliveryInv
  <2>3. page'[s] = BlankPage /\ LinkInv(s)' /\ link'[s] # "open"
    BY <1>0, <1>1, <2>1 DEF LinkInv
  <2>4. PageInv(s)'
    BY <2>3, BlankPageInv
  <2> QED BY <2>2, <2>3, <2>4 DEF DeliveryInv
<1> QED BY <1>2, <1>4, <1>5, <1>6 DEF SendStep

\* What the users do.
LEMMA UserPageStep ==
    ASSUME TypeInv, DeliveryInv, ListsInv, NEW s \in Sockets, UserStep(s)
    PROVE  DeliveryInv'
<1>0. MessagesGrow /\ handler[s] \in HandlerStates /\ LinkInv(s) /\ PageInv(s)
  BY UserTypeStep, TypesUsed DEF DeliveryInv
<1>1. CASE Open(s)
  <2>1. /\ messages' = messages /\ handler' = handler /\ page' = page
        /\ link[s] = "none" /\ link'[s] = "open"
        /\ \A x \in Sockets \ {s} : link'[x] = link[x]
    BY <1>1, TypesUsed DEF Open, TypeInv, DeliveryTypeOK
  <2>2. \A x \in Sockets : NoneTold(x)
    BY <2>1 DEF NoneTold
  <2>3. \A x \in Sockets \ {s} : LinkInv(x)' /\ PageInv(x)'
    BY <1>0, <2>1, <2>2, OtherPages DEF DeliveryInv
  <2>4. /\ page'[s] = BlankPage /\ handler'[s].pc = "none"
        /\ \A i \in DOMAIN messages' : s \notin messages'[i].told
    BY <1>0, <2>1 DEF LinkInv
  <2>5. \A c : ~ HasCopy(page[s], c)'
    <3>1. \A c : ~ HasCopy(BlankPage, c)
      BY DEF HasCopy, BlankPage
    <3> QED BY <2>4, <3>1 DEF HasCopy
  <2>6. \A i \in DOMAIN messages' : ~ Due(s, i)'
    BY <2>4 DEF Due, HistorySent
  <2>7. PageInv(s)'
    BY <2>4, <2>5, <2>6 DEF PageInv, BlankPage
  <2>8. LinkInv(s)'
    BY <2>1 DEF LinkInv
  <2> QED BY <2>3, <2>7, <2>8 DEF DeliveryInv
<1>2. CASE Close(s) \/ ReplyToDeleted(s)
  <2>1. /\ messages' = messages /\ page'[s] = BlankPage /\ link'[s] = "closed"
        /\ \A x \in Sockets \ {s} : /\ link'[x] = link[x] /\ page'[x] = page[x]
                                    /\ handler'[x] = handler[x]
    BY <1>2, TypesUsed DEF Close, ReplyToDeleted, TypeInv, DeliveryTypeOK
  <2>2. \A x \in Sockets : NoneTold(x)
    BY <2>1 DEF NoneTold
  <2>3. \A x \in Sockets \ {s} : LinkInv(x)' /\ PageInv(x)'
    BY <1>0, <2>1, <2>2, OtherPages DEF DeliveryInv
  <2>4. LinkInv(s)' /\ PageInv(s)'
    BY <2>1, BlankPageInv DEF LinkInv
  <2> QED BY <2>3, <2>4 DEF DeliveryInv
<1>3. ASSUME NEW online \in BOOLEAN, Stamp(s, online) PROVE DeliveryInv'
  <2>1. /\ messages' = messages /\ page' = page /\ link' = link /\ handler[s].pc = "live"
        /\ \A x \in Sockets \ {s} : handler'[x] = handler[x]
    BY <1>3, TypesUsed DEF Stamp, At
  <2>2. /\ handler'[s].pc = "commit" /\ handler'[s].upto = handler[s].upto
        /\ handler'[s].rows = handler[s].rows
    BY <1>0, <1>3, TypesUsed DEF Stamp, HandlerStates
  <2>3. HistorySent(s) /\ HistorySent(s)' /\ \A x \in Sockets : NoneTold(x)
    BY <2>1, <2>2 DEF HistorySent, NoneTold
  <2> QED BY <1>0, <2>1, <2>2, <2>3, QuietPageStep
<1>4. ASSUME NEW i \in DOMAIN messages, DeleteForAll(s, i) PROVE DeliveryInv'
  <2>1. PICK e : e = [type |-> "deleted", id |-> i]
    OBVIOUS
  <2>2. /\ messages' = [messages EXCEPT ![i] = [messages[i] EXCEPT !.deleted = TRUE]]
        /\ Deliver(registry["user"], <<e>>) /\ link' = link /\ handler' = handler
    BY <1>4, <2>1 DEF DeleteForAll
  <2>3. /\ DOMAIN messages' = DOMAIN messages /\ messages'[i].deleted
        /\ \A j \in DOMAIN messages : messages'[j].told = messages[j].told
    BY <2>2, TypesUsed DEF MessageRows
  <2>4. \A x \in Sockets : NoneTold(x)
    BY <2>3 DEF NoneTold
  <2>5. /\ \A c \in Copies : e # MessageEvent(c)
        /\ e.id \in DOMAIN messages' /\ messages'[e.id].deleted
    BY <2>1, <2>3 DEF MessageEvent
  <2>6. ASSUME NEW x \in Sockets PROVE LinkInv(x)' /\ PageInv(x)'
    <3>1. HistorySent(x)' <=> HistorySent(x)
      BY <2>2 DEF HistorySent
    <3>2. LinkInv(x) /\ PageInv(x)
      BY DEF DeliveryInv
    <3>3. \A j \in DOMAIN messages' : x \in messages'[j].told =>
             \/ j \in DOMAIN messages /\ x \in messages[j].told
             \/ \E f \in Forms : e = MessageEvent(<<j, f>>)
      BY <2>3
    <3> QED BY <1>0, <2>2, <2>4, <2>5, <3>1, <3>2, <3>3, DeliverKeeps
  <2> QED BY <2>6 DEF DeliveryInv
<1> QED BY <1>1, <1>2, <1>3, <1>4 DEF UserStep

LEMMA DeliveryInvInit == DeliveryInit => DeliveryInv
<1> SUFFICES ASSUME DeliveryInit, NEW s \in Sockets PROVE LinkInv(s) /\ PageInv(s)
  BY DEF DeliveryInv
<1>1. page[s] = BlankPage /\ link[s] = "none" /\ handler[s].pc = "none" /\ messages = <<>>
  BY DEF DeliveryInit, NoHandler
<1>2. \A c : ~ HasCopy(page[s], c)
  BY <1>1 DEF HasCopy, BlankPage
<1>3. PageInv(s)
  BY <1>1, <1>2 DEF PageInv, BlankPage
<1> QED BY <1>1, <1>3 DEF LinkInv

LEMMA DeliveryInvStep ==
    TypeInv /\ ListsInv /\ DeliveryInv /\ [DeliveryNext]_vars => DeliveryInv'
<1> SUFFICES ASSUME TypeInv, ListsInv, DeliveryInv, [DeliveryNext]_vars PROVE DeliveryInv'
  OBVIOUS
<1>1. CASE UNCHANGED vars
  <2>1. messages' = messages /\ handler' = handler /\ page' = page /\ link' = link
    BY <1>1 DEF vars
  <2>2. MessagesGrow /\ \A x \in Sockets : NoneTold(x)
    BY <2>1, SameMessagesGrow DEF NoneTold
  <2> QED BY <2>1, <2>2, OtherPages DEF DeliveryInv
<1> QED BY <1>1, PagePageStep, ConnectPageStep, SendPageStep, UserPageStep DEF DeliveryNext

LEMMA DeliveryInvAlways == DeliverySpec => [](TypeInv /\ DeliveryInv)
<1>1. DeliveryInit => ListsInv
  BY DEF DeliveryInit, ListsInv, OpenSocketsFullyListed
<1>2. ListsInv /\ [DeliveryNext]_vars => ListsInv'
  BY ListsStep
<1> QED BY <1>1, <1>2, TypeInit, TypeStep, DeliveryInvInit, DeliveryInvStep, PTL DEF DeliverySpec

-----------------------------------------------------------------------------
(* How each message reaches a registered socket, or why it does not.       *)

Working(x) == handler[x].pc \in {"payloads", "echo", "fanout"}
Registered(s) == handler[s].pc \in {"history", "live", "commit", "payloads", "echo", "fanout"}

\* A handler at work has in hand a message that came by its own socket and is not out yet.
WorkInv ==
    \A x \in Sockets : Working(x) =>
        messages[handler[x].id].from = x /\ ~ messages[handler[x].id].out

\* Handler x has yet to send message i to device d.
Owes(x, i, d) ==
    /\ handler[x].id = i
    /\ \/ handler[x].pc \in {"payloads", "echo"} /\ DeviceOf[x] # d
       \/ handler[x].pc = "fanout" /\ d \in handler[x].left

\* The message that the socket's own handler has yet to echo.
ToEcho(s, i) == handler[s].id = i /\ handler[s].pc \in {"payloads", "echo"}

Accounted(s, i) ==
    \/ i <= handler[s].upto
    \/ s \in messages[i].told
    \/ i \in handler[s].between
    \/ \E x \in Sockets : Owes(x, i, DeviceOf[s])
    \/ SentBeside(s, i)
    \/ ToEcho(s, i)

MissInv(s) ==
    link[s] = "open" /\ Registered(s) =>
        s \in registry["device"] /\ \A i \in DOMAIN messages : Accounted(s, i)

AccountInv == WorkInv /\ \A s \in Sockets : MissInv(s)

LEMMA OwedIs == \A i, d : Owed(i, d) <=> \E x \in Sockets : Owes(x, i, d)
  BY DEF Owed, Owes

\* A message stays accounted for when what was still to be done about it has been done.
LEMMA AccountKept ==
    ASSUME TypeInv, MessagesGrow, NEW s \in Sockets, MissInv(s),
           link'[s] = "open" => link[s] = "open", Registered(s)' => Registered(s),
           handler'[s].upto = handler[s].upto, handler'[s].between = handler[s].between,
           link'[s] = "open" => (s \in registry["device"] => s \in registry'["device"]),
           \A i \in DOMAIN messages : \A x \in Sockets :
              link'[s] = "open" /\ s \in registry["device"] /\ Owes(x, i, DeviceOf[s]) =>
                 Owes(x, i, DeviceOf[s])' \/ s \in messages'[i].told,
           \A i \in DOMAIN messages :
              link'[s] = "open" /\ s \in registry["device"] /\ ToEcho(s, i) =>
                 ToEcho(s, i)' \/ s \in messages'[i].told,
           \A i \in DOMAIN messages' : i \in DOMAIN messages \/ Accounted(s, i)'
    PROVE  MissInv(s)'
<1> SUFFICES ASSUME link'[s] = "open", Registered(s)'
             PROVE  s \in registry'["device"] /\ \A i \in DOMAIN messages' : Accounted(s, i)'
  BY DEF MissInv
<1>1. link[s] = "open" /\ s \in registry["device"] /\ \A i \in DOMAIN messages : Accounted(s, i)
  BY DEF MissInv
<1>2. ASSUME NEW i \in DOMAIN messages PROVE Accounted(s, i)'
  <2>1. /\ messages[i].told \subseteq messages'[i].told
        /\ messages'[i].from = messages[i].from
    BY DEF MessagesGrow
  <2>2. SentBeside(s, i) => SentBeside(s, i)'
    BY <2>1 DEF SentBeside
  <2>3. (\E x \in Sockets : Owes(x, i, DeviceOf[s])) =>
           (\E x \in Sockets : Owes(x, i, DeviceOf[s])') \/ s \in messages'[i].told
    BY <1>1
  <2> QED BY <1>1, <2>1, <2>2, <2>3 DEF Accounted
<1> QED BY <1>1, <1>2

\* Work goes on with the message in hand.
LEMMA WorkKept ==
    ASSUME TypeInv, MessagesGrow, WorkInv,
           \A i \in DOMAIN messages : messages'[i].out => messages[i].out,
           \A x \in Sockets : Working(x)' => Working(x) /\ handler'[x].id = handler[x].id
    PROVE  WorkInv'
<1> SUFFICES ASSUME NEW x \in Sockets, Working(x)'
             PROVE  messages'[handler'[x].id].from = x /\ ~ messages'[handler'[x].id].out
  BY DEF WorkInv
<1>1. Working(x) /\ handler'[x].id = handler[x].id
  OBVIOUS
<1>2. handler[x].id \in DOMAIN messages
  BY <1>1, TypesUsed DEF Working, HandlerOK
<1> QED BY <1>1, <1>2 DEF WorkInv, MessagesGrow

\* One handler moves while no message is in its hands.
LEMMA IdleAccountStep ==
    ASSUME TypeInv, AccountInv, MessagesGrow, NEW s \in Sockets,
           \A i \in DOMAIN messages : messages'[i].out => messages[i].out,
           DOMAIN messages' = DOMAIN messages,
           \A x \in Sockets \ {s} : handler'[x] = handler[x] /\ link'[x] = link[x],
           ~ Working(s), ~ Working(s)',
           \A x \in Sockets \ {s} : x \in registry["device"] => x \in registry'["device"],
           MissInv(s)'
    PROVE  AccountInv'
<1>1. \A x \in Sockets : Working(x)' => Working(x) /\ handler'[x].id = handler[x].id
  BY DEF Working
<1>2. WorkInv'
  BY <1>1, WorkKept DEF AccountInv
<1>3. ASSUME NEW x \in Sockets \ {s} PROVE MissInv(x)'
  <2>1. handler'[x] = handler[x] /\ (Registered(x)' <=> Registered(x)) /\ MissInv(x)
    BY DEF Registered, AccountInv
  <2>2. \A i : \A y \in Sockets : Owes(y, i, DeviceOf[x]) => Owes(y, i, DeviceOf[x])'
    BY DEF Owes, Working
  <2>3. \A i : ToEcho(x, i) => ToEcho(x, i)'
    BY <2>1 DEF ToEcho
  <2> QED BY <2>1, <2>2, <2>3, AccountKept
<1> QED BY <1>2, <1>3 DEF AccountInv

LEMMA ConnectAccountStep ==
    ASSUME TypeInv, AccountInv, NEW s \in Sockets, ConnectStep(s)
    PROVE  AccountInv'
<1>0. MessagesGrow /\ handler[s] \in HandlerStates /\ MissInv(s)
  BY ConnectTypeStep, TypesUsed DEF AccountInv
<1>1. /\ link' = link /\ ~ Working(s)
      /\ \A x \in Sockets \ {s} : handler'[x] = handler[x] /\ link'[x] = link[x]
  BY TypesUsed DEF ConnectStep, MarkRead, LoadPayloads, QueryHistory, Register, AcceptFails,
     SendHistory, SendHistoryFails, At, Working
<1>2. /\ DOMAIN messages' = DOMAIN messages
      /\ \A i \in DOMAIN messages : messages'[i].out => messages[i].out
  <2>1. CASE MarkRead(s)
    BY <2>1, TypesUsed DEF MarkRead, MessageRows
  <2>2. CASE messages' = messages
    BY <2>2
  <2> QED BY <2>1, <2>2 DEF ConnectStep, LoadPayloads, QueryHistory, Register, AcceptFails,
             SendHistory, SendHistoryFails
<1>3. \A x \in Sockets \ {s} : x \in registry["device"] => x \in registry'["device"]
  BY DEF ConnectStep, MarkRead, LoadPayloads, QueryHistory, Register, AcceptFails,
     SendHistory, SendHistoryFails, connect_chat, Lists
<1>4. CASE MarkRead(s) \/ LoadPayloads(s) \/ QueryHistory(s)
  <2>1. handler'[s].pc \in {"rows", "query", "register"}
    BY <1>0, <1>4, TypesUsed DEF MarkRead, LoadPayloads, QueryHistory, HandlerStates
  <2>2. ~ Working(s)' /\ MissInv(s)'
    BY <2>1 DEF Working, MissInv, Registered
  <2> QED BY <1>0, <1>1, <1>2, <1>3, <2>2, IdleAccountStep
<1>5. CASE AcceptFails(s) \/ SendHistoryFails(s)
  <2>1. handler'[s].pc = "ended"
    BY <1>5, TypesUsed DEF AcceptFails, SendHistoryFails, NoHandler
  <2>2. ~ Working(s)' /\ MissInv(s)'
    BY <2>1 DEF Working, MissInv, Registered
  <2> QED BY <1>0, <1>1, <1>2, <1>3, <2>2, IdleAccountStep
<1>6. CASE Register(s)
  <2>1. /\ handler'[s].pc = "history" /\ handler'[s].upto = handler[s].upto
        /\ handler'[s].between = {i \in DOMAIN messages :
                                     i > handler[s].upto /\ ~ Owed(i, DeviceOf[s])}
    BY <1>0, <1>6, TypesUsed DEF Register, HandlerStates
  <2>2. ~ Working(s)' /\ s \in registry'["device"] /\ messages' = messages
    BY <1>6, <2>1 DEF Working, Register, connect_chat, Lists
  <2>3. \A i : \A x \in Sockets : Owes(x, i, DeviceOf[s]) => Owes(x, i, DeviceOf[s])'
    BY <1>1 DEF Owes, Working
  <2>4. ASSUME NEW i \in DOMAIN messages PROVE Accounted(s, i)'
    <3>1. CASE i <= handler[s].upto
      BY <2>1, <3>1 DEF Accounted
    <3>2. CASE Owed(i, DeviceOf[s])
      BY <2>3, <3>2, OwedIs DEF Accounted
    <3>3. CASE ~ (i <= handler[s].upto) /\ ~ Owed(i, DeviceOf[s])
      <4>1. i \in Nat /\ handler[s].upto \in Nat
        BY <1>0, TypesUsed DEF HandlerStates
      <4>2. i > handler[s].upto
        BY <3>3, <4>1
      <4> QED BY <2>1, <3>3, <4>2 DEF Accounted
    <3> QED BY <3>1, <3>2, <3>3
  <2>5. MissInv(s)'
    BY <2>2, <2>4 DEF MissInv
  <2> QED BY <1>0, <1>1, <1>2, <1>3, <2>2, <2>5, IdleAccountStep
<1>7. CASE SendHistory(s)
  <2>1. /\ handler'[s].pc = "live" /\ handler[s].pc = "history"
        /\ handler'[s].upto = handler[s].upto /\ handler'[s].between = handler[s].between
        /\ messages' = messages /\ registry' = registry
    BY <1>0, <1>7, TypesUsed DEF SendHistory, At, HandlerStates
  <2>2. ~ Working(s)' /\ Registered(s)
    BY <2>1 DEF Working, Registered
  <2>3. \A i : \A x \in Sockets : Owes(x, i, DeviceOf[s]) => Owes(x, i, DeviceOf[s])'
    BY <1>1 DEF Owes, Working
  <2>4. \A i : ~ ToEcho(s, i)
    BY <1>1 DEF ToEcho, Working
  <2>5. MissInv(s)'
    BY <1>0, <1>1, <2>1, <2>2, <2>3, <2>4, AccountKept
  <2> QED BY <1>0, <1>1, <1>2, <1>3, <2>2, <2>5, IdleAccountStep
<1> QED BY <1>4, <1>5, <1>6, <1>7 DEF ConnectStep

\* A handler saves a message and sends it on, or notices that its socket is gone.
LEMMA SendAccountStep ==
    ASSUME TypeInv, ListsInv, AccountInv, NEW s \in Sockets, SendStep(s)
    PROVE  AccountInv'
<1>0. /\ MessagesGrow /\ handler[s] \in HandlerStates /\ HandlerOK(handler[s])
      /\ MissInv(s) /\ WorkInv /\ DeviceOf \in [Sockets -> Devices]
  BY SendTypeStep, TypesUsed, DeliveryAssumption DEF AccountInv
<1>1. link' = link /\ \A x \in Sockets \ {s} : handler'[x] = handler[x]
  BY TypesUsed DEF SendStep, Commit, PersistPayloads, Echo, FanOut, FanOutEnds, Disconnect
\* The registry as the other sockets see it, and what is still owed by other handlers.
<1>2. \A x \in Sockets : link[x] = "open" /\ x \in registry["device"] => x \in registry'["device"] \/ Disconnect(s)
  <2>1. CASE Echo(s)
    BY <2>1 DEF Echo, disconnect_chat, Lists
  <2>2. ASSUME NEW d \in Devices, FanOut(s, d), NEW x \in Sockets, link[x] = "open",
               x \in registry["device"]
        PROVE  x \in registry'["device"]
    BY <2>2 DEF FanOut, ListsInv, Lists
  <2>3. CASE Commit(s) \/ PersistPayloads(s) \/ FanOutEnds(s)
    BY <2>3 DEF Commit, PersistPayloads, FanOutEnds
  <2> QED BY <2>1, <2>2, <2>3 DEF SendStep
<1>3. \A x \in Sockets \ {s} : \A i, d : Owes(x, i, d) => Owes(x, i, d)'
  BY <1>1 DEF Owes
<1>4. \A x \in Sockets \ {s} : /\ handler'[x].upto = handler[x].upto
                               /\ handler'[x].between = handler[x].between
                               /\ (Registered(x)' <=> Registered(x))
                               /\ \A i : ToEcho(x, i) => ToEcho(x, i)'
  BY <1>1 DEF Registered, ToEcho
<1>5. \A x \in Sockets \ {s} : Working(x)' => Working(x) /\ handler'[x].id = handler[x].id
  BY <1>1 DEF Working
<1> DEFINE j == handler[s].id
\* The message in hand stays the same, and none is added.
<1>6. ASSUME handler'[s].id = j, Working(s), Working(s)', handler'[s].upto = handler[s].upto,
             handler'[s].between = handler[s].between, DOMAIN messages' = DOMAIN messages,
             \A i \in DOMAIN messages : messages'[i].out => messages[i].out, ~ Disconnect(s),
             \A x \in Sockets : \A i \in DOMAIN messages :
                link[x] = "open" /\ x \in registry["device"] /\ Owes(s, i, DeviceOf[x]) =>
                   Owes(s, i, DeviceOf[x])' \/ x \in messages'[i].told,
             \A i \in DOMAIN messages :
                link[s] = "open" /\ s \in registry["device"] /\ ToEcho(s, i) =>
                   ToEcho(s, i)' \/ s \in messages'[i].told
      PROVE  AccountInv'
  <2>1. \A x \in Sockets : Working(x)' => Working(x) /\ handler'[x].id = handler[x].id
    BY <1>5, <1>6
  <2>2. WorkInv'
    BY <1>0, <1>6, <2>1, WorkKept
  <2>3. Registered(s)' => Registered(s)
    BY <1>6 DEF Registered, Working
  <2>4. ASSUME NEW x \in Sockets PROVE MissInv(x)'
    <3>1. \A i \in DOMAIN messages : \A y \in Sockets :
             link'[x] = "open" /\ x \in registry["device"] /\ Owes(y, i, DeviceOf[x]) =>
                Owes(y, i, DeviceOf[x])' \/ x \in messages'[i].told
      BY <1>1, <1>3, <1>6
    <3>2. \A i \in DOMAIN messages :
             link'[x] = "open" /\ x \in registry["device"] /\ ToEcho(x, i) =>
                ToEcho(x, i)' \/ x \in messages'[i].told
      BY <1>1, <1>4, <1>6
    <3>3. /\ handler'[x].upto = handler[x].upto /\ handler'[x].between = handler[x].between
          /\ (Registered(x)' => Registered(x))
      BY <1>4, <1>6, <2>3
    <3>4. link'[x] = "open" => (x \in registry["device"] => x \in registry'["device"])
      BY <1>1, <1>2, <1>6
    <3>5. MissInv(x) /\ (link'[x] = "open" => link[x] = "open")
      BY <1>1 DEF AccountInv
    <3>6. \A i \in DOMAIN messages' : i \in DOMAIN messages \/ Accounted(x, i)'
      BY <1>6
    <3> QED BY <1>0, <3>1, <3>2, <3>3, <3>4, <3>5, <3>6, AccountKept
  <2> QED BY <2>2, <2>4 DEF AccountInv
<1>7. CASE Commit(s)
  <2>1. PICK row : row.from = s /\ ~ row.out /\ messages' = Append(messages, row)
    BY <1>7 DEF Commit
  <2>2. PICK new : new = Len(messages) + 1
    OBVIOUS
  <2>3. /\ \A i \in DOMAIN messages : i \in DOMAIN messages' /\ messages'[i] = messages[i]
        /\ \A i \in DOMAIN messages' : i \in DOMAIN messages \/ i = new
        /\ messages'[new] = row /\ new \in DOMAIN messages' /\ new \in Nat
        /\ \A i \in DOMAIN messages : i # new
    BY <2>1, <2>2, TypesUsed
  <2>4. /\ handler'[s].pc = "payloads" /\ handler[s].pc = "commit" /\ handler'[s].id = new
        /\ handler'[s].upto = handler[s].upto /\ handler'[s].between = handler[s].between
        /\ registry' = registry
    BY <1>0, <1>7, <2>2, TypesUsed DEF Commit, At, HandlerStates
  <2>5. WorkInv'
    <3>1. ASSUME NEW x \in Sockets, Working(x)'
          PROVE  messages'[handler'[x].id].from = x /\ ~ messages'[handler'[x].id].out
      <4>1. CASE x = s
        BY <2>1, <2>3, <2>4, <4>1
      <4>2. CASE x # s
        <5>1. Working(x) /\ handler'[x].id = handler[x].id
          BY <1>5, <3>1, <4>2
        <5>2. handler[x].id \in DOMAIN messages
          BY <5>1, TypesUsed DEF Working, HandlerOK
        <5> QED BY <1>0, <2>3, <5>1, <5>2 DEF WorkInv
      <4> QED BY <4>1, <4>2
    <3> QED BY <3>1 DEF WorkInv
  <2>6. Registered(s) /\ \A i, d : ~ Owes(s, i, d) /\ ~ ToEcho(s, i)
    BY <2>4 DEF Registered, Owes, ToEcho
  <2>7. ASSUME NEW x \in Sockets PROVE MissInv(x)'
    <3>1. Accounted(x, new)'
      <4>1. CASE x = s
        BY <2>4, <4>1 DEF Accounted, ToEcho
      <4>2. CASE DeviceOf[x] # DeviceOf[s]
        <5>1. Owes(s, new, DeviceOf[x])'
          BY <2>4, <4>2 DEF Owes
        <5> QED BY <5>1 DEF Accounted
      <4>3. CASE x # s /\ DeviceOf[x] = DeviceOf[s]
        <5>1. handler'[x].upto < new
          <6>1. handler'[x] = handler[x] /\ HandlerOK(handler[x]) /\ handler[x] \in HandlerStates
            BY <1>1, <4>3, TypesUsed
          <6> QED BY <2>2, <6>1, TypesUsed DEF HandlerOK, HandlerStates
        <5>2. new > handler'[x].upto
          <6>1. handler'[x].upto \in Nat
            BY <1>1, <4>3, TypesUsed DEF HandlerStates
          <6> QED BY <2>3, <5>1, <6>1
        <5>3. messages'[new].from = s
          BY <2>1, <2>3
        <5> QED BY <4>3, <5>2, <5>3 DEF Accounted, SentBeside
      <4> QED BY <4>1, <4>2, <4>3
    <3>2. \A i \in DOMAIN messages' : i \in DOMAIN messages \/ Accounted(x, i)'
      BY <2>3, <3>1
    <3>3. \A i \in DOMAIN messages : \A y \in Sockets :
             Owes(y, i, DeviceOf[x]) => Owes(y, i, DeviceOf[x])'
      BY <1>3, <2>6
    <3>4. /\ handler'[x].upto = handler[x].upto /\ handler'[x].between = handler[x].between
          /\ (Registered(x)' => Registered(x)) /\ \A i : ToEcho(x, i) => ToEcho(x, i)'
      BY <1>4, <2>4, <2>6
    <3>5. MissInv(x) /\ (link'[x] = "open" => link[x] = "open")
      BY <1>1 DEF AccountInv
    <3> QED BY <1>0, <2>4, <3>2, <3>3, <3>4, <3>5, AccountKept
  <2> QED BY <2>5, <2>7 DEF AccountInv
<1>8. CASE PersistPayloads(s)
  <2>1. /\ handler'[s].pc = "echo" /\ handler[s].pc = "payloads" /\ handler'[s].id = j
        /\ handler'[s].upto = handler[s].upto /\ handler'[s].between = handler[s].between
    BY <1>0, <1>8, TypesUsed DEF PersistPayloads, At, HandlerStates
  <2>2. /\ DOMAIN messages' = DOMAIN messages
        /\ \A i \in DOMAIN messages : messages'[i].out => messages[i].out
    <3>1. j \in DOMAIN messages
      BY <1>0, <2>1 DEF HandlerOK
    <3>2. PICK row : row = [messages[j] EXCEPT !.payloads = TRUE]
      OBVIOUS
    <3>3. row.out = messages[j].out
      BY <3>1, <3>2, TypesUsed DEF MessageRows
    <3>4. messages' = [messages EXCEPT ![j] = row]
      BY <1>8, <3>2 DEF PersistPayloads
    <3> QED BY <3>1, <3>3, <3>4, TypesUsed
  <2>3. Working(s) /\ Working(s)' /\ ~ Disconnect(s)
    BY <2>1 DEF Working, Disconnect, At
  <2>4. \A i, d : (Owes(s, i, d) => Owes(s, i, d)') /\ (ToEcho(s, i) => ToEcho(s, i)')
    BY <2>1 DEF Owes, ToEcho
  <2> QED BY <1>6, <2>1, <2>2, <2>3, <2>4
\* The message goes out to the sockets in told.
<1>9. ASSUME j \in DOMAIN messages, NEW told \in SUBSET Sockets,
             messages' = [messages EXCEPT ![j] = [messages[j] EXCEPT !.told = messages[j].told \cup told]]
      PROVE  /\ DOMAIN messages' = DOMAIN messages
             /\ \A i \in DOMAIN messages : messages'[i].out => messages[i].out
             /\ told \subseteq messages'[j].told
  <2>1. PICK row : row = [messages[j] EXCEPT !.told = messages[j].told \cup told]
    OBVIOUS
  <2>2. row.out = messages[j].out /\ told \subseteq row.told
    BY <1>9, <2>1, TypesUsed, ZenonT(40) DEF MessageRows
  <2> QED BY <1>9, <2>1, <2>2, TypesUsed
<1>10. CASE Echo(s)
  <2>1. /\ handler'[s].pc = "fanout" /\ handler[s].pc = "echo" /\ handler'[s].id = j
        /\ handler'[s].left = Devices \ {DeviceOf[s]}
        /\ handler'[s].upto = handler[s].upto /\ handler'[s].between = handler[s].between
    BY <1>0, <1>10, TypesUsed DEF Echo, At, HandlerStates
  <2>2. j \in DOMAIN messages
    BY <1>0, <2>1 DEF HandlerOK
  <2>3. PICK told \in SUBSET Sockets : told = {s} \cap registry["device"]
    OBVIOUS
  <2>4. messages' = [messages EXCEPT ![j] = [messages[j] EXCEPT !.told = messages[j].told \cup told]]
    BY <1>10, <2>3 DEF Echo
  <2>5. /\ DOMAIN messages' = DOMAIN messages
        /\ \A i \in DOMAIN messages : messages'[i].out => messages[i].out
        /\ told \subseteq messages'[j].told
    BY <1>9, <2>2, <2>4
  <2>6. Working(s) /\ Working(s)' /\ ~ Disconnect(s)
    BY <2>1 DEF Working, Disconnect, At
  <2>7. \A x \in Sockets : \A i : Owes(s, i, DeviceOf[x]) => Owes(s, i, DeviceOf[x])'
    BY <1>0, <2>1 DEF Owes
  <2>8. \A i : s \in registry["device"] /\ ToEcho(s, i) => s \in messages'[i].told
    BY <2>3, <2>5 DEF ToEcho
  <2> QED BY <1>6, <2>1, <2>5, <2>6, <2>7, <2>8
<1>11. ASSUME NEW d \in Devices, FanOut(s, d) PROVE AccountInv'
  <2>1. /\ handler'[s].pc = "fanout" /\ handler[s].pc = "fanout" /\ handler'[s].id = j
        /\ handler'[s].left = handler[s].left \ {d}
        /\ handler'[s].upto = handler[s].upto /\ handler'[s].between = handler[s].between
    BY <1>0, <1>11, TypesUsed DEF FanOut, At, HandlerStates
  <2>2. j \in DOMAIN messages
    BY <1>0, <2>1 DEF HandlerOK
  <2>3. PICK to \in SUBSET Sockets : to = {x \in registry["device"] : DeviceOf[x] = d}
    BY DEF ListsInv, Lists
  <2>4. messages' = [messages EXCEPT ![j] = [messages[j] EXCEPT !.told = messages[j].told \cup to]]
    BY <1>11, <2>3 DEF FanOut
  <2>5. /\ DOMAIN messages' = DOMAIN messages
        /\ \A i \in DOMAIN messages : messages'[i].out => messages[i].out
        /\ to \subseteq messages'[j].told
    BY <1>9, <2>2, <2>4
  <2>6. Working(s) /\ Working(s)' /\ ~ Disconnect(s)
    BY <2>1 DEF Working, Disconnect, At
  <2>7. ASSUME NEW x \in Sockets, NEW i, x \in registry["device"], Owes(s, i, DeviceOf[x])
        PROVE  Owes(s, i, DeviceOf[x])' \/ x \in messages'[i].told
    <3>1. i = j /\ DeviceOf[x] \in handler[s].left
      BY <2>1, <2>7 DEF Owes
    <3>2. CASE DeviceOf[x] = d
      BY <2>3, <2>5, <2>7, <3>1, <3>2
    <3>3. CASE DeviceOf[x] # d
      BY <2>1, <3>1, <3>3 DEF Owes
    <3> QED BY <3>2, <3>3
  <2>8. \A i : ~ ToEcho(s, i)
    BY <2>1 DEF ToEcho
  <2> QED BY <1>6, <2>1, <2>5, <2>6, <2>7, <2>8
<1>12. CASE FanOutEnds(s)
  <2>1. /\ handler'[s].pc = "live" /\ handler[s].pc = "fanout" /\ handler[s].left = {}
        /\ handler'[s].upto = handler[s].upto /\ handler'[s].between = handler[s].between
        /\ registry' = registry
    BY <1>0, <1>12, TypesUsed DEF FanOutEnds, At, HandlerStates
  <2>2. j \in DOMAIN messages
    BY <1>0, <2>1 DEF HandlerOK
  <2>3. /\ DOMAIN messages' = DOMAIN messages
        /\ \A i \in DOMAIN messages : messages'[i].out => messages[i].out \/ i = j
    <3>1. PICK row : messages' = [messages EXCEPT ![j] = row]
      BY <1>12 DEF FanOutEnds
    <3> QED BY <2>2, <3>1, TypesUsed
  <2>4. WorkInv'
    <3>1. ASSUME NEW x \in Sockets, Working(x)'
          PROVE  messages'[handler'[x].id].from = x /\ ~ messages'[handler'[x].id].out
      <4>1. x # s
        BY <2>1, <3>1 DEF Working
      <4>2. Working(x) /\ handler'[x].id = handler[x].id
        BY <1>5, <3>1, <4>1
      <4>3. handler[x].id \in DOMAIN messages
        BY <4>2, TypesUsed DEF Working, HandlerOK
      <4>4. messages[handler[x].id].from = x /\ ~ messages[handler[x].id].out
        BY <1>0, <4>2 DEF WorkInv
      <4>5. messages[j].from = s
        BY <1>0, <2>1 DEF WorkInv, Working
      <4>6. messages'[handler[x].id].from = x
        BY <1>0, <4>3, <4>4 DEF MessagesGrow
      <4> QED BY <2>3, <4>1, <4>2, <4>3, <4>4, <4>5, <4>6
    <3> QED BY <3>1 DEF WorkInv
  <2>5. Registered(s) /\ \A i, d : ~ Owes(s, i, d) /\ ~ ToEcho(s, i)
    BY <2>1 DEF Registered, Owes, ToEcho
  <2>6. ASSUME NEW x \in Sockets PROVE MissInv(x)'
    <3>1. \A i \in DOMAIN messages : \A y \in Sockets :
             Owes(y, i, DeviceOf[x]) => Owes(y, i, DeviceOf[x])'
      BY <1>3, <2>5
    <3>2. /\ handler'[x].upto = handler[x].upto /\ handler'[x].between = handler[x].between
          /\ (Registered(x)' => Registered(x)) /\ \A i : ToEcho(x, i) => ToEcho(x, i)'
      BY <1>4, <2>1, <2>5
    <3>3. MissInv(x) /\ (link'[x] = "open" => link[x] = "open")
      BY <1>1 DEF AccountInv
    <3> QED BY <1>0, <2>1, <2>3, <3>1, <3>2, <3>3, AccountKept
  <2> QED BY <2>4, <2>6 DEF AccountInv
<1>13. CASE Disconnect(s)
  <2>1. /\ handler'[s].pc = "ended" /\ handler[s].pc = "live" /\ messages' = messages
        /\ \A x \in Sockets \ {s} : x \in registry["device"] => x \in registry'["device"]
    BY <1>13, TypesUsed DEF Disconnect, At, NoHandler, disconnect_chat, Lists
  <2>2. ~ Working(s) /\ ~ Working(s)' /\ MissInv(s)'
    BY <2>1 DEF Working, MissInv, Registered
  <2> QED BY <1>0, <1>1, <2>1, <2>2, IdleAccountStep
<1> QED BY <1>7, <1>8, <1>10, <1>11, <1>12, <1>13 DEF SendStep

\* What the users do.
LEMMA UserAccountStep ==
    ASSUME TypeInv, DeliveryInv, AccountInv, NEW s \in Sockets, UserStep(s)
    PROVE  AccountInv'
<1>0. MessagesGrow /\ handler[s] \in HandlerStates /\ MissInv(s) /\ LinkInv(s)
  BY UserTypeStep, TypesUsed DEF AccountInv, DeliveryInv
<1>1. registry' = registry
  BY DEF UserStep, Open, Close, ReplyToDeleted, Stamp, DeleteForAll
<1>2. CASE Open(s) \/ Close(s)
  <2>1. /\ messages' = messages /\ handler' = handler
        /\ \A x \in Sockets \ {s} : link'[x] = link[x]
        /\ link'[s] = "open" => handler[s].pc = "none"
    BY <1>0, <1>2, TypesUsed DEF Open, Close, LinkInv, TypeInv, DeliveryTypeOK
  <2>2. WorkInv'
    BY <2>1 DEF AccountInv, WorkInv, Working
  <2>3. \A x \in Sockets : /\ MissInv(x)
                           /\ (Registered(x)' <=> Registered(x))
                           /\ \A i \in DOMAIN messages : Accounted(x, i) => Accounted(x, i)'
    <3>1. \A x \in Sockets : \A i, d : Owes(x, i, d)' <=> Owes(x, i, d)
      BY <2>1 DEF Owes
    <3>2. \A x \in Sockets : \A i : /\ SentBeside(x, i)' <=> SentBeside(x, i)
                                    /\ ToEcho(x, i)' <=> ToEcho(x, i)
      BY <2>1 DEF SentBeside, ToEcho
    <3> QED BY <2>1, <3>1, <3>2 DEF Accounted, AccountInv, Registered
  <2>4. ~ (link'[s] = "open" /\ Registered(s)')
    BY <2>1 DEF Registered
  <2> QED BY <1>1, <2>1, <2>2, <2>3, <2>4 DEF AccountInv, MissInv
<1>3. CASE ReplyToDeleted(s)
  <2>1. /\ handler'[s].pc = "ended" /\ handler[s].pc = "live" /\ messages' = messages
        /\ \A x \in Sockets \ {s} : handler'[x] = handler[x] /\ link'[x] = link[x]
    BY <1>3, TypesUsed DEF ReplyToDeleted, At, NoHandler, TypeInv, DeliveryTypeOK
  <2>2. ~ Working(s) /\ ~ Working(s)' /\ MissInv(s)'
    BY <2>1 DEF Working, MissInv, Registered
  <2> QED BY <1>0, <1>1, <2>1, <2>2, IdleAccountStep
<1>4. ASSUME NEW online \in BOOLEAN, Stamp(s, online) PROVE AccountInv'
  <2>1. /\ handler'[s].pc = "commit" /\ handler[s].pc = "live" /\ messages' = messages
        /\ handler'[s].upto = handler[s].upto /\ handler'[s].between = handler[s].between
        /\ link' = link
        /\ \A x \in Sockets \ {s} : handler'[x] = handler[x] /\ link'[x] = link[x]
    BY <1>0, <1>4, TypesUsed DEF Stamp, At, HandlerStates
  <2>2. ~ Working(s) /\ ~ Working(s)' /\ Registered(s)
    BY <2>1 DEF Working, Registered
  <2>3. \A i : \A x \in Sockets : Owes(x, i, DeviceOf[s]) => Owes(x, i, DeviceOf[s])'
    BY <2>1 DEF Owes
  <2>4. \A i : ~ ToEcho(s, i)
    BY <2>1 DEF ToEcho
  <2>5. MissInv(s)'
    BY <1>0, <1>1, <2>1, <2>2, <2>3, <2>4, AccountKept
  <2> QED BY <1>0, <1>1, <2>1, <2>2, <2>5, IdleAccountStep
<1>5. ASSUME NEW i \in DOMAIN messages, DeleteForAll(s, i) PROVE AccountInv'
  <2>1. handler' = handler /\ link' = link
    BY <1>5 DEF DeleteForAll
  <2>2. /\ DOMAIN messages' = DOMAIN messages
        /\ \A k \in DOMAIN messages : messages'[k].out => messages[k].out
    <3>1. PICK row : row = [messages[i] EXCEPT !.deleted = TRUE]
      OBVIOUS
    <3>2. row.out = messages[i].out
      BY <3>1, TypesUsed DEF MessageRows
    <3>3. messages' = [messages EXCEPT ![i] = row]
      BY <1>5, <3>1 DEF DeleteForAll
    <3> QED BY <3>2, <3>3, TypesUsed
  <2>3. WorkInv'
    BY <1>0, <2>1, <2>2, WorkKept DEF AccountInv, Working
  <2>4. ASSUME NEW x \in Sockets PROVE MissInv(x)'
    <3>1. /\ \A k : \A y \in Sockets : Owes(y, k, DeviceOf[x]) => Owes(y, k, DeviceOf[x])'
          /\ \A k : ToEcho(x, k) => ToEcho(x, k)'
          /\ (Registered(x)' => Registered(x)) /\ MissInv(x)
      BY <2>1 DEF Owes, ToEcho, Registered, AccountInv
    <3> QED BY <1>0, <1>1, <2>1, <2>2, <3>1, AccountKept
  <2> QED BY <2>3, <2>4 DEF AccountInv
<1> QED BY <1>2, <1>3, <1>4, <1>5 DEF UserStep

LEMMA AccountStep ==
    TypeInv /\ ListsInv /\ DeliveryInv /\ AccountInv /\ [DeliveryNext]_vars => AccountInv'
<1> SUFFICES ASSUME TypeInv, ListsInv, DeliveryInv, AccountInv, [DeliveryNext]_vars
             PROVE  AccountInv'
  OBVIOUS
<1>1. ASSUME messages' = messages, handler' = handler, link' = link, registry' = registry
      PROVE  AccountInv'
  <2>1. \A x \in Sockets : \A i, d : Owes(x, i, d)' <=> Owes(x, i, d)
    BY <1>1 DEF Owes
  <2>2. \A x \in Sockets : \A i : /\ SentBeside(x, i)' <=> SentBeside(x, i)
                                  /\ ToEcho(x, i)' <=> ToEcho(x, i)
    BY <1>1 DEF SentBeside, ToEcho
  <2>3. \A x \in Sockets : \A i : Accounted(x, i)' <=> Accounted(x, i)
    BY <1>1, <2>1, <2>2 DEF Accounted
  <2>4. \A x \in Sockets : (Registered(x)' <=> Registered(x)) /\ (Working(x)' <=> Working(x))
    BY <1>1 DEF Registered, Working
  <2> QED BY <1>1, <2>3, <2>4 DEF AccountInv, MissInv, WorkInv
<1>2. CASE UNCHANGED vars
  BY <1>1, <1>2 DEF vars
<1>3. ASSUME NEW s \in Sockets, PageStep(s) PROVE AccountInv'
  BY <1>1, <1>3 DEF PageStep, Receive, Render
<1> QED BY <1>2, <1>3, ConnectAccountStep, SendAccountStep, UserAccountStep DEF DeliveryNext

LEMMA AccountAlways == DeliverySpec => [](TypeInv /\ DeliveryInv /\ AccountInv)
<1>1. DeliveryInit => ListsInv
  BY DEF DeliveryInit, ListsInv, OpenSocketsFullyListed
<1>2. ListsInv /\ [DeliveryNext]_vars => ListsInv'
  BY ListsStep
<1>3. DeliveryInit => AccountInv
  BY DEF DeliveryInit, AccountInv, WorkInv, MissInv, Working, Registered, NoHandler
<1> QED BY <1>1, <1>2, <1>3, TypeInit, TypeStep, DeliveryInvInit, DeliveryInvStep, AccountStep,
        PTL DEF DeliverySpec

(***************************************************************************)
(* A page whose queues have run empty shows every message that has gone    *)
(* out and was not deleted since, but what had gone out to its device      *)
(* between the query of its history and its registration, and what another *)
(* page of its own device sent after that query.  Nothing else is lost:    *)
(* what its handler read with the history, what notify_chat_device sends   *)
(* to its socket, and what arrives before history_complete and is          *)
(* released.                                                               *)
(***************************************************************************)
THEOREM NothingIsMissed == DeliverySpec => []NothingElseIsMissed
<1>1. ASSUME TypeInv, DeliveryInv, NEW s \in Sockets, Settled(s), NEW i \in Present,
             i <= handler[s].upto \/ s \in messages[i].told
      PROVE  Shows(s, i)
  <2>1. i \in DOMAIN messages /\ ~ messages[i].deleted /\ link[s] = "open" /\ HistorySent(s)
    BY <1>1 DEF Present, Settled, At, HistorySent
  <2>2. Due(s, i)
    BY <1>1, <2>1 DEF Due
  <2>3. HasMessage(page[s], i)
    BY <1>1, <2>1, <2>2 DEF DeliveryInv, PageInv
  <2>4. page[s].inbox = <<>> /\ page[s].kept = {} /\ page[s].queue = {}
    BY <1>1 DEF Settled
  <2> QED BY <2>3, <2>4 DEF HasMessage, HasCopy, Shows
<1>2. ASSUME TypeInv, DeliveryInv, AccountInv, NEW s \in Sockets, Settled(s), NEW i \in Present
      PROVE  Shows(s, i) \/ i \in handler[s].between \/ SentBeside(s, i)
  <2>1. /\ i \in DOMAIN messages /\ messages[i].out /\ link[s] = "open"
        /\ handler[s].pc = "live"
    BY <1>2 DEF Present, Settled, At
  <2>2. Accounted(s, i)
    BY <1>2, <2>1 DEF AccountInv, MissInv, Registered
  <2>3. ~ ToEcho(s, i)
    BY <2>1 DEF ToEcho
  <2>4. \A x \in Sockets : ~ Owes(x, i, DeviceOf[s])
    BY <1>2, <2>1 DEF AccountInv, WorkInv, Working, Owes
  <2> QED BY <1>1, <1>2, <2>2, <2>3, <2>4 DEF Accounted
<1>3. TypeInv /\ DeliveryInv /\ AccountInv => NothingElseIsMissed
  BY <1>2 DEF NothingElseIsMissed
<1> QED BY <1>3, AccountAlways, PTL

(***************************************************************************)
(* The raw envelope of a message is on a page's screen only if the         *)
(* sender's page had no payload for the page's device, or if the page's    *)
(* handler had read the payloads for the history before the message's were *)
(* saved: a live socket of a device that is named gets the payload made    *)
(* for it.                                                                 *)
(***************************************************************************)
THEOREM RawHasCauseAlways == DeliverySpec => []RawHasCause
<1>1. ASSUME DeliveryInv, NEW s \in Sockets, NEW i \in Ids, <<i, "raw">> \in page[s].shown
      PROVE  \/ DeviceOf[s] \notin messages[i].named
             \/ i \in 1..handler[s].upto /\ i \notin handler[s].rows
  <2>1. PICK c \in Copies : c = <<i, "raw">>
    BY DEF Copies, Forms
  <2>2. HasCopy(page[s], c) /\ c[1] = i /\ c[2] = "raw"
    BY <1>1, <2>1 DEF HasCopy
  <2> QED BY <1>1, <2>2 DEF DeliveryInv, PageInv, Unnamed, ReadEarly
<1>2. DeliveryInv => RawHasCause
  BY <1>1 DEF RawHasCause
<1> QED BY <1>2, DeliveryInvAlways, PTL
=============================================================================
