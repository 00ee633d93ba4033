----------------------- MODULE MessageStatus_proofs -----------------------
(***************************************************************************)
(* Proofs about MessageStatus, for every number of pages, sockets and      *)
(* messages.                                                               *)
(*                                                                         *)
(* ShownIsTrue is not inductive: what a page shows comes from an event, a  *)
(* copy or a history that was on its way before.  KnowledgeInv says of     *)
(* everything that is under way that no row is behind it.                  *)
(***************************************************************************)
EXTENDS MessageStatus, FiniteSetTheorems, SequenceTheorems, TLAPS

\* No row is behind what e says of its message.
Known(e, r) == e.id \in DOMAIN r /\ e.status <= r[e.id]
AllKnown(s, r) == \A k \in DOMAIN s : Known(s[k], r)
MarksKnown(f, r) == \A i \in Ids : f[i] # Unknown => i \in DOMAIN r /\ f[i] <= r[i]

PageStates ==
    [pc : {"none", "register", "replay", "live"}, history : Seq(Messages),
     complete : BOOLEAN, kept : Seq(Messages), queue : Seq(Messages),
     shown : [Ids -> Unknown..Read], pending : [Ids -> Unknown..Read],
     dot : {"reader", "other", "none"} \X BOOLEAN]

SaveStates ==
    [pc : {"idle", "commit", "refresh", "copies", "tell"}, id : 0..MaxMessages,
     status : Unknown..Read, across : SUBSET Excuses]

LineStates ==
    [pc : {"none", "mark", "refresh", "tell", "open"}, ids : SUBSET Ids, tell : SUBSET Told]

VisitStates ==
    [pc : {"none", "refresh", "tell", "register", "open", "ended"},
     ids : SUBSET Ids, tell : SUBSET Told]

LoopItems == [kind : {"task", "send"}, by : Lines, on : BOOLEAN, to : SUBSET Pages]

\* A page that has its type and shows, keeps and expects nothing the rows do not bear out.
GoodPage(g, r) ==
    /\ g \in PageStates
    /\ \A i \in Ids : g.shown[i] # Unknown => g.pending[i] = Unknown
    /\ AllKnown(g.history, r) /\ AllKnown(g.kept, r) /\ AllKnown(g.queue, r)
    /\ MarksKnown(g.shown, r) /\ MarksKnown(g.pending, r)

GoodSave(s, r) ==
    /\ s \in SaveStates
    /\ s.pc = "commit" => s.status \in Statuses
    /\ s.pc \in {"refresh", "copies", "tell"} => s.id \in DOMAIN r
    /\ s.pc \in {"copies", "tell"} => s.status \in Statuses /\ s.status <= r[s.id]

HandlerKnows(h, r) == h.ids \subseteq DOMAIN r /\ \A t \in h.tell : Known(t, r)

RowsOK == row \in Seq(Statuses) /\ Len(row) <= MaxMessages
PagesOK == page \in [Pages -> PageStates] /\ \A p \in Pages : GoodPage(page[p], row)
SavesOK == save \in [Pages -> SaveStates] /\ \A p \in Pages : GoodSave(save[p], row)
LinesOK == line \in [Lines -> LineStates] /\ \A l \in Lines : HandlerKnows(line[l], row)
VisitsOK == visit \in [Visits -> VisitStates] /\ \A v \in Visits : HandlerKnows(visit[v], row)
LoopOK == connected \in SUBSET Lines /\ loop \in Seq(LoopItems)
HistoryOK ==
    /\ missed \in SUBSET (Pages \X Ids) /\ late \in [Ids -> SUBSET Excuses]
    /\ raced \in BOOLEAN

KnowledgeInv ==
    RowsOK /\ PagesOK /\ SavesOK /\ LinesOK /\ VisitsOK /\ LoopOK /\ HistoryOK

\* While the handler of a connected socket of the reader is past its query, a message that
\* is only sent, or about to be saved so, was under way when it ran.
Marking == \E l \in connected \cap ReadersLines : line[l].pc \in {"refresh", "tell", "open"}

DeliveredInv ==
    Marking =>
        /\ \A i \in DOMAIN row : row[i] = Sent => "line" \in late[i]
        /\ \A p \in Pages : save[p].pc = "commit" /\ save[p].status = Sent =>
                                "line" \in save[p].across

\* The same of a chat socket of the reader and messages that are not read.
Opening == \E v \in Visits : visit[v].pc \in {"refresh", "tell", "register", "open"}

ReadInv ==
    Opening =>
        /\ \A i \in DOMAIN row : row[i] < Read => late[i] \cap {"visit", "offline"} # {}
        /\ \A p \in Pages : save[p].pc = "commit" /\ save[p].status < Read =>
                                save[p].across \cap {"visit", "offline"} # {}

\* A broadcast about the reader that will reach page p, and one that is to be sent yet.
Reaches(b, p) == b.kind = "send" /\ b.by \in ReadersLines /\ p \in b.to
Absence(b) == b.kind = "task" /\ b.by \in ReadersLines
AbsencePending == \E k \in DOMAIN loop : Absence(loop[k])

\* Once the broadcasts of s are out, page p with this dot has heard last that he is on.
Settles(s, p, dot, on) ==
    /\ \A k \in DOMAIN s :
          Reaches(s[k], p) /\ (\A j \in DOMAIN s : j > k => ~ Reaches(s[j], p)) => s[k].on = on
    /\ (\A k \in DOMAIN s : ~ Reaches(s[k], p)) /\ dot[1] = "reader" => dot[2] = on

\* His absence is never announced while he is there, unless he was back too soon; and what
\* is under way to a page agrees with the server, or his absence is to be announced yet.
PresenceInv ==
    /\ \A k \in DOMAIN loop : loop[k].kind = "task" => ~ loop[k].on
    /\ \A k \in DOMAIN loop : loop[k].to \subseteq Registered
    /\ \A p \in Pages : page[p].pc \in {"none", "register"} => page[p].dot[1] = "none"
    /\ ~ raced =>
          /\ is_online => ~ AbsencePending
          /\ ~ AbsencePending => \A p \in Pages : Settles(loop, p, page[p].dot, is_online)
-----------------------------------------------------------------------------
(* Operators.                                                              *)

Grows(r, s) == \A i \in DOMAIN r : i \in DOMAIN s /\ r[i] <= s[i]

LEMMA RowBounds ==
    ASSUME NEW r \in Seq(Statuses), Len(r) <= MaxMessages
    PROVE  /\ DOMAIN r \subseteq Ids
           /\ \A i \in DOMAIN r : r[i] \in Statuses
  BY StatusAssumption DEF Ids, Statuses, Sent, Read

LEMMA GoodPageGrows ==
    ASSUME NEW g, NEW r \in Seq(Statuses), NEW s \in Seq(Statuses), Grows(r, s), GoodPage(g, r)
    PROVE  GoodPage(g, s)
<1>1. \A i \in DOMAIN r : r[i] \in Int /\ i \in DOMAIN s /\ s[i] \in Int /\ r[i] <= s[i]
  BY DEF Grows, Statuses, Sent, Read
<1>2. ASSUME NEW q \in Seq(Messages), AllKnown(q, r) PROVE AllKnown(q, s)
  <2>0. \A k \in DOMAIN q : q[k] \in Messages
    OBVIOUS
  <2>1. \A k \in DOMAIN q : q[k].status \in Int
    BY <2>0 DEF Messages, Statuses, Sent, Read
  <2> QED
    BY <1>1, <1>2, <2>1 DEF AllKnown, Known
<1>3. ASSUME NEW f \in [Ids -> Unknown..Read], MarksKnown(f, r) PROVE MarksKnown(f, s)
  BY <1>1, <1>3 DEF MarksKnown, Unknown, Read
<1> QED
  BY <1>2, <1>3 DEF GoodPage, PageStates

LEMMA GoodSaveGrows ==
    ASSUME NEW v, NEW r \in Seq(Statuses), NEW s \in Seq(Statuses), Grows(r, s), GoodSave(v, r)
    PROVE  GoodSave(v, s)
<1>1. \A i \in DOMAIN r : r[i] \in Int /\ i \in DOMAIN s /\ s[i] \in Int /\ r[i] <= s[i]
  BY DEF Grows, Statuses, Sent, Read
<1> QED
  BY <1>1 DEF GoodSave, Statuses, Sent, Read

LEMMA HandlerKnowsGrows ==
    ASSUME NEW h, h.tell \subseteq Told, NEW r \in Seq(Statuses), NEW s \in Seq(Statuses),
           Grows(r, s), HandlerKnows(h, r)
    PROVE  HandlerKnows(h, s)
<1>1. \A i \in DOMAIN r : r[i] \in Int /\ i \in DOMAIN s /\ s[i] \in Int /\ r[i] <= s[i]
  BY DEF Grows, Statuses, Sent, Read
<1>2. \A t \in h.tell : t.status \in Int
  BY DEF Told, Statuses, Sent, Read
<1> QED
  BY <1>1, <1>2 DEF HandlerKnows, Known

LEMMA AllKnownConcat ==
    ASSUME NEW s \in Seq(Messages), NEW t \in Seq(Messages), NEW r, AllKnown(s, r), AllKnown(t, r)
    PROVE  s \o t \in Seq(Messages) /\ AllKnown(s \o t, r)
  BY DEF AllKnown

LEMMA AllKnownAppend ==
    ASSUME NEW s \in Seq(Messages), NEW e \in Messages, NEW r, AllKnown(s, r), Known(e, r)
    PROVE  Append(s, e) \in Seq(Messages) /\ AllKnown(Append(s, e), r)
<1>1. \A k \in DOMAIN Append(s, e) : Append(s, e)[k] = e \/ (k \in DOMAIN s /\ Append(s, e)[k] = s[k])
  OBVIOUS
<1> QED
  BY <1>1 DEF AllKnown

LEMMA AllKnownTail ==
    ASSUME NEW s \in Seq(Messages), s # <<>>, NEW r, AllKnown(s, r)
    PROVE  /\ Head(s) \in Messages /\ Known(Head(s), r)
           /\ Tail(s) \in Seq(Messages) /\ AllKnown(Tail(s), r)
  BY DEF AllKnown

\* The places of the messages are those of a sequence: no two have the same, none is free.
LEMMA PlaceBijective ==
    ASSUME NEW s \in Seq(Messages)
    PROVE  \A k \in DOMAIN s : \E i \in DOMAIN s : Place(s, i) = k
<1> DEFINE n == Len(s)
           D == 1..n
           before(j, i) == s[j].id < s[i].id \/ (s[j].id = s[i].id /\ j <= i)
           P(i) == {j \in D : before(j, i)}
           f == [i \in D |-> Place(s, i)]
<1>0. DOMAIN s = D /\ n \in Nat /\ D \subseteq Int
  OBVIOUS
<1>1. \A i \in D : s[i].id \in Int
  <2>1. \A i \in D : s[i] \in Messages
    OBVIOUS
  <2> QED
    BY <2>1 DEF Messages, Ids
<1>2. IsFiniteSet(D) /\ Cardinality(D) = n
  BY <1>0, FS_Interval
<1>3. \A i \in D : Place(s, i) = Cardinality(P(i))
  BY <1>0 DEF Place
<1>4. ASSUME NEW i \in D
      PROVE  IsFiniteSet(P(i)) /\ Cardinality(P(i)) \in D
  <2>1. P(i) \in SUBSET D
    OBVIOUS
  <2>2. IsFiniteSet(P(i)) /\ Cardinality(P(i)) <= n /\ Cardinality(P(i)) \in Nat
    BY <2>1, <1>2, FS_Subset, FS_CardinalityType
  <2>3. i \in P(i)
    BY <1>0, <1>1
  <2>4. Cardinality(P(i)) # 0
    BY <2>2, <2>3, FS_EmptySet
  <2> HIDE DEF P
  <2> QED
    BY <2>2, <2>4, <1>0
<1>5. f \in [D -> D]
  BY <1>3, <1>4
<1>6. ASSUME NEW i \in D, NEW j \in D, f[i] = f[j] PROVE i = j
  <2>1. ASSUME NEW a \in D, NEW b \in D, before(a, b), a # b
        PROVE  Cardinality(P(a)) # Cardinality(P(b))
    <3>1. P(a) \in SUBSET P(b)
      BY <2>1, <1>0, <1>1
    <3>2. b \in P(b) /\ b \notin P(a)
      BY <2>1, <1>0, <1>1
    <3> HIDE DEF P
    <3> QED
      BY <3>1, <3>2, <1>4, FS_Subset
  <2>2. before(i, j) \/ before(j, i)
    BY <1>0, <1>1
  <2>3. Cardinality(P(i)) = Cardinality(P(j))
    BY <1>6, <1>3
  <2> HIDE DEF P, before
  <2> QED
    BY <2>1, <2>2, <2>3
<1> HIDE DEF f
<1>7. f \in Injection(D, D)
  BY <1>5, <1>6 DEF Injection, IsInjective
<1>8. f \in Surjection(D, D)
  BY <1>7, <1>2, FS_Injection
<1> QED
  BY <1>0, <1>8 DEF Surjection, Range, f

\* Sorting keeps the messages: nothing is in the sorted queue that was not kept back.
LEMMA SortedKnown ==
    ASSUME NEW s \in Seq(Messages), NEW r, AllKnown(s, r)
    PROVE  Sorted(s) \in Seq(Messages) /\ AllKnown(Sorted(s), r)
<1>1. \A k \in DOMAIN s : \E i \in DOMAIN s : Sorted(s)[k] = s[i]
  <2>1. SUFFICES ASSUME NEW k \in DOMAIN s PROVE \E i \in DOMAIN s : Sorted(s)[k] = s[i]
    OBVIOUS
  <2> DEFINE c == CHOOSE i \in DOMAIN s : Place(s, i) = k
  <2>2. c \in DOMAIN s
    BY PlaceBijective
  <2>3. Sorted(s)[k] = s[c]
    BY DEF Sorted
  <2> QED
    BY <2>2, <2>3
<1>2. DOMAIN Sorted(s) = 1..Len(s) /\ DOMAIN s = 1..Len(s) /\ Len(s) \in Nat
  BY DEF Sorted
<1>3. Sorted(s) = [k \in 1..Len(s) |-> Sorted(s)[k]]
  BY <1>2 DEF Sorted
<1>4. \A k \in 1..Len(s) : Sorted(s)[k] \in Messages
  BY <1>1, <1>2
<1>5. Sorted(s) \in [1..Len(s) -> Messages]
  BY <1>3, <1>4
<1>6. Sorted(s) \in Seq(Messages)
  BY <1>5, <1>2, SeqDef
<1> QED
  BY <1>6, <1>1, <1>2 DEF AllKnown
-----------------------------------------------------------------------------
(* What an event does to a page.                                           *)

StatusEvent(i, status) == [type |-> "status", id |-> i, status |-> status]
PresenceEvent(reader, on) == [type |-> "presence", reader |-> reader, on |-> on]

\* A page that goes from g to h shows no message less far than before.
NotBack(g, h) == \A i \in Ids : h.shown[i] >= g.shown[i]

LEMMA ResolveStatus ==
    ASSUME NEW a \in Unknown..Read, NEW b \in Unknown..Read
    PROVE  /\ resolveStatus(a, b) \in {a, b}
           /\ resolveStatus(a, b) >= a /\ resolveStatus(a, b) >= b
  BY DEF resolveStatus, Unknown, Read

LEMMA SameShown ==
    ASSUME NEW g \in PageStates, NEW h, h.shown = g.shown PROVE NotBack(g, h)
  BY DEF NotBack, PageStates, Unknown, Read

LEMMA MarkedKnown ==
    ASSUME NEW f \in [Ids -> Unknown..Read], NEW r \in Seq(Statuses), Len(r) <= MaxMessages,
           MarksKnown(f, r), NEW e, Known(e, r), e.status \in Statuses,
           NEW s \in {f[e.id], e.status}
    PROVE  [f EXCEPT ![e.id] = s] \in [Ids -> Unknown..Read] /\ MarksKnown([f EXCEPT ![e.id] = s], r)
<1>1. e.id \in Ids
  BY RowBounds DEF Known
<1>2. s \in Unknown..Read
  BY <1>1 DEF Statuses, Unknown, Sent, Read
<1> QED
  BY <1>1, <1>2 DEF MarksKnown, Known

LEMMA ReceivedStatus ==
    ASSUME NEW r \in Seq(Statuses), Len(r) <= MaxMessages, NEW g, GoodPage(g, r),
           NEW e, e.type = "status", Known(e, r), e.status \in Statuses
    PROVE  LET h == Received(g, e)
           IN  GoodPage(h, r) /\ NotBack(g, h) /\ h.pc = g.pc /\ h.dot = g.dot
<1> DEFINE shownMark == resolveStatus(g.shown[e.id], e.status)
           pendingMark == resolveStatus(g.pending[e.id], e.status)
<1>1. Received(g, e) = Updated(g, e)
  BY DEF Received
<1>2. e.id \in Ids
  BY RowBounds DEF Known
<1>3. e.status \in Unknown..Read
  BY DEF Statuses, Unknown, Sent, Read
<1>4. g \in PageStates /\ g.shown[e.id] \in Unknown..Read /\ g.pending[e.id] \in Unknown..Read
  BY <1>2 DEF GoodPage, PageStates
<1>a. /\ g.shown \in [Ids -> Unknown..Read] /\ g.pending \in [Ids -> Unknown..Read]
      /\ MarksKnown(g.shown, r) /\ MarksKnown(g.pending, r)
      /\ \A i \in Ids : g.shown[i] # Unknown => g.pending[i] = Unknown
  BY <1>4 DEF GoodPage, PageStates
<1>b. \A i \in Ids : g.shown[i] \in Int
  BY <1>a DEF Unknown, Read
<1>5. CASE g.shown[e.id] = Unknown
  <2> DEFINE f == [g.pending EXCEPT ![e.id] = pendingMark]
  <2>1. Updated(g, e) = [g EXCEPT !.pending = f]
    BY <1>5 DEF Updated
  <2>2. pendingMark \in {g.pending[e.id], e.status}
    BY <1>3, <1>4, ResolveStatus
  <2> HIDE DEF pendingMark
  <2>3. f \in [Ids -> Unknown..Read] /\ MarksKnown(f, r)
    BY <2>2, <1>a, MarkedKnown
  <2>4. \A i \in Ids : g.shown[i] # Unknown => f[i] = Unknown
    BY <1>a, <1>2, <1>5
  <2> HIDE DEF f
  <2>5. LET h == [g EXCEPT !.pending = f]
        IN  /\ h \in PageStates /\ h.dot = g.dot /\ h.pc = g.pc /\ h.history = g.history
            /\ h.kept = g.kept /\ h.queue = g.queue /\ h.shown = g.shown /\ h.pending = f
    BY <2>3, <1>4 DEF PageStates
  <2>6. NotBack(g, [g EXCEPT !.pending = f])
    BY <1>4, <2>5, SameShown
  <2> QED
    BY <1>1, <2>1, <2>3, <2>4, <2>5, <2>6 DEF GoodPage
<1>6. CASE g.shown[e.id] # Unknown
  <2> DEFINE f == [g.shown EXCEPT ![e.id] = shownMark]
  <2>1. Updated(g, e) = [g EXCEPT !.shown = f]
    BY <1>6 DEF Updated
  <2>2. shownMark \in {g.shown[e.id], e.status} /\ shownMark >= g.shown[e.id]
    BY <1>3, <1>4, ResolveStatus
  <2> HIDE DEF shownMark
  <2>3. f \in [Ids -> Unknown..Read] /\ MarksKnown(f, r)
    BY <2>2, <1>a, MarkedKnown
  <2>4. \A i \in Ids : f[i] # Unknown => g.pending[i] = Unknown
    BY <1>a, <1>2, <1>6
  <2>5. \A i \in Ids : f[i] >= g.shown[i]
    BY <1>a, <1>b, <1>2, <2>2
  <2> HIDE DEF f
  <2>6. LET h == [g EXCEPT !.shown = f]
        IN  /\ h \in PageStates /\ h.dot = g.dot /\ h.pc = g.pc /\ h.history = g.history
            /\ h.kept = g.kept /\ h.queue = g.queue /\ h.shown = f /\ h.pending = g.pending
    BY <2>3, <1>4 DEF PageStates
  <2> QED
    BY <1>1, <2>1, <2>3, <2>4, <2>5, <2>6 DEF GoodPage, NotBack
<1> QED
  BY <1>5, <1>6

LEMMA ReceivedPresence ==
    ASSUME NEW r, NEW g, GoodPage(g, r), NEW reader \in BOOLEAN, NEW on \in BOOLEAN
    PROVE  LET h == Received(g, PresenceEvent(reader, on))
           IN  /\ GoodPage(h, r) /\ NotBack(g, h) /\ h.pc = g.pc
               /\ h.dot = <<IF reader THEN "reader" ELSE "other", on>>
<1> DEFINE d == <<IF reader THEN "reader" ELSE "other", on>>
<1>1. Received(g, PresenceEvent(reader, on)) = [g EXCEPT !.dot = d]
  BY DEF Received, PresenceEvent
<1>2. d \in {"reader", "other", "none"} \X BOOLEAN
  OBVIOUS
<1> HIDE DEF d
<1>3. LET h == [g EXCEPT !.dot = d]
      IN  /\ h \in PageStates /\ h.dot = d /\ h.pc = g.pc /\ h.history = g.history
          /\ h.kept = g.kept /\ h.queue = g.queue /\ h.shown = g.shown /\ h.pending = g.pending
  BY <1>2 DEF GoodPage, PageStates
<1> QED
  BY SMTT(30), ZenonT(30), <1>1, <1>3, SameShown DEF GoodPage, d

LEMMA ReceivedMessage ==
    ASSUME NEW r, NEW g, GoodPage(g, r), NEW e \in Messages, Known(e, r)
    PROVE  LET h == Received(g, e)
           IN  GoodPage(h, r) /\ NotBack(g, h) /\ h.pc = g.pc /\ h.dot = g.dot
<1>0. e.type = "message" /\ g \in PageStates
  BY DEF Messages, GoodPage
<1>1. CASE g.complete
  <2> DEFINE q == Append(g.queue, e)
  <2>1. Received(g, e) = [g EXCEPT !.queue = q]
    BY <1>0, <1>1 DEF Received
  <2>2. q \in Seq(Messages) /\ AllKnown(q, r)
    BY <1>0, AllKnownAppend DEF GoodPage, PageStates
  <2> HIDE DEF q
  <2>3. LET h == [g EXCEPT !.queue = q]
        IN  /\ h \in PageStates /\ h.dot = g.dot /\ h.pc = g.pc /\ h.history = g.history
            /\ h.kept = g.kept /\ h.queue = q /\ h.shown = g.shown /\ h.pending = g.pending
    BY <2>2, <1>0 DEF PageStates
  <2> QED
    BY ZenonT(40), <2>1, <2>2, <2>3, <1>0, SameShown DEF GoodPage
<1>2. CASE ~ g.complete
  <2> DEFINE q == Append(g.kept, e)
  <2>1. Received(g, e) = [g EXCEPT !.kept = q]
    BY <1>0, <1>2 DEF Received
  <2>2. q \in Seq(Messages) /\ AllKnown(q, r)
    BY <1>0, AllKnownAppend DEF GoodPage, PageStates
  <2> HIDE DEF q
  <2>3. LET h == [g EXCEPT !.kept = q]
        IN  /\ h \in PageStates /\ h.dot = g.dot /\ h.pc = g.pc /\ h.history = g.history
            /\ h.kept = q /\ h.queue = g.queue /\ h.shown = g.shown /\ h.pending = g.pending
    BY <2>2, <1>0 DEF PageStates
  <2> QED
    BY <2>1, <2>2, <2>3, <1>0, SameShown DEF GoodPage
<1> QED
  BY <1>1, <1>2

LEMMA ReceivedComplete ==
    ASSUME NEW r, NEW g, GoodPage(g, r)
    PROVE  LET h == Received(g, [type |-> "complete"])
           IN  GoodPage(h, r) /\ NotBack(g, h) /\ h.pc = g.pc /\ h.dot = g.dot
<1> DEFINE q == g.queue \o Sorted(g.kept)
<1>0. g \in PageStates
  BY DEF GoodPage
<1>1. Received(g, [type |-> "complete"]) = [g EXCEPT !.complete = TRUE, !.queue = q, !.kept = <<>>]
  BY DEF Received
<1>2. q \in Seq(Messages) /\ AllKnown(q, r)
  BY <1>0, SortedKnown, AllKnownConcat DEF GoodPage, PageStates
<1> HIDE DEF q
<1>3. LET h == [g EXCEPT !.complete = TRUE, !.queue = q, !.kept = <<>>]
      IN  /\ h \in PageStates /\ h.dot = g.dot /\ h.pc = g.pc /\ h.history = g.history
          /\ h.kept = <<>> /\ h.queue = q /\ h.shown = g.shown /\ h.pending = g.pending
  <2>1. <<>> \in Seq(Messages)
    OBVIOUS
  <2> QED
    BY <2>1, <1>2, <1>0 DEF PageStates
<1>4. AllKnown(<<>>, r)
  BY DEF AllKnown
<1> QED
  BY SMTT(30), ZenonT(30), <1>1, <1>2, <1>3, <1>4, <1>0, SameShown DEF GoodPage

\* renderMessage of the first message of the queue.
LEMMA RenderedGood ==
    ASSUME NEW r \in Seq(Statuses), Len(r) <= MaxMessages, NEW g, GoodPage(g, r),
           NEW e \in Messages, Known(e, r), g.shown[e.id] = Unknown
    PROVE  LET h == Rendered(g, e)
           IN  GoodPage(h, r) /\ NotBack(g, h) /\ h.pc = g.pc /\ h.dot = g.dot
<1> DEFINE mark == resolveStatus(e.status, g.pending[e.id])
           f == [g.shown EXCEPT ![e.id] = mark]
           q == [g.pending EXCEPT ![e.id] = Unknown]
<1>0. g \in PageStates
  BY DEF GoodPage
<1>1. e.id \in Ids /\ e.status \in Statuses /\ e.status \in Unknown..Read
  BY DEF Messages, Statuses, Unknown, Sent, Read
<1>2. g.pending[e.id] \in Unknown..Read
  BY <1>0, <1>1 DEF PageStates
<1>3. mark \in {e.status, g.pending[e.id]} /\ mark >= Unknown /\ mark >= e.status
  BY <1>1, <1>2, ResolveStatus DEF Unknown, Read
<1>3a. mark # Unknown
  BY <1>1, <1>2, <1>3 DEF Statuses, Sent, Unknown, Read
<1>4. e.id \in DOMAIN r /\ mark \in Unknown..Read /\ mark <= r[e.id]
  BY <1>1, <1>2, <1>3, <1>3a DEF GoodPage, MarksKnown, Known
<1> HIDE DEF mark
<1>5. f \in [Ids -> Unknown..Read] /\ MarksKnown(f, r)
  BY <1>4, <1>1, <1>0 DEF GoodPage, PageStates, MarksKnown
<1>6. q \in [Ids -> Unknown..Read] /\ MarksKnown(q, r)
  BY <1>1, <1>0 DEF GoodPage, PageStates, MarksKnown, Unknown, Read
<1>7. \A i \in Ids : f[i] # Unknown => q[i] = Unknown
  BY <1>0, <1>1 DEF GoodPage, PageStates
<1>8. \A i \in Ids : f[i] >= g.shown[i]
  <2>1. \A i \in Ids : g.shown[i] \in Int
    BY <1>0 DEF PageStates, Unknown, Read
  <2> QED
    BY <2>1, <1>0, <1>3, <1>1 DEF PageStates, Unknown
<1> HIDE DEF f, q
<1>9. Rendered(g, e) = [g EXCEPT !.shown = f, !.pending = q]
  BY DEF Rendered, f, q, mark
<1> QED
  BY ZenonT(40), <1>5, <1>6, <1>7, <1>8, <1>9, <1>0 DEF GoodPage, PageStates, NotBack
-----------------------------------------------------------------------------
(* Rows only rise.                                                         *)

LEMMA RaisedRows ==
    ASSUME RowsOK, NEW status \in Statuses
    PROVE  LET r == Raised(Below(status), status)
           IN  /\ r \in Seq(Statuses) /\ DOMAIN r = DOMAIN row /\ Len(r) = Len(row)
               /\ Grows(row, r)
               /\ \A i \in DOMAIN row : r[i] = IF row[i] < status THEN status ELSE row[i]
<1> DEFINE r == Raised(Below(status), status)
<1>1. row \in [1..Len(row) -> Statuses] /\ Len(row) \in Nat
  BY DEF RowsOK
<1>2. \A i \in 1..Len(row) : r[i] = IF row[i] < status THEN status ELSE row[i]
  BY <1>1 DEF Raised, Below
<1>3. r \in [1..Len(row) -> Statuses]
  BY <1>1 DEF Raised, Below
<1>4. r \in Seq(Statuses) /\ Len(r) = Len(row)
  BY <1>1, <1>3
<1>5. \A i \in 1..Len(row) : row[i] \in Int /\ status \in Int
  BY <1>1 DEF Statuses, Sent, Read
<1> HIDE DEF r
<1> QED
  BY <1>1, <1>2, <1>3, <1>4, <1>5 DEF Grows, r

LEMMA RowSteps == KnowledgeInv /\ [StatusNext]_vars => RowsOK' /\ Grows(row, row')
<1> SUFFICES ASSUME KnowledgeInv, [StatusNext]_vars PROVE RowsOK' /\ Grows(row, row')
  OBVIOUS
<1>0. RowsOK /\ \A i \in DOMAIN row : row[i] \in Int
  BY DEF KnowledgeInv, RowsOK, Statuses, Sent, Read
<1>1. ASSUME NEW l \in Lines, MarkDelivered(l) PROVE RowsOK' /\ Grows(row, row')
  BY <1>0, <1>1, RaisedRows DEF MarkDelivered, RowsOK, Statuses, Sent, Delivered, Read
<1>2. ASSUME NEW v \in Visits, MarkRead(v) PROVE RowsOK' /\ Grows(row, row')
  BY <1>0, <1>2, RaisedRows DEF MarkRead, RowsOK, Statuses, Sent, Read
<1>3. ASSUME NEW p \in Pages, Commit(p) PROVE RowsOK' /\ Grows(row, row')
  <2>1. save[p].status \in Statuses /\ row' = Append(row, save[p].status)
    BY <1>3 DEF Commit, KnowledgeInv, SavesOK, GoodSave
  <2>2. Len(row) + 1 <= MaxMessages
    BY <1>3 DEF Commit
  <2>3. row' \in Seq(Statuses) /\ Len(row') = Len(row) + 1
    BY <2>1, <1>0 DEF RowsOK
  <2>4. \A i \in DOMAIN row : i \in DOMAIN row' /\ row'[i] = row[i]
    BY <2>1, <1>0 DEF RowsOK
  <2> QED
    BY <2>2, <2>3, <2>4, <1>0 DEF RowsOK, Grows
<1>4. CASE UNCHANGED row
  BY <1>4, <1>0 DEF RowsOK, Grows
<1> QED
  BY <1>1, <1>2, <1>3, <1>4 DEF StatusNext, vars, PageStep, SaveStep, LineStep, VisitStep,
     ReadHistory, Register, SendHistory, Render, Check, Refresh, SendCopies, Tell, Connect,
     Disconnect, RefreshForLine, TellForLine, RefreshForVisit, TellForVisit, RegisterVisit,
     EndVisit, RunLoop

-----------------------------------------------------------------------------
(* Pages show what is known, and never less than before.                   *)

PagesGood ==
    /\ page' \in [Pages -> PageStates]
    /\ \A p \in Pages : GoodPage(page'[p], row) /\ NotBack(page[p], page'[p])

\* A step that changes neither the dot nor which pages are registered.
Undisturbed ==
    \A p \in Pages :
        /\ page'[p].dot = page[p].dot
        /\ page'[p].pc \in {"none", "register"} <=> page[p].pc \in {"none", "register"}

LEMMA DeliverGood ==
    ASSUME PagesOK, NEW to, NEW e, Deliver(to, e),
           \A p \in Pages : LET h == Received(page[p], e)
                             IN  GoodPage(h, row) /\ NotBack(page[p], h) /\ h.pc = page[p].pc
    PROVE  PagesGood /\ \A p \in Pages : page'[p].pc = page[p].pc
<1>1. \A p \in Pages : NotBack(page[p], page[p])
  BY SameShown DEF PagesOK, GoodPage
<1>2. \A p \in Pages : page'[p] = IF p \in to THEN Received(page[p], e) ELSE page[p]
  BY DEF Deliver
<1>3. \A p \in Pages : GoodPage(page'[p], row) /\ NotBack(page[p], page'[p])
                            /\ page'[p].pc = page[p].pc
  BY <1>1, <1>2 DEF PagesOK
<1>4. page' = [p \in Pages |-> page'[p]]
  BY DEF Deliver
<1>5. \A p \in Pages : page'[p] \in PageStates
  BY <1>3 DEF GoodPage
<1> QED
  BY <1>3, <1>4, <1>5 DEF PagesGood

LEMMA DeliverStatusGood ==
    ASSUME RowsOK, PagesOK, NEW to, NEW e, e.type = "status", Known(e, row), e.status \in Statuses,
           Deliver(to, e)
    PROVE  PagesGood /\ Undisturbed
<1>1. \A p \in Pages : LET h == Received(page[p], e)
                        IN  /\ GoodPage(h, row) /\ NotBack(page[p], h) /\ h.pc = page[p].pc
                            /\ h.dot = page[p].dot
  BY ReceivedStatus DEF RowsOK, PagesOK
<1>2. \A p \in Pages : page'[p].dot = page[p].dot
  BY <1>1 DEF Deliver
<1> QED
  BY <1>1, <1>2, DeliverGood DEF Undisturbed

LEMMA AnnounceGood ==
    ASSUME RowsOK, PagesOK, NEW t, Known(t, row), t.status \in Statuses, Announce(t)
    PROVE  PagesGood /\ Undisturbed
<1> DEFINE e == [type |-> "status", id |-> t.id, status |-> t.status]
<1>1. e.type = "status" /\ Known(e, row) /\ e.status \in Statuses
  BY DEF Known
<1>2. Deliver(Registered, e)
  BY DEF Announce
<1> HIDE DEF e
<1> QED
  BY <1>1, <1>2, DeliverStatusGood

\* One page goes on by itself.
LEMMA OnePageGood ==
    ASSUME PagesOK, NEW p \in Pages, NEW g, page' = [page EXCEPT ![p] = g],
           GoodPage(g, row), NotBack(page[p], g)
    PROVE  PagesGood
<1>1. \A q \in Pages : NotBack(page[q], page[q])
  BY SameShown DEF PagesOK, GoodPage
<1>2. \A q \in Pages : page'[q] = IF q = p THEN g ELSE page[q]
  BY DEF PagesOK
<1>3. page' \in [Pages -> PageStates]
  BY DEF PagesOK, GoodPage
<1> QED
  BY <1>1, <1>2, <1>3 DEF PagesGood, PagesOK
LEMMA ReadHistoryGood ==
    ASSUME RowsOK, PagesOK, NEW p \in Pages, ReadHistory(p) PROVE PagesGood /\ Undisturbed
<1> DEFINE f == [i \in DOMAIN row |-> [type |-> "message", id |-> i, status |-> row[i]]]
           g == [page[p] EXCEPT !.pc = "register", !.history = f]
<1>1. row \in [1..Len(row) -> Statuses] /\ Len(row) \in Nat /\ DOMAIN row \subseteq Ids
  BY RowBounds DEF RowsOK
<1>2. \A i \in 1..Len(row) : f[i] \in Messages /\ Known(f[i], row)
  BY <1>1 DEF Messages, Known, Statuses, Sent, Read
<1>3. f \in [1..Len(row) -> Messages]
  BY <1>1, <1>2
<1>4. f \in Seq(Messages) /\ AllKnown(f, row)
  BY <1>1, <1>2, <1>3, SeqDef DEF AllKnown
<1> HIDE DEF f
<1>5. page[p] \in PageStates /\ page[p].pc = "none"
  BY DEF ReadHistory, PagesOK
<1>6. /\ g \in PageStates /\ g.dot = page[p].dot /\ g.pc = "register" /\ g.history = f
      /\ g.kept = page[p].kept /\ g.queue = page[p].queue /\ g.shown = page[p].shown
      /\ g.pending = page[p].pending
  BY <1>4, <1>5 DEF PageStates
<1>7. page' = [page EXCEPT ![p] = g]
  BY DEF ReadHistory, f
<1> HIDE DEF g
<1>8. GoodPage(g, row) /\ NotBack(page[p], g)
  BY <1>4, <1>5, <1>6, SameShown DEF PagesOK, GoodPage
<1>9. \A q \in Pages : page'[q] = IF q = p THEN g ELSE page[q]
  BY <1>7 DEF PagesOK
<1>10. Undisturbed
  BY <1>5, <1>6, <1>9 DEF Undisturbed
<1> QED
  BY <1>7, <1>8, <1>10, OnePageGood

\* The dot of a page that registers is the reader's.
LEMMA RegisterGood ==
    ASSUME PagesOK, NEW p \in Pages, Register(p)
    PROVE  /\ PagesGood /\ page[p].pc = "register"
           /\ page'[p].dot = <<"reader", is_online>> /\ page'[p].pc = "replay"
           /\ \A q \in Pages : q # p => page'[q] = page[q]
<1> DEFINE h == Received(page[p], PresenceEvent(TRUE, is_online))
           g == [h EXCEPT !.pc = "replay"]
<1>1. is_online \in BOOLEAN
  BY DEF is_online
<1>2. /\ GoodPage(h, row) /\ NotBack(page[p], h) /\ h.dot = <<"reader", is_online>>
  BY <1>1, ReceivedPresence DEF PagesOK
<1>3. page' = [page EXCEPT ![p] = g] /\ page[p].pc = "register"
  BY DEF Register, PresenceEvent
<1> HIDE DEF h
<1>4. /\ g \in PageStates /\ g.dot = h.dot /\ g.pc = "replay" /\ g.history = h.history
      /\ g.kept = h.kept /\ g.queue = h.queue /\ g.shown = h.shown /\ g.pending = h.pending
  BY <1>2 DEF PageStates, GoodPage
<1> HIDE DEF g
<1>5. GoodPage(g, row) /\ NotBack(page[p], g)
  BY <1>2, <1>4 DEF GoodPage, NotBack
<1>6. PagesGood
  BY <1>3, <1>5, OnePageGood
<1> QED
  BY <1>2, <1>3, <1>4, <1>6 DEF PagesOK

LEMMA SendHistoryGood ==
    ASSUME PagesOK, NEW p \in Pages, SendHistory(p) PROVE PagesGood /\ Undisturbed
<1>0. page[p] \in PageStates /\ page[p].pc = "replay" /\ GoodPage(page[p], row)
  BY DEF SendHistory, PagesOK
<1>1. CASE page[p].history = <<>>
  <2> DEFINE h == Received(page[p], [type |-> "complete"])
             g == [h EXCEPT !.pc = "live"]
  <2>1. GoodPage(h, row) /\ NotBack(page[p], h) /\ h.dot = page[p].dot
    BY <1>0, ReceivedComplete
  <2>2. page' = [page EXCEPT ![p] = g]
    BY <1>1 DEF SendHistory
  <2> HIDE DEF h
  <2>3. /\ g \in PageStates /\ g.dot = h.dot /\ g.pc = "live" /\ g.history = h.history
        /\ g.kept = h.kept /\ g.queue = h.queue /\ g.shown = h.shown /\ g.pending = h.pending
    BY <2>1 DEF PageStates, GoodPage
  <2> HIDE DEF g
  <2>4. GoodPage(g, row) /\ NotBack(page[p], g)
    BY <2>1, <2>3 DEF GoodPage, NotBack
  <2>5. \A q \in Pages : page'[q] = IF q = p THEN g ELSE page[q]
    BY <2>2 DEF PagesOK
  <2>6. Undisturbed
    BY <1>0, <2>1, <2>3, <2>5 DEF Undisturbed
  <2> QED
    BY <2>2, <2>4, <2>6, OnePageGood
<1>2. CASE page[p].history # <<>>
  <2> DEFINE e == Head(page[p].history)
             rest == Tail(page[p].history)
             c == [page[p] EXCEPT !.history = rest]
             g == Received(c, e)
  <2>1. /\ e \in Messages /\ Known(e, row)
        /\ rest \in Seq(Messages) /\ AllKnown(rest, row)
    BY <1>0, <1>2, AllKnownTail DEF GoodPage, PageStates
  <2>2. page' = [page EXCEPT ![p] = g]
    BY <1>2 DEF SendHistory
  <2> HIDE DEF e, rest
  <2>3. /\ c \in PageStates /\ c.dot = page[p].dot /\ c.pc = page[p].pc /\ c.history = rest
        /\ c.kept = page[p].kept /\ c.queue = page[p].queue /\ c.shown = page[p].shown
        /\ c.pending = page[p].pending
    BY <2>1, <1>0 DEF PageStates
  <2> HIDE DEF c
  <2>4. GoodPage(c, row)
    BY <2>1, <2>3, <1>0 DEF GoodPage
  <2>5. GoodPage(g, row) /\ NotBack(c, g) /\ g.pc = c.pc /\ g.dot = c.dot
    BY <2>1, <2>4, ReceivedMessage
  <2> HIDE DEF g
  <2>6. NotBack(page[p], g)
    BY <2>3, <2>5 DEF NotBack
  <2>7. \A q \in Pages : page'[q] = IF q = p THEN g ELSE page[q]
    BY <2>2 DEF PagesOK
  <2>8. Undisturbed
    BY <1>0, <2>3, <2>5, <2>7 DEF Undisturbed
  <2> QED
    BY <2>2, <2>5, <2>6, <2>8, OnePageGood
<1> QED
  BY <1>1, <1>2

LEMMA RenderGood ==
    ASSUME RowsOK, PagesOK, NEW p \in Pages, Render(p) PROVE PagesGood /\ Undisturbed
<1> DEFINE e == Head(page[p].queue)
           q == Tail(page[p].queue)
           rest == [page[p] EXCEPT !.queue = q]
           g == IF page[p].shown[e.id] = Unknown THEN Rendered(rest, e) ELSE rest
<1>0. page[p] \in PageStates /\ GoodPage(page[p], row) /\ page[p].queue # <<>>
  BY DEF Render, PagesOK
<1>1. /\ e \in Messages /\ Known(e, row) /\ q \in Seq(Messages) /\ AllKnown(q, row)
  BY <1>0, AllKnownTail DEF GoodPage, PageStates
<1>2. page' = [page EXCEPT ![p] = g]
  BY DEF Render
<1> HIDE DEF e, q
<1>3. /\ rest \in PageStates /\ rest.dot = page[p].dot /\ rest.pc = page[p].pc
      /\ rest.history = page[p].history /\ rest.kept = page[p].kept /\ rest.queue = q
      /\ rest.shown = page[p].shown /\ rest.pending = page[p].pending
  BY <1>0, <1>1 DEF PageStates
<1> HIDE DEF rest
<1>4. GoodPage(rest, row)
  BY <1>0, <1>1, <1>3 DEF GoodPage
<1>5. GoodPage(g, row) /\ NotBack(rest, g) /\ g.pc = page[p].pc /\ g.dot = page[p].dot
  <2>1. CASE page[p].shown[e.id] = Unknown
    BY <2>1, <1>1, <1>3, <1>4, RenderedGood DEF RowsOK
  <2>2. CASE page[p].shown[e.id] # Unknown
    BY <2>2, <1>3, <1>4, SameShown
  <2> QED
    BY <2>1, <2>2
<1> HIDE DEF g
<1>6. NotBack(page[p], g)
  BY <1>3, <1>5 DEF NotBack
<1>7. \A o \in Pages : page'[o] = IF o = p THEN g ELSE page[o]
  BY <1>2 DEF PagesOK
<1>8. Undisturbed
  BY <1>5, <1>7 DEF Undisturbed
<1> QED
  BY <1>2, <1>5, <1>6, <1>8, OnePageGood

LEMMA SendCopiesGood ==
    ASSUME RowsOK, PagesOK, SavesOK, NEW p \in Pages, SendCopies(p) PROVE PagesGood /\ Undisturbed
<1> DEFINE e == [type |-> "message", id |-> save[p].id, status |-> save[p].status]
<1>1. e \in Messages /\ Known(e, row)
  BY RowBounds DEF SendCopies, SavesOK, GoodSave, Messages, Known, RowsOK
<1>2. Deliver(Registered \cup {p}, e)
  BY DEF SendCopies
<1> HIDE DEF e
<1>3. \A q \in Pages : LET h == Received(page[q], e)
                        IN  /\ GoodPage(h, row) /\ NotBack(page[q], h) /\ h.pc = page[q].pc
                            /\ h.dot = page[q].dot
  BY <1>1, ReceivedMessage DEF PagesOK
<1>4. \A q \in Pages : page'[q].dot = page[q].dot
  BY <1>2, <1>3 DEF Deliver
<1> QED
  BY <1>2, <1>3, <1>4, DeliverGood DEF Undisturbed

\* An event about presence goes to the pages it was sent to, and only there.
LEMMA RunLoopGood ==
    ASSUME PagesOK, LoopOK, RunLoop
    PROVE  /\ PagesGood
           /\ \A p \in Pages : page'[p].pc = page[p].pc
           /\ LET b == Head(loop)
              IN  IF b.kind = "task" THEN page' = page
                  ELSE \A p \in Pages :
                          page'[p].dot =
                             IF p \in b.to
                             THEN <<IF b.by \in ReadersLines THEN "reader" ELSE "other", b.on>>
                             ELSE page[p].dot
<1> DEFINE b == Head(loop)
<1>1. loop # <<>> /\ b \in LoopItems
  BY DEF RunLoop, LoopOK
<1>2. CASE b.kind = "task"
  <2>1. page' = page
    BY <1>2 DEF RunLoop
  <2>2. \A p \in Pages : NotBack(page[p], page[p])
    BY SameShown DEF PagesOK, GoodPage
  <2> QED
    BY <1>2, <2>1, <2>2 DEF PagesGood, PagesOK
<1>3. CASE b.kind # "task"
  <2> DEFINE reader == b.by \in ReadersLines
             e == PresenceEvent(reader, b.on)
  <2>1. reader \in BOOLEAN /\ b.on \in BOOLEAN
    BY <1>1 DEF LoopItems
  <2>2. Deliver(b.to, e)
    BY <1>3 DEF RunLoop, PresenceEvent
  <2> HIDE DEF reader
  <2>3. \A p \in Pages : LET h == Received(page[p], e)
                          IN  /\ GoodPage(h, row) /\ NotBack(page[p], h) /\ h.pc = page[p].pc
                              /\ h.dot = <<IF reader THEN "reader" ELSE "other", b.on>>
    BY <2>1, ReceivedPresence DEF PagesOK
  <2> HIDE DEF e
  <2>4. PagesGood /\ \A p \in Pages : page'[p].pc = page[p].pc
    BY <2>2, <2>3, DeliverGood
  <2>5. \A p \in Pages : page'[p] = IF p \in b.to THEN Received(page[p], e) ELSE page[p]
    BY <2>2 DEF Deliver
  <2> QED
    BY <1>3, <2>3, <2>4, <2>5 DEF reader
<1> QED
  BY <1>2, <1>3

LEMMA PageSteps ==
    KnowledgeInv /\ [StatusNext]_vars =>
        PagesGood /\ (Undisturbed \/ RunLoop \/ \E p \in Pages : Register(p))
<1> SUFFICES ASSUME KnowledgeInv, [StatusNext]_vars
             PROVE  PagesGood /\ (Undisturbed \/ RunLoop \/ \E p \in Pages : Register(p))
  OBVIOUS
<1>0. RowsOK /\ PagesOK /\ SavesOK /\ LinesOK /\ VisitsOK /\ LoopOK
  BY DEF KnowledgeInv
<1>1. ASSUME NEW p \in Pages, ReadHistory(p) \/ SendHistory(p) \/ Render(p) \/ SendCopies(p)
      PROVE  PagesGood /\ Undisturbed
  BY <1>0, <1>1, ReadHistoryGood, SendHistoryGood, RenderGood, SendCopiesGood
<1>2. ASSUME NEW p \in Pages, Register(p) PROVE PagesGood
  BY <1>0, <1>2, RegisterGood
<1>3. ASSUME NEW p \in Pages, Tell(p) PROVE PagesGood /\ Undisturbed
  <2> DEFINE t == [id |-> save[p].id, status |-> save[p].status]
  <2>1. Known(t, row) /\ t.status \in Statuses /\ Announce(t)
    BY <1>0, <1>3 DEF Tell, SavesOK, GoodSave, Known
  <2> QED
    BY <1>0, <2>1, AnnounceGood
<1>4. ASSUME NEW l \in Lines, TellForLine(l) PROVE PagesGood /\ Undisturbed
  <2>1. PICK t \in line[l].tell : Announce(t)
    BY <1>4 DEF TellForLine
  <2>2. Known(t, row) /\ t.status \in Statuses
    BY <1>0 DEF LinesOK, LineStates, HandlerKnows, Told
  <2> QED
    BY <1>0, <2>1, <2>2, AnnounceGood
<1>5. ASSUME NEW v \in Visits, TellForVisit(v) PROVE PagesGood /\ Undisturbed
  <2>1. PICK t \in visit[v].tell : Announce(t)
    BY <1>5 DEF TellForVisit
  <2>2. Known(t, row) /\ t.status \in Statuses
    BY <1>0 DEF VisitsOK, VisitStates, HandlerKnows, Told
  <2> QED
    BY <1>0, <2>1, <2>2, AnnounceGood
<1>6. CASE RunLoop
  BY <1>0, <1>6, RunLoopGood
<1>7. CASE UNCHANGED page
  <2>1. \A p \in Pages : NotBack(page[p], page[p])
    BY <1>0, SameShown DEF PagesOK, GoodPage
  <2> QED
    BY <1>0, <1>7, <2>1 DEF PagesGood, PagesOK, Undisturbed
<1>8. \/ UNCHANGED page \/ RunLoop
      \/ \E p \in Pages : ReadHistory(p) \/ SendHistory(p) \/ Render(p) \/ SendCopies(p)
                            \/ Register(p) \/ Tell(p)
      \/ \E l \in Lines : TellForLine(l)
      \/ \E v \in Visits : TellForVisit(v)
  BY DEF StatusNext, vars, PageStep, SaveStep, LineStep, VisitStep, Check, Commit, Refresh,
     Connect, Disconnect, MarkDelivered, RefreshForLine, MarkRead, RefreshForVisit,
     RegisterVisit, EndVisit
<1> QED
  BY <1>1, <1>2, <1>3, <1>4, <1>5, <1>6, <1>7, <1>8
-----------------------------------------------------------------------------
(* The handlers know what they tell.                                       *)

\* What a query that marks the messages leaves with the handlers that save one meanwhile.
LEMMA CrossedSaves ==
    ASSUME SavesOK, NEW what \in Excuses, NEW status
    PROVE  /\ Crossed(what, status) \in [Pages -> SaveStates]
           /\ \A p \in Pages :
                LET s == Crossed(what, status)[p]
                IN  /\ s.pc = save[p].pc /\ s.id = save[p].id /\ s.status = save[p].status
                    /\ save[p].across \subseteq s.across
                    /\ save[p].pc = "commit" /\ save[p].status < status => what \in s.across
<1>1. ASSUME NEW p \in Pages
      PROVE  LET s == Crossed(what, status)[p]
             IN  /\ s \in SaveStates
                 /\ s.pc = save[p].pc /\ s.id = save[p].id /\ s.status = save[p].status
                 /\ save[p].across \subseteq s.across
                 /\ save[p].pc = "commit" /\ save[p].status < status => what \in s.across
  <2> DEFINE a == save[p].across \cup {what}
  <2>1. save[p] \in SaveStates /\ a \in SUBSET Excuses /\ what \in a
    BY DEF SavesOK, SaveStates
  <2>2. Crossed(what, status)[p] = IF save[p].pc = "commit" /\ save[p].status < status
                                   THEN [save[p] EXCEPT !.across = a] ELSE save[p]
    BY DEF Crossed
  <2>3. save[p].across \subseteq a
    OBVIOUS
  <2> HIDE DEF a
  <2> QED
    BY <2>1, <2>2, <2>3 DEF SaveStates
<1>2. Crossed(what, status) = [p \in Pages |-> Crossed(what, status)[p]]
  BY DEF Crossed
<1> HIDE DEF Crossed
<1> QED
  BY <1>1, <1>2

LEMMA SaveSteps == KnowledgeInv /\ [StatusNext]_vars => SavesOK'
<1> SUFFICES ASSUME KnowledgeInv, [StatusNext]_vars PROVE SavesOK'
  OBVIOUS
<1>0. RowsOK /\ SavesOK /\ RowsOK' /\ Grows(row, row')
  BY RowSteps DEF KnowledgeInv
<1>a. \A p \in Pages : GoodSave(save[p], row')
  BY <1>0, GoodSaveGrows DEF SavesOK, RowsOK
<1>b. ASSUME NEW p \in Pages, NEW s, save' = [save EXCEPT ![p] = s], GoodSave(s, row')
      PROVE  SavesOK'
  <2>1. \A q \in Pages : save'[q] = IF q = p THEN s ELSE save[q]
    BY <1>0, <1>b DEF SavesOK
  <2>2. save' \in [Pages -> SaveStates]
    BY <1>0, <1>b DEF SavesOK, GoodSave
  <2> QED
    BY <1>a, <1>b, <2>1, <2>2 DEF SavesOK
<1>c. ASSUME NEW what \in Excuses, NEW status, save' = Crossed(what, status) PROVE SavesOK'
  BY <1>0, <1>a, <1>c, CrossedSaves DEF SavesOK, GoodSave
<1>1. ASSUME NEW l \in Lines, MarkDelivered(l) PROVE SavesOK'
  BY <1>1, <1>c DEF MarkDelivered, Excuses
<1>2. ASSUME NEW v \in Visits, MarkRead(v) PROVE SavesOK'
  BY <1>2, <1>c DEF MarkRead, Excuses
<1>3. ASSUME NEW p \in Pages, Check(p) PROVE SavesOK'
  <2> DEFINE a == (IF has_chat_user /\ ~ is_online THEN {"offline"} ELSE {}) \cup
                  (IF \E v \in Visits : visit[v].pc \in {"refresh", "tell", "register"}
                   THEN {"visit"} ELSE {})
             s == [pc |-> "commit", id |-> 0, status |-> StatusNow, across |-> a]
  <2>1. a \in SUBSET Excuses
    BY DEF Excuses
  <2>2. save' = [save EXCEPT ![p] = s]
    BY <1>3 DEF Check
  <2>3. StatusNow \in Statuses /\ StatusNow \in Unknown..Read
    BY DEF StatusNow, Statuses, Unknown, Sent, Delivered, Read
  <2> HIDE DEF a
  <2>4. 0 \in 0..MaxMessages
    BY StatusAssumption
  <2>5. GoodSave(s, row')
    BY <2>1, <2>3, <2>4 DEF GoodSave, SaveStates
  <2> QED
    BY <2>2, <2>5, <1>b
<1>4. ASSUME NEW p \in Pages, Commit(p) PROVE SavesOK'
  <2> DEFINE i == Len(row) + 1
             s == [Idle EXCEPT !.pc = "refresh", !.id = i]
  <2>1. i \in 0..MaxMessages /\ row' = Append(row, save[p].status)
    BY <1>0, <1>4, StatusAssumption DEF Commit, RowsOK
  <2>2. save[p].status \in Statuses
    BY <1>0, <1>4 DEF Commit, SavesOK, GoodSave
  <2>3. i \in DOMAIN row'
    BY <1>0, <2>1, <2>2 DEF RowsOK
  <2>4. save' = [save EXCEPT ![p] = s]
    BY <1>4 DEF Commit
  <2> HIDE DEF i
  <2>5. Idle \in SaveStates
    BY StatusAssumption DEF Idle, SaveStates, Unknown, Read
  <2>6. s \in SaveStates /\ s.pc = "refresh" /\ s.id = i
    BY <2>1, <2>5 DEF SaveStates
  <2> HIDE DEF s
  <2>7. GoodSave(s, row')
    BY <2>3, <2>6 DEF GoodSave
  <2> QED
    BY <2>4, <2>7, <1>b
<1>5. ASSUME NEW p \in Pages, Refresh(p) PROVE SavesOK'
  <2> DEFINE i == save[p].id
             s == [Idle EXCEPT !.pc = "copies", !.id = i, !.status = row[i]]
  <2>1. i \in DOMAIN row /\ i \in 0..MaxMessages /\ row' = row
    BY <1>0, <1>5 DEF Refresh, SavesOK, GoodSave, SaveStates
  <2>2. row[i] \in Statuses /\ row[i] \in Unknown..Read /\ row[i] <= row[i]
    BY <1>0, <2>1 DEF RowsOK, Statuses, Unknown, Sent, Read
  <2>3. save' = [save EXCEPT ![p] = s]
    BY <1>5 DEF Refresh
  <2> HIDE DEF i
  <2>4a. Idle \in SaveStates
    BY StatusAssumption DEF Idle, SaveStates, Unknown, Read
  <2>4. s \in SaveStates /\ s.pc = "copies" /\ s.id = i /\ s.status = row[i]
    BY <2>1, <2>2, <2>4a DEF SaveStates
  <2> HIDE DEF s
  <2>5. GoodSave(s, row')
    BY <2>1, <2>2, <2>4 DEF GoodSave
  <2> QED
    BY <2>3, <2>5, <1>b
<1>6. ASSUME NEW p \in Pages, SendCopies(p) PROVE SavesOK'
  <2> DEFINE s == [save[p] EXCEPT !.pc = "tell"]
  <2>1. save[p] \in SaveStates /\ save[p].pc = "copies" /\ GoodSave(save[p], row')
    BY <1>0, <1>a, <1>6 DEF SendCopies, SavesOK
  <2>2. /\ s \in SaveStates /\ s.pc = "tell" /\ s.id = save[p].id /\ s.status = save[p].status
    BY <2>1 DEF SaveStates
  <2>3. save' = [save EXCEPT ![p] = s]
    BY <1>6 DEF SendCopies
  <2> HIDE DEF s
  <2>4. GoodSave(s, row')
    BY <2>1, <2>2 DEF GoodSave
  <2> QED
    BY <2>3, <2>4, <1>b
<1>7. ASSUME NEW p \in Pages, Tell(p) PROVE SavesOK'
  <2>1. Idle \in SaveStates /\ Idle.pc = "idle"
    BY StatusAssumption DEF Idle, SaveStates, Unknown, Read
  <2>2. GoodSave(Idle, row')
    BY <2>1 DEF GoodSave
  <2> QED
    BY <1>7, <2>2, <1>b DEF Tell
<1>8. CASE UNCHANGED save
  BY <1>0, <1>a, <1>8 DEF SavesOK
<1>9. \/ UNCHANGED save
      \/ \E l \in Lines : MarkDelivered(l)
      \/ \E v \in Visits : MarkRead(v)
      \/ \E p \in Pages : Check(p) \/ Commit(p) \/ Refresh(p) \/ SendCopies(p) \/ Tell(p)
  BY DEF StatusNext, vars, PageStep, SaveStep, LineStep, VisitStep, ReadHistory, Register,
     SendHistory, Render, Connect, Disconnect, RefreshForLine, TellForLine, RefreshForVisit,
     TellForVisit, RegisterVisit, EndVisit, RunLoop
<1> QED
  BY <1>1, <1>2, <1>3, <1>4, <1>5, <1>6, <1>7, <1>8, <1>9

LEMMA MarkedKnows ==
    ASSUME NEW ids \in SUBSET Ids, NEW next, NEW r, ids \subseteq DOMAIN r
    PROVE  LET h == Marked(ids, next)
           IN  /\ h \in [pc : {next, "refresh"}, ids : SUBSET Ids, tell : SUBSET Told]
               /\ HandlerKnows(h, r)
  BY DEF Marked, NoHandler, HandlerKnows

LEMMA RefreshedKnows ==
    ASSUME RowsOK, NEW h, h.ids \subseteq DOMAIN row
    PROVE  /\ Refreshed(h) \in [pc : {"tell"}, ids : SUBSET Ids, tell : SUBSET Told]
           /\ HandlerKnows(Refreshed(h), row)
<1> DEFINE t(i) == [id |-> i, status |-> row[i]]
<1>1. \A i \in h.ids : t(i) \in Told /\ Known(t(i), row)
  <2>1. \A i \in h.ids : i \in Ids /\ row[i] \in Statuses /\ row[i] <= row[i]
    BY RowBounds DEF RowsOK, Statuses, Sent, Read
  <2> QED
    BY <2>1 DEF Told, Known
<1>2. Refreshed(h) = [pc |-> "tell", ids |-> {}, tell |-> {t(i) : i \in h.ids}]
  BY DEF Refreshed
<1> HIDE DEF t
<1>3. {t(i) : i \in h.ids} \in SUBSET Told /\ \A u \in {t(i) : i \in h.ids} : Known(u, row)
  BY <1>1
<1> QED
  BY <1>2, <1>3 DEF HandlerKnows

LEMMA RestKnows ==
    ASSUME NEW pcs, NEW h \in [pc : pcs, ids : SUBSET Ids, tell : SUBSET Told],
           NEW next \in pcs, NEW t, NEW r, HandlerKnows(h, r)
    PROVE  Rest(h, t, next) \in [pc : pcs, ids : SUBSET Ids, tell : SUBSET Told]
           /\ HandlerKnows(Rest(h, t, next), r) /\ Rest(h, t, next).pc \in {h.pc, next}
  BY DEF Rest, NoHandler, HandlerKnows
LEMMA LineSteps == KnowledgeInv /\ [StatusNext]_vars => LinesOK'
<1> SUFFICES ASSUME KnowledgeInv, [StatusNext]_vars PROVE LinesOK'
  OBVIOUS
<1>0. RowsOK /\ LinesOK /\ RowsOK' /\ Grows(row, row')
  BY RowSteps DEF KnowledgeInv
<1>a. \A l \in Lines : line[l] \in LineStates /\ HandlerKnows(line[l], row')
  BY <1>0, HandlerKnowsGrows DEF LinesOK, LineStates, RowsOK
<1>b. ASSUME NEW l \in Lines, NEW h, line' = [line EXCEPT ![l] = h], h \in LineStates,
             HandlerKnows(h, row')
      PROVE  LinesOK'
  <2>1. \A k \in Lines : line'[k] = IF k = l THEN h ELSE line[k]
    BY <1>0, <1>b DEF LinesOK
  <2>2. line' \in [Lines -> LineStates]
    BY <1>0, <1>b DEF LinesOK
  <2> QED
    BY <1>a, <1>b, <2>1, <2>2 DEF LinesOK
<1>1. ASSUME NEW l \in Lines, Connect(l) PROVE LinesOK'
  <2> DEFINE h == [NoHandler EXCEPT !.pc = "mark"]
  <2>1. h \in LineStates /\ HandlerKnows(h, row')
    BY DEF NoHandler, LineStates, HandlerKnows
  <2> QED
    BY <1>1, <2>1, <1>b DEF Connect
<1>2. ASSUME NEW l \in Lines, MarkDelivered(l) PROVE LinesOK'
  <2> DEFINE ids == Below(Delivered)
             h == Marked(ids, "open")
  <2>1. line' = [line EXCEPT ![l] = h]
    BY <1>2 DEF MarkDelivered
  <2>2. ids \subseteq DOMAIN row' /\ ids \in SUBSET Ids
    BY <1>0, RowBounds DEF Below, Grows, RowsOK
  <2> HIDE DEF ids
  <2>3. h \in [pc : {"open", "refresh"}, ids : SUBSET Ids, tell : SUBSET Told]
        /\ HandlerKnows(h, row')
    BY <2>2, MarkedKnows
  <2> HIDE DEF h
  <2>4. h \in LineStates
    BY <2>3 DEF LineStates
  <2> QED
    BY <2>1, <2>3, <2>4, <1>b
<1>3. ASSUME NEW l \in Lines, RefreshForLine(l) PROVE LinesOK'
  <2> DEFINE h == Refreshed(line[l])
  <2>1. line' = [line EXCEPT ![l] = h] /\ row' = row
    BY <1>3 DEF RefreshForLine
  <2>2. h \in [pc : {"tell"}, ids : SUBSET Ids, tell : SUBSET Told] /\ HandlerKnows(h, row)
    BY <1>0, RefreshedKnows DEF LinesOK, HandlerKnows
  <2> HIDE DEF h
  <2>3. h \in LineStates
    BY <2>2 DEF LineStates
  <2> QED
    BY <2>1, <2>2, <2>3, <1>b
<1>4. ASSUME NEW l \in Lines, TellForLine(l) PROVE LinesOK'
  <2>1. PICK t \in line[l].tell : line' = [line EXCEPT ![l] = Rest(line[l], t, "open")]
    BY <1>4 DEF TellForLine
  <2> DEFINE h == Rest(line[l], t, "open")
             pcs == {"none", "mark", "refresh", "tell", "open"}
  <2>2. line[l] \in [pc : pcs, ids : SUBSET Ids, tell : SUBSET Told] /\ "open" \in pcs
    BY <1>a DEF LineStates
  <2> HIDE DEF pcs
  <2>3. h \in [pc : pcs, ids : SUBSET Ids, tell : SUBSET Told] /\ HandlerKnows(h, row')
    BY <1>a, <2>2, RestKnows
  <2> HIDE DEF h
  <2>4. h \in LineStates
    BY <2>3 DEF LineStates, pcs
  <2> QED
    BY <2>1, <2>3, <2>4, <1>b DEF h
<1>5. CASE UNCHANGED line
  BY <1>0, <1>a, <1>5 DEF LinesOK
<1>6. \/ UNCHANGED line
      \/ \E l \in Lines : Connect(l) \/ MarkDelivered(l) \/ RefreshForLine(l) \/ TellForLine(l)
  BY DEF StatusNext, vars, readerVars, PageStep, SaveStep, LineStep, VisitStep, ReadHistory,
     Register, SendHistory, Render, Check, Commit, Refresh, SendCopies, Tell, Disconnect,
     MarkRead, RefreshForVisit, TellForVisit, RegisterVisit, EndVisit, RunLoop
<1> QED
  BY <1>1, <1>2, <1>3, <1>4, <1>5, <1>6

LEMMA VisitSteps == KnowledgeInv /\ [StatusNext]_vars => VisitsOK'
<1> SUFFICES ASSUME KnowledgeInv, [StatusNext]_vars PROVE VisitsOK'
  OBVIOUS
<1>0. RowsOK /\ VisitsOK /\ RowsOK' /\ Grows(row, row')
  BY RowSteps DEF KnowledgeInv
<1>a. \A v \in Visits : visit[v] \in VisitStates /\ HandlerKnows(visit[v], row')
  BY <1>0, HandlerKnowsGrows DEF VisitsOK, VisitStates, RowsOK
<1>b. ASSUME NEW v \in Visits, NEW h, visit' = [visit EXCEPT ![v] = h], h \in VisitStates,
             HandlerKnows(h, row')
      PROVE  VisitsOK'
  <2>1. \A k \in Visits : visit'[k] = IF k = v THEN h ELSE visit[k]
    BY <1>0, <1>b DEF VisitsOK
  <2>2. visit' \in [Visits -> VisitStates]
    BY <1>0, <1>b DEF VisitsOK
  <2> QED
    BY <1>a, <1>b, <2>1, <2>2 DEF VisitsOK
<1>1. ASSUME NEW v \in Visits, MarkRead(v) PROVE VisitsOK'
  <2> DEFINE ids == Below(Read)
             h == Marked(ids, "register")
  <2>1. visit' = [visit EXCEPT ![v] = h]
    BY <1>1 DEF MarkRead
  <2>2. ids \subseteq DOMAIN row' /\ ids \in SUBSET Ids
    BY <1>0, RowBounds DEF Below, Grows, RowsOK
  <2> HIDE DEF ids
  <2>3. h \in [pc : {"register", "refresh"}, ids : SUBSET Ids, tell : SUBSET Told]
        /\ HandlerKnows(h, row')
    BY <2>2, MarkedKnows
  <2> HIDE DEF h
  <2>4. h \in VisitStates
    BY <2>3 DEF VisitStates
  <2> QED
    BY <2>1, <2>3, <2>4, <1>b
<1>2. ASSUME NEW v \in Visits, RefreshForVisit(v) PROVE VisitsOK'
  <2> DEFINE h == Refreshed(visit[v])
  <2>1. visit' = [visit EXCEPT ![v] = h] /\ row' = row
    BY <1>2 DEF RefreshForVisit
  <2>2. h \in [pc : {"tell"}, ids : SUBSET Ids, tell : SUBSET Told] /\ HandlerKnows(h, row)
    BY <1>0, RefreshedKnows DEF VisitsOK, HandlerKnows
  <2> HIDE DEF h
  <2>3. h \in VisitStates
    BY <2>2 DEF VisitStates
  <2> QED
    BY <2>1, <2>2, <2>3, <1>b
<1>3. ASSUME NEW v \in Visits, TellForVisit(v) PROVE VisitsOK'
  <2>1. PICK t \in visit[v].tell : visit' = [visit EXCEPT ![v] = Rest(visit[v], t, "register")]
    BY <1>3 DEF TellForVisit
  <2> DEFINE h == Rest(visit[v], t, "register")
             pcs == {"none", "refresh", "tell", "register", "open", "ended"}
  <2>2. visit[v] \in [pc : pcs, ids : SUBSET Ids, tell : SUBSET Told] /\ "register" \in pcs
    BY <1>a DEF VisitStates
  <2> HIDE DEF pcs
  <2>3. h \in [pc : pcs, ids : SUBSET Ids, tell : SUBSET Told] /\ HandlerKnows(h, row')
    BY <1>a, <2>2, RestKnows
  <2> HIDE DEF h
  <2>4. h \in VisitStates
    BY <2>3 DEF VisitStates, pcs
  <2> QED
    BY <2>1, <2>3, <2>4, <1>b DEF h
<1>4. ASSUME NEW v \in Visits, RegisterVisit(v) PROVE VisitsOK'
  <2> DEFINE h == [NoHandler EXCEPT !.pc = "open"]
  <2>1. h \in VisitStates /\ HandlerKnows(h, row')
    BY DEF NoHandler, VisitStates, HandlerKnows
  <2> QED
    BY <1>4, <2>1, <1>b DEF RegisterVisit
<1>5. ASSUME NEW v \in Visits, EndVisit(v) PROVE VisitsOK'
  <2> DEFINE h == [NoHandler EXCEPT !.pc = "ended"]
  <2>1. h \in VisitStates /\ HandlerKnows(h, row')
    BY DEF NoHandler, VisitStates, HandlerKnows
  <2> QED
    BY <1>5, <2>1, <1>b DEF EndVisit
<1>6. CASE UNCHANGED visit
  BY <1>0, <1>a, <1>6 DEF VisitsOK
<1>7. \/ UNCHANGED visit
      \/ \E v \in Visits : \/ MarkRead(v) \/ RefreshForVisit(v) \/ TellForVisit(v)
                            \/ RegisterVisit(v) \/ EndVisit(v)
  BY ZenonT(40) DEF StatusNext, vars, readerVars, PageStep, SaveStep, LineStep, VisitStep, ReadHistory,
     Register, SendHistory, Render, Check, Commit, Refresh, SendCopies, Tell, Connect, Disconnect,
     MarkDelivered, RefreshForLine, TellForLine, RunLoop
<1> QED
  BY <1>1, <1>2, <1>3, <1>4, <1>5, <1>6, <1>7

LEMMA LoopSteps == LoopOK /\ PagesOK /\ [StatusNext]_vars => LoopOK'
<1> SUFFICES ASSUME LoopOK, PagesOK, [StatusNext]_vars PROVE LoopOK'
  OBVIOUS
<1>0. \A l \in Lines : \A on \in BOOLEAN :
         /\ Broadcast(l, on) \in LoopItems
         /\ [Broadcast(l, on) EXCEPT !.kind = "task"] \in LoopItems
  BY DEF Broadcast, LoopItems, Registered
<1>1. ASSUME NEW l \in Lines, Connect(l) PROVE LoopOK'
  <2> DEFINE b == Broadcast(l, TRUE)
  <2>1. b \in LoopItems
    BY <1>0
  <2>2. connected' = connected \cup {l} /\ loop' \in {loop, Append(loop, b)}
    BY <1>1 DEF Connect
  <2> HIDE DEF b
  <2> QED
    BY <2>1, <2>2 DEF LoopOK
<1>2. ASSUME NEW l \in Lines, Disconnect(l) PROVE LoopOK'
  <2> DEFINE b == [Broadcast(l, FALSE) EXCEPT !.kind = "task"]
  <2>1. b \in LoopItems
    BY <1>0
  <2>2. connected' = connected \ {l} /\ loop' \in {loop, Append(loop, b)}
    BY <1>2 DEF Disconnect
  <2> HIDE DEF b
  <2> QED
    BY <2>1, <2>2 DEF LoopOK
<1>3. CASE RunLoop
  <2>1. Head(loop) \in LoopItems /\ Tail(loop) \in Seq(LoopItems)
    BY <1>3 DEF RunLoop, LoopOK
  <2>2. Broadcast(Head(loop).by, Head(loop).on) \in LoopItems
    BY <1>0, <2>1 DEF LoopItems
  <2>3. connected' = connected /\ loop' \in {Tail(loop), Append(Tail(loop), Broadcast(Head(loop).by, Head(loop).on))}
    BY <1>3 DEF RunLoop
  <2> QED
    BY <2>1, <2>2, <2>3 DEF LoopOK
<1>4. CASE UNCHANGED <<connected, loop>>
  BY <1>4 DEF LoopOK
<1> QED
  BY <1>1, <1>2, <1>3, <1>4 DEF StatusNext, vars, readerVars, PageStep, SaveStep, LineStep,
     VisitStep, ReadHistory, Register, SendHistory, Render, Check, Commit, Refresh, SendCopies,
     Tell, MarkDelivered, RefreshForLine, TellForLine, MarkRead, RefreshForVisit, TellForVisit,
     RegisterVisit, EndVisit
LEMMA HistorySteps == KnowledgeInv /\ [StatusNext]_vars => HistoryOK'
<1> SUFFICES ASSUME KnowledgeInv, [StatusNext]_vars PROVE HistoryOK'
  OBVIOUS
<1>0. HistoryOK /\ RowsOK /\ SavesOK /\ LinesOK /\ VisitsOK /\ LoopOK
  BY DEF KnowledgeInv
<1>a. ASSUME NEW t, t.id \in Ids, Announce(t) PROVE missed' \in SUBSET (Pages \X Ids)
  BY <1>0, <1>a DEF Announce, HistoryOK
<1>1. ASSUME NEW l \in Lines, Connect(l) PROVE HistoryOK'
  BY <1>0, <1>1 DEF Connect, HistoryOK
<1>2. ASSUME NEW l \in Lines, Disconnect(l) PROVE HistoryOK'
  BY <1>0, <1>2 DEF Disconnect, HistoryOK
<1>3. ASSUME NEW l \in Lines, TellForLine(l) PROVE HistoryOK'
  <2>1. PICK t \in line[l].tell : Announce(t)
    BY <1>3 DEF TellForLine
  <2>2. t.id \in Ids
    BY <1>0 DEF LinesOK, LineStates, Told
  <2> QED
    BY <1>0, <1>3, <1>a, <2>1, <2>2 DEF TellForLine, HistoryOK
<1>4. ASSUME NEW v \in Visits, TellForVisit(v) PROVE HistoryOK'
  <2>1. PICK t \in visit[v].tell : Announce(t)
    BY <1>4 DEF TellForVisit
  <2>2. t.id \in Ids
    BY <1>0 DEF VisitsOK, VisitStates, Told
  <2> QED
    BY <1>0, <1>4, <1>a, <2>1, <2>2 DEF TellForVisit, HistoryOK
<1>5. ASSUME NEW p \in Pages, Commit(p) PROVE HistoryOK'
  <2>1. save[p].across \in SUBSET Excuses
    BY <1>0 DEF SavesOK, SaveStates
  <2> QED
    BY <1>0, <1>5, <2>1 DEF Commit, HistoryOK, readerVars
<1>6. ASSUME NEW p \in Pages, SendCopies(p) PROVE HistoryOK'
  <2>1. save[p].id \in Ids
    BY <1>0, <1>6, RowBounds DEF SendCopies, SavesOK, GoodSave, RowsOK
  <2> QED
    BY <1>0, <1>6, <2>1 DEF SendCopies, HistoryOK, readerVars
<1>7. ASSUME NEW p \in Pages, Tell(p) PROVE HistoryOK'
  <2> DEFINE t == [id |-> save[p].id, status |-> save[p].status]
  <2>1. t.id \in Ids /\ Announce(t)
    BY <1>0, <1>7, RowBounds DEF Tell, SavesOK, GoodSave, RowsOK
  <2>2. missed' \in SUBSET (Pages \X Ids)
    BY <1>a, <2>1
  <2> QED
    BY <1>0, <1>7, <2>2 DEF Tell, HistoryOK, readerVars
<1>8. CASE UNCHANGED <<missed, late, raced>>
  BY <1>0, <1>8 DEF HistoryOK
<1> QED
  BY <1>1, <1>2, <1>3, <1>4, <1>5, <1>6, <1>7, <1>8 DEF StatusNext, vars, readerVars, PageStep,
     SaveStep, LineStep, VisitStep, ReadHistory, Register, SendHistory, Render, Check, Refresh,
     MarkDelivered, RefreshForLine, MarkRead, RefreshForVisit, RegisterVisit, EndVisit, RunLoop

LEMMA KnowledgeStep == KnowledgeInv /\ [StatusNext]_vars => KnowledgeInv'
<1> SUFFICES ASSUME KnowledgeInv, [StatusNext]_vars PROVE KnowledgeInv'
  OBVIOUS
<1>1. RowsOK' /\ Grows(row, row')
  BY RowSteps
<1>2. PagesGood
  BY PageSteps
<1>3. PagesOK'
  <2>1. ASSUME NEW p \in Pages PROVE GoodPage(page'[p], row')
    BY <1>1, <1>2, GoodPageGrows DEF PagesGood, KnowledgeInv, RowsOK
  <2> QED
    BY <1>2, <2>1 DEF PagesGood, PagesOK
<1> QED
  BY <1>1, <1>3, SaveSteps, LineSteps, VisitSteps, LoopSteps, HistorySteps DEF KnowledgeInv

LEMMA KnowledgeInit == StatusInit => KnowledgeInv
<1> SUFFICES ASSUME StatusInit PROVE KnowledgeInv
  OBVIOUS
<1>1. RowsOK /\ row = <<>>
  BY StatusAssumption DEF StatusInit, RowsOK
<1>2. PagesOK
  <2> DEFINE g == [pc |-> "none", history |-> <<>>, complete |-> FALSE,
                   kept |-> <<>>, queue |-> <<>>, shown |-> Nothing, pending |-> Nothing,
                   dot |-> <<"none", FALSE>>]
  <2>1. Nothing \in [Ids -> Unknown..Read] /\ \A i \in Ids : Nothing[i] = Unknown
    BY DEF Nothing, Unknown, Read
  <2>2. <<>> \in Seq(Messages) /\ AllKnown(<<>>, row)
    BY DEF AllKnown
  <2>3. g \in PageStates
    BY <2>1, <2>2 DEF PageStates
  <2>4. GoodPage(g, row)
    BY <2>1, <2>2, <2>3 DEF GoodPage, MarksKnown
  <2>5. page = [p \in Pages |-> g]
    BY DEF StatusInit
  <2> HIDE DEF g
  <2> QED
    BY <2>3, <2>4, <2>5 DEF PagesOK
<1>3. SavesOK
  <2>1. Idle \in SaveStates /\ Idle.pc = "idle"
    BY StatusAssumption DEF Idle, SaveStates, Unknown, Read
  <2>2. GoodSave(Idle, row)
    BY <2>1 DEF GoodSave
  <2> QED
    BY <2>1, <2>2 DEF StatusInit, SavesOK
<1>4. LinesOK /\ VisitsOK
  <2>1. NoHandler \in LineStates /\ NoHandler \in VisitStates /\ HandlerKnows(NoHandler, row)
    BY DEF NoHandler, LineStates, VisitStates, HandlerKnows
  <2> QED
    BY <2>1 DEF StatusInit, LinesOK, VisitsOK
<1>5. LoopOK /\ HistoryOK
  <2>1. <<>> \in Seq(LoopItems)
    OBVIOUS
  <2>2. LoopOK
    BY <2>1 DEF StatusInit, LoopOK
  <2> QED
    BY <2>2 DEF StatusInit, HistoryOK
<1> QED
  BY <1>1, <1>2, <1>3, <1>4, <1>5 DEF KnowledgeInv

LEMMA KnowledgeAlways == StatusSpec => []KnowledgeInv
  BY KnowledgeInit, KnowledgeStep, PTL DEF StatusSpec

(***************************************************************************)
(* Every variable keeps its type, whatever the number of pages, sockets    *)
(* and messages; a status waits for its message or is shown, never both.   *)
(***************************************************************************)
THEOREM StatusTypes == StatusSpec => []StatusTypeOK
<1>1. KnowledgeInv => StatusTypeOK
  BY DEF KnowledgeInv, RowsOK, PagesOK, SavesOK, LinesOK, VisitsOK, LoopOK, HistoryOK, GoodPage,
     PageStates, SaveStates, LineStates, VisitStates, LoopItems, StatusTypeOK
<1> QED
  BY <1>1, KnowledgeAlways, PTL

(***************************************************************************)
(* No page ever shows more of a message than its row says, whatever the    *)
(* order in which histories, copies and announcements reach the page.      *)
(***************************************************************************)
THEOREM ShownIsTrueAlways == StatusSpec => []ShownIsTrue
<1>1. KnowledgeInv => ShownIsTrue
  BY DEF KnowledgeInv, PagesOK, GoodPage, MarksKnown, ShownIsTrue
<1> QED
  BY <1>1, KnowledgeAlways, PTL

(***************************************************************************)
(* On no page does a message ever go back to an earlier status.            *)
(***************************************************************************)
THEOREM StatusOnlyRises == StatusSpec => StatusNeverGoesBack
<1>1. KnowledgeInv /\ [StatusNext]_vars =>
         [\A p \in Pages, i \in Ids : page'[p].shown[i] >= page[p].shown[i]]_vars
  BY PageSteps DEF PagesGood, NotBack
<1> QED
  BY <1>1, KnowledgeAlways, PTL DEF StatusSpec, StatusNeverGoesBack
-----------------------------------------------------------------------------
(* Delivered while online, read while the chat is open.                    *)

\* What a message that is saved is left with, by the rows and by the handlers.
LEMMA CommitKeeps ==
    ASSUME KnowledgeInv, NEW p \in Pages, Commit(p)
    PROVE  /\ \A i \in DOMAIN row' :
                \/ i \in DOMAIN row /\ row'[i] = row[i] /\ late'[i] = late[i]
                \/ row'[i] = save[p].status /\ late'[i] = save[p].across
           /\ \A q \in Pages : save'[q].pc = "commit" => save'[q] = save[q]
<1> DEFINE n == Len(row) + 1
<1>1. row \in Seq(Statuses) /\ save[p].status \in Statuses /\ late \in [Ids -> SUBSET Excuses]
  BY DEF KnowledgeInv, RowsOK, SavesOK, GoodSave, Commit, HistoryOK
<1>2. n \in Ids /\ row' = Append(row, save[p].status) /\ late' = [late EXCEPT ![n] = save[p].across]
  BY <1>1 DEF Commit, Ids
<1>3. ASSUME NEW i \in DOMAIN row'
      PROVE  \/ i \in DOMAIN row /\ row'[i] = row[i] /\ late'[i] = late[i]
             \/ row'[i] = save[p].status /\ late'[i] = save[p].across
  <2>1. i \in 1..n
    BY <1>1, <1>2
  <2>2. CASE i = n
    BY <1>1, <1>2, <2>2
  <2>3. CASE i # n
    <3>1. i \in 1..Len(row) /\ DOMAIN row = 1..Len(row)
      BY <1>1, <2>1, <2>3
    <3>2. i \in Ids
      BY <3>1, RowBounds DEF KnowledgeInv, RowsOK
    <3> QED
      BY <1>1, <1>2, <3>1, <3>2, <2>3
  <2> QED
    BY <2>2, <2>3
<1>4. ASSUME NEW q \in Pages, save'[q].pc = "commit" PROVE save'[q] = save[q]
  <2>1. [Idle EXCEPT !.pc = "refresh", !.id = n].pc = "refresh"
    BY DEF Idle
  <2>2. save' = [save EXCEPT ![p] = [Idle EXCEPT !.pc = "refresh", !.id = n]]
    BY DEF Commit
  <2> QED
    BY <1>4, <2>1, <2>2 DEF KnowledgeInv, SavesOK
<1> QED
  BY <1>3, <1>4

\* The other steps of a handler that saves put none back to before its commit.
LEMMA NotBackToCommit ==
    ASSUME SavesOK, NEW p \in Pages, Refresh(p) \/ SendCopies(p) \/ Tell(p)
    PROVE  \A q \in Pages : save'[q].pc = "commit" => save'[q] = save[q]
<1>1. [Idle EXCEPT !.pc = "copies", !.id = save[p].id, !.status = row[save[p].id]].pc = "copies"
  BY DEF Idle
<1>2. save[p] \in SaveStates /\ [save[p] EXCEPT !.pc = "tell"].pc = "tell" /\ Idle.pc = "idle"
  BY DEF SavesOK, SaveStates, Idle
<1> QED
  BY <1>1, <1>2 DEF SavesOK, Refresh, SendCopies, Tell

LEMMA DeliveredStep == KnowledgeInv /\ DeliveredInv /\ [StatusNext]_vars => DeliveredInv'
<1> SUFFICES ASSUME KnowledgeInv, DeliveredInv, [StatusNext]_vars, Marking'
             PROVE  /\ \A i \in DOMAIN row' : row'[i] = Sent => "line" \in late'[i]
                    /\ \A p \in Pages : save'[p].pc = "commit" /\ save'[p].status = Sent =>
                                            "line" \in save'[p].across
  BY DEF DeliveredInv
<1> DEFINE Goal == /\ \A i \in DOMAIN row' : row'[i] = Sent => "line" \in late'[i]
                   /\ \A p \in Pages : save'[p].pc = "commit" /\ save'[p].status = Sent =>
                                            "line" \in save'[p].across
<1>0. RowsOK /\ SavesOK /\ LinesOK
  BY DEF KnowledgeInv
<1>1. ASSUME NEW l \in Lines, MarkDelivered(l) PROVE Goal
  <2>1. \A i \in DOMAIN row' : row'[i] # Sent
    <3>1. row' = Raised(Below(Delivered), Delivered)
      BY <1>1 DEF MarkDelivered
    <3>2. \A i \in DOMAIN row : row[i] \in Statuses
      BY <1>0 DEF RowsOK
    <3> QED
      BY <3>1, <3>2, <1>0, RaisedRows DEF Statuses, Sent, Delivered, Read
  <2>2. save' = Crossed("line", Delivered) /\ "line" \in Excuses
    BY <1>1 DEF MarkDelivered, Excuses
  <2>3. \A p \in Pages : save'[p].pc = "commit" /\ save'[p].status = Sent =>
                            "line" \in save'[p].across
    BY <1>0, <2>2, CrossedSaves DEF Sent, Delivered
  <2> QED
    BY <2>1, <2>3
<1>2. ASSUME ~ \E l \in Lines : MarkDelivered(l) PROVE Marking
  <2>1. PICK l \in connected' \cap ReadersLines : line'[l].pc \in {"refresh", "tell", "open"}
    BY DEF Marking
  <2>2. ASSUME NEW k \in Lines, Connect(k) PROVE Marking
    <3>1. [NoHandler EXCEPT !.pc = "mark"].pc = "mark"
      BY DEF NoHandler
    <3> QED
      BY <1>0, <2>1, <2>2, <3>1, StatusAssumption DEF Connect, LinesOK, Marking
  <2>3. ASSUME NEW k \in Lines, Disconnect(k) PROVE Marking
    BY <2>1, <2>3 DEF Disconnect, Marking
  <2>4. ASSUME NEW k \in Lines, RefreshForLine(k) \/ TellForLine(k) PROVE Marking
    <3>1. connected' = connected /\ line[k].pc \in {"refresh", "tell"}
      BY <2>4 DEF RefreshForLine, TellForLine
    <3>2. \A j \in Lines : j # k => line'[j] = line[j]
      BY <2>4, <1>0 DEF RefreshForLine, TellForLine, LinesOK
    <3> QED
      BY <2>1, <3>1, <3>2, StatusAssumption DEF Marking
  <2>5. CASE UNCHANGED <<connected, line>>
    BY <2>1, <2>5 DEF Marking
  <2> QED
    BY <1>2, <2>2, <2>3, <2>4, <2>5 DEF StatusNext, vars, readerVars, PageStep, SaveStep, LineStep,
       VisitStep, ReadHistory, Register, SendHistory, Render, Check, Commit, Refresh, SendCopies,
       Tell, MarkRead, RefreshForVisit, TellForVisit, RegisterVisit, EndVisit, RunLoop
<1>3. ASSUME Marking, NEW v \in Visits, MarkRead(v) PROVE Goal
  <2>1. \A i \in DOMAIN row' : row'[i] # Sent
    <3>1. row' = Raised(Below(Read), Read)
      BY <1>3 DEF MarkRead
    <3>2. \A i \in DOMAIN row : row[i] \in Statuses
      BY <1>0 DEF RowsOK
    <3> QED
      BY <3>1, <3>2, <1>0, RaisedRows DEF Statuses, Sent, Read
  <2>2. save' = Crossed("visit", Read) /\ "visit" \in Excuses
    BY <1>3 DEF MarkRead, Excuses
  <2>3. \A p \in Pages : save'[p].pc = "commit" /\ save'[p].status = Sent =>
                            "line" \in save'[p].across
    BY <1>0, <1>3, <2>2, CrossedSaves DEF DeliveredInv
  <2> QED
    BY <2>1, <2>3
<1>4. ASSUME Marking, NEW p \in Pages, Check(p) PROVE Goal
  <2>1. is_online
    BY <1>4 DEF Marking, is_online
  <2>2. StatusNow # Sent
    BY <2>1 DEF StatusNow, Sent, Delivered, Read
  <2>3. save'[p].status = StatusNow /\ \A q \in Pages : q # p => save'[q] = save[q]
    BY <1>0, <1>4 DEF Check, SavesOK
  <2>4. row' = row /\ late' = late
    BY <1>4 DEF Check
  <2> QED
    BY <1>4, <2>2, <2>3, <2>4 DEF DeliveredInv
<1>5. ASSUME Marking, NEW p \in Pages, Commit(p) PROVE Goal
  <2>1. save[p].pc = "commit"
    BY <1>5 DEF Commit
  <2> QED
    BY <1>5, <2>1, CommitKeeps DEF DeliveredInv
<1>6. ASSUME Marking, NEW p \in Pages, Refresh(p) \/ SendCopies(p) \/ Tell(p) PROVE Goal
  <2>1. row' = row /\ late' = late
    BY <1>6 DEF Refresh, SendCopies, Tell
  <2> QED
    BY <1>0, <1>6, <2>1, NotBackToCommit DEF DeliveredInv
<1>7. ASSUME Marking, UNCHANGED <<row, save, late>> PROVE Goal
  BY <1>7 DEF DeliveredInv
<1>8. \/ UNCHANGED <<row, save, late>>
      \/ \E l \in Lines : MarkDelivered(l)
      \/ \E v \in Visits : MarkRead(v)
      \/ \E p \in Pages : Check(p) \/ Commit(p) \/ Refresh(p) \/ SendCopies(p) \/ Tell(p)
  BY DEF StatusNext, vars, PageStep, SaveStep, LineStep, VisitStep, ReadHistory, Register,
     SendHistory, Render, Connect, Disconnect, RefreshForLine, TellForLine, RefreshForVisit,
     TellForVisit, RegisterVisit, EndVisit, RunLoop
<1> HIDE DEF Goal
<1>9. ASSUME \E l \in Lines : MarkDelivered(l) PROVE Goal
  BY <1>1, <1>9
<1>10. ASSUME ~ \E l \in Lines : MarkDelivered(l) PROVE Goal
  <2>1. Marking
    BY <1>2, <1>10
  <2> QED
    BY <1>3, <1>4, <1>5, <1>6, <1>7, <1>8, <1>10, <2>1
<1> QED
  BY <1>9, <1>10 DEF Goal

LEMMA ReadStep == KnowledgeInv /\ ReadInv /\ [StatusNext]_vars => ReadInv'
<1> SUFFICES ASSUME KnowledgeInv, ReadInv, [StatusNext]_vars, Opening'
             PROVE  /\ \A i \in DOMAIN row' :
                          row'[i] < Read => late'[i] \cap {"visit", "offline"} # {}
                    /\ \A p \in Pages : save'[p].pc = "commit" /\ save'[p].status < Read =>
                                            save'[p].across \cap {"visit", "offline"} # {}
  BY DEF ReadInv
<1> DEFINE Goal == /\ \A i \in DOMAIN row' :
                          row'[i] < Read => late'[i] \cap {"visit", "offline"} # {}
                   /\ \A p \in Pages : save'[p].pc = "commit" /\ save'[p].status < Read =>
                                            save'[p].across \cap {"visit", "offline"} # {}
<1>0. RowsOK /\ SavesOK /\ VisitsOK
  BY DEF KnowledgeInv
<1>1. ASSUME NEW v \in Visits, MarkRead(v) PROVE Goal
  <2>1. \A i \in DOMAIN row' : ~ (row'[i] < Read)
    <3>1. row' = Raised(Below(Read), Read)
      BY <1>1 DEF MarkRead
    <3>2. \A i \in DOMAIN row : row[i] \in Statuses
      BY <1>0 DEF RowsOK
    <3> QED
      BY <3>1, <3>2, <1>0, RaisedRows DEF Statuses, Sent, Read
  <2>2. save' = Crossed("visit", Read) /\ "visit" \in Excuses
    BY <1>1 DEF MarkRead, Excuses
  <2>3. \A p \in Pages : save'[p].pc = "commit" /\ save'[p].status < Read =>
                            save'[p].across \cap {"visit", "offline"} # {}
    BY <1>0, <2>2, CrossedSaves
  <2> QED
    BY <2>1, <2>3
<1>2. ASSUME ~ \E v \in Visits : MarkRead(v) PROVE Opening
  <2>1. PICK v \in Visits : visit'[v].pc \in {"refresh", "tell", "register", "open"}
    BY DEF Opening
  <2>2. ASSUME NEW u \in Visits, RefreshForVisit(u) \/ TellForVisit(u) \/ RegisterVisit(u)
                                    \/ EndVisit(u)
        PROVE  Opening
    BY <2>2 DEF RefreshForVisit, TellForVisit, RegisterVisit, EndVisit, Opening
  <2>3. CASE UNCHANGED visit
    BY <2>1, <2>3 DEF Opening
  <2> QED
    BY <1>2, <2>2, <2>3 DEF StatusNext, vars, readerVars, PageStep, SaveStep, LineStep,
       VisitStep, ReadHistory, Register, SendHistory, Render, Check, Commit, Refresh, SendCopies,
       Tell, Connect, Disconnect, MarkDelivered, RefreshForLine, TellForLine, RunLoop
<1>3. ASSUME Opening, NEW l \in Lines, MarkDelivered(l) PROVE Goal
  <2>1. \A i \in DOMAIN row' : i \in DOMAIN row /\ (row'[i] < Read => row[i] < Read)
    <3>1. row' = Raised(Below(Delivered), Delivered)
      BY <1>3 DEF MarkDelivered
    <3>2. \A i \in DOMAIN row : row[i] \in Statuses
      BY <1>0 DEF RowsOK
    <3> QED
      BY <3>1, <3>2, <1>0, RaisedRows DEF Statuses, Sent, Delivered, Read
  <2>2. save' = Crossed("line", Delivered) /\ "line" \in Excuses /\ late' = late
    BY <1>3 DEF MarkDelivered, Excuses
  <2>3. \A p \in Pages : save'[p].pc = "commit" /\ save'[p].status < Read =>
                            save'[p].across \cap {"visit", "offline"} # {}
    <3>1. \A p \in Pages : /\ save'[p].pc = save[p].pc /\ save'[p].status = save[p].status
                            /\ save[p].across \subseteq save'[p].across
      BY <1>0, <2>2, CrossedSaves
    <3> QED
      BY <1>3, <3>1 DEF ReadInv
  <2> QED
    BY <1>3, <2>1, <2>2, <2>3 DEF ReadInv
<1>4. ASSUME Opening, NEW p \in Pages, Check(p) PROVE Goal
  <2> DEFINE a == (IF has_chat_user /\ ~ is_online THEN {"offline"} ELSE {}) \cup
                  (IF \E v \in Visits : visit[v].pc \in {"refresh", "tell", "register"}
                   THEN {"visit"} ELSE {})
  <2>1. save' = [save EXCEPT ![p] =
                    [pc |-> "commit", id |-> 0, status |-> StatusNow, across |-> a]]
    BY <1>4 DEF Check
  <2>2. StatusNow < Read => a \cap {"visit", "offline"} # {}
    <3>1. CASE \E v \in Visits : visit[v].pc \in {"refresh", "tell", "register"}
      BY <3>1
    <3>2. CASE has_chat_user
      BY <3>2 DEF StatusNow, Read
    <3> QED
      BY <1>4, <3>1, <3>2 DEF Opening, has_chat_user
  <2> HIDE DEF a
  <2>3. save'[p].status = StatusNow /\ save'[p].across = a
        /\ \A q \in Pages : q # p => save'[q] = save[q]
    BY <1>0, <2>1 DEF SavesOK
  <2>4. row' = row /\ late' = late
    BY <1>4 DEF Check
  <2> QED
    BY <1>4, <2>2, <2>3, <2>4 DEF ReadInv
<1>5. ASSUME Opening, NEW p \in Pages, Commit(p) PROVE Goal
  <2>1. save[p].pc = "commit"
    BY <1>5 DEF Commit
  <2> QED
    BY <1>5, <2>1, CommitKeeps DEF ReadInv
<1>6. ASSUME Opening, NEW p \in Pages, Refresh(p) \/ SendCopies(p) \/ Tell(p) PROVE Goal
  <2>1. row' = row /\ late' = late
    BY <1>6 DEF Refresh, SendCopies, Tell
  <2> QED
    BY <1>0, <1>6, <2>1, NotBackToCommit DEF ReadInv
<1>7. ASSUME Opening, UNCHANGED <<row, save, late>> PROVE Goal
  BY <1>7 DEF ReadInv
<1>8. \/ UNCHANGED <<row, save, late>>
      \/ \E l \in Lines : MarkDelivered(l)
      \/ \E v \in Visits : MarkRead(v)
      \/ \E p \in Pages : Check(p) \/ Commit(p) \/ Refresh(p) \/ SendCopies(p) \/ Tell(p)
  BY DEF StatusNext, vars, PageStep, SaveStep, LineStep, VisitStep, ReadHistory, Register,
     SendHistory, Render, Connect, Disconnect, RefreshForLine, TellForLine, RefreshForVisit,
     TellForVisit, RegisterVisit, EndVisit, RunLoop
<1> HIDE DEF Goal
<1>9. ASSUME \E v \in Visits : MarkRead(v) PROVE Goal
  BY <1>1, <1>9
<1>10. ASSUME ~ \E v \in Visits : MarkRead(v) PROVE Goal
  <2>1. Opening
    BY <1>2, <1>10
  <2> QED
    BY <1>3, <1>4, <1>5, <1>6, <1>7, <1>8, <1>10, <2>1
<1> QED
  BY <1>9, <1>10 DEF Goal

(***************************************************************************)
(* Once the handler of an open user socket of the reader has done its      *)
(* work, every message is delivered, but one whose saving overlapped its   *)
(* query.                                                                  *)
(***************************************************************************)
THEOREM DeliveredWhenOnlineAlways == StatusSpec => []DeliveredWhenOnline
<1>1. StatusInit => DeliveredInv
  BY DEF StatusInit, DeliveredInv, Marking
<1>2. DeliveredInv => DeliveredWhenOnline
  BY DEF DeliveredInv, Marking, DeliveredWhenOnline
<1> QED
  BY <1>1, <1>2, KnowledgeAlways, DeliveredStep, PTL DEF StatusSpec

(***************************************************************************)
(* While the reader has the chat open every message is read, but one whose *)
(* saving overlapped his opening it or that found him without a user       *)
(* socket.                                                                 *)
(***************************************************************************)
THEOREM ReadWhenOpenAlways == StatusSpec => []ReadWhenOpen
<1>1. StatusInit => ReadInv
  BY DEF StatusInit, ReadInv, Opening, NoHandler
<1>2. ReadInv => ReadWhenOpen
  BY DEF ReadInv, Opening, ReadWhenOpen, has_chat_user
<1> QED
  BY <1>1, <1>2, KnowledgeAlways, ReadStep, PTL DEF StatusSpec
-----------------------------------------------------------------------------
(* The dot.                                                                *)

LEMMA AppendSettles ==
    ASSUME NEW s \in Seq(LoopItems), NEW b \in LoopItems, NEW p, NEW dot, NEW on,
           (Reaches(b, p) /\ b.on = on) \/ (~ Reaches(b, p) /\ Settles(s, p, dot, on))
    PROVE  Settles(Append(s, b), p, dot, on)
<1> DEFINE n == Len(s)
           t == Append(s, b)
<1>1. /\ DOMAIN s = 1..n /\ DOMAIN t = 1..(n+1) /\ n \in Nat /\ t[n+1] = b
      /\ \A k \in 1..n : t[k] = s[k]
  OBVIOUS
<1> HIDE DEF t, n
<1>2. CASE Reaches(b, p) /\ b.on = on
  BY <1>1, <1>2 DEF Settles, t
<1>3. CASE ~ Reaches(b, p) /\ Settles(s, p, dot, on)
  <2>1. ASSUME NEW k \in DOMAIN t, Reaches(t[k], p),
               \A j \in DOMAIN t : j > k => ~ Reaches(t[j], p)
        PROVE  t[k].on = on
    BY <1>1, <1>3, <2>1 DEF Settles
  <2>2. ASSUME \A k \in DOMAIN t : ~ Reaches(t[k], p) PROVE \A k \in DOMAIN s : ~ Reaches(s[k], p)
    BY <1>1, <2>2
  <2> QED
    BY <1>3, <2>1, <2>2 DEF Settles, t
<1> QED
  BY <1>2, <1>3

LEMMA TailSettles ==
    ASSUME NEW s \in Seq(LoopItems), s # <<>>, NEW p, NEW dot, NEW d, NEW on,
           Settles(s, p, dot, on),
           \/ Reaches(Head(s), p) /\ d[2] = Head(s).on
           \/ ~ Reaches(Head(s), p) /\ (d = dot \/ d[1] # "reader")
    PROVE  Settles(Tail(s), p, d, on)
<1> DEFINE n == Len(s)
           t == Tail(s)
<1>1. /\ DOMAIN s = 1..n /\ DOMAIN t = 1..(n-1) /\ n \in Nat \ {0} /\ Head(s) = s[1]
      /\ \A k \in 1..(n-1) : t[k] = s[k+1]
  OBVIOUS
<1> HIDE DEF t, n
<1>2. ASSUME NEW k \in DOMAIN t, Reaches(t[k], p),
             \A j \in DOMAIN t : j > k => ~ Reaches(t[j], p)
      PROVE  t[k].on = on
  <2>1. k+1 \in DOMAIN s /\ Reaches(s[k+1], p) /\ t[k] = s[k+1]
    BY <1>1, <1>2
  <2>2. ASSUME NEW j \in DOMAIN s, j > k+1 PROVE ~ Reaches(s[j], p)
    <3>1. j-1 \in DOMAIN t /\ j-1 > k /\ t[j-1] = s[j]
      BY <1>1, <2>2
    <3> QED
      BY <1>2, <3>1
  <2> QED
    BY <2>1, <2>2 DEF Settles
<1>3. ASSUME \A k \in DOMAIN t : ~ Reaches(t[k], p), d[1] = "reader" PROVE d[2] = on
  <2>1. \A j \in DOMAIN s : j > 1 => ~ Reaches(s[j], p)
    <3>1. SUFFICES ASSUME NEW j \in DOMAIN s, j > 1 PROVE ~ Reaches(s[j], p)
      OBVIOUS
    <3>2. j-1 \in DOMAIN t /\ t[j-1] = s[j]
      BY <1>1, <3>1
    <3> QED
      BY <1>3, <3>2
  <2>2. 1 \in DOMAIN s
    BY <1>1
  <2>3. CASE Reaches(s[1], p)
    BY <1>1, <2>1, <2>2, <2>3 DEF Settles
  <2>4. CASE ~ Reaches(s[1], p)
    <3>1. \A j \in DOMAIN s : ~ Reaches(s[j], p)
      BY <1>1, <2>1, <2>4
    <3> QED
      BY <1>1, <1>3, <2>4, <3>1 DEF Settles
  <2> QED
    BY <2>3, <2>4
<1> QED
  BY <1>2, <1>3 DEF Settles, t

LEMMA UnheardSettles ==
    ASSUME PresenceInv, NEW p \in Pages, page[p].pc \in {"none", "register"}, NEW on
    PROVE  Settles(loop, p, page[p].dot, on)
  BY DEF PresenceInv, Settles, Reaches, Registered

\* The reader is online before and after, or neither, if another's socket comes or goes.
LEMMA OnlineOfOthers ==
    ASSUME NEW l \in Lines \ ReadersLines, connected' \in {connected \cup {l}, connected \ {l}}
    PROVE  is_online' = is_online
  BY DEF is_online

LEMMA ConnectPresence ==
    ASSUME KnowledgeInv, PresenceInv, NEW l \in Lines, Connect(l) PROVE PresenceInv'
<1> DEFINE b == Broadcast(l, TRUE)
           first == connected \cap OwnersLines(l) = {}
<1>0. /\ loop \in Seq(LoopItems) /\ page' = page /\ Registered' = Registered
      /\ connected' = connected \cup {l}
  BY DEF KnowledgeInv, LoopOK, Connect, Registered
<1>1. /\ b \in LoopItems /\ b.kind = "send" /\ b.by = l /\ b.on /\ b.to = Registered
      /\ ~ Absence(b)
  BY DEF Broadcast, LoopItems, Registered, Absence
<1> HIDE DEF b
<1>2. CASE ~ first
  <2>1. loop' = loop /\ raced' = raced
    BY <1>2 DEF Connect
  <2>2. is_online' = is_online
    BY <1>0, <1>2, OnlineOfOthers DEF is_online, OwnersLines
  <2> QED
    BY <1>0, <2>1, <2>2 DEF PresenceInv, AbsencePending
<1>3. CASE first
  <2>1. loop' = Append(loop, b)
    BY <1>3 DEF Connect, b
  <2>2. /\ DOMAIN loop' = 1..(Len(loop)+1) /\ DOMAIN loop = 1..Len(loop) /\ Len(loop) \in Nat
        /\ loop'[Len(loop)+1] = b /\ \A k \in 1..Len(loop) : loop'[k] = loop[k]
    BY <1>0, <2>1
  <2>3. \A k \in DOMAIN loop' : (k \in DOMAIN loop /\ loop'[k] = loop[k]) \/ loop'[k] = b
    BY <2>2
  <2>4. /\ \A k \in DOMAIN loop' : loop'[k].kind = "task" => ~ loop'[k].on
        /\ \A k \in DOMAIN loop' : loop'[k].to \subseteq Registered'
        /\ \A p \in Pages : page'[p].pc \in {"none", "register"} => page'[p].dot[1] = "none"
    BY <1>0, <1>1, <2>3 DEF PresenceInv
  <2>5. AbsencePending' <=> AbsencePending
    BY <1>1, <2>2, <2>3 DEF AbsencePending
  <2>6. CASE l \in ReadersLines
    <3>1. is_online'
      BY <1>0, <2>6 DEF is_online
    <3>2. raced' <=> AbsencePending
      BY <1>3, <2>6 DEF Connect, AbsencePending, Absence
    <3>3. ASSUME NEW p \in Pages PROVE Settles(loop', p, page'[p].dot, is_online')
      <4>1. CASE p \in Registered
        <5>1. Reaches(b, p) /\ b.on = is_online'
          BY <1>1, <2>6, <3>1, <4>1 DEF Reaches, is_online
        <5> QED
          BY <1>0, <1>1, <2>1, <5>1, AppendSettles
      <4>2. CASE p \notin Registered
        <5>1. page[p].pc \in {"none", "register"}
          BY <4>2 DEF Registered, KnowledgeInv, PagesOK, PageStates
        <5>2. ~ Reaches(b, p) /\ Settles(loop, p, page[p].dot, is_online')
          BY <1>1, <4>2, <5>1, UnheardSettles DEF Reaches
        <5> QED
          BY <1>0, <1>1, <2>1, <5>2, AppendSettles
      <4> QED
        BY <4>1, <4>2
    <3> QED
      BY <2>4, <2>5, <3>2, <3>3 DEF PresenceInv
  <2>7. CASE l \notin ReadersLines
    <3>1. is_online' = is_online /\ raced' = raced
      BY <1>0, <2>7, OnlineOfOthers DEF Connect
    <3>2. \A p \in Pages : Settles(loop, p, page[p].dot, is_online) =>
                            Settles(loop', p, page'[p].dot, is_online')
      <4>1. \A p \in Pages : ~ Reaches(b, p)
        BY <1>1, <2>7 DEF Reaches
      <4> QED
        BY <1>0, <1>1, <2>1, <3>1, <4>1, AppendSettles
    <3> QED
      BY <2>4, <2>5, <3>1, <3>2 DEF PresenceInv
  <2> QED
    BY <2>6, <2>7
<1> QED
  BY <1>2, <1>3

LEMMA DisconnectPresence ==
    ASSUME KnowledgeInv, PresenceInv, NEW l \in Lines, Disconnect(l) PROVE PresenceInv'
<1> DEFINE b == [Broadcast(l, FALSE) EXCEPT !.kind = "task"]
<1>0. /\ loop \in Seq(LoopItems) /\ page' = page /\ Registered' = Registered
      /\ connected' = connected \ {l} /\ l \in connected
  BY DEF KnowledgeInv, LoopOK, Disconnect, Registered
<1>1. /\ b \in LoopItems /\ b.kind = "task" /\ b.by = l /\ ~ b.on /\ b.to = Registered
  BY DEF Broadcast, LoopItems, Registered
<1>1a. loop' = IF LastOne(l) THEN Append(loop, b) ELSE loop
  BY DEF Disconnect
<1> HIDE DEF b
<1>2. CASE ~ LastOne(l)
  <2>1. loop' = loop /\ raced' = raced
    BY <1>2 DEF Disconnect, KnowledgeInv, HistoryOK
  <2>2. is_online' = is_online
    BY <1>0, <1>2, OnlineOfOthers DEF is_online, OwnersLines, LastOne
  <2> QED
    BY <1>0, <2>1, <2>2 DEF PresenceInv, AbsencePending
<1>3. CASE LastOne(l)
  <2>1. loop' = Append(loop, b)
    BY <1>1a, <1>3
  <2>2. /\ DOMAIN loop' = 1..(Len(loop)+1) /\ DOMAIN loop = 1..Len(loop) /\ Len(loop) \in Nat
        /\ loop'[Len(loop)+1] = b /\ \A k \in 1..Len(loop) : loop'[k] = loop[k]
    BY <1>0, <2>1
  <2>3. \A k \in DOMAIN loop' : (k \in DOMAIN loop /\ loop'[k] = loop[k]) \/ loop'[k] = b
    BY <2>2
  <2>4. /\ \A k \in DOMAIN loop' : loop'[k].kind = "task" => ~ loop'[k].on
        /\ \A k \in DOMAIN loop' : loop'[k].to \subseteq Registered'
        /\ \A p \in Pages : page'[p].pc \in {"none", "register"} => page'[p].dot[1] = "none"
    BY <1>0, <1>1, <2>3 DEF PresenceInv
  <2>6. CASE l \in ReadersLines
    <3>1. ~ is_online'
      BY <1>0, <1>3, <2>6 DEF is_online, LastOne, OwnersLines
    <3>2. AbsencePending'
      BY <1>1, <2>2, <2>6 DEF AbsencePending, Absence
    <3> QED
      BY <2>4, <3>1, <3>2 DEF PresenceInv
  <2>7. CASE l \notin ReadersLines
    <3>1. is_online' = is_online /\ raced' = raced
      BY <1>0, <2>7, OnlineOfOthers DEF Disconnect, KnowledgeInv, HistoryOK
    <3>2. \A p \in Pages : Settles(loop, p, page[p].dot, is_online) =>
                            Settles(loop', p, page'[p].dot, is_online')
      <4>1. \A p \in Pages : ~ Reaches(b, p)
        BY <1>1, <2>7 DEF Reaches
      <4> QED
        BY <1>0, <1>1, <2>1, <3>1, <4>1, AppendSettles
    <3>3. AbsencePending' <=> AbsencePending
      BY <1>1, <2>2, <2>3, <2>7 DEF AbsencePending, Absence
    <3> QED
      BY <2>4, <3>1, <3>2, <3>3 DEF PresenceInv
  <2> QED
    BY <2>6, <2>7
<1> QED
  BY <1>2, <1>3
LEMMA RunLoopPresence ==
    ASSUME KnowledgeInv, PresenceInv, RunLoop PROVE PresenceInv'
<1> DEFINE b == Head(loop)
           c == Broadcast(b.by, b.on)
           t == Tail(loop)
<1>0. PagesOK /\ LoopOK /\ loop \in Seq(LoopItems) /\ loop # <<>>
  BY DEF KnowledgeInv, LoopOK, RunLoop
<1>1. /\ b \in LoopItems /\ t \in Seq(LoopItems) /\ b = loop[1] /\ 1 \in DOMAIN loop
      /\ DOMAIN loop = 1..Len(loop) /\ DOMAIN t = 1..(Len(loop)-1) /\ Len(loop) \in Nat \ {0}
      /\ \A k \in 1..(Len(loop)-1) : t[k] = loop[k+1]
  BY <1>0
<1>2. /\ connected' = connected /\ raced' = raced /\ is_online' = is_online
      /\ loop' = IF b.kind = "task" THEN Append(t, c) ELSE t
  BY DEF RunLoop, is_online
<1>3. /\ \A p \in Pages : page'[p].pc = page[p].pc
      /\ b.kind = "task" => page' = page
      /\ b.kind # "task" =>
            \A p \in Pages : page'[p].dot = IF p \in b.to
                                           THEN <<IF b.by \in ReadersLines THEN "reader" ELSE "other", b.on>>
                                           ELSE page[p].dot
  BY <1>0, RunLoopGood
<1>4. Registered' = Registered
  BY <1>3 DEF Registered
<1>5. /\ c \in LoopItems /\ c.kind = "send" /\ c.by = b.by /\ c.on = b.on /\ c.to = Registered
  BY <1>1 DEF Broadcast, LoopItems, Registered
<1>6. /\ b.kind = "task" => ~ b.on
      /\ b.to \subseteq Registered
      /\ \A k \in DOMAIN t : t[k].kind = "task" => ~ t[k].on
      /\ \A k \in DOMAIN t : t[k].to \subseteq Registered
  BY <1>1 DEF PresenceInv
<1> HIDE DEF b, c, t
<1>7. CASE b.kind = "task"
  <2>1. loop' = Append(t, c) /\ page' = page
    BY <1>2, <1>3, <1>7
  <2>2. /\ DOMAIN loop' = 1..(Len(t)+1) /\ DOMAIN t = 1..Len(t) /\ Len(t) \in Nat
        /\ loop'[Len(t)+1] = c /\ \A k \in 1..Len(t) : loop'[k] = t[k]
    <3>1. t \in Seq(LoopItems)
      BY <1>1
    <3> QED
      BY <2>1, <3>1
  <2>3. \A k \in DOMAIN loop' : (k \in DOMAIN t /\ loop'[k] = t[k]) \/ loop'[k] = c
    BY <2>2
  <2>4. /\ \A k \in DOMAIN loop' : loop'[k].kind = "task" => ~ loop'[k].on
        /\ \A k \in DOMAIN loop' : loop'[k].to \subseteq Registered'
        /\ \A p \in Pages : page'[p].pc \in {"none", "register"} => page'[p].dot[1] = "none"
    BY <1>4, <1>5, <1>6, <2>1, <2>3 DEF PresenceInv
  <2>5. AbsencePending' => AbsencePending
    <3>1. ASSUME NEW k \in DOMAIN loop', Absence(loop'[k]) PROVE AbsencePending
      <4>1. k \in DOMAIN t /\ loop'[k] = t[k]
        BY <1>5, <2>3, <3>1 DEF Absence
      <4>2. k+1 \in DOMAIN loop /\ t[k] = loop[k+1]
        BY <1>1, <4>1
      <4> QED
        BY <3>1, <4>1, <4>2 DEF AbsencePending
    <3> QED
      BY <3>1 DEF AbsencePending
  <2>6. CASE b.by \in ReadersLines
    <3>1. AbsencePending
      BY <1>1, <1>7, <2>6 DEF AbsencePending, Absence
    <3>2. ~ raced => ~ is_online /\ ~ c.on
      BY <1>5, <1>6, <1>7, <3>1 DEF PresenceInv
    <3>3. ASSUME ~ raced, NEW p \in Pages PROVE Settles(loop', p, page'[p].dot, is_online')
      <4>1. CASE p \in Registered
        <5>1. Reaches(c, p) /\ c.on = is_online
          BY <1>5, <2>6, <3>2, <3>3, <4>1 DEF Reaches, is_online, LoopItems
        <5> QED
          BY <1>1, <1>2, <1>5, <2>1, <5>1, AppendSettles
      <4>2. CASE p \notin Registered
        <5>1. page[p].dot[1] = "none"
          BY <1>0, <4>2 DEF Registered, PagesOK, PageStates, PresenceInv
        <5>2. \A k \in DOMAIN loop' : ~ Reaches(loop'[k], p)
          BY <1>4, <2>4, <4>2 DEF Reaches
        <5> QED
          BY <2>1, <5>1, <5>2 DEF Settles
      <4> QED
        BY <4>1, <4>2
    <3> QED
      BY <1>2, <2>4, <2>5, <3>2, <3>3 DEF PresenceInv
  <2>7. CASE b.by \notin ReadersLines
    <3>1. AbsencePending => AbsencePending'
      <4>1. ASSUME NEW k \in DOMAIN loop, Absence(loop[k]) PROVE AbsencePending'
        <5>1. k # 1
          BY <1>1, <2>7, <4>1 DEF Absence
        <5>2. k-1 \in DOMAIN t /\ t[k-1] = loop[k]
          BY <1>1, <5>1
        <5>3. k-1 \in DOMAIN loop' /\ loop'[k-1] = loop[k]
          BY <2>2, <5>2
        <5> QED
          BY <4>1, <5>3 DEF AbsencePending
      <4> QED
        BY <4>1 DEF AbsencePending
    <3>2. ASSUME NEW p \in Pages, Settles(loop, p, page[p].dot, is_online)
          PROVE  Settles(loop', p, page'[p].dot, is_online')
      <4>1. ~ Reaches(b, p) /\ ~ Reaches(c, p)
        BY <1>5, <2>7 DEF Reaches
      <4>2. Settles(t, p, page[p].dot, is_online)
        BY <1>0, <3>2, <4>1, TailSettles DEF b, t
      <4> QED
        BY <1>1, <1>2, <1>5, <2>1, <4>1, <4>2, AppendSettles
    <3> QED
      BY <1>2, <2>4, <2>5, <3>1, <3>2 DEF PresenceInv
  <2> QED
    BY <2>6, <2>7
<1>8. CASE b.kind # "task"
  <2>1. loop' = t
    BY <1>2, <1>8
  <2>2. b.kind = "send" /\ ~ Absence(b)
    BY <1>1, <1>8 DEF LoopItems, Absence
  <2>3. \A p \in Pages : page[p].pc \in {"none", "register"} => p \notin b.to
    BY <1>6 DEF Registered
  <2>4. /\ \A k \in DOMAIN loop' : loop'[k].kind = "task" => ~ loop'[k].on
        /\ \A k \in DOMAIN loop' : loop'[k].to \subseteq Registered'
        /\ \A p \in Pages : page'[p].pc \in {"none", "register"} => page'[p].dot[1] = "none"
    BY <1>3, <1>4, <1>6, <1>8, <2>1, <2>3 DEF PresenceInv
  <2>5. AbsencePending' <=> AbsencePending
    <3>1. ASSUME NEW k \in DOMAIN t, Absence(t[k]) PROVE AbsencePending
      <4>1. k+1 \in DOMAIN loop /\ t[k] = loop[k+1]
        BY <1>1
      <4> QED
        BY <3>1, <4>1 DEF AbsencePending
    <3>2. ASSUME NEW k \in DOMAIN loop, Absence(loop[k]) PROVE AbsencePending'
      <4>1. k # 1
        BY <1>1, <2>2, <3>2
      <4>2. k-1 \in DOMAIN t /\ t[k-1] = loop[k]
        BY <1>1, <4>1
      <4> QED
        BY <2>1, <3>2, <4>2 DEF AbsencePending
    <3> QED
      BY <2>1, <3>1, <3>2 DEF AbsencePending
  <2>6. ASSUME NEW p \in Pages, Settles(loop, p, page[p].dot, is_online)
        PROVE  Settles(loop', p, page'[p].dot, is_online')
    <3> DEFINE d == page'[p].dot
    <3>1. d = IF p \in b.to THEN <<IF b.by \in ReadersLines THEN "reader" ELSE "other", b.on>>
              ELSE page[p].dot
      BY <1>3, <1>8
    <3>2. \/ Reaches(b, p) /\ d[2] = b.on
          \/ ~ Reaches(b, p) /\ (d = page[p].dot \/ d[1] # "reader")
      BY <2>2, <3>1 DEF Reaches
    <3> HIDE DEF d
    <3>3. Settles(t, p, d, is_online)
      BY <1>0, <2>6, <3>2, TailSettles DEF b, t
    <3> QED
      BY <1>2, <2>1, <3>3 DEF d
  <2> QED
    BY <1>2, <2>4, <2>5, <2>6 DEF PresenceInv
<1> QED
  BY <1>7, <1>8

LEMMA RegisterPresence ==
    ASSUME KnowledgeInv, PresenceInv, NEW p \in Pages, Register(p) PROVE PresenceInv'
<1>1. /\ page[p].pc = "register" /\ page'[p].pc = "replay"
      /\ page'[p].dot = <<"reader", is_online>>
      /\ \A q \in Pages : q # p => page'[q] = page[q]
  BY RegisterGood DEF KnowledgeInv
<1>2. loop' = loop /\ raced' = raced /\ connected' = connected
  BY DEF Register, readerVars
<1>3. is_online' = is_online /\ AbsencePending' = AbsencePending
  BY <1>2 DEF is_online, AbsencePending
<1>4. Registered \subseteq Registered'
  BY <1>1 DEF Registered
<1>5. ASSUME NEW q \in Pages, Settles(loop, q, page[q].dot, is_online)
      PROVE  Settles(loop', q, page'[q].dot, is_online')
  <2>1. CASE q = p
    <3>1. \A k \in DOMAIN loop : ~ Reaches(loop[k], p)
      BY <1>1 DEF PresenceInv, Reaches, Registered
    <3> QED
      BY <1>1, <1>2, <1>3, <2>1, <3>1 DEF Settles
  <2>2. CASE q # p
    BY <1>1, <1>2, <1>3, <1>5, <2>2
  <2> QED
    BY <2>1, <2>2
<1>6. /\ \A k \in DOMAIN loop' : loop'[k].kind = "task" => ~ loop'[k].on
      /\ \A k \in DOMAIN loop' : loop'[k].to \subseteq Registered'
      /\ \A q \in Pages : page'[q].pc \in {"none", "register"} => page'[q].dot[1] = "none"
  BY <1>1, <1>2, <1>4 DEF PresenceInv
<1> QED
  BY <1>2, <1>3, <1>5, <1>6 DEF PresenceInv

LEMMA PresenceStep == KnowledgeInv /\ PresenceInv /\ [StatusNext]_vars => PresenceInv'
<1> SUFFICES ASSUME KnowledgeInv, PresenceInv, [StatusNext]_vars PROVE PresenceInv'
  OBVIOUS
<1>1. CASE \E l \in Lines : Connect(l) \/ Disconnect(l)
  BY <1>1, ConnectPresence, DisconnectPresence
<1>2. CASE RunLoop
  BY <1>2, RunLoopPresence
<1>3. CASE \E p \in Pages : Register(p)
  BY <1>3, RegisterPresence
<1>4. CASE Undisturbed /\ UNCHANGED <<loop, raced, connected>>
  <2>1. PagesGood
    BY PageSteps
  <2>2. Registered' = Registered
    BY SMTT(30), ZenonT(30), <1>4, <2>1 DEF Undisturbed, Registered, PagesGood, KnowledgeInv, PagesOK, PageStates
  <2>3. is_online' = is_online /\ AbsencePending' = AbsencePending
    BY <1>4 DEF is_online, AbsencePending
  <2>4. \A p \in Pages : Settles(loop', p, page'[p].dot, is_online') =
                          Settles(loop, p, page[p].dot, is_online)
    BY <1>4, <2>3 DEF Undisturbed
  <2>5. /\ \A k \in DOMAIN loop' : loop'[k].kind = "task" => ~ loop'[k].on
        /\ \A k \in DOMAIN loop' : loop'[k].to \subseteq Registered'
        /\ \A q \in Pages : page'[q].pc \in {"none", "register"} => page'[q].dot[1] = "none"
    BY <1>4, <2>2 DEF PresenceInv, Undisturbed
  <2> QED
    BY <1>4, <2>3, <2>4, <2>5 DEF PresenceInv
<1>5. \/ UNCHANGED <<loop, raced, connected>>
      \/ \E l \in Lines : Connect(l) \/ Disconnect(l)
      \/ RunLoop
  BY DEF StatusNext, vars, readerVars, PageStep, SaveStep, LineStep, VisitStep, ReadHistory,
     Register, SendHistory, Render, Check, Commit, Refresh, SendCopies, Tell, MarkDelivered,
     RefreshForLine, TellForLine, MarkRead, RefreshForVisit, TellForVisit, RegisterVisit, EndVisit
<1> QED
  BY <1>1, <1>2, <1>3, <1>4, <1>5, PageSteps

(***************************************************************************)
(* When no broadcast is waiting the dot of every page that was last told   *)
(* of the reader is right, unless he was back before his absence had been  *)
(* announced.                                                              *)
(***************************************************************************)
THEOREM PresenceSettlesAlways == StatusSpec => []PresenceSettles
<1>1. StatusInit => PresenceInv
  BY DEF StatusInit, PresenceInv, AbsencePending, Settles, Registered
<1>2. PresenceInv => PresenceSettles
  <2>1. SUFFICES ASSUME PresenceInv, NEW p \in Pages, loop = <<>>, page[p].dot[1] = "reader", ~ raced
                 PROVE  page[p].dot[2] = is_online
    BY DEF PresenceSettles
  <2>2. DOMAIN loop = {}
    BY <2>1
  <2>3. Settles(loop, p, page[p].dot, is_online)
    BY <2>1, <2>2 DEF PresenceInv, AbsencePending
  <2> QED
    BY <2>1, <2>2, <2>3 DEF Settles
<1> QED
  BY <1>1, <1>2, KnowledgeAlways, PresenceStep, PTL DEF StatusSpec
=============================================================================
