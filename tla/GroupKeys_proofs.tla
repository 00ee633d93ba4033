-------------------------- MODULE GroupKeys_proofs --------------------------
(***************************************************************************)
(* Proofs about GroupKeys, for any users, requests, pages and handlers:    *)
(* the creator is a member, every variable keeps its type, no sender key   *)
(* is used twice, a removal is followed by fresh chains, and pages settle  *)
(* on the group's epoch.                                                   *)
(*                                                                         *)
(* A page's steps touch many fields of one record.  TaskEffect, CallEffect,*)
(* LoadEffect, AnnounceEffect and ChangeEffect say once what a step may    *)
(* make of the rows, of a page, its store and its calls; the invariants    *)
(* are proved from these effects.                                          *)
(***************************************************************************)
EXTENDS GroupKeys, FiniteSetTheorems, TLAPS

\* The shapes of the rows and requests, as far as the proof needs them.
GroupRows == [members : SUBSET Users, founder : Users, creator : Users, epoch : Nat,
              leftBy : [Users -> Nat], emptied : BOOLEAN, orphaned : BOOLEAN]

Requests == [pc : {"none", "check", "commit", "handover", "appoint", "announce", "done"},
             by : Users, kind : AllChangeKinds, user : Users, epoch : Nat,
             creator : Users, participants : SUBSET Users]

RowsShape ==
    /\ group \in GroupRows
    /\ changes \in [Changes -> Requests]
    /\ onStaleRow \in BOOLEAN

\* A removal that is about to be committed takes the creator it has read only out of the
\* group on his own request.
RemovalsPermitted ==
    \A c \in Changes :
        changes[c].pc = "commit" /\ changes[c].kind = "remove"
        => (changes[c].creator = changes[c].user => changes[c].by = changes[c].user)

\* A group without members is one that has been emptied.
EmptyIsEmptied == group.members = {} => group.emptied

CreatorInv == RowsShape /\ RemovalsPermitted /\ EmptyIsEmptied /\ CreatorIsMember

LEMMA CreatorInvInit == GroupInit => CreatorInv
<1> USE GroupAssumption DEF AllChangeKinds
<1> SUFFICES ASSUME GroupInit PROVE CreatorInv
  OBVIOUS
<1>1. PICK founder \in Users, others \in SUBSET Users :
        group = [members |-> others \cup {founder}, founder |-> founder,
                 creator |-> founder, epoch |-> 1, leftBy |-> [u \in Users |-> 0],
                 emptied |-> FALSE, orphaned |-> FALSE]
  BY DEF GroupInit
<1>2. changes = [c \in Changes |-> [NoChange(group.founder) EXCEPT !.pc = "none"]]
  BY DEF GroupInit
<1>3. RowsShape
  <2>1. group \in GroupRows
    BY <1>1 DEF GroupRows
  <2>2. group.founder \in Users
    BY <2>1 DEF GroupRows
  <2>3. [NoChange(group.founder) EXCEPT !.pc = "none"] \in Requests
    BY <2>2 DEF NoChange, Requests
  <2>4. changes \in [Changes -> Requests]
    BY <1>2, <2>3
  <2>5. onStaleRow \in BOOLEAN
    BY DEF GroupInit
  <2> QED BY <2>1, <2>4, <2>5 DEF RowsShape
<1>4. RemovalsPermitted
  BY <1>1, <1>2 DEF RemovalsPermitted, NoChange
<1>5. CreatorIsMember
  BY <1>1 DEF CreatorIsMember
<1>6. EmptyIsEmptied
  BY <1>1 DEF EmptyIsEmptied
<1> QED BY <1>3, <1>4, <1>5, <1>6 DEF CreatorInv

\* The steps of pages and calls leave the rows and requests alone.
LEMMA PagesKeepRows ==
    ASSUME CreatorInv, UNCHANGED <<group, changes, onStaleRow>>
    PROVE  CreatorInv'
BY DEF CreatorInv, RowsShape, GroupRows, Requests, RemovalsPermitted, EmptyIsEmptied,
       CreatorIsMember

LEMMA CreatorInvChange ==
    ASSUME CreatorInv, NEW c \in Changes, ChangeStep(c)
    PROVE  CreatorInv'
<1> USE GroupAssumption DEF AllChangeKinds
<1> USE DEF CreatorInv
<1> c \in Nat
  BY DEF Changes
<1>1. CASE ChangeStarts(c)
  <2>1. RowsShape'
    <3>1. group' = group /\ onStaleRow' = onStaleRow
      BY <1>1 DEF ChangeStarts
    <3>2. group.epoch \in Nat /\ group.creator \in Users
      BY DEF RowsShape, GroupRows
    <3>3. changes[c] \in Requests
      BY DEF RowsShape
    <3>4. [changes[c] EXCEPT !.pc = "check", !.epoch = group.epoch,
                             !.creator = group.creator] \in Requests
      BY <3>2, <3>3 DEF Requests
    <3>5. changes' \in [Changes -> Requests]
      BY <1>1, <3>4 DEF ChangeStarts, RowsShape
    <3> QED BY <3>1, <3>5 DEF RowsShape
  <2>2. RemovalsPermitted'
    BY <1>1 DEF ChangeStarts, RowsShape, GroupRows, Requests, RemovalsPermitted
  <2>3. CreatorIsMember'
    BY <1>1 DEF ChangeStarts, RowsShape, GroupRows, Requests, CreatorIsMember
  <2>4. EmptyIsEmptied'
    BY <1>1 DEF ChangeStarts, EmptyIsEmptied
  <2> QED BY <2>1, <2>2, <2>3, <2>4
<1>2. ASSUME NEW by \in Users, NEW user \in Users, NEW kind \in ChangeKinds,
             ChangeChecks(c, by, kind, user)
      PROVE  CreatorInv'
  <2>1. Participants(group) \in SUBSET Users
    BY DEF Participants, RowsShape, GroupRows, Requests
  <2>2. RowsShape'
    <3>1. group' = group /\ onStaleRow' = onStaleRow
      BY <1>2 DEF ChangeChecks
    <3>2. kind \in AllChangeKinds
      BY DEF GroupAssumption
    <3>3. ASSUME NEW r \in Requests, NEW participants \in SUBSET Users
          PROVE  [r EXCEPT !.pc = "commit", !.by = by, !.kind = kind, !.user = user,
                           !.participants = participants] \in Requests
      BY <3>2 DEF Requests
    <3>4. changes[c] \in Requests
      BY DEF RowsShape
    <3>5. (IF kind = "meta" THEN Participants(group) ELSE {}) \in SUBSET Users
      BY <2>1
    <3>6. changes' = [changes EXCEPT ![c] =
                        [changes[c] EXCEPT !.pc = "commit", !.by = by, !.kind = kind,
                           !.user = user,
                           !.participants = IF kind = "meta" THEN Participants(group) ELSE {}]]
      BY <1>2 DEF ChangeChecks
    <3>7. changes' \in [Changes -> Requests]
      BY <3>3, <3>4, <3>5, <3>6 DEF RowsShape
    <3> QED BY <3>1, <3>7 DEF RowsShape
  <2>3. RemovalsPermitted'
    BY <1>2 DEF ChangeChecks, Permitted, RowsShape, GroupRows, Requests, RemovalsPermitted
  <2>4. CreatorIsMember'
    BY <1>2 DEF ChangeChecks, RowsShape, GroupRows, Requests, CreatorIsMember
  <2>5. EmptyIsEmptied'
    BY <1>2 DEF ChangeChecks, EmptyIsEmptied
  <2> QED BY <2>2, <2>3, <2>4, <2>5
<1>3. CASE ChangeCommits(c)
  <2> DEFINE ch == changes[c]
             fails == ch.kind = "add" /\ ch.user \in group.members
             leaves == ch.kind = "remove" /\ ch.by = ch.user /\ ch.creator = ch.user
  <2>0. ch.user \in Users /\ ch.by \in Users /\ ch.epoch \in Nat /\ ch.pc = "commit"
    BY <1>3 DEF ChangeCommits, RowsShape, GroupRows, Requests
  <2>1. RowsShape'
    <3>1. changes[c] \in Requests /\ group \in GroupRows
      BY DEF RowsShape
    <3>2. NoChange(group.founder) \in Requests
      BY <3>1 DEF NoChange, Requests, GroupRows
    <3>3. ASSUME NEW pc \in {"handover", "announce"}, NEW epoch \in Nat
          PROVE  [ch EXCEPT !.pc = pc, !.epoch = epoch] \in Requests
      BY <3>1 DEF Requests
    <3>4. /\ (IF leaves THEN "handover" ELSE "announce") \in {"handover", "announce"}
          /\ (IF ch.kind = "meta" THEN ch.epoch ELSE ch.epoch + 1) \in Nat
      BY <2>0
    <3>5. changes' \in [Changes -> Requests]
      <4>1. CASE fails
        <5>1. changes' = [changes EXCEPT ![c] = NoChange(group.founder)]
          BY <1>3, <4>1 DEF ChangeCommits
        <5> QED BY <3>2, <5>1 DEF RowsShape
      <4>2. CASE ~ fails
        <5>1. changes' = [changes EXCEPT ![c] =
                            [ch EXCEPT !.pc = IF leaves THEN "handover" ELSE "announce",
                                       !.epoch = IF ch.kind = "meta" THEN ch.epoch
                                                 ELSE ch.epoch + 1]]
          BY <1>3, <4>2 DEF ChangeCommits
        <5>2. [ch EXCEPT !.pc = IF leaves THEN "handover" ELSE "announce",
                         !.epoch = IF ch.kind = "meta" THEN ch.epoch
                                   ELSE ch.epoch + 1] \in Requests
          BY <3>3, <3>4
        <5> QED BY <5>1, <5>2 DEF RowsShape
      <4> QED BY <4>1, <4>2
    <3>6. ASSUME NEW members \in SUBSET Users, NEW epoch \in Nat,
                 NEW leftBy \in [Users -> Nat], NEW emptied \in BOOLEAN
          PROVE  /\ [group EXCEPT !.members = members, !.epoch = epoch] \in GroupRows
                 /\ [group EXCEPT !.members = members, !.epoch = epoch,
                                  !.leftBy = leftBy, !.emptied = emptied] \in GroupRows
      BY <3>1 DEF GroupRows
    <3>7. group' \in GroupRows
      <4>1. /\ group.members \cup {ch.user} \in SUBSET Users
            /\ group.members \ {ch.user} \in SUBSET Users
            /\ [group.leftBy EXCEPT ![ch.user] = c] \in [Users -> Nat]
            /\ group.emptied \in BOOLEAN
        BY <2>0, <3>1 DEF GroupRows
      <4>2. ch.epoch + 1 \in Nat
        BY <2>0
      <4>3. CASE group' = group
        BY <3>1, <4>3
      <4>4. CASE group' = [group EXCEPT !.members = group.members \cup {ch.user},
                                        !.epoch = ch.epoch + 1]
        BY <3>6, <4>1, <4>2, <4>4
      <4>5. CASE group' = [group EXCEPT
                             !.members = group.members \ {ch.user}, !.epoch = ch.epoch + 1,
                             !.leftBy = [group.leftBy EXCEPT ![ch.user] = c],
                             !.emptied = group.emptied \/ group.members \subseteq {ch.user}]
        <5>1. (group.emptied \/ group.members \subseteq {ch.user}) \in BOOLEAN
          OBVIOUS
        <5> QED BY <3>6, <4>1, <4>2, <4>5, <5>1
      <4> QED BY <1>3, <4>3, <4>4, <4>5 DEF ChangeCommits
    <3>8. onStaleRow' \in BOOLEAN
      BY <1>3 DEF ChangeCommits
    <3> QED BY <3>5, <3>7, <3>8 DEF RowsShape
  <2>2. RemovalsPermitted'
    BY <1>3, <2>0 DEF ChangeCommits, RowsShape, GroupRows, Requests, RemovalsPermitted, NoChange
  <2>3. CreatorIsMember'
    <3>1. /\ \A d \in Changes : changes[d].pc \in {"handover", "appoint"} =>
                changes'[d].pc \in {"handover", "appoint"}
          /\ group.orphaned => group'.orphaned
      <4>1. \A d \in Changes \ {c} : changes'[d] = changes[d]
        BY <1>3 DEF ChangeCommits, RowsShape
      <4>2. group.orphaned => group'.orphaned
        BY <1>3 DEF ChangeCommits, RowsShape, GroupRows
      <4> QED BY <2>0, <4>1, <4>2
    <3>2. onStaleRow => onStaleRow'
      BY <1>3 DEF ChangeCommits
    <3>3. group.emptied => group'.emptied
      BY <1>3 DEF ChangeCommits, RowsShape, GroupRows, Requests
    <3>4. CASE group' = group
      BY <3>1, <3>2, <3>4 DEF CreatorIsMember
    <3>5. CASE ch.kind = "add" /\ group' = [group EXCEPT !.members = @ \cup {ch.user},
                                                          !.epoch = ch.epoch + 1]
      BY <3>1, <3>2, <3>5 DEF CreatorIsMember, RowsShape, GroupRows, Requests
    <3>6. CASE /\ ch.kind = "remove"
               /\ group' = [group EXCEPT
                           !.members = group.members \ {ch.user}, !.epoch = ch.epoch + 1,
                           !.leftBy = [group.leftBy EXCEPT ![ch.user] = c],
                           !.emptied = group.emptied \/ group.members \subseteq {ch.user}]
      <4>1. CASE onStaleRow' \/ group.creator # ch.user
        BY <3>1, <3>2, <3>3, <3>6, <4>1 DEF CreatorIsMember, RowsShape, GroupRows, Requests
      <4>2. CASE ~ onStaleRow' /\ group.creator = ch.user
        <5>1. ch.creator = group.creator
          BY <1>3, <3>6, <4>2 DEF ChangeCommits
        <5>2. leaves
          BY <2>0, <3>6, <4>2, <5>1 DEF RemovalsPermitted
        <5>3. changes'[c].pc = "handover"
          BY <1>3, <2>0, <3>6, <5>2 DEF ChangeCommits, RowsShape, GroupRows, Requests
        <5> QED BY <5>3 DEF CreatorIsMember
      <4> QED BY <4>1, <4>2
    <3> QED BY <1>3, <3>4, <3>5, <3>6 DEF ChangeCommits
  <2>4. EmptyIsEmptied'
    <3> SUFFICES ASSUME group'.members = {} PROVE group'.emptied
      BY DEF EmptyIsEmptied
    <3>1. CASE group' = group
      BY <3>1 DEF EmptyIsEmptied
    <3>2. CASE group' = [group EXCEPT !.members = group.members \cup {ch.user},
                                        !.epoch = ch.epoch + 1]
      <4>1. ch.user \in group'.members
        BY <3>2 DEF RowsShape, GroupRows
      <4> QED BY <4>1
    <3>3. CASE group' = [group EXCEPT
                           !.members = group.members \ {ch.user}, !.epoch = ch.epoch + 1,
                           !.leftBy = [group.leftBy EXCEPT ![ch.user] = c],
                           !.emptied = group.emptied \/ group.members \subseteq {ch.user}]
      <4>1. group'.members = group.members \ {ch.user}
        BY <3>3 DEF RowsShape, GroupRows
      <4>2. group'.emptied = (group.emptied \/ group.members \subseteq {ch.user})
        BY <3>3 DEF RowsShape, GroupRows
      <4> QED BY <4>1, <4>2
    <3> QED BY <1>3, <3>1, <3>2, <3>3 DEF ChangeCommits
  <2> QED BY <2>1, <2>2, <2>3, <2>4
<1>4. CASE ChangeHandsOver(c)
  <2>1. group' = group /\ onStaleRow' = onStaleRow /\ changes[c].pc = "handover"
    BY <1>4 DEF ChangeHandsOver
  <2>2. CASE /\ group.members = {}
             /\ changes' = [changes EXCEPT ![c].pc = "announce"]
    <3>1. RowsShape'
      BY <2>1, <2>2 DEF RowsShape, GroupRows, Requests
    <3>2. RemovalsPermitted'
      BY <2>2 DEF RowsShape, GroupRows, Requests, RemovalsPermitted
    <3>3. CreatorIsMember'
      BY <2>1, <2>2 DEF EmptyIsEmptied, CreatorIsMember
    <3>4. EmptyIsEmptied'
      BY <2>1 DEF EmptyIsEmptied
    <3> QED BY <3>1, <3>2, <3>3, <3>4
  <2>3. ASSUME NEW heir \in group.members,
               changes' = [changes EXCEPT
                              ![c] = [changes[c] EXCEPT !.pc = "appoint", !.creator = heir]]
        PROVE  CreatorInv'
    <3>1. heir \in Users
      BY DEF RowsShape, GroupRows
    <3>2. [changes[c] EXCEPT !.pc = "appoint", !.creator = heir] \in Requests
      BY <3>1, ZenonT(40) DEF RowsShape, Requests
    <3>3. RowsShape'
      BY <2>1, <2>3, <3>2 DEF RowsShape
    <3>4. changes'[c].pc = "appoint" /\ \A d \in Changes \ {c} : changes'[d] = changes[d]
      BY <2>3 DEF RowsShape, Requests
    <3>5. RemovalsPermitted'
      BY <3>4 DEF RemovalsPermitted
    <3>6. CreatorIsMember'
      BY <3>4 DEF CreatorIsMember
    <3>7. EmptyIsEmptied'
      BY <2>1 DEF EmptyIsEmptied
    <3> QED BY <3>3, <3>5, <3>6, <3>7
  <2> QED BY <1>4, <2>2, <2>3 DEF ChangeHandsOver
<1>5. CASE ChangeAppoints(c)
  <2>1. /\ group \in GroupRows /\ changes[c] \in Requests
        /\ changes[c].creator \in Users /\ onStaleRow' = onStaleRow
    BY <1>5 DEF RowsShape, Requests, ChangeAppoints
  <2>2. PICK orphaned \in BOOLEAN :
           orphaned = (group.orphaned \/ changes[c].creator \notin group.members)
    OBVIOUS
  <2>3. group' = [group EXCEPT !.creator = changes[c].creator, !.orphaned = orphaned]
    BY <1>5, <2>2 DEF ChangeAppoints
  <2>4. /\ group' \in GroupRows /\ group'.members = group.members
        /\ group'.creator = changes[c].creator /\ group'.orphaned = orphaned
        /\ group'.emptied = group.emptied
    BY <2>1, <2>2, <2>3 DEF GroupRows
  <2>5. [changes[c] EXCEPT !.pc = "announce"] \in Requests
    BY <2>1 DEF Requests
  <2>6. changes' = [changes EXCEPT ![c] = [changes[c] EXCEPT !.pc = "announce"]]
    BY <1>5 DEF ChangeAppoints
  <2>7. RowsShape'
    BY <2>1, <2>4, <2>5, <2>6 DEF RowsShape
  <2>8. changes'[c].pc = "announce" /\ \A d \in Changes \ {c} : changes'[d] = changes[d]
    BY <2>1, <2>6 DEF RowsShape, Requests
  <2>9. RemovalsPermitted'
    BY <2>8 DEF RemovalsPermitted
  <2>10. CreatorIsMember'
    BY <2>2, <2>4 DEF CreatorIsMember
  <2>11. EmptyIsEmptied'
    BY <2>4 DEF EmptyIsEmptied
  <2> QED BY <2>7, <2>9, <2>10, <2>11
<1>6. CASE ChangeAnnounces(c)
  <2>1. RowsShape'
    BY <1>6 DEF ChangeAnnounces, RowsShape, GroupRows, Requests, NoChange
  <2>2. RemovalsPermitted'
    BY <1>6 DEF ChangeAnnounces, RowsShape, GroupRows, Requests, RemovalsPermitted, NoChange
  <2>3. CreatorIsMember'
    BY <1>6 DEF ChangeAnnounces, RowsShape, GroupRows, Requests, CreatorIsMember, NoChange
  <2>4. EmptyIsEmptied'
    BY <1>6 DEF ChangeAnnounces, EmptyIsEmptied
  <2> QED BY <2>1, <2>2, <2>3, <2>4
<1> QED BY <1>1, <1>2, <1>3, <1>4, <1>5, <1>6 DEF ChangeStep

LEMMA CreatorInvStep == CreatorInv /\ [GroupNext]_vars => CreatorInv'
<1> SUFFICES ASSUME CreatorInv, [GroupNext]_vars
             PROVE  CreatorInv'
  OBVIOUS
<1>1. ASSUME NEW c \in Changes, ChangeStep(c)
      PROVE  CreatorInv'
  BY <1>1, CreatorInvChange
<1>2. ASSUME NEW p \in Pages, LoadPage(p)
      PROVE  CreatorInv'
  BY <1>2, PagesKeepRows DEF LoadPage
<1>3. ASSUME NEW p \in Pages, NEW t \in page[p].tasks, TaskStep(p, t)
      PROVE  CreatorInv'
  BY <1>3, PagesKeepRows DEF TaskStep, ClearSenderStates, ApplyEvent, ServerAnswers,
     SettleDetails, ApplyKeys, ListenOnChat, AppendBundles, LeavePage
<1>4. ASSUME NEW p \in Pages, NEW c \in Calls, CallStep(p, c)
      PROVE  CreatorInv'
  BY <1>4, PagesKeepRows DEF CallStep, CallStarts, ReadSenderState, CreateSenderState,
     SaveSenderState, MessageArrives
<1>5. CASE UNCHANGED vars
  BY <1>5, PagesKeepRows DEF vars
<1> QED BY <1>1, <1>2, <1>3, <1>4, <1>5 DEF GroupNext

\* The creator of a group is one of its members, except from the commit of his own leaving
\* to the commit that writes his heir, unless an heir had left too by then, everybody has
\* left the group once, or a change was committed on a chat row read before another one;
\* whatever the number of users, requests and pages.
THEOREM CreatorStaysMember == GroupSpec => []CreatorIsMember
<1>1. GroupInit => CreatorInv
  BY CreatorInvInit
<1>2. CreatorInv => CreatorIsMember
  BY DEF CreatorInv
<1> QED BY <1>1, <1>2, CreatorInvStep, PTL DEF GroupSpec

-----------------------------------------------------------------------------
\* How long the handlers are, and which handlers take which steps when.
LEMMA ScriptSteps ==
    ASSUME NEW t \in Tasks
    PROVE  /\ Len(Script[t.kind]) \in 1..5
           /\ t.kind = "load" => Len(Script[t.kind]) = 4
           /\ t.kind = "refresh" => Len(Script[t.kind]) = 2
           /\ t.kind = "memberRemoved" => Len(Script[t.kind]) = 5
           /\ t.kind \in {"chatUpdated", "userUpdated"} => Len(Script[t.kind]) = 4
           /\ t.left \in 1..Len(Script[t.kind]) =>
                /\ NextStep(t) = "clear" <=>
                     \/ t.kind = "load" /\ t.left = 2
                     \/ t.kind = "chatUpdated" /\ t.left = 4
                     \/ t.kind = "userUpdated" /\ t.left = 2
                     \/ t.kind = "userAdded" /\ t.left = 4
                     \/ t.kind = "memberRemoved" /\ t.left = 5
                     \/ t.kind = "chatDeleted" /\ t.left = 4
                     \/ t.kind = "userDeleted" /\ t.left = 4
                /\ NextStep(t) = "apply" <=>
                     \/ t.kind = "chatUpdated" /\ t.left = 3
                     \/ t.kind = "userUpdated" /\ t.left = 1
                     \/ t.kind = "chatMeta" /\ t.left = 3
                     \/ t.kind = "userMeta" /\ t.left = 1
                     \/ t.kind = "metadataSaved" /\ t.left = 3
                     \/ t.kind = "userAdded" /\ t.left = 3
                /\ NextStep(t) = "fetchKeys" <=>
                     \/ t.kind = "load" /\ t.left = 4
                     \/ t.kind = "refresh" /\ t.left = 2
                /\ NextStep(t) = "applyKeys" <=>
                     \/ t.kind = "load" /\ t.left = 3
                     \/ t.kind = "refresh" /\ t.left = 1
                /\ NextStep(t) = "listen" <=> t.kind = "load" /\ t.left = 1
                /\ NextStep(t) = "append" <=> t.kind = "userAdded" /\ t.left = 5
                /\ t.kind = "memberRemoved" =>
                     /\ NextStep(t) = "fetch" <=> t.left \in {2, 4}
                     /\ NextStep(t) = "settle" <=> t.left \in {1, 3}
                /\ t.kind = "chatUpdated" =>
                     /\ NextStep(t) = "fetch" <=> t.left = 2
                     /\ NextStep(t) = "settle" <=> t.left = 1
                /\ t.kind = "userUpdated" =>
                     /\ NextStep(t) = "fetch" <=> t.left = 4
                     /\ NextStep(t) = "settle" <=> t.left = 3
                /\ NextStep(t) = "leave" =>
                     /\ t.left = 1
                     /\ t.kind \in {"chatDeleted", "userDeleted", "hasLeft"}
<1>1. t.left \in Nat /\ t.kind \in AllTaskKinds
  BY DEF Tasks
<1>2. CASE t.kind = "load"
  <2>1. Script[t.kind] = <<"fetchKeys", "applyKeys", "clear", "listen">>
    BY <1>2 DEF Script
  <2>2. Len(Script[t.kind]) = 4
    BY <2>1
  <2>3. ASSUME t.left \in 1..4
        PROVE  /\ t.left = 4 => NextStep(t) = "fetchKeys"
               /\ t.left = 3 => NextStep(t) = "applyKeys"
               /\ t.left = 2 => NextStep(t) = "clear"
               /\ t.left = 1 => NextStep(t) = "listen"
    BY <2>1, <2>2, <2>3 DEF NextStep
  <2> QED BY <1>1, <1>2, <2>2, <2>3
<1>3. CASE t.kind = "refresh"
  <2>1. Script[t.kind] = <<"fetchKeys", "applyKeys">>
    BY <1>3 DEF Script
  <2>2. Len(Script[t.kind]) = 2
    BY <2>1
  <2>3. ASSUME t.left \in 1..2
        PROVE  /\ t.left = 2 => NextStep(t) = "fetchKeys"
               /\ t.left = 1 => NextStep(t) = "applyKeys"
    BY <2>1, <2>2, <2>3 DEF NextStep
  <2> QED BY <1>1, <1>3, <2>2, <2>3, SMTT(60)
<1>4. CASE t.kind = "chatUpdated"
  BY <1>1, <1>4 DEF Script, NextStep
<1>5. CASE t.kind = "userUpdated"
  BY <1>1, <1>5 DEF Script, NextStep
<1>6. CASE t.kind = "chatMeta"
  BY <1>1, <1>6 DEF Script, NextStep
<1>7. CASE t.kind = "userMeta"
  BY <1>1, <1>7 DEF Script, NextStep
<1>8. CASE t.kind = "metadataSaved"
  BY <1>1, <1>8 DEF Script, NextStep
<1>9. CASE t.kind = "userAdded"
  BY <1>1, <1>9 DEF Script, NextStep
<1>10. CASE t.kind = "memberRemoved"
  BY <1>1, <1>10 DEF Script, NextStep
<1>11. CASE t.kind = "chatDeleted"
  BY <1>1, <1>11 DEF Script, NextStep
<1>12. CASE t.kind = "userDeleted"
  BY <1>1, <1>12 DEF Script, NextStep
<1>13. CASE t.kind = "hasLeft"
  BY <1>1, <1>13 DEF Script, NextStep
<1> QED BY <1>1, <1>2, <1>3, <1>4, <1>5, <1>6, <1>7, <1>8, <1>9, <1>10, <1>11, <1>12, <1>13
        DEF AllTaskKinds

-----------------------------------------------------------------------------
\* The epochs and numbers of changes stay within what MaxChanges requests can reach: the
\* requests start in turn, so the epoch is at most the number of those that have started.
RowsBounded ==
    /\ group.epoch \in Epochs
    /\ \A u \in Users : group.leftBy[u] \in 0..MaxChanges
    /\ \A c \in Changes :
          /\ changes[c].epoch <= MaxChanges + 1
          /\ changes[c].pc = "none" =>
                /\ group.epoch <= c
                /\ \A d \in Changes : changes[d].pc # "none" => d < c
          /\ changes[c].pc \in {"check", "commit"} => changes[c].epoch \in 1..c
          /\ changes[c].pc \in {"handover", "appoint", "announce"} => changes[c].epoch >= 1

LEMMA RowsBoundedInit == GroupInit => RowsBounded
<1> SUFFICES ASSUME GroupInit PROVE RowsBounded
  OBVIOUS
<1> USE GroupAssumption
<1>1. group.epoch = 1 /\ group.leftBy = [u \in Users |-> 0]
  BY DEF GroupInit
<1>2. \A c \in Changes : changes[c].pc = "none" /\ changes[c].epoch = 0
  BY DEF GroupInit, NoChange
<1> QED BY <1>1, <1>2 DEF RowsBounded, Epochs, Changes

\* What the two steps of a handover keep of a request and of the group's row.
LEMMA HandsOverFields ==
    ASSUME changes \in [Changes -> Requests], NEW c \in Changes, ChangeHandsOver(c)
    PROVE  /\ \A d \in Changes \ {c} : changes'[d] = changes[d]
           /\ changes[c].pc = "handover" /\ changes'[c].pc \in {"appoint", "announce"}
           /\ changes'[c].kind = changes[c].kind /\ changes'[c].user = changes[c].user
           /\ changes'[c].by = changes[c].by /\ changes'[c].epoch = changes[c].epoch
           /\ changes'[c].pc = "announce" => group.members = {}
<1>1. changes[c].pc = "handover" /\ changes[c] \in Requests
  BY DEF ChangeHandsOver
<1>2. CASE group.members = {} /\ changes' = [changes EXCEPT ![c].pc = "announce"]
  BY <1>1, <1>2 DEF Requests
<1>3. ASSUME NEW heir \in group.members,
             changes' = [changes EXCEPT
                            ![c] = [changes[c] EXCEPT !.pc = "appoint", !.creator = heir]]
      PROVE  /\ \A d \in Changes \ {c} : changes'[d] = changes[d]
             /\ changes'[c].pc = "appoint"
             /\ changes'[c].kind = changes[c].kind /\ changes'[c].user = changes[c].user
             /\ changes'[c].by = changes[c].by /\ changes'[c].epoch = changes[c].epoch
  <2>1. PICK r : r = [changes[c] EXCEPT !.pc = "appoint", !.creator = heir]
    OBVIOUS
  <2>2. /\ r.pc = "appoint" /\ r.kind = changes[c].kind /\ r.user = changes[c].user
        /\ r.by = changes[c].by /\ r.epoch = changes[c].epoch
    BY <1>1, <2>1 DEF Requests
  <2>3. changes' = [changes EXCEPT ![c] = r]
    BY <1>3, <2>1
  <2> QED BY <2>2, <2>3
<1> QED BY <1>1, <1>2, <1>3 DEF ChangeHandsOver

LEMMA AppointsFields ==
    ASSUME group \in GroupRows, changes \in [Changes -> Requests],
           NEW c \in Changes, ChangeAppoints(c)
    PROVE  /\ \A d \in Changes \ {c} : changes'[d] = changes[d]
           /\ changes[c].pc = "appoint" /\ changes'[c].pc = "announce"
           /\ changes'[c].kind = changes[c].kind /\ changes'[c].user = changes[c].user
           /\ changes'[c].by = changes[c].by /\ changes'[c].epoch = changes[c].epoch
           /\ group'.members = group.members /\ group'.founder = group.founder
           /\ group'.epoch = group.epoch /\ group'.leftBy = group.leftBy
<1>1. changes[c].pc = "appoint" /\ changes[c] \in Requests
  BY DEF ChangeAppoints
<1>2. changes' = [changes EXCEPT ![c].pc = "announce"]
  BY DEF ChangeAppoints
<1>3. /\ group'.members = group.members /\ group'.founder = group.founder
      /\ group'.epoch = group.epoch /\ group'.leftBy = group.leftBy
  BY DEF ChangeAppoints, GroupRows
<1> QED BY <1>1, <1>2, <1>3 DEF Requests

LEMMA RowsBoundedChange ==
    ASSUME CreatorInv, RowsBounded, NEW c \in Changes, ChangeStep(c)
    PROVE  RowsBounded'
<1> USE GroupAssumption DEF Changes, Epochs
<1> c \in Nat /\ MaxChanges \in Nat /\ c <= MaxChanges
  OBVIOUS
<1>a. /\ group \in GroupRows /\ changes \in [Changes -> Requests]
      /\ group.epoch \in Nat /\ group.leftBy \in [Users -> Nat]
      /\ \A d \in Changes : changes[d].epoch \in Nat /\ changes[d].pc \in
            {"none", "check", "commit", "handover", "appoint", "announce", "done"}
  BY DEF CreatorInv, RowsShape, GroupRows, Requests
<1>1. CASE ChangeStarts(c)
  <2>1. group' = group
    BY <1>1 DEF ChangeStarts
  <2>2. changes[c].pc = "none" /\ \A d \in 1..(c - 1) : changes[d].pc # "none"
    BY <1>1 DEF ChangeStarts
  <2>3. /\ changes'[c].pc = "check" /\ changes'[c].epoch = group.epoch
        /\ \A d \in Changes \ {c} : changes'[d] = changes[d]
    BY <1>1, <1>a DEF ChangeStarts, Requests
  <2>4. group.epoch \in 1..c
    BY <2>2 DEF RowsBounded
  <2>5. ASSUME NEW d \in Changes, changes'[d].pc = "none"
        PROVE  /\ group'.epoch <= d
               /\ \A e \in Changes : changes'[e].pc # "none" => e < d
    <3>1. d # c /\ changes[d].pc = "none"
      BY <2>3, <2>5
    <3>2. c < d
      BY <2>2, <3>1
    <3> QED BY <2>1, <2>3, <3>1, <3>2 DEF RowsBounded
  <2>6. ASSUME NEW d \in Changes
        PROVE  /\ changes'[d].epoch <= MaxChanges + 1
               /\ changes'[d].pc \in {"check", "commit"} => changes'[d].epoch \in 1..d
               /\ changes'[d].pc \in {"handover", "appoint", "announce"} =>
                     changes'[d].epoch >= 1
    BY <2>3, <2>4 DEF RowsBounded
  <2> QED BY <2>1, <2>5, <2>6 DEF RowsBounded
<1>2. ASSUME NEW by \in Users, NEW user \in Users, NEW kind \in ChangeKinds,
             ChangeChecks(c, by, kind, user)
      PROVE  RowsBounded'
  <2>1. group' = group
    BY <1>2 DEF ChangeChecks
  <2>2. /\ changes[c].pc = "check" /\ changes'[c].pc = "commit"
        /\ changes'[c].epoch = changes[c].epoch
        /\ \A d \in Changes \ {c} : changes'[d] = changes[d]
    BY <1>2, <1>a DEF ChangeChecks, Requests
  <2> QED BY <2>1, <2>2 DEF RowsBounded
<1>3. CASE ChangeCommits(c)
  <2>1. changes[c].pc = "commit" /\ changes[c].epoch \in 1..c
    BY <1>3 DEF ChangeCommits, RowsBounded
  <2>2. /\ changes'[c].pc \in {"done", "handover", "announce"}
        /\ changes'[c].epoch \in 0..(c + 1)
        /\ changes'[c].pc \in {"handover", "announce"} => changes'[c].epoch >= 1
        /\ \A d \in Changes \ {c} : changes'[d] = changes[d]
    <3> DEFINE ch == changes[c]
               fails == ch.kind = "add" /\ ch.user \in group.members
               leaves == ch.kind = "remove" /\ ch.by = ch.user /\ ch.creator = ch.user
    <3>1. PICK r : r = [ch EXCEPT !.pc = IF leaves THEN "handover" ELSE "announce",
                                  !.epoch = IF ch.kind = "meta" THEN ch.epoch
                                            ELSE ch.epoch + 1]
      OBVIOUS
    <3>2. ch \in Requests
      BY <1>a
    <3>3. r.pc \in {"handover", "announce"} /\ r.epoch \in {ch.epoch, ch.epoch + 1}
      BY <3>1, <3>2 DEF Requests
    <3>4. changes' = [changes EXCEPT ![c] = IF fails THEN NoChange(group.founder) ELSE r]
      BY <1>3, <3>1 DEF ChangeCommits
    <3>5. \A d \in Changes \ {c} : changes'[d] = changes[d]
      BY <1>a, <3>4
    <3>6. CASE fails
      BY <1>a, <3>4, <3>5, <3>6 DEF NoChange
    <3>7. CASE ~ fails
      <4>1. changes'[c] = r
        BY <1>a, <3>4, <3>7
      <4> QED BY <2>1, <3>3, <3>5, <4>1
    <3> QED BY <3>6, <3>7
  <2>3. /\ group'.epoch \in {group.epoch, changes[c].epoch + 1}
        /\ \A u \in Users : group'.leftBy[u] \in {group.leftBy[u], c}
    <3>1. CASE group' = group
      BY <3>1
    <3>2. CASE group' = [group EXCEPT !.members = group.members \cup {changes[c].user},
                                      !.epoch = changes[c].epoch + 1]
      BY <1>a, <3>2 DEF GroupRows
    <3>3. CASE group' = [group EXCEPT
                             !.members = group.members \ {changes[c].user},
                             !.epoch = changes[c].epoch + 1,
                             !.leftBy = [group.leftBy EXCEPT ![changes[c].user] = c],
                             !.emptied = group.emptied \/ group.members \subseteq {changes[c].user}]
      BY <1>a, <3>3 DEF GroupRows
    <3> QED BY <1>3, <3>1, <3>2, <3>3 DEF ChangeCommits
  <2>4. ASSUME NEW d \in Changes, changes'[d].pc = "none"
        PROVE  /\ group'.epoch <= d
               /\ \A e \in Changes : changes'[e].pc # "none" => e < d
    <3>1. d # c /\ changes[d].pc = "none"
      BY <2>2, <2>4
    <3>2. c < d /\ group.epoch <= d
      BY <2>1, <3>1 DEF RowsBounded
    <3>3. group'.epoch <= d
      BY <1>a, <2>1, <2>3, <3>2
    <3> QED BY <2>2, <3>1, <3>2, <3>3 DEF RowsBounded
  <2>5. group'.epoch \in Epochs
    BY <2>1, <2>3 DEF RowsBounded
  <2>6. ASSUME NEW d \in Changes
        PROVE  /\ changes'[d].epoch <= MaxChanges + 1
               /\ changes'[d].pc \in {"check", "commit"} => changes'[d].epoch \in 1..d
               /\ changes'[d].pc \in {"handover", "appoint", "announce"} =>
                     changes'[d].epoch >= 1
    BY <2>2 DEF RowsBounded
  <2>7. \A u \in Users : group'.leftBy[u] \in 0..MaxChanges
    BY <2>3 DEF RowsBounded
  <2> QED BY <2>4, <2>5, <2>6, <2>7 DEF RowsBounded
<1>4. CASE ChangeHandsOver(c)
  <2>1. group'.epoch = group.epoch /\ group'.leftBy = group.leftBy
    BY <1>4 DEF ChangeHandsOver
  <2>2. /\ changes[c].pc = "handover" /\ changes'[c].pc \in {"appoint", "announce"}
        /\ changes'[c].epoch = changes[c].epoch
        /\ \A d \in Changes \ {c} : changes'[d] = changes[d]
    BY <1>4, <1>a, HandsOverFields
  <2> QED BY <2>1, <2>2 DEF RowsBounded
<1>5. CASE ChangeAppoints(c)
  <2>1. group'.epoch = group.epoch /\ group'.leftBy = group.leftBy
    BY <1>5, <1>a DEF ChangeAppoints, GroupRows
  <2>2. /\ changes[c].pc = "appoint" /\ changes'[c].pc = "announce"
        /\ changes'[c].epoch = changes[c].epoch
        /\ \A d \in Changes \ {c} : changes'[d] = changes[d]
    BY <1>5, <1>a DEF ChangeAppoints, Requests
  <2> QED BY <2>1, <2>2 DEF RowsBounded
<1>6. CASE ChangeAnnounces(c)
  <2>1. group' = group
    BY <1>6 DEF ChangeAnnounces
  <2>2. /\ changes[c].pc = "announce" /\ changes'[c].pc = "done" /\ changes'[c].epoch = 0
        /\ \A d \in Changes \ {c} : changes'[d] = changes[d]
    BY <1>6, <1>a DEF ChangeAnnounces, NoChange
  <2> QED BY <2>1, <2>2 DEF RowsBounded
<1> QED BY <1>1, <1>2, <1>3, <1>4, <1>5, <1>6 DEF ChangeStep

-----------------------------------------------------------------------------
\* What is true of every task of a page at any time.
TaskOK(pg, t) ==
    /\ t.left \in 1..Len(Script[t.kind])
    /\ t.kind \in {"chatUpdated", "userUpdated", "chatMeta", "userMeta", "metadataSaved",
                   "userAdded"} => t.epoch >= 1
    /\ t.kind = "load" /\ t.left <= 2 => pg.epoch >= 1

\* The calls that have made or taken over a sender state, and those that have used it: the
\* page has made no more chains and counted no further than that.
Made(cs) == {c \in Calls : cs[c].pc \in {"encrypt", "send", "done"}}
Spent(cs) == {c \in Calls : cs[c].pc \in {"send", "done"}}
StateOK(pg, cs, st) == st.chain <= pg.chains /\ st.counter <= Cardinality(Spent(cs))

PageOK(pg, keys, cs) ==
    /\ pg.listening => pg.epoch >= 1
    /\ \A t \in pg.tasks : TaskOK(pg, t)
    /\ pg.chains <= Cardinality(Made(cs))
    /\ \A e \in Epochs : StateOK(pg, cs, keys[e])
    /\ \A c \in Calls :
          /\ StateOK(pg, cs, cs[c].st)
          /\ cs[c].pc \in {"read", "create", "encrypt"} => cs[c].epoch >= 1

PageTypes ==
    /\ page \in [Pages -> PageStates]
    /\ store \in [Pages -> [Epochs -> SenderStates]]
    /\ calls \in [Pages -> [Calls -> CallStates]]
    /\ messages \in Seq(Messages)
    /\ \A p \in Pages : PageOK(page[p], store[p], calls[p])

TypeInv == CreatorInv /\ RowsBounded /\ PageTypes

\* The fields the rows give to pages.
LEMMA RowFields ==
    ASSUME TypeInv
    PROVE  /\ group.epoch \in Epochs /\ group.founder \in Users
           /\ Participants(group) \in SUBSET Users
           /\ \A c \in Changes : /\ changes[c].user \in Users /\ changes[c].by \in Users
                                 /\ changes[c].epoch \in 0..(MaxChanges + 1)
                                 /\ changes[c].participants \in SUBSET Users
<1> USE GroupAssumption
<1>1. group \in GroupRows /\ changes \in [Changes -> Requests]
  BY DEF TypeInv, CreatorInv, RowsShape
<1>2. \A c \in Changes : changes[c] \in Requests /\ changes[c].epoch <= MaxChanges + 1
  BY <1>1 DEF TypeInv, RowsBounded
<1>3. \A c \in Changes : /\ changes[c].user \in Users /\ changes[c].by \in Users
                         /\ changes[c].epoch \in 0..(MaxChanges + 1)
                         /\ changes[c].participants \in SUBSET Users
  BY <1>2 DEF Requests
<1>4. group.members \in SUBSET Users /\ group.founder \in Users
  BY <1>1 DEF GroupRows
<1> QED BY <1>3, <1>4 DEF TypeInv, RowsBounded, Participants

LEMMA PageTypesInit == GroupInit => PageTypes
<1> SUFFICES ASSUME GroupInit PROVE PageTypes
  OBVIOUS
<1> USE GroupAssumption
<1>1. ClosedPage \in PageStates
  BY DEF ClosedPage, PageStates
<1>2. NoState \in SenderStates
  BY DEF NoState, SenderStates
<1>3. NoCall \in CallStates
  BY <1>2 DEF NoCall, CallStates
<1>4. ASSUME NEW p \in Pages
      PROVE  PageOK(page[p], store[p], calls[p])
  <2>1. page[p] = ClosedPage /\ store[p] = [e \in Epochs |-> NoState]
        /\ calls[p] = [c \in Calls |-> NoCall]
    BY DEF GroupInit
  <2>2. /\ page[p].tasks = {} /\ ~ page[p].listening /\ page[p].chains = 0
        /\ \A e \in Epochs : store[p][e].chain = 0 /\ store[p][e].counter = 0
        /\ \A c \in Calls : /\ calls[p][c].pc = "none" /\ calls[p][c].st.chain = 0
                            /\ calls[p][c].st.counter = 0
    BY <2>1 DEF ClosedPage, NoState, NoCall
  <2>3. Made(calls[p]) = {} /\ Spent(calls[p]) = {}
    BY <2>2 DEF Made, Spent
  <2>4. Cardinality({}) = 0
    BY FS_EmptySet
  <2> QED BY <2>2, <2>3, <2>4 DEF PageOK, StateOK
<1> QED BY <1>1, <1>2, <1>3, <1>4 DEF GroupInit, PageTypes

-----------------------------------------------------------------------------
\* A step that writes one page's states keeps the types when what it writes has them.
LEMMA OnePage ==
    ASSUME TypeInv, NEW p \in Pages, NEW pg \in PageStates,
           NEW keys \in [Epochs -> SenderStates], NEW cs \in [Calls -> CallStates],
           page' = [page EXCEPT ![p] = pg], store' = [store EXCEPT ![p] = keys],
           calls' = [calls EXCEPT ![p] = cs], messages' \in Seq(Messages),
           PageOK(pg, keys, cs)
    PROVE  PageTypes'
<1>1. /\ page \in [Pages -> PageStates] /\ store \in [Pages -> [Epochs -> SenderStates]]
      /\ calls \in [Pages -> [Calls -> CallStates]]
      /\ \A q \in Pages : PageOK(page[q], store[q], calls[q])
  BY DEF TypeInv, PageTypes
<1>2. /\ page' \in [Pages -> PageStates] /\ store' \in [Pages -> [Epochs -> SenderStates]]
      /\ calls' \in [Pages -> [Calls -> CallStates]]
  BY <1>1
<1>3. ASSUME NEW q \in Pages
      PROVE  PageOK(page'[q], store'[q], calls'[q])
  <2>1. CASE q = p
    BY <1>1, <2>1
  <2>2. CASE q # p
    BY <1>1, <2>2
  <2> QED BY <2>1, <2>2
<1> QED BY <1>2, <1>3 DEF PageTypes

\* The parts of one page's state.
LEMMA PageFacts ==
    ASSUME TypeInv, NEW p \in Pages
    PROVE  /\ page[p] \in PageStates /\ store[p] \in [Epochs -> SenderStates]
           /\ calls[p] \in [Calls -> CallStates]
           /\ page = [page EXCEPT ![p] = page[p]] /\ store = [store EXCEPT ![p] = store[p]]
           /\ calls = [calls EXCEPT ![p] = calls[p]]
           /\ PageOK(page[p], store[p], calls[p])
           /\ messages \in Seq(Messages)
           /\ page[p].tasks \subseteq Tasks
BY DEF TypeInv, PageTypes, PageStates

\* What a step of a task leaves of the task.
Follows(r, t) ==
    /\ r \in Tasks /\ r.left = t.left - 1 /\ r.left >= 1
    /\ r.kind = t.kind /\ r.change = t.change /\ r.user = t.user /\ r.epoch = t.epoch

\* A step of a task changes the page's tasks and the history of those that have ended.
LEMMA MovesFields ==
    ASSUME TypeInv, NEW pg \in PageStates, NEW t \in Tasks, TaskOK(pg, t), NEW t2 \in Tasks,
           t2.left = t.left, t2.kind = t.kind, t2.change = t.change, t2.user = t.user,
           t2.epoch = t.epoch
    PROVE  LET m == Moves(pg, t, t2)
               rest == [t2 EXCEPT !.left = @ - 1]
           IN  /\ m \in PageStates
               /\ m.open = pg.open /\ m.listening = pg.listening /\ m.loads = pg.loads
               /\ m.epoch = pg.epoch /\ m.bundles = pg.bundles /\ m.chains = pg.chains
               /\ m.straddled = pg.straddled /\ m.wentBack = pg.wentBack
               /\ m.refused = pg.refused /\ m.crossed = pg.crossed
               /\ m.tasks = (pg.tasks \ {t}) \cup (IF t.left = 1 THEN {} ELSE {rest})
               /\ t.left # 1 => /\ Follows(rest, t) /\ rest.got = t2.got
                                /\ rest.bundles = t2.bundles
               /\ m.handled = IF t.left = 1 /\ group.leftBy[t.user] = t.change
                              THEN pg.handled \cup ({t.change} \ {0}) ELSE pg.handled
<1> DEFINE rest == [t2 EXCEPT !.left = @ - 1]
           m == Moves(pg, t, t2)
<1> USE GroupAssumption
<1>1. t.left \in 1..5
  BY DEF TaskOK, Tasks
<1>2. rest.left = t.left - 1 /\ rest.kind = t.kind /\ rest.change = t.change
      /\ rest.user = t.user /\ rest.epoch = t.epoch /\ rest.got = t2.got
      /\ rest.bundles = t2.bundles /\ rest \in Tasks
  BY <1>1 DEF Tasks
<1>3. t.left # 1 => Follows(rest, t)
  BY <1>1, <1>2 DEF Follows
<1>4. (rest.left = 0) = (t.left = 1)
  BY <1>1, <1>2
<1>5. PICK ts \in SUBSET Tasks :
        ts = (pg.tasks \ {t}) \cup (IF t.left = 1 THEN {} ELSE {rest})
  BY <1>2 DEF PageStates
<1>6. PICK hd \in SUBSET Changes :
        hd = IF t.left = 1 /\ group.leftBy[t.user] = t.change
             THEN pg.handled \cup ({t.change} \ {0}) ELSE pg.handled
  <2>1. {t.change} \ {0} \subseteq Changes
    BY DEF Tasks, Changes
  <2> QED BY <2>1 DEF PageStates
<1>7. m = [pg EXCEPT !.tasks = ts, !.handled = hd]
  <2>1. CASE t.left = 1
    BY <1>4, <1>5, <1>6, <2>1 DEF Moves
  <2>2. CASE t.left # 1
    BY <1>4, <1>5, <1>6, <2>2 DEF Moves
  <2> QED BY <2>1, <2>2
<1>8. m \in PageStates /\ m.tasks = ts /\ m.handled = hd
  BY <1>7 DEF PageStates
<1>9. /\ m.open = pg.open /\ m.listening = pg.listening /\ m.loads = pg.loads
      /\ m.epoch = pg.epoch /\ m.bundles = pg.bundles /\ m.chains = pg.chains
      /\ m.straddled = pg.straddled /\ m.wentBack = pg.wentBack
      /\ m.refused = pg.refused /\ m.crossed = pg.crossed
  BY <1>7 DEF PageStates
<1> QED BY <1>2, <1>3, <1>5, <1>6, <1>8, <1>9

-----------------------------------------------------------------------------
LEMMA WithEpochFields ==
    ASSUME NEW pg \in PageStates, NEW e \in 0..(MaxChanges + 1)
    PROVE  LET w == WithEpoch(pg, e)
           IN  /\ w \in PageStates
               /\ w.open = pg.open /\ w.listening = pg.listening /\ w.loads = pg.loads
               /\ w.epoch = e /\ w.bundles = pg.bundles /\ w.tasks = pg.tasks
               /\ w.chains = pg.chains /\ w.handled = pg.handled
               /\ w.straddled = pg.straddled /\ w.refused = pg.refused
               /\ w.crossed = pg.crossed
               /\ ~ w.wentBack => ~ pg.wentBack /\ pg.epoch <= e
<1> USE GroupAssumption
<1>1. PICK b \in BOOLEAN : b = (pg.wentBack \/ e < pg.epoch)
  OBVIOUS
<1>2. WithEpoch(pg, e) = [pg EXCEPT !.epoch = e, !.wentBack = b]
  BY <1>1 DEF WithEpoch
<1>3. pg.epoch \in Nat /\ e \in Nat
  BY DEF PageStates
<1>4. PICK w : w = WithEpoch(pg, e)
  OBVIOUS
<1>5. w \in PageStates /\ w.wentBack = b
  BY <1>2, <1>4 DEF PageStates
<1>6. /\ w.open = pg.open /\ w.listening = pg.listening /\ w.loads = pg.loads
      /\ w.epoch = e /\ w.bundles = pg.bundles /\ w.tasks = pg.tasks
      /\ w.chains = pg.chains /\ w.handled = pg.handled
      /\ w.straddled = pg.straddled /\ w.refused = pg.refused
      /\ w.crossed = pg.crossed
  BY <1>2, <1>4 DEF PageStates
<1>7. ~ b => ~ pg.wentBack /\ ~ (e < pg.epoch)
  BY <1>1, Zenon
<1>8. ~ (e < pg.epoch) => pg.epoch <= e
  BY <1>3
<1> QED BY <1>4, <1>5, <1>6, <1>7, <1>8

\* What a step that leaves its task with the answer `got` keeps of the page.
Moved(m, pg, t, got) ==
    /\ m \in PageStates
    /\ m.open = pg.open /\ m.listening = pg.listening /\ m.loads = pg.loads
    /\ m.epoch = pg.epoch /\ m.bundles = pg.bundles /\ m.chains = pg.chains
    /\ m.straddled = pg.straddled /\ m.wentBack = pg.wentBack
    /\ m.refused = pg.refused /\ m.crossed = pg.crossed
    /\ \A r \in m.tasks : r \in pg.tasks \/ (Follows(r, t) /\ r.got = got)
    /\ \A d \in m.handled :
          \/ d \in pg.handled
          \/ d = t.change /\ d # 0 /\ t.left = 1 /\ group.leftBy[t.user] = t.change

LEMMA MovesMoved ==
    ASSUME TypeInv, NEW p \in Pages, NEW t \in page[p].tasks, NEW t2 \in Tasks,
           t2.left = t.left, t2.kind = t.kind, t2.change = t.change, t2.user = t.user,
           t2.epoch = t.epoch
    PROVE  Moved(Moves(page[p], t, t2), page[p], t, t2.got)
<1> DEFINE rest == [t2 EXCEPT !.left = @ - 1]
<1>1. page[p] \in PageStates /\ t \in Tasks /\ TaskOK(page[p], t)
  BY PageFacts DEF PageOK
<1>2. PICK m : m = Moves(page[p], t, t2)
  OBVIOUS
<1>3. PICK pg : pg = page[p]
  OBVIOUS
<1>4. /\ m \in PageStates
      /\ m.open = pg.open /\ m.listening = pg.listening /\ m.loads = pg.loads
      /\ m.epoch = pg.epoch /\ m.bundles = pg.bundles /\ m.chains = pg.chains
      /\ m.straddled = pg.straddled /\ m.wentBack = pg.wentBack
      /\ m.refused = pg.refused /\ m.crossed = pg.crossed
      /\ m.tasks = (pg.tasks \ {t}) \cup (IF t.left = 1 THEN {} ELSE {rest})
      /\ t.left # 1 => Follows(rest, t) /\ rest.got = t2.got
      /\ m.handled = IF t.left = 1 /\ group.leftBy[t.user] = t.change
                     THEN pg.handled \cup ({t.change} \ {0}) ELSE pg.handled
  BY <1>1, <1>2, <1>3, MovesFields
<1>5. \A r \in m.tasks : r \in pg.tasks \/ (Follows(r, t) /\ r.got = t2.got)
  BY <1>4
<1>6. \A d \in m.handled :
          \/ d \in pg.handled
          \/ d = t.change /\ d # 0 /\ t.left = 1 /\ group.leftBy[t.user] = t.change
  BY <1>4
<1> QED BY <1>2, <1>3, <1>4, <1>5, <1>6 DEF Moved

\* The calls of a page that has been left.
Ended(cs) == [c \in Calls |-> IF cs[c].pc = "none" THEN NoCall ELSE [NoCall EXCEPT !.pc = "done"]]

\* What a step of task t of page p may make of the page, its store and its calls.
TaskEffect(p, t, pg, keys, cs) ==
    /\ pg.chains = page[p].chains /\ pg.crossed = page[p].crossed
    /\ \A d \in pg.handled :
          \/ d \in page[p].handled
          \/ d = t.change /\ d # 0 /\ t.left = 1 /\ group.leftBy[t.user] = t.change
    /\ \A r \in pg.tasks :
          \/ r \in page[p].tasks
          \/ /\ Follows(r, t)
             /\ r.got = 0 \/ (IF NextStep(t) \in {"fetch", "fetchKeys"}
                              THEN r.got = group.epoch ELSE r.got = t.got)
             /\ NextStep(t) = "applyKeys" => t.got # 0
          \/ r.kind = "refresh" /\ r.left = 2 /\ r.change = 0 /\ r.epoch = 0 /\ r.got = 0
    /\ ~ pg.wentBack => ~ page[p].wentBack
    /\ ~ pg.refused => ~ page[p].refused
    /\ pg.listening => page[p].listening \/ NextStep(t) = "listen"
    /\ IF NextStep(t) = "clear"
       THEN /\ keys = [e \in Epochs |-> NoState]
            /\ pg.straddled = \E c \in Calls : calls[p][c].pc = "encrypt"
       ELSE keys = store[p] /\ pg.straddled = page[p].straddled
    /\ IF NextStep(t) = "leave"
       THEN /\ cs = Ended(calls[p]) /\ pg.tasks = {} /\ ~ pg.listening
       ELSE cs = calls[p] /\ (~ pg.wentBack => page[p].epoch <= pg.epoch)
    /\ \/ NextStep(t) = "leave" /\ pg.epoch = 0
       \/ NextStep(t) = "apply" /\ pg.epoch = t.epoch
       \/ NextStep(t) \in {"settle", "applyKeys"} /\ t.got # 0 /\ pg.epoch = t.got
       \/ /\ ~ (NextStep(t) \in {"settle", "applyKeys"} /\ t.got # 0)
          /\ NextStep(t) \notin {"leave", "apply"}
          /\ pg.epoch = page[p].epoch
    /\ NextStep(t) = "settle" /\ t.kind = "memberRemoved" /\ t.left = 1 /\ t.got = 0
       => pg.refused

WrittenBy(p, pg, keys, cs) ==
    /\ page' = [page EXCEPT ![p] = pg] /\ store' = [store EXCEPT ![p] = keys]
    /\ calls' = [calls EXCEPT ![p] = cs]
    /\ UNCHANGED <<group, changes, onStaleRow>>

LEMMA EndedType == ASSUME NEW cs PROVE Ended(cs) \in [Calls -> CallStates]
<1>1. NoState \in SenderStates
  BY GroupAssumption DEF NoState, SenderStates
<1>2. NoCall \in CallStates
  BY <1>1, GroupAssumption DEF NoCall, CallStates
<1>3. [NoCall EXCEPT !.pc = "done"] \in CallStates
  BY <1>2 DEF CallStates
<1> QED BY <1>2, <1>3 DEF Ended

LEMMA TaskStepEffect ==
    ASSUME TypeInv, NEW p \in Pages, NEW t \in page[p].tasks, TaskStep(p, t)
    PROVE  \E pg \in PageStates, keys \in [Epochs -> SenderStates], cs \in [Calls -> CallStates] :
              /\ WrittenBy(p, pg, keys, cs) /\ messages' = messages
              /\ TaskEffect(p, t, pg, keys, cs)
<1> USE GroupAssumption
<1>1. /\ page[p] \in PageStates /\ store[p] \in [Epochs -> SenderStates]
      /\ calls[p] \in [Calls -> CallStates] /\ t \in Tasks /\ TaskOK(page[p], t)
      /\ page \in [Pages -> PageStates]
      /\ store = [store EXCEPT ![p] = store[p]] /\ calls = [calls EXCEPT ![p] = calls[p]]
  BY PageFacts DEF PageOK, TypeInv, PageTypes
<1>2. t.left \in 1..5 /\ page[p].epoch \in Nat /\ t.got \in 0..(MaxChanges + 1)
      /\ t.epoch \in 0..(MaxChanges + 1) /\ 0 \in 0..(MaxChanges + 1)
  BY <1>1 DEF TaskOK, Tasks, PageStates
<1>3. [e \in Epochs |-> NoState] \in [Epochs -> SenderStates]
  BY DEF NoState, SenderStates
<1>4. CASE ClearSenderStates(p, t)
  <2>1. PICK b \in BOOLEAN : b = \E c \in Calls : calls[p][c].pc = "encrypt"
    OBVIOUS
  <2>2. PICK m : m = Moves(page[p], t, t)
    OBVIOUS
  <2>3. PICK pg : pg = [m EXCEPT !.straddled = b]
    OBVIOUS
  <2>4. page' = [page EXCEPT ![p] = pg] /\ store' = [store EXCEPT ![p] = [e \in Epochs |-> NoState]]
        /\ calls' = calls /\ messages' = messages /\ UNCHANGED <<group, changes, onStaleRow>>
        /\ NextStep(t) = "clear"
    BY <1>1, <1>4, <2>1, <2>2, <2>3 DEF ClearSenderStates
  <2>5. Moved(m, page[p], t, t.got)
    BY <1>1, <2>2, MovesMoved
  <2>6. /\ pg \in PageStates /\ pg.tasks = m.tasks /\ pg.handled = m.handled
        /\ pg.listening = m.listening /\ pg.epoch = m.epoch /\ pg.chains = m.chains
        /\ pg.wentBack = m.wentBack /\ pg.refused = m.refused /\ pg.crossed = m.crossed
        /\ pg.straddled = b
    BY <2>3, <2>5 DEF PageStates, Moved
  <2>7. TaskEffect(p, t, pg, [e \in Epochs |-> NoState], calls[p])
    BY <1>2, <2>1, <2>4, <2>5, <2>6 DEF TaskEffect, Moved
  <2>8. WrittenBy(p, pg, [e \in Epochs |-> NoState], calls[p])
    BY <1>1, <2>4 DEF WrittenBy
  <2> QED BY <1>1, <1>3, <2>4, <2>6, <2>7, <2>8
<1>5. CASE ApplyEvent(p, t)
  <2>1. PICK m : m = Moves(page[p], t, t)
    OBVIOUS
  <2>2. PICK pg : pg = WithEpoch(m, t.epoch)
    OBVIOUS
  <2>3. page' = [page EXCEPT ![p] = pg] /\ store' = store
        /\ calls' = calls /\ messages' = messages /\ UNCHANGED <<group, changes, onStaleRow>>
        /\ NextStep(t) = "apply"
    BY <1>1, <1>5, <2>1, <2>2 DEF ApplyEvent
  <2>5. Moved(m, page[p], t, t.got)
    BY <1>1, <2>1, MovesMoved
  <2>6. /\ pg \in PageStates /\ pg.tasks = m.tasks /\ pg.handled = m.handled
        /\ pg.listening = m.listening /\ pg.chains = m.chains /\ pg.epoch = t.epoch
        /\ pg.refused = m.refused /\ pg.crossed = m.crossed /\ pg.straddled = m.straddled
        /\ ~ pg.wentBack => ~ m.wentBack /\ m.epoch <= t.epoch
    BY ZenonT(40), <1>2, <2>2, <2>5, WithEpochFields DEF Moved
  <2>7. TaskEffect(p, t, pg, store[p], calls[p])
    BY <1>2, <2>3, <2>5, <2>6 DEF TaskEffect, Moved
  <2>8. WrittenBy(p, pg, store[p], calls[p])
    BY <1>1, <2>3 DEF WrittenBy
  <2> QED BY <1>1, <2>3, <2>6, <2>7, <2>8
<1>6. CASE ServerAnswers(p, t)
  <2> DEFINE access == p \in Participants(group)
  <2>1. PICK got \in 0..(MaxChanges + 1) : got = IF access THEN group.epoch ELSE 0
    BY RowFields DEF Epochs
  <2>2. PICK bs \in SUBSET Users :
           bs = IF access /\ NextStep(t) = "fetchKeys" THEN Participants(group) \ {p} ELSE {}
    BY RowFields
  <2>3. PICK t2 : t2 = [t EXCEPT !.got = got, !.bundles = bs]
    OBVIOUS
  <2>4. /\ t2 \in Tasks /\ t2.left = t.left /\ t2.kind = t.kind /\ t2.change = t.change
        /\ t2.user = t.user /\ t2.epoch = t.epoch /\ t2.got = got
    BY <1>1, <2>3 DEF Tasks
  <2>5. PICK pg : pg = Moves(page[p], t, t2)
    OBVIOUS
  <2>6. page' = [page EXCEPT ![p] = pg] /\ store' = store
        /\ calls' = calls /\ messages' = messages /\ UNCHANGED <<group, changes, onStaleRow>>
        /\ NextStep(t) \in {"fetch", "fetchKeys"}
    BY <1>1, <1>6, <2>1, <2>2, <2>3, <2>5 DEF ServerAnswers
  <2>7. Moved(pg, page[p], t, got)
    BY <1>1, <2>4, <2>5, MovesMoved
  <2>10. got = 0 \/ got = group.epoch
    BY <2>1
  <2>11. /\ NextStep(t) # "clear" /\ NextStep(t) # "leave" /\ NextStep(t) # "listen"
         /\ NextStep(t) # "apply" /\ NextStep(t) # "settle" /\ NextStep(t) # "applyKeys"
    BY <2>6
  <2>8. TaskEffect(p, t, pg, store[p], calls[p])
    BY <1>2, <2>6, <2>7, <2>10, <2>11 DEF TaskEffect, Moved
  <2>9. WrittenBy(p, pg, store[p], calls[p])
    BY <1>1, <2>6 DEF WrittenBy
  <2> QED BY <1>1, <2>6, <2>7, <2>8, <2>9 DEF Moved
<1>7. CASE SettleDetails(p, t)
  <2>1. PICK t2 : t2 = [t EXCEPT !.got = 0]
    OBVIOUS
  <2>2. /\ t2 \in Tasks /\ t2.left = t.left /\ t2.kind = t.kind /\ t2.change = t.change
        /\ t2.user = t.user /\ t2.epoch = t.epoch /\ t2.got = 0
    BY <1>1, <2>1 DEF Tasks
  <2>3. PICK m : m = Moves(page[p], t, t2)
    OBVIOUS
  <2>4. Moved(m, page[p], t, 0)
    BY <1>1, <2>2, <2>3, MovesMoved
  <2>5. store' = store
        /\ calls' = calls /\ messages' = messages /\ UNCHANGED <<group, changes, onStaleRow>>
        /\ NextStep(t) = "settle"
    BY <1>7 DEF SettleDetails
  <2>6. CASE t.got = 0
    <3> DEFINE b == m.refused \/ (t.kind = "memberRemoved" /\ t.left = 1)
    <3>1. b \in BOOLEAN
      OBVIOUS
    <3>2. PICK pg : pg = [m EXCEPT !.refused = b]
      OBVIOUS
    <3>3. page' = [page EXCEPT ![p] = pg]
      BY <1>1, <1>7, <2>1, <2>3, <2>6, <3>2 DEF SettleDetails
    <3> HIDE DEF b
    <3>4. /\ pg \in PageStates /\ pg.tasks = m.tasks /\ pg.handled = m.handled
          /\ pg.listening = m.listening /\ pg.chains = m.chains /\ pg.epoch = m.epoch
          /\ pg.refused = b /\ pg.crossed = m.crossed /\ pg.straddled = m.straddled
          /\ pg.wentBack = m.wentBack
      BY <2>4, <3>1, <3>2 DEF PageStates, Moved
    <3>7. (~ pg.refused => ~ page[p].refused)
          /\ (t.kind = "memberRemoved" /\ t.left = 1 => pg.refused)
      BY <2>4, <3>4 DEF b, Moved
    <3>5. TaskEffect(p, t, pg, store[p], calls[p])
      BY <1>2, <2>4, <2>5, <2>6, <3>4, <3>7 DEF TaskEffect, Moved
    <3>6. WrittenBy(p, pg, store[p], calls[p])
      BY <1>1, <2>5, <3>3 DEF WrittenBy
    <3> QED BY <1>1, <2>5, <3>4, <3>5, <3>6
  <2>7. CASE t.got # 0
    <3>1. PICK pg : pg = WithEpoch(m, t.got)
      OBVIOUS
    <3>2. page' = [page EXCEPT ![p] = pg]
      BY <1>1, <1>7, <2>1, <2>3, <2>7, <3>1 DEF SettleDetails
    <3>3. /\ pg \in PageStates /\ pg.tasks = m.tasks /\ pg.handled = m.handled
          /\ pg.listening = m.listening /\ pg.chains = m.chains /\ pg.epoch = t.got
          /\ pg.refused = m.refused /\ pg.crossed = m.crossed /\ pg.straddled = m.straddled
          /\ ~ pg.wentBack => ~ m.wentBack /\ m.epoch <= t.got
      BY <1>2, <2>4, <3>1, WithEpochFields DEF Moved
    <3>4. TaskEffect(p, t, pg, store[p], calls[p])
      BY <1>2, <2>4, <2>5, <2>7, <3>3 DEF TaskEffect, Moved
    <3>5. WrittenBy(p, pg, store[p], calls[p])
      BY <1>1, <2>5, <3>2 DEF WrittenBy
    <3> QED BY <1>1, <2>5, <3>3, <3>4, <3>5
  <2> QED BY <2>6, <2>7
<1>8. CASE ApplyKeys(p, t)
  <2>1. store' = store
        /\ calls' = calls /\ messages' = messages /\ UNCHANGED <<group, changes, onStaleRow>>
        /\ NextStep(t) = "applyKeys"
    BY <1>8 DEF ApplyKeys
  <2> DEFINE moved == Moves(page[p], t, [t EXCEPT !.got = 0, !.bundles = {}])
             next == IF t.kind = "load" THEN {"refresh"} \cap TaskKinds ELSE {}
             refused == [page[p] EXCEPT !.tasks = page[p].tasks \ {t}]
             known == [WithEpoch(moved, t.got) EXCEPT
                          !.bundles = t.bundles,
                          !.tasks = moved.tasks \cup {LoadTask(kind) : kind \in next}]
  <2>4. page' = [page EXCEPT ![p] = IF t.got = 0 THEN refused ELSE known]
    BY <1>8 DEF ApplyKeys
  <2> HIDE DEF refused, known
  <2>2. CASE t.got = 0
    <3>1. PICK ts \in SUBSET Tasks : ts = page[p].tasks \ {t}
      BY <1>1 DEF PageStates
    <3>2. PICK pg : pg = [page[p] EXCEPT !.tasks = ts]
      OBVIOUS
    <3>3. page' = [page EXCEPT ![p] = pg]
      BY <2>2, <2>4, <3>1, <3>2 DEF refused
    <3>4. /\ pg \in PageStates /\ pg.tasks = ts /\ pg.handled = page[p].handled
          /\ pg.listening = page[p].listening /\ pg.chains = page[p].chains
          /\ pg.epoch = page[p].epoch /\ pg.refused = page[p].refused
          /\ pg.crossed = page[p].crossed /\ pg.straddled = page[p].straddled
          /\ pg.wentBack = page[p].wentBack
      BY <1>1, <3>2 DEF PageStates
    <3>5. TaskEffect(p, t, pg, store[p], calls[p])
      BY <1>2, <2>1, <2>2, <3>1, <3>4 DEF TaskEffect, Moved
    <3>6. WrittenBy(p, pg, store[p], calls[p])
      BY <1>1, <2>1, <3>3 DEF WrittenBy
    <3> QED BY <1>1, <2>1, <3>4, <3>5, <3>6
  <2>3. CASE t.got # 0
    <3>0. PICK none \in SUBSET Users : none = {}
      OBVIOUS
    <3>1. PICK t2 : t2 = [t EXCEPT !.got = 0, !.bundles = none]
      OBVIOUS
    <3>2. /\ t2 \in Tasks /\ t2.left = t.left /\ t2.kind = t.kind /\ t2.change = t.change
          /\ t2.user = t.user /\ t2.epoch = t.epoch /\ t2.got = 0
      BY <1>1, <1>2, <3>1 DEF Tasks
    <3>3. PICK m : m = Moves(page[p], t, t2)
      OBVIOUS
    <3>4. PICK w : w = WithEpoch(m, t.got)
      OBVIOUS
    <3>5. LoadTask("refresh") \in Tasks /\ LoadTask("refresh").kind = "refresh"
          /\ LoadTask("refresh").left = 2 /\ LoadTask("refresh").change = 0
          /\ LoadTask("refresh").epoch = 0 /\ LoadTask("refresh").got = 0
      BY RowFields DEF LoadTask, Tasks, AllTaskKinds, Script
    <3>6. Moved(m, page[p], t, 0)
      BY <1>1, <3>2, <3>3, MovesMoved
    <3>7. /\ w \in PageStates /\ w.tasks = m.tasks /\ w.handled = m.handled
          /\ w.listening = m.listening /\ w.chains = m.chains /\ w.epoch = t.got
          /\ w.refused = m.refused /\ w.crossed = m.crossed /\ w.straddled = m.straddled
          /\ ~ w.wentBack => ~ m.wentBack /\ m.epoch <= t.got
      BY <1>2, <3>4, <3>6, WithEpochFields DEF Moved
    <3>8. PICK ts \in SUBSET Tasks :
             ts = m.tasks \cup {LoadTask(kind) : kind \in next}
      BY <3>5, <3>6 DEF PageStates, Moved
    <3>9. PICK bs \in SUBSET Users : bs = t.bundles
      BY <1>1 DEF Tasks
    <3>10. PICK pg : pg = [w EXCEPT !.bundles = bs, !.tasks = ts]
      OBVIOUS
    <3>11. page' = [page EXCEPT ![p] = pg]
      <4>1. moved = m
        BY <3>0, <3>1, <3>3
      <4>2. known = [w EXCEPT !.bundles = t.bundles,
                              !.tasks = m.tasks \cup {LoadTask(kind) : kind \in next}]
        BY <3>4, <4>1 DEF known
      <4>3. known = pg
        BY <3>8, <3>9, <3>10, <4>2
      <4> QED BY <2>3, <2>4, <4>3
    <3>12. /\ pg \in PageStates /\ pg.tasks = ts /\ pg.handled = w.handled
           /\ pg.listening = w.listening /\ pg.chains = w.chains /\ pg.epoch = t.got
           /\ pg.refused = w.refused /\ pg.crossed = w.crossed /\ pg.straddled = w.straddled
           /\ pg.wentBack = w.wentBack
      BY <3>7, <3>10 DEF PageStates
    <3>13. \A r \in pg.tasks : \/ r \in page[p].tasks
                               \/ Follows(r, t) /\ r.got = 0
                               \/ r = LoadTask("refresh")
      BY <3>6, <3>7, <3>8, <3>12 DEF Moved
    <3>14. TaskEffect(p, t, pg, store[p], calls[p])
      BY <1>2, <2>1, <2>3, <3>5, <3>6, <3>7, <3>12, <3>13 DEF TaskEffect, Moved
    <3>15. WrittenBy(p, pg, store[p], calls[p])
      BY <1>1, <2>1, <3>11 DEF WrittenBy
    <3> QED BY <1>1, <2>1, <3>12, <3>14, <3>15
  <2> QED BY <2>2, <2>3
<1>9. CASE ListenOnChat(p, t)
  <2> DEFINE b == p \in group.members \cup {group.founder}
  <2>1. b \in BOOLEAN
    OBVIOUS
  <2>2. PICK m : m = Moves(page[p], t, t)
    OBVIOUS
  <2>3. PICK pg : pg = [m EXCEPT !.listening = b]
    OBVIOUS
  <2>4. page' = [page EXCEPT ![p] = pg] /\ store' = store
        /\ calls' = calls /\ messages' = messages /\ UNCHANGED <<group, changes, onStaleRow>>
        /\ NextStep(t) = "listen"
    <3>1. page' = [page EXCEPT ![p] = [Moves(page[p], t, t) EXCEPT !.listening = b]]
      BY <1>9 DEF ListenOnChat
    <3>2. [Moves(page[p], t, t) EXCEPT !.listening = b] = pg
      BY <2>2, <2>3
    <3> QED BY <1>9, <3>1, <3>2 DEF ListenOnChat
  <2> HIDE DEF b
  <2>5. Moved(m, page[p], t, t.got)
    BY <1>1, <2>2, MovesMoved
  <2>6. /\ pg \in PageStates /\ pg.tasks = m.tasks /\ pg.handled = m.handled
        /\ pg.epoch = m.epoch /\ pg.chains = m.chains /\ pg.straddled = m.straddled
        /\ pg.wentBack = m.wentBack /\ pg.refused = m.refused /\ pg.crossed = m.crossed
    BY <2>1, <2>3, <2>5 DEF PageStates, Moved
  <2>7. TaskEffect(p, t, pg, store[p], calls[p])
    BY <1>2, <2>4, <2>5, <2>6 DEF TaskEffect, Moved
  <2>8. WrittenBy(p, pg, store[p], calls[p])
    BY <1>1, <2>4 DEF WrittenBy
  <2> QED BY <1>1, <2>4, <2>6, <2>7, <2>8
<1>10. CASE AppendBundles(p, t)
  <2>2. PICK m : m = Moves(page[p], t, t)
    OBVIOUS
  <2>3. PICK bs : bs = page[p].bundles \cup {t.user}
    OBVIOUS
  <2>4. PICK pg : pg = [m EXCEPT !.bundles = bs]
    OBVIOUS
  <2>5. page' = [page EXCEPT ![p] = pg] /\ store' = store
        /\ calls' = calls /\ messages' = messages /\ UNCHANGED <<group, changes, onStaleRow>>
        /\ NextStep(t) = "append"
    BY <1>1, <1>10, <2>2, <2>3, <2>4 DEF AppendBundles
  <2>6. Moved(m, page[p], t, t.got)
    BY <1>1, <2>2, MovesMoved
  <2>7. bs \in SUBSET Users
    BY <1>1, <2>3, <2>6 DEF PageStates, Tasks, Moved
  <2>8. /\ pg \in PageStates /\ pg.tasks = m.tasks /\ pg.handled = m.handled
        /\ pg.listening = m.listening
        /\ pg.epoch = m.epoch /\ pg.chains = m.chains /\ pg.straddled = m.straddled
        /\ pg.wentBack = m.wentBack /\ pg.refused = m.refused /\ pg.crossed = m.crossed
    BY <2>4, <2>6, <2>7 DEF PageStates, Moved
  <2>9. TaskEffect(p, t, pg, store[p], calls[p])
    BY <1>2, <2>5, <2>6, <2>8 DEF TaskEffect, Moved
  <2>10. WrittenBy(p, pg, store[p], calls[p])
    BY <1>1, <2>5 DEF WrittenBy
  <2> QED BY <1>1, <2>5, <2>8, <2>9, <2>10
<1>11. CASE LeavePage(p, t)
  <2>0. PICK nobody \in SUBSET Users, nothing \in SUBSET Tasks : nobody = {} /\ nothing = {}
    OBVIOUS
  <2>1. PICK pg : pg = [page[p] EXCEPT !.open = FALSE, !.listening = FALSE, !.epoch = 0,
                                       !.bundles = nobody, !.tasks = nothing]
    OBVIOUS
  <2>2. page' = [page EXCEPT ![p] = pg] /\ store' = store
        /\ calls' = [calls EXCEPT ![p] = Ended(calls[p])]
        /\ messages' = messages /\ UNCHANGED <<group, changes, onStaleRow>>
        /\ NextStep(t) = "leave"
    <3>1. page' = [page EXCEPT ![p] = [page[p] EXCEPT !.open = FALSE, !.listening = FALSE,
                                          !.epoch = 0, !.bundles = {}, !.tasks = {}]]
      BY <1>11 DEF LeavePage
    <3>2. calls' = [calls EXCEPT ![p] = Ended(calls[p])]
      BY <1>11 DEF LeavePage, Ended
    <3> QED BY <1>11, <2>0, <2>1, <3>1, <3>2 DEF LeavePage
  <2>3. /\ pg \in PageStates /\ pg.tasks = {} /\ pg.handled = page[p].handled
        /\ pg.listening = FALSE /\ pg.epoch = 0 /\ pg.chains = page[p].chains
        /\ pg.straddled = page[p].straddled /\ pg.wentBack = page[p].wentBack
        /\ pg.refused = page[p].refused /\ pg.crossed = page[p].crossed
    BY <1>1, <1>2, <2>0, <2>1 DEF PageStates
  <2>4. TaskEffect(p, t, pg, store[p], Ended(calls[p]))
    BY <1>2, <2>2, <2>3 DEF TaskEffect, Moved
  <2>5. WrittenBy(p, pg, store[p], Ended(calls[p]))
    BY <1>1, <2>2 DEF WrittenBy
  <2> QED BY <1>1, <2>2, <2>3, <2>4, <2>5, EndedType
<1> QED BY <1>4, <1>5, <1>6, <1>7, <1>8, <1>9, <1>10, <1>11 DEF TaskStep

-----------------------------------------------------------------------------
\* What the steps of call c of page p may make of the page, its store and its calls.
StartEffect(p, c, pg, cs) ==
    /\ page[p].listening /\ calls[p][c].pc = "none" /\ cs[c].pc = "read"
    /\ cs[c].epoch = page[p].epoch /\ cs[c].exposed = Exposed(p) /\ cs[c].st = NoState
    /\ pg.chains = page[p].chains /\ pg.listening = page[p].listening
    /\ pg.crossed = (page[p].crossed \/ \E d \in Calls : InFlight(p, d))
    /\ messages' = messages

ReadEffect(p, c, pg, cs) ==
    /\ calls[p][c].pc = "read"
    /\ cs[c].pc = IF cs[c].st = NoState THEN "create" ELSE "encrypt"
    /\ cs[c].epoch = calls[p][c].epoch /\ cs[c].exposed = calls[p][c].exposed
    /\ cs[c].st = store[p][calls[p][c].epoch]
    /\ cs[c].weak = (/\ calls[p][c].exposed # {} /\ page[p].straddled
                     /\ onStaleRow \/ page[p].wentBack \/ page[p].refused)
    /\ pg = page[p] /\ messages' = messages

CreateEffect(p, c, pg, cs) ==
    /\ calls[p][c].pc = "create" /\ cs[c].pc = "encrypt"
    /\ cs[c].epoch = calls[p][c].epoch /\ cs[c].exposed = calls[p][c].exposed
    /\ cs[c].st = [chain |-> page[p].chains + 1, counter |-> 0]
    /\ pg.chains = page[p].chains + 1 /\ pg.listening = page[p].listening
    /\ pg.crossed = page[p].crossed /\ messages' = messages

SaveEffect(p, c, pg, cs) ==
    /\ calls[p][c].pc = "encrypt" /\ cs[c].pc = "send"
    /\ cs[c].epoch = 0 /\ cs[c].exposed = calls[p][c].exposed
    /\ cs[c].st = calls[p][c].st /\ cs[c].weak = calls[p][c].weak
    /\ pg = page[p] /\ messages' = messages

ArriveEffect(p, c, pg, cs) ==
    /\ calls[p][c].pc = "send" /\ cs[c] = [NoCall EXCEPT !.pc = "done"]
    /\ pg.chains = page[p].chains /\ pg.crossed = page[p].crossed
    /\ pg.listening => page[p].listening
    /\ \/ messages' = messages
       \/ \E m \in Messages :
            /\ messages' = Append(messages, m)
            /\ m.sender = p /\ m.st = calls[p][c].st /\ m.exposed = calls[p][c].exposed
            /\ m.weak = calls[p][c].weak
            /\ p \in Participants(group) /\ m.readers \subseteq Participants(group) \ {p}

CallEffect(p, c, pg, keys, cs) ==
    /\ pg.epoch = page[p].epoch /\ pg.tasks = page[p].tasks /\ pg.handled = page[p].handled
    /\ pg.straddled = page[p].straddled /\ pg.wentBack = page[p].wentBack
    /\ pg.refused = page[p].refused
    /\ \A d \in Calls \ {c} : cs[d] = calls[p][d]
    /\ \/ StartEffect(p, c, pg, cs) /\ keys = store[p]
       \/ ReadEffect(p, c, pg, cs) /\ keys = store[p]
       \/ /\ CreateEffect(p, c, pg, cs)
          /\ keys = [store[p] EXCEPT ![calls[p][c].epoch] = cs[c].st]
       \/ /\ SaveEffect(p, c, pg, cs)
          /\ keys = [store[p] EXCEPT ![calls[p][c].epoch] =
                        [chain |-> calls[p][c].st.chain, counter |-> calls[p][c].st.counter + 1]]
       \/ ArriveEffect(p, c, pg, cs) /\ keys = store[p]

\* How many calls there are, and how the calls that count grow.
LEMMA CallCounts ==
    /\ IsFiniteSet(Calls) /\ Cardinality(Calls) = MaxCalls
    /\ \A cs : /\ IsFiniteSet(Made(cs)) /\ Cardinality(Made(cs)) \in 0..MaxCalls
               /\ IsFiniteSet(Spent(cs)) /\ Cardinality(Spent(cs)) \in 0..MaxCalls
    /\ \A S, T \in SUBSET Calls : S \subseteq T => Cardinality(S) <= Cardinality(T)
    /\ \A S \in SUBSET Calls, c \in Calls :
          c \notin S => Cardinality(S \cup {c}) = Cardinality(S) + 1
<1> USE GroupAssumption
<1>1. IsFiniteSet(Calls) /\ Cardinality(Calls) = MaxCalls
  <2>1. 1 \in Int /\ MaxCalls \in Int
    OBVIOUS
  <2>2. IsFiniteSet(1..MaxCalls)
        /\ Cardinality(1..MaxCalls) = IF 1 > MaxCalls THEN 0 ELSE MaxCalls - 1 + 1
    BY <2>1, FS_Interval
  <2> QED BY <2>2 DEF Calls
<1>2. \A S \in SUBSET Calls : IsFiniteSet(S) /\ Cardinality(S) \in Nat
                             /\ Cardinality(S) <= MaxCalls
  BY <1>1, FS_Subset, FS_CardinalityType
<1>3. \A cs : Made(cs) \in SUBSET Calls /\ Spent(cs) \in SUBSET Calls
  BY DEF Made, Spent
<1>4. \A S, T \in SUBSET Calls : S \subseteq T => Cardinality(S) <= Cardinality(T)
  BY <1>2, FS_Subset
<1>5. \A S \in SUBSET Calls, c \in Calls :
          c \notin S => Cardinality(S \cup {c}) = Cardinality(S) + 1
  BY <1>2, FS_AddElement
<1> QED BY <1>1, <1>2, <1>3, <1>4, <1>5

-----------------------------------------------------------------------------
LEMMA CallStepEffect ==
    ASSUME TypeInv, NEW p \in Pages, NEW c \in Calls, CallStep(p, c)
    PROVE  \E pg \in PageStates, keys \in [Epochs -> SenderStates], cs \in [Calls -> CallStates] :
              /\ WrittenBy(p, pg, keys, cs) /\ CallEffect(p, c, pg, keys, cs)
              /\ messages' \in Seq(Messages)
<1> USE GroupAssumption
<1>1. /\ page[p] \in PageStates /\ store[p] \in [Epochs -> SenderStates]
      /\ calls[p] \in [Calls -> CallStates] /\ calls[p][c] \in CallStates
      /\ page \in [Pages -> PageStates] /\ messages \in Seq(Messages)
      /\ page = [page EXCEPT ![p] = page[p]]
      /\ store = [store EXCEPT ![p] = store[p]] /\ calls = [calls EXCEPT ![p] = calls[p]]
      /\ calls \in [Pages -> [Calls -> CallStates]]
      /\ store \in [Pages -> [Epochs -> SenderStates]]
      /\ PageOK(page[p], store[p], calls[p])
  BY PageFacts DEF TypeInv, PageTypes
<1>2. PICK call \in CallStates : call = calls[p][c]
  BY <1>1
<1>3. NoState \in SenderStates /\ 0 \in 0..(MaxChanges + 1)
  BY DEF NoState, SenderStates
<1>4. ASSUME NEW k \in CallStates, calls' = [calls EXCEPT ![p] = [calls[p] EXCEPT ![c] = k]]
      PROVE  \E cs \in [Calls -> CallStates] :
                /\ calls' = [calls EXCEPT ![p] = cs] /\ cs[c] = k
                /\ \A d \in Calls \ {c} : cs[d] = calls[p][d]
  <2>1. [calls[p] EXCEPT ![c] = k] \in [Calls -> CallStates]
        /\ [calls[p] EXCEPT ![c] = k][c] = k
        /\ \A d \in Calls \ {c} : [calls[p] EXCEPT ![c] = k][d] = calls[p][d]
    BY <1>1
  <2> QED BY <1>4, <2>1
<1>5. CASE CallStarts(p, c)
  <2> DEFINE x == page[p].crossed \/ \E d \in Calls : InFlight(p, d)
  <2>1. x \in BOOLEAN
    OBVIOUS
  <2>2. PICK pg : pg = [page[p] EXCEPT !.crossed = x]
    OBVIOUS
  <2>3. page' = [page EXCEPT ![p] = pg]
    BY <1>1, <1>5, <2>2 DEF CallStarts
  <2> HIDE DEF x
  <2>4. /\ pg \in PageStates /\ pg.epoch = page[p].epoch /\ pg.tasks = page[p].tasks
        /\ pg.handled = page[p].handled /\ pg.straddled = page[p].straddled
        /\ pg.wentBack = page[p].wentBack /\ pg.refused = page[p].refused
        /\ pg.chains = page[p].chains /\ pg.listening = page[p].listening
        /\ pg.crossed = x
    BY <1>1, <2>1, <2>2 DEF PageStates
  <2>5. PICK ex \in SUBSET Chains : ex = Exposed(p)
    BY DEF Exposed
  <2>6. page[p].epoch \in 0..(MaxChanges + 1) /\ page[p].bundles \in SUBSET Users
    BY <1>1 DEF PageStates
  <2>7. PICK k : k = [NoCall EXCEPT !.pc = "read", !.epoch = page[p].epoch,
                                   !.bundles = page[p].bundles, !.exposed = ex]
    OBVIOUS
  <2>8. k \in CallStates /\ k.pc = "read" /\ k.epoch = page[p].epoch /\ k.exposed = ex
        /\ k.st = NoState
    BY <1>3, <2>6, <2>7 DEF NoCall, CallStates
  <2>9. calls' = [calls EXCEPT ![p] = [calls[p] EXCEPT ![c] = k]]
    BY <1>1, <1>5, <2>5, <2>7 DEF CallStarts
  <2>10. PICK cs \in [Calls -> CallStates] :
                /\ calls' = [calls EXCEPT ![p] = cs] /\ cs[c] = k
                /\ \A d \in Calls \ {c} : cs[d] = calls[p][d]
    BY <1>4, <2>8, <2>9
  <2>11. StartEffect(p, c, pg, cs)
    BY <1>5, <2>4, <2>5, <2>8, <2>10 DEF StartEffect, CallStarts, x
  <2>12. CallEffect(p, c, pg, store[p], cs)
    BY <2>4, <2>10, <2>11 DEF CallEffect
  <2>13. WrittenBy(p, pg, store[p], cs) /\ messages' = messages
    BY <1>1, <1>5, <2>3, <2>10 DEF WrittenBy, CallStarts
  <2> QED BY <1>1, <2>4, <2>12, <2>13
<1>6. CASE ReadSenderState(p, c)
  <2> DEFINE w == /\ calls[p][c].exposed # {} /\ page[p].straddled
                  /\ onStaleRow \/ page[p].wentBack \/ page[p].refused
  <2>1. w \in BOOLEAN
    OBVIOUS
  <2>2. call.epoch \in Epochs
    <3>1. call.epoch >= 1 /\ call.epoch \in 0..(MaxChanges + 1)
      BY <1>1, <1>2, <1>6 DEF ReadSenderState, PageOK, CallStates
    <3> QED BY <3>1 DEF Epochs
  <2>3. PICK st \in SenderStates : st = store[p][call.epoch]
    BY <1>1, <2>2
  <2>4. PICK pc \in {"create", "encrypt"} : pc = IF st = NoState THEN "create" ELSE "encrypt"
    OBVIOUS
  <2>5. PICK k : k = [call EXCEPT !.pc = pc, !.st = st, !.weak = w]
    OBVIOUS
  <2>6. calls' = [calls EXCEPT ![p] = [calls[p] EXCEPT ![c] = k]]
    BY <1>1, <1>2, <1>6, <2>3, <2>4, <2>5 DEF ReadSenderState
  <2> HIDE DEF w
  <2>7. k \in CallStates /\ k.pc = pc /\ k.epoch = call.epoch /\ k.exposed = call.exposed
        /\ k.st = st /\ k.weak = w
    BY <2>1, <2>5 DEF CallStates
  <2>8. PICK cs \in [Calls -> CallStates] :
                /\ calls' = [calls EXCEPT ![p] = cs] /\ cs[c] = k
                /\ \A d \in Calls \ {c} : cs[d] = calls[p][d]
    BY <1>4, <2>6, <2>7
  <2>9. calls[p][c].pc = "read" /\ messages' = messages /\ page' = page /\ store' = store
        /\ UNCHANGED <<group, changes, onStaleRow>>
    BY <1>6 DEF ReadSenderState
  <2>10. ReadEffect(p, c, page[p], cs)
    BY <1>2, <2>3, <2>4, <2>7, <2>8, <2>9 DEF ReadEffect, w
  <2>11. CallEffect(p, c, page[p], store[p], cs)
    BY <2>8, <2>10 DEF CallEffect
  <2>12. WrittenBy(p, page[p], store[p], cs)
    BY <1>1, <2>8, <2>9 DEF WrittenBy
  <2> QED BY <1>1, <2>9, <2>11, <2>12
<1>7. CASE CreateSenderState(p, c)
  <2>1. call.pc = "create" /\ messages' = messages /\ UNCHANGED <<group, changes, onStaleRow>>
    BY <1>2, <1>7 DEF CreateSenderState
  <2>2. page[p].chains + 1 \in 0..MaxCalls
    <3>1. page[p].chains <= Cardinality(Made(calls[p])) /\ page[p].chains \in Nat
      BY <1>1 DEF PageOK, PageStates
    <3>2. c \notin Made(calls[p]) /\ Made(calls[p]) \in SUBSET Calls
      BY <1>2, <2>1 DEF Made
    <3>3. /\ Cardinality(Made(calls[p]) \cup {c}) = Cardinality(Made(calls[p])) + 1
          /\ Cardinality(Made(calls[p]) \cup {c}) <= Cardinality(Calls)
          /\ Cardinality(Calls) = MaxCalls
      BY <3>2, CallCounts
    <3>4. Cardinality(Made(calls[p])) \in Nat
      BY CallCounts
    <3> QED BY <3>1, <3>3, <3>4
  <2>3. call.epoch \in Epochs
    <3>1. call.epoch >= 1 /\ call.epoch \in 0..(MaxChanges + 1)
      BY <1>1, <1>2, <2>1 DEF PageOK, CallStates
    <3> QED BY <3>1 DEF Epochs
  <2>4. PICK st : st = [chain |-> page[p].chains + 1, counter |-> 0]
    OBVIOUS
  <2>5. st \in SenderStates
    BY <2>2, <2>4 DEF SenderStates
  <2>6. PICK n \in 0..MaxCalls : n = page[p].chains + 1
    BY <2>2
  <2>7. PICK pg : pg = [page[p] EXCEPT !.chains = n]
    OBVIOUS
  <2>8. /\ pg \in PageStates /\ pg.epoch = page[p].epoch /\ pg.tasks = page[p].tasks
        /\ pg.handled = page[p].handled /\ pg.straddled = page[p].straddled
        /\ pg.wentBack = page[p].wentBack /\ pg.refused = page[p].refused
        /\ pg.chains = page[p].chains + 1 /\ pg.listening = page[p].listening
        /\ pg.crossed = page[p].crossed
    BY <1>1, <2>6, <2>7 DEF PageStates
  <2>9. page' = [page EXCEPT ![p] = pg]
    BY <1>1, <1>7, <2>6, <2>7 DEF CreateSenderState
  <2>10. PICK k : k = [call EXCEPT !.pc = "encrypt", !.st = st]
    OBVIOUS
  <2>11. k \in CallStates /\ k.pc = "encrypt" /\ k.epoch = call.epoch
         /\ k.exposed = call.exposed /\ k.st = st
    BY <2>5, <2>10 DEF CallStates
  <2>12. calls' = [calls EXCEPT ![p] = [calls[p] EXCEPT ![c] = k]]
    BY <1>1, <1>2, <1>7, <2>4, <2>10 DEF CreateSenderState
  <2>13. PICK cs \in [Calls -> CallStates] :
                /\ calls' = [calls EXCEPT ![p] = cs] /\ cs[c] = k
                /\ \A d \in Calls \ {c} : cs[d] = calls[p][d]
    BY <1>4, <2>11, <2>12
  <2>14. PICK keys \in [Epochs -> SenderStates] :
            keys = [store[p] EXCEPT ![calls[p][c].epoch] = cs[c].st]
    BY <1>1, <1>2, <2>3, <2>5, <2>11, <2>13
  <2>15. store' = [store EXCEPT ![p] = keys]
    BY <1>1, <1>7, <2>4, <2>11, <2>13, <2>14 DEF CreateSenderState
  <2>16. CreateEffect(p, c, pg, cs)
    BY <1>2, <2>1, <2>4, <2>8, <2>11, <2>13 DEF CreateEffect
  <2>17. CallEffect(p, c, pg, keys, cs)
    BY <2>8, <2>13, <2>14, <2>16 DEF CallEffect
  <2>18. WrittenBy(p, pg, keys, cs)
    BY <2>1, <2>9, <2>13, <2>15 DEF WrittenBy
  <2> QED BY <1>1, <2>1, <2>8, <2>17, <2>18
<1>8. CASE SaveSenderState(p, c)
  <2>1. call.pc = "encrypt" /\ messages' = messages /\ UNCHANGED <<group, changes, onStaleRow>>
        /\ page' = page
    BY <1>2, <1>8 DEF SaveSenderState
  <2>2. call.st.counter + 1 \in 0..MaxCalls /\ call.st.chain \in 0..MaxCalls
    <3>1. call.st \in SenderStates
      BY DEF CallStates
    <3>2. call.st.counter <= Cardinality(Spent(calls[p])) /\ call.st.counter \in Nat
          /\ call.st.chain \in 0..MaxCalls
      BY <1>1, <1>2, <3>1 DEF PageOK, StateOK, SenderStates
    <3>3. c \notin Spent(calls[p]) /\ Spent(calls[p]) \in SUBSET Calls
      BY <1>2, <2>1 DEF Spent
    <3>4. /\ Cardinality(Spent(calls[p]) \cup {c}) = Cardinality(Spent(calls[p])) + 1
          /\ Cardinality(Spent(calls[p]) \cup {c}) <= Cardinality(Calls)
          /\ Cardinality(Calls) = MaxCalls
      BY <3>3, CallCounts
    <3>5. Cardinality(Spent(calls[p])) \in Nat
      BY CallCounts
    <3> QED BY <3>2, <3>4, <3>5
  <2>3. call.epoch \in Epochs
    <3>1. call.epoch >= 1 /\ call.epoch \in 0..(MaxChanges + 1)
      BY <1>1, <1>2, <2>1 DEF PageOK, CallStates
    <3> QED BY <3>1 DEF Epochs
  <2>4. PICK st : st = [chain |-> call.st.chain, counter |-> call.st.counter + 1]
    OBVIOUS
  <2>5. st \in SenderStates
    BY <2>2, <2>4 DEF SenderStates
  <2>6. [call.st EXCEPT !.counter = call.st.counter + 1] = st
    <3>1. call.st \in SenderStates
      BY DEF CallStates
    <3> QED BY <2>4, <3>1 DEF SenderStates
  <2>7. PICK keys \in [Epochs -> SenderStates] : keys = [store[p] EXCEPT ![call.epoch] = st]
    BY <1>1, <2>3, <2>5
  <2>8. store' = [store EXCEPT ![p] = keys]
    BY <1>1, <1>2, <1>8, <2>6, <2>7 DEF SaveSenderState
  <2>9. PICK k : k = [call EXCEPT !.pc = "send", !.epoch = 0]
    OBVIOUS
  <2>10. k \in CallStates /\ k.pc = "send" /\ k.epoch = 0 /\ k.exposed = call.exposed
         /\ k.st = call.st /\ k.weak = call.weak
    BY <1>3, <2>9 DEF CallStates
  <2>11. calls' = [calls EXCEPT ![p] = [calls[p] EXCEPT ![c] = k]]
    BY <1>1, <1>2, <1>8, <2>9 DEF SaveSenderState
  <2>12. PICK cs \in [Calls -> CallStates] :
                /\ calls' = [calls EXCEPT ![p] = cs] /\ cs[c] = k
                /\ \A d \in Calls \ {c} : cs[d] = calls[p][d]
    BY <1>4, <2>10, <2>11
  <2>13. SaveEffect(p, c, page[p], cs)
    BY <1>2, <2>1, <2>10, <2>12 DEF SaveEffect
  <2>14. CallEffect(p, c, page[p], keys, cs)
    BY <1>2, <2>4, <2>7, <2>12, <2>13 DEF CallEffect
  <2>15. WrittenBy(p, page[p], keys, cs)
    BY <1>1, <2>1, <2>8, <2>12 DEF WrittenBy
  <2> QED BY <1>1, <2>1, <2>14, <2>15
<1>9. CASE MessageArrives(p, c)
  <2> DEFINE participants == Participants(group)
             l == page[p].listening /\ p \in participants
  <2>1. call.pc = "send" /\ store' = store /\ UNCHANGED <<group, changes, onStaleRow>>
    BY <1>2, <1>9 DEF MessageArrives
  <2>2. l \in BOOLEAN
    OBVIOUS
  <2>3. PICK pg : pg = [page[p] EXCEPT !.listening = l]
    OBVIOUS
  <2>4. page' = [page EXCEPT ![p] = pg]
    BY <1>1, <1>9, <2>3 DEF MessageArrives
  <2>5. l => page[p].listening
    OBVIOUS
  <2> HIDE DEF l
  <2>6. /\ pg \in PageStates /\ pg.epoch = page[p].epoch /\ pg.tasks = page[p].tasks
        /\ pg.handled = page[p].handled /\ pg.straddled = page[p].straddled
        /\ pg.wentBack = page[p].wentBack /\ pg.refused = page[p].refused
        /\ pg.chains = page[p].chains /\ pg.listening = l
        /\ pg.crossed = page[p].crossed
    BY <1>1, <2>2, <2>3 DEF PageStates
  <2>7. PICK k : k = [NoCall EXCEPT !.pc = "done"]
    OBVIOUS
  <2>8. k \in CallStates
    <3>1. NoCall \in CallStates
      BY <1>3 DEF NoCall, CallStates
    <3> QED BY <2>7, <3>1 DEF CallStates
  <2>9. calls' = [calls EXCEPT ![p] = [calls[p] EXCEPT ![c] = k]]
    BY <1>1, <1>9, <2>7 DEF MessageArrives
  <2>10. PICK cs \in [Calls -> CallStates] :
                /\ calls' = [calls EXCEPT ![p] = cs] /\ cs[c] = k
                /\ \A d \in Calls \ {c} : cs[d] = calls[p][d]
    BY <1>4, <2>8, <2>9
  <2>11. \/ messages' = messages
         \/ \E m \in Messages :
            /\ messages' = Append(messages, m)
            /\ m.sender = p /\ m.st = call.st /\ m.exposed = call.exposed
            /\ m.weak = call.weak
            /\ p \in participants /\ m.readers \subseteq participants \ {p}
    <3>1. CASE ~ (page[p].listening /\ p \in participants)
      BY <1>9, <3>1 DEF MessageArrives
    <3>2. CASE page[p].listening /\ p \in participants
      <4>1. PICK rd \in SUBSET Users : rd = (participants \ {p}) \cap call.bundles
        BY DEF CallStates
      <4>2. PICK m : m = [sender |-> p, st |-> call.st, readers |-> rd,
                          exposed |-> call.exposed, weak |-> call.weak]
        OBVIOUS
      <4>3. m \in Messages /\ m.sender = p /\ m.st = call.st /\ m.exposed = call.exposed
            /\ m.weak = call.weak /\ m.readers = rd
        BY <4>2 DEF Messages, CallStates
      <4>4. messages' = Append(messages, m)
        BY <1>2, <1>9, <3>2, <4>1, <4>2 DEF MessageArrives
      <4> QED BY <3>2, <4>1, <4>3, <4>4
    <3> QED BY <3>1, <3>2
  <2>12. messages' \in Seq(Messages)
    BY <1>1, <2>11
  <2>13. ArriveEffect(p, c, pg, cs)
    BY <1>2, <2>1, <2>5, <2>6, <2>7, <2>10, <2>11 DEF ArriveEffect
  <2>14. CallEffect(p, c, pg, store[p], cs)
    BY <2>6, <2>10, <2>13 DEF CallEffect
  <2>15. WrittenBy(p, pg, store[p], cs)
    BY <1>1, <2>1, <2>4, <2>10 DEF WrittenBy
  <2> QED BY <1>1, <2>6, <2>12, <2>14, <2>15
<1> QED BY <1>5, <1>6, <1>7, <1>8, <1>9 DEF CallStep

-----------------------------------------------------------------------------
LEMMA EndedCalls ==
    ASSUME NEW cs \in [Calls -> CallStates]
    PROVE  \A c \in Calls : /\ Ended(cs)[c].st = NoState /\ Ended(cs)[c].exposed = {}
                            /\ Ended(cs)[c].pc = (IF cs[c].pc = "none" THEN "none" ELSE "done")
BY DEF Ended, NoCall

\* A page whose calls are gone keeps what its states have in common.
LEMMA EndedOK ==
    ASSUME NEW pg \in PageStates, NEW keys \in [Epochs -> SenderStates],
           NEW cs \in [Calls -> CallStates], PageOK(pg, keys, cs),
           NEW pg2 \in PageStates, pg2.chains = pg.chains, ~ pg2.listening,
           \A t \in pg2.tasks : TaskOK(pg2, t)
    PROVE  PageOK(pg2, keys, Ended(cs))
<1>1. \A c \in Calls : /\ Ended(cs)[c].st = NoState
                       /\ Ended(cs)[c].pc = (IF cs[c].pc = "none" THEN "none" ELSE "done")
  BY EndedCalls
<1>2. /\ Made(cs) \in SUBSET Calls /\ Spent(cs) \in SUBSET Calls
      /\ Made(Ended(cs)) \in SUBSET Calls /\ Spent(Ended(cs)) \in SUBSET Calls
  BY DEF Made, Spent
<1>3. Made(cs) \subseteq Made(Ended(cs)) /\ Spent(cs) \subseteq Spent(Ended(cs))
  BY <1>1 DEF Made, Spent
<1>4. PICK a, b, s, r \in Nat :
         /\ a = Cardinality(Made(cs)) /\ b = Cardinality(Made(Ended(cs)))
         /\ s = Cardinality(Spent(cs)) /\ r = Cardinality(Spent(Ended(cs)))
         /\ a <= b /\ s <= r
  BY <1>2, <1>3, CallCounts, GroupAssumption
<1>5. pg.chains \in Nat /\ pg.chains <= b
  BY <1>4 DEF PageOK, PageStates
<1>6. \A e \in Epochs : /\ keys[e].chain \in Nat /\ keys[e].counter \in Nat
                        /\ keys[e].chain <= pg.chains /\ keys[e].counter <= s
  BY <1>4 DEF PageOK, StateOK, SenderStates
<1>7. \A e \in Epochs : StateOK(pg2, Ended(cs), keys[e])
  BY <1>4, <1>6 DEF StateOK
<1>8. \A c \in Calls : /\ StateOK(pg2, Ended(cs), Ended(cs)[c].st)
                       /\ Ended(cs)[c].pc \notin {"read", "create", "encrypt"}
  BY <1>1, <1>4, <1>5 DEF StateOK, NoState
<1> QED BY <1>4, <1>5, <1>7, <1>8 DEF PageOK

\* A task that goes on is as it should be.
LEMMA FollowsOK ==
    ASSUME NEW pg, NEW t \in Tasks, TaskOK(pg, t), NEW r, Follows(r, t), NEW pg2,
           r.kind = "load" /\ r.left <= 2 => pg2.epoch >= 1
    PROVE  TaskOK(pg2, r)
<1>1. t.left \in Nat /\ r.left \in Nat /\ r.left = t.left - 1 /\ r.left >= 1 /\ r.kind = t.kind
      /\ r.epoch = t.epoch
  BY DEF Follows, Tasks
<1>2. t.left \in 1..Len(Script[t.kind]) /\ Len(Script[t.kind]) \in 1..5
  BY ScriptSteps DEF TaskOK
<1>3. r.left \in 1..Len(Script[r.kind])
  BY <1>1, <1>2
<1> QED BY <1>1, <1>3 DEF TaskOK

\* A step of a task keeps the page as it should be.
LEMMA TaskStepOK ==
    ASSUME TypeInv, NEW p \in Pages, NEW t \in page[p].tasks, NEW pg \in PageStates,
           NEW keys \in [Epochs -> SenderStates], NEW cs \in [Calls -> CallStates],
           TaskEffect(p, t, pg, keys, cs)
    PROVE  PageOK(pg, keys, cs)
<1> USE GroupAssumption
<1>1. /\ page[p] \in PageStates /\ store[p] \in [Epochs -> SenderStates]
      /\ calls[p] \in [Calls -> CallStates] /\ t \in Tasks /\ TaskOK(page[p], t)
      /\ PageOK(page[p], store[p], calls[p])
  BY PageFacts DEF PageOK
<1>2. /\ t.left \in 1..Len(Script[t.kind]) /\ page[p].epoch \in Nat /\ pg.epoch \in Nat
      /\ t.got \in Nat /\ t.epoch \in Nat /\ t.left \in Nat
  <2>1. t.left \in 1..Len(Script[t.kind])
    BY <1>1 DEF TaskOK
  <2>2. page[p].epoch \in Nat /\ pg.epoch \in Nat
    BY <1>1 DEF PageStates
  <2>3. t.got \in Nat /\ t.epoch \in Nat /\ t.left \in Nat
    BY <1>1 DEF Tasks
  <2> QED BY <2>1, <2>2, <2>3
<1>3. pg.chains = page[p].chains
  BY DEF TaskEffect
<1>4. NextStep(t) # "leave" /\ page[p].epoch >= 1 => pg.epoch >= 1
  <2>1. NextStep(t) = "apply" => t.epoch >= 1
    BY <1>1, <1>2, ScriptSteps DEF TaskOK
  <2> QED BY <1>2, <2>1 DEF TaskEffect
<1>5. ASSUME NextStep(t) # "leave", NEW r \in pg.tasks
      PROVE  TaskOK(pg, r)
  <2>1. CASE r \in page[p].tasks
    <3>1. TaskOK(page[p], r)
      BY <1>1, <2>1 DEF PageOK
    <3> QED BY <1>4, <1>5, <3>1 DEF TaskOK
  <2>2. CASE /\ Follows(r, t)
             /\ NextStep(t) = "applyKeys" => t.got # 0
    <3>1. ASSUME r.kind = "load", r.left <= 2
          PROVE  pg.epoch >= 1
      <4>1. t.kind = "load" /\ t.left <= 3 /\ t.left >= 2
        BY <1>2, <2>2, <3>1 DEF Follows, Tasks
      <4>2. CASE t.left = 3
        <5>1. NextStep(t) = "applyKeys"
          BY <1>1, <1>2, <4>1, <4>2, ScriptSteps
        <5> QED BY <1>2, <2>2, <5>1 DEF TaskEffect
      <4>3. CASE t.left = 2
        BY <1>1, <1>4, <1>5, <4>1, <4>3 DEF TaskOK
      <4> QED BY <1>2, <4>1, <4>2, <4>3
    <3> QED BY <1>1, <2>2, <3>1, FollowsOK
  <2>3. CASE r.kind = "refresh" /\ r.left = 2 /\ r.change = 0 /\ r.epoch = 0 /\ r.got = 0
    <3>1. r \in Tasks
      BY DEF PageStates
    <3>2. Len(Script[r.kind]) = 2
      BY <2>3, <3>1, ScriptSteps
    <3> QED BY <2>3, <3>2 DEF TaskOK
  <2> QED BY <2>1, <2>2, <2>3 DEF TaskEffect
<1>6. CASE NextStep(t) = "leave"
  <2>1. cs = Ended(calls[p]) /\ pg.tasks = {} /\ ~ pg.listening /\ keys = store[p]
    BY <1>6 DEF TaskEffect
  <2> QED BY <1>1, <1>3, <2>1, EndedOK
<1>7. CASE NextStep(t) # "leave"
  <2>1. cs = calls[p]
    BY <1>7 DEF TaskEffect
  <2>2. pg.listening => pg.epoch >= 1
    <3>1. CASE page[p].listening
      BY <1>1, <1>4, <1>7, <3>1 DEF PageOK
    <3>2. CASE NextStep(t) = "listen"
      <4>1. t.kind = "load" /\ t.left = 1
        BY <1>1, <1>2, <3>2, ScriptSteps
      <4> QED BY <1>1, <1>4, <1>7, <4>1 DEF TaskOK
    <3> QED BY <3>1, <3>2 DEF TaskEffect
  <2>3. \A e \in Epochs : StateOK(pg, cs, keys[e])
    <3>1. CASE keys = store[p]
      BY <1>1, <1>3, <2>1, <3>1 DEF PageOK, StateOK
    <3>2. CASE keys = [e \in Epochs |-> NoState]
      <4>1. pg.chains \in Nat /\ Cardinality(Spent(cs)) \in 0..MaxCalls
        BY CallCounts DEF PageStates
      <4> QED BY <3>2, <4>1 DEF StateOK, NoState
    <3> QED BY <3>1, <3>2 DEF TaskEffect
  <2>4. /\ pg.chains <= Cardinality(Made(cs))
        /\ \A c \in Calls :
              /\ StateOK(pg, cs, cs[c].st)
              /\ cs[c].pc \in {"read", "create", "encrypt"} => cs[c].epoch >= 1
    BY <1>1, <1>3, <2>1 DEF PageOK, StateOK
  <2>5. \A r \in pg.tasks : TaskOK(pg, r)
    BY <1>5, <1>7
  <2> QED BY <2>2, <2>3, <2>4, <2>5 DEF PageOK
<1> QED BY <1>6, <1>7

-----------------------------------------------------------------------------
\* A step of a call keeps the page as it should be.
LEMMA CallStepOK ==
    ASSUME TypeInv, NEW p \in Pages, NEW c \in Calls, NEW pg \in PageStates,
           NEW keys \in [Epochs -> SenderStates], NEW cs \in [Calls -> CallStates],
           CallEffect(p, c, pg, keys, cs)
    PROVE  PageOK(pg, keys, cs)
<1> USE GroupAssumption
<1>1. /\ page[p] \in PageStates /\ store[p] \in [Epochs -> SenderStates]
      /\ calls[p] \in [Calls -> CallStates]
      /\ PageOK(page[p], store[p], calls[p])
  BY PageFacts
<1> DEFINE old == calls[p]
<1>2. /\ Made(old) \in SUBSET Calls /\ Spent(old) \in SUBSET Calls
      /\ Made(cs) \in SUBSET Calls /\ Spent(cs) \in SUBSET Calls
  BY DEF Made, Spent
<1>3. PICK a, b, s, r \in Nat :
         /\ a = Cardinality(Made(old)) /\ b = Cardinality(Made(cs))
         /\ s = Cardinality(Spent(old)) /\ r = Cardinality(Spent(cs))
  BY CallCounts
<1>4. /\ page[p].chains \in Nat /\ page[p].chains <= a /\ pg.chains \in Nat
      /\ \A e \in Epochs : /\ store[p][e].chain \in Nat /\ store[p][e].counter \in Nat
                           /\ store[p][e].chain <= page[p].chains
                           /\ store[p][e].counter <= s
      /\ \A d \in Calls : /\ old[d].st.chain \in Nat /\ old[d].st.counter \in Nat
                          /\ old[d].st.chain <= page[p].chains
                          /\ old[d].st.counter <= s
                          /\ old[d].pc \in {"read", "create", "encrypt"} => old[d].epoch >= 1
  <2>1. \A d \in Calls : old[d].st \in SenderStates
    BY <1>1 DEF CallStates
  <2> QED BY <1>1, <1>3, <2>1 DEF PageOK, StateOK, PageStates, SenderStates
<1>5. /\ pg.epoch = page[p].epoch /\ pg.tasks = page[p].tasks
      /\ \A d \in Calls \ {c} : cs[d] = old[d]
  BY DEF CallEffect
<1>6. (\A d \in pg.tasks : TaskOK(pg, d)) /\ (pg.listening => pg.epoch >= 1)
  <2>1. pg.listening => page[p].listening
    BY DEF CallEffect, StartEffect, ReadEffect, CreateEffect, SaveEffect, ArriveEffect
  <2> QED BY <1>1, <1>5, <2>1 DEF PageOK, TaskOK
\* What is left to show, given that the counts only grow.
<1>7. ASSUME pg.chains <= b, page[p].chains <= pg.chains, s <= r,
             \A e \in Epochs : \/ keys[e] = store[p][e]
                               \/ (keys[e].chain <= pg.chains /\ keys[e].counter <= r),
             cs[c].st.chain <= pg.chains, cs[c].st.counter <= r,
             cs[c].pc \in {"read", "create", "encrypt"} => cs[c].epoch >= 1
      PROVE  PageOK(pg, keys, cs)
  <2>1. \A e \in Epochs : StateOK(pg, cs, keys[e])
    BY <1>3, <1>4, <1>7 DEF StateOK
  <2>2. ASSUME NEW d \in Calls
        PROVE  /\ StateOK(pg, cs, cs[d].st)
               /\ cs[d].pc \in {"read", "create", "encrypt"} => cs[d].epoch >= 1
    <3>1. CASE d = c
      BY <1>3, <1>7, <3>1 DEF StateOK
    <3>2. CASE d # c
      BY <1>3, <1>4, <1>5, <1>7, <3>2 DEF StateOK
    <3> QED BY <3>1, <3>2
  <2> QED BY <1>3, <1>6, <1>7, <2>1, <2>2 DEF PageOK
<1>8. CASE StartEffect(p, c, pg, cs) /\ keys = store[p]
  <2>1. Made(cs) = Made(old) /\ Spent(cs) = Spent(old)
    BY <1>5, <1>8 DEF Made, Spent, StartEffect
  <2>2. cs[c].st.chain = 0 /\ cs[c].st.counter = 0 /\ cs[c].epoch >= 1
        /\ pg.chains = page[p].chains
    BY <1>1, <1>8 DEF StartEffect, NoState, PageOK
  <2>3. a = b /\ s = r
    BY <1>3, <2>1
  <2>4. 0 <= pg.chains /\ 0 <= r
    BY <1>3, <1>4
  <2> QED BY <1>3, <1>4, <1>7, <1>8, <2>2, <2>3, <2>4
<1>9. CASE ReadEffect(p, c, pg, cs) /\ keys = store[p]
  <2>1. old[c].pc = "read" /\ cs[c].pc \in {"create", "encrypt"} /\ pg = page[p]
        /\ cs[c].epoch = old[c].epoch /\ cs[c].st = store[p][old[c].epoch]
    BY <1>9 DEF ReadEffect
  <2>2. Made(old) \subseteq Made(cs) /\ Spent(cs) = Spent(old)
    BY <1>5, <2>1 DEF Made, Spent
  <2>3. a <= b /\ s = r
    BY <1>2, <1>3, <2>2, CallCounts
  <2>4. old[c].epoch \in Epochs
    BY <1>1, <1>4, <2>1 DEF Epochs, CallStates
  <2> QED BY <1>3, <1>4, <1>7, <1>9, <2>1, <2>3, <2>4
<1>10. CASE /\ CreateEffect(p, c, pg, cs)
            /\ keys = [store[p] EXCEPT ![calls[p][c].epoch] = cs[c].st]
  <2>1. old[c].pc = "create" /\ cs[c].pc = "encrypt" /\ pg.chains = page[p].chains + 1
        /\ cs[c].epoch = old[c].epoch /\ cs[c].st.chain = page[p].chains + 1
        /\ cs[c].st.counter = 0
    BY <1>10 DEF CreateEffect
  <2>2. Made(cs) = Made(old) \cup {c} /\ c \notin Made(old) /\ Spent(cs) = Spent(old)
    BY <1>5, <2>1 DEF Made, Spent
  <2>3. b = a + 1 /\ s = r
    BY <1>2, <1>3, <2>2, CallCounts
  <2>4. \A e \in Epochs : keys[e] = store[p][e] \/ keys[e] = cs[c].st
    BY <1>1, <1>10
  <2>5. cs[c].epoch >= 1
    BY <1>4, <2>1
  <2> QED BY <1>3, <1>4, <1>7, <2>1, <2>3, <2>4, <2>5
<1>11. CASE /\ SaveEffect(p, c, pg, cs)
            /\ keys = [store[p] EXCEPT ![calls[p][c].epoch] =
                        [chain |-> calls[p][c].st.chain, counter |-> calls[p][c].st.counter + 1]]
  <2>1. old[c].pc = "encrypt" /\ cs[c].pc = "send" /\ pg = page[p] /\ cs[c].st = old[c].st
    BY <1>11 DEF SaveEffect
  <2>2. Made(cs) = Made(old) /\ Spent(cs) = Spent(old) \cup {c} /\ c \notin Spent(old)
    BY <1>5, <2>1 DEF Made, Spent
  <2>3. b = a /\ r = s + 1
    BY <1>2, <1>3, <2>2, CallCounts
  <2>4. PICK st : st = [chain |-> old[c].st.chain, counter |-> old[c].st.counter + 1]
    OBVIOUS
  <2>5. \A e \in Epochs : keys[e] = store[p][e] \/ keys[e] = st
    BY <1>1, <1>11, <2>4
  <2>6. st.chain <= page[p].chains /\ st.counter <= r
    BY <1>3, <1>4, <2>3, <2>4
  <2>7. cs[c].st.chain <= page[p].chains /\ cs[c].st.counter <= r
    BY <1>3, <1>4, <2>1, <2>3
  <2> QED BY <1>3, <1>4, <1>7, <2>1, <2>3, <2>5, <2>6, <2>7
<1>12. CASE ArriveEffect(p, c, pg, cs) /\ keys = store[p]
  <2>1. old[c].pc = "send" /\ cs[c].pc = "done" /\ pg.chains = page[p].chains
        /\ cs[c].st.chain = 0 /\ cs[c].st.counter = 0
    BY <1>12 DEF ArriveEffect, NoCall, NoState
  <2>2. Made(cs) = Made(old) /\ Spent(cs) = Spent(old)
    BY <1>5, <2>1 DEF Made, Spent
  <2>3. a = b /\ s = r /\ 0 <= pg.chains /\ 0 <= r
    BY <1>3, <1>4, <2>2
  <2> QED BY <1>3, <1>4, <1>7, <1>12, <2>1, <2>3
<1> QED BY <1>8, <1>9, <1>10, <1>11, <1>12 DEF CallEffect

-----------------------------------------------------------------------------
\* What is known of a page that is loaded anew.
LoadEffect(p, pg) ==
    /\ page[p].loads < MaxLoads
    /\ pg.chains = page[p].chains /\ pg.handled = page[p].handled /\ ~ pg.listening
    /\ pg.straddled = page[p].straddled /\ pg.wentBack = page[p].wentBack
    /\ pg.refused = page[p].refused /\ pg.crossed = page[p].crossed /\ pg.epoch = 0
    /\ \A t \in pg.tasks : /\ t.kind = "load" /\ t.left = 4 /\ t.change = 0 /\ t.epoch = 0
                           /\ t.got = 0

LEMMA LoadPageEffect ==
    ASSUME TypeInv, NEW p \in Pages, LoadPage(p)
    PROVE  \E pg \in PageStates :
              /\ WrittenBy(p, pg, store[p], Ended(calls[p])) /\ messages' = messages
              /\ LoadEffect(p, pg) /\ PageOK(pg, store[p], Ended(calls[p]))
<1> USE GroupAssumption
<1>1. /\ page[p] \in PageStates /\ store[p] \in [Epochs -> SenderStates]
      /\ calls[p] \in [Calls -> CallStates] /\ page \in [Pages -> PageStates]
      /\ store = [store EXCEPT ![p] = store[p]]
      /\ PageOK(page[p], store[p], calls[p])
  BY PageFacts DEF TypeInv, PageTypes
<1>2. PICK t : t = LoadTask("load")
  OBVIOUS
<1>3. /\ t \in Tasks /\ t.kind = "load" /\ t.left = 4 /\ t.change = 0 /\ t.epoch = 0 /\ t.got = 0
  <2>1. Len(Script["load"]) = 4
    BY DEF Script
  <2>2. 0 \in 0..(MaxChanges + 1) /\ 0 \in 0..MaxChanges /\ "load" \in AllTaskKinds
    BY DEF AllTaskKinds
  <2>3. group.founder \in Users
    BY RowFields
  <2> QED BY <1>2, <2>1, <2>2, <2>3 DEF LoadTask, Tasks
<1>4. PICK ts \in SUBSET Tasks, nobody \in SUBSET Users : ts = {t} /\ nobody = {}
  BY <1>3
<1>5. PICK n \in 0..MaxLoads : n = page[p].loads + 1
  BY <1>1 DEF LoadPage, PageStates
<1>6. PICK pg : pg = [page[p] EXCEPT !.open = TRUE, !.listening = FALSE, !.loads = n,
                                     !.epoch = 0, !.bundles = nobody, !.tasks = ts]
  OBVIOUS
<1>7. page' = [page EXCEPT ![p] = pg]
  BY <1>2, <1>4, <1>5, <1>6 DEF LoadPage
<1>8. pg \in PageStates /\ pg.tasks = ts /\ pg.epoch = 0 /\ ~ pg.listening
      /\ pg.chains = page[p].chains /\ pg.handled = page[p].handled
      /\ pg.straddled = page[p].straddled /\ pg.wentBack = page[p].wentBack
      /\ pg.refused = page[p].refused /\ pg.crossed = page[p].crossed
  <2>1. 0 \in 0..(MaxChanges + 1)
    OBVIOUS
  <2> QED BY <1>1, <1>6, <2>1 DEF PageStates
<1>9. LoadEffect(p, pg)
  BY <1>3, <1>4, <1>8 DEF LoadEffect, LoadPage
<1>10. TaskOK(pg, t)
  <2>1. Len(Script[t.kind]) = 4
    BY <1>3, ScriptSteps
  <2> QED BY <1>3, <2>1 DEF TaskOK
<1>11. PageOK(pg, store[p], Ended(calls[p]))
  BY <1>1, <1>4, <1>8, <1>10, EndedOK
<1>12. WrittenBy(p, pg, store[p], Ended(calls[p])) /\ messages' = messages
  BY <1>1, <1>7 DEF WrittenBy, LoadPage, Ended
<1> QED BY <1>8, <1>9, <1>11, <1>12

\* What an announced change makes of each page: some tasks of that change begin.
AnnounceEffect(c, p, pg) ==
    /\ \A t \in pg.tasks :
          \/ t \in page[p].tasks
          \/ /\ t.change = c /\ t.user = changes[c].user /\ t.epoch = changes[c].epoch
             /\ t.got = 0 /\ t.left = Len(Script[t.kind])
             /\ t.kind \notin {"load", "refresh"}
             /\ t.kind \in {"chatDeleted", "userDeleted", "hasLeft"} =>
                   changes[c].kind = "remove" /\ p = changes[c].user
             /\ t.kind \in {"chatUpdated", "userUpdated", "memberRemoved", "userAdded"} =>
                   changes[c].kind # "meta"
             /\ t.kind \in {"chatMeta", "userMeta", "metadataSaved"} => changes[c].kind = "meta"
             /\ t.kind = "userAdded" => changes[c].kind = "add"
    /\ pg.listening => page[p].listening
    /\ pg.epoch = page[p].epoch /\ pg.chains = page[p].chains /\ pg.handled = page[p].handled
    /\ pg.straddled = page[p].straddled /\ pg.wentBack = page[p].wentBack
    /\ pg.refused = page[p].refused /\ pg.crossed = page[p].crossed

LEMMA AnnouncedTasks ==
    ASSUME TypeInv, NEW c \in Changes, changes[c].pc = "announce", NEW p \in Pages,
           NEW t \in Announced(c, p)
    PROVE  /\ t \in Tasks
           /\ t.change = c /\ t.user = changes[c].user /\ t.epoch = changes[c].epoch
           /\ t.got = 0 /\ t.left = Len(Script[t.kind])
           /\ t.kind \notin {"load", "refresh"}
           /\ t.kind \in {"chatDeleted", "userDeleted", "hasLeft"} =>
                 changes[c].kind = "remove" /\ p = changes[c].user
           /\ t.kind \in {"chatUpdated", "userUpdated", "memberRemoved", "userAdded"} =>
                 changes[c].kind # "meta"
           /\ t.kind \in {"chatMeta", "userMeta", "metadataSaved"} => changes[c].kind = "meta"
           /\ t.kind = "userAdded" => changes[c].kind = "add"
<1> USE GroupAssumption
<1>1. PICK k \in TaskKinds :
        /\ t = Task(k, c)
        /\ k \notin {"load", "refresh"}
        /\ k \in {"chatDeleted", "userDeleted", "hasLeft"} =>
              changes[c].kind = "remove" /\ p = changes[c].user
        /\ k \in {"chatUpdated", "userUpdated"} => changes[c].kind # "meta"
        /\ k = "memberRemoved" => changes[c].kind = "remove"
        /\ k \in {"chatMeta", "userMeta", "metadataSaved"} => changes[c].kind = "meta"
        /\ k = "userAdded" => changes[c].kind = "add"
  BY DEF Announced
<1>2. PICK n \in 0..5 : n = Len(Script[k])
  BY DEF Script, AllTaskKinds
<1>3. /\ changes[c].user \in Users /\ changes[c].epoch \in 0..(MaxChanges + 1)
      /\ c \in 0..MaxChanges /\ 0 \in 0..(MaxChanges + 1) /\ k \in AllTaskKinds
  BY RowFields DEF Changes
<1>4. t = [kind |-> k, left |-> n, change |-> c, user |-> changes[c].user,
           epoch |-> changes[c].epoch, got |-> 0, bundles |-> {}]
  BY <1>1, <1>2 DEF Task
<1>5. /\ t \in Tasks /\ t.kind = k /\ t.left = n /\ t.change = c /\ t.user = changes[c].user
      /\ t.epoch = changes[c].epoch /\ t.got = 0
  BY <1>3, <1>4 DEF Tasks
<1> QED BY <1>1, <1>2, <1>5

LEMMA AnnouncePages ==
    ASSUME TypeInv, NEW c \in Changes, ChangeAnnounces(c)
    PROVE  /\ PageTypes'
           /\ \A p \in Pages : AnnounceEffect(c, p, page'[p])
           /\ changes[c].pc = "announce" /\ UNCHANGED <<group, store, calls, messages, onStaleRow>>
<1> USE GroupAssumption
<1>1. /\ changes[c].pc = "announce" /\ UNCHANGED <<group, store, calls, messages, onStaleRow>>
      /\ changes[c].epoch >= 1
  BY DEF ChangeAnnounces, TypeInv, RowsBounded
<1>2. page \in [Pages -> PageStates]
  BY DEF TypeInv, PageTypes
<1>3. ASSUME NEW p \in Pages
      PROVE  /\ page'[p] \in PageStates /\ AnnounceEffect(c, p, page'[p])
             /\ PageOK(page'[p], store[p], calls[p])
  <2>1. page[p] \in PageStates /\ PageOK(page[p], store[p], calls[p])
    BY <1>2 DEF TypeInv, PageTypes
  <2>2. CASE ~ page[p].open
    <3>1. page'[p] = page[p]
      BY <2>2 DEF ChangeAnnounces
    <3> QED BY <2>1, <3>1 DEF AnnounceEffect
  <2>3. CASE page[p].open
    <3> DEFINE l == page[p].listening /\ ~ (changes[c].kind = "remove" /\ p = changes[c].user)
    <3>1. PICK ts : ts = page[p].tasks \cup Announced(c, p)
      OBVIOUS
    <3>2. l \in BOOLEAN /\ (l => page[p].listening)
      OBVIOUS
    <3>3. PICK pg : pg = [page[p] EXCEPT !.tasks = ts, !.listening = l]
      OBVIOUS
    <3>4. page'[p] = pg
      BY <2>3, <3>1, <3>3 DEF ChangeAnnounces
    <3> HIDE DEF l
    <3>5. ts \in SUBSET Tasks
      BY <1>1, <2>1, <3>1, AnnouncedTasks DEF PageStates
    <3>6. pg \in PageStates /\ pg.tasks = ts /\ pg.epoch = page[p].epoch /\ pg.listening = l
          /\ pg.chains = page[p].chains /\ pg.handled = page[p].handled
          /\ pg.straddled = page[p].straddled /\ pg.wentBack = page[p].wentBack
          /\ pg.refused = page[p].refused /\ pg.crossed = page[p].crossed
      BY <2>1, <3>2, <3>3, <3>5 DEF PageStates
    <3>7. AnnounceEffect(c, p, pg)
      <4>1. \A t \in ts \ page[p].tasks :
             /\ t.change = c /\ t.user = changes[c].user /\ t.epoch = changes[c].epoch
             /\ t.got = 0 /\ t.left = Len(Script[t.kind])
             /\ t.kind \notin {"load", "refresh"}
             /\ t.kind \in {"chatDeleted", "userDeleted", "hasLeft"} =>
                   changes[c].kind = "remove" /\ p = changes[c].user
             /\ t.kind \in {"chatUpdated", "userUpdated", "memberRemoved", "userAdded"} =>
                   changes[c].kind # "meta"
             /\ t.kind \in {"chatMeta", "userMeta", "metadataSaved"} => changes[c].kind = "meta"
             /\ t.kind = "userAdded" => changes[c].kind = "add"
        BY <1>1, <3>1, AnnouncedTasks
      <4> QED BY <3>2, <3>6, <4>1 DEF AnnounceEffect
    <3>8. ASSUME NEW t \in pg.tasks
          PROVE  TaskOK(pg, t)
      <4>1. CASE t \in page[p].tasks
        BY <2>1, <3>6, <4>1 DEF PageOK, TaskOK
      <4>2. CASE t \notin page[p].tasks
        <5>1. t.left = Len(Script[t.kind]) /\ t.kind # "load" /\ t.epoch >= 1
          BY <1>1, <3>7, <4>2 DEF AnnounceEffect
        <5>2. Len(Script[t.kind]) \in 1..5
          BY <3>5, <3>6, ScriptSteps
        <5>3. t.left \in 1..Len(Script[t.kind])
          <6>1. PICK n \in 1..5 : n = Len(Script[t.kind])
            BY <5>2
          <6>2. t.left = n
            BY <5>1, <6>1, Zenon
          <6>3. n \in 1..n
            OBVIOUS
          <6> QED BY <6>1, <6>2, <6>3, Zenon
        <5> QED BY <5>1, <5>3 DEF TaskOK
      <4> QED BY <4>1, <4>2
    <3>9. PageOK(pg, store[p], calls[p])
      BY <2>1, <3>2, <3>6, <3>8 DEF PageOK, StateOK
    <3> QED BY <3>4, <3>6, <3>7, <3>9
  <2> QED BY <2>2, <2>3
<1>4. page' \in [Pages -> PageStates]
  <2>1. page' = [p \in Pages |-> page'[p]]
    BY DEF ChangeAnnounces
  <2> QED BY <1>3, <2>1
<1> QED BY <1>1, <1>3, <1>4 DEF TypeInv, PageTypes

-----------------------------------------------------------------------------
LEMMA TypeInvInit == GroupInit => TypeInv
BY CreatorInvInit, RowsBoundedInit, PageTypesInit DEF TypeInv

\* The rows and requests are left alone by pages and calls.
LEMMA RowsKept ==
    ASSUME CreatorInv, RowsBounded, UNCHANGED <<group, changes, onStaleRow>>
    PROVE  CreatorInv' /\ RowsBounded'
<1>1. CreatorInv'
  BY PagesKeepRows
<1>2. RowsBounded'
  BY DEF RowsBounded
<1> QED BY <1>1, <1>2

LEMMA TypeInvStep == TypeInv /\ [GroupNext]_vars => TypeInv'
<1> SUFFICES ASSUME TypeInv, [GroupNext]_vars
             PROVE  TypeInv'
  OBVIOUS
<1>0. CreatorInv /\ RowsBounded /\ CreatorInv'
  BY CreatorInvStep DEF TypeInv
<1>1. ASSUME NEW c \in Changes, ChangeStep(c)
      PROVE  TypeInv'
  <2>1. RowsBounded'
    BY <1>0, <1>1, RowsBoundedChange
  <2>2. PageTypes'
    <3>1. CASE ChangeAnnounces(c)
      BY <3>1, AnnouncePages
    <3>2. CASE UNCHANGED <<page, store, calls, messages>>
      BY <3>2 DEF TypeInv, PageTypes
    <3> QED BY <1>1, <3>1, <3>2 DEF ChangeStep, ChangeStarts, ChangeChecks, ChangeCommits,
               ChangeHandsOver, ChangeAppoints
  <2> QED BY <1>0, <2>1, <2>2 DEF TypeInv
<1>2. ASSUME NEW p \in Pages, LoadPage(p)
      PROVE  TypeInv'
  <2>1. PICK pg \in PageStates :
              /\ WrittenBy(p, pg, store[p], Ended(calls[p])) /\ messages' = messages
              /\ PageOK(pg, store[p], Ended(calls[p]))
    BY <1>2, LoadPageEffect
  <2>2. store[p] \in [Epochs -> SenderStates] /\ Ended(calls[p]) \in [Calls -> CallStates]
        /\ messages \in Seq(Messages)
    BY PageFacts, EndedType
  <2>3. PageTypes'
    BY <2>1, <2>2, OnePage DEF WrittenBy
  <2> QED BY <1>0, <2>1, <2>3, RowsKept DEF TypeInv, WrittenBy
<1>3. ASSUME NEW p \in Pages, NEW t \in page[p].tasks, TaskStep(p, t)
      PROVE  TypeInv'
  <2>1. PICK pg \in PageStates, keys \in [Epochs -> SenderStates], cs \in [Calls -> CallStates] :
              /\ WrittenBy(p, pg, keys, cs) /\ messages' = messages
              /\ TaskEffect(p, t, pg, keys, cs)
    BY <1>3, TaskStepEffect
  <2>2. PageOK(pg, keys, cs)
    BY <2>1, TaskStepOK
  <2>3. messages \in Seq(Messages)
    BY DEF TypeInv, PageTypes
  <2>4. PageTypes'
    BY <2>1, <2>2, <2>3, OnePage DEF WrittenBy
  <2> QED BY <1>0, <2>1, <2>4, RowsKept DEF TypeInv, WrittenBy
<1>4. ASSUME NEW p \in Pages, NEW c \in Calls, CallStep(p, c)
      PROVE  TypeInv'
  <2>1. PICK pg \in PageStates, keys \in [Epochs -> SenderStates], cs \in [Calls -> CallStates] :
              /\ WrittenBy(p, pg, keys, cs) /\ CallEffect(p, c, pg, keys, cs)
              /\ messages' \in Seq(Messages)
    BY <1>4, CallStepEffect
  <2>2. PageOK(pg, keys, cs)
    BY <2>1, CallStepOK
  <2>3. PageTypes'
    BY <2>1, <2>2, OnePage DEF WrittenBy
  <2> QED BY <1>0, <2>1, <2>3, RowsKept DEF TypeInv, WrittenBy
<1>5. CASE UNCHANGED vars
  <2>1. PageTypes'
    BY <1>5 DEF TypeInv, PageTypes, vars
  <2> QED BY <1>0, <1>5, <2>1, RowsKept DEF TypeInv, vars
<1> QED BY <1>1, <1>2, <1>3, <1>4, <1>5 DEF GroupNext

LEMMA TypeInvTypes == TypeInv => GroupTypeOK
<1> SUFFICES ASSUME TypeInv PROVE GroupTypeOK
  OBVIOUS
<1> USE GroupAssumption
<1>1. group \in Groups
  <2>1. group \in GroupRows /\ group.epoch \in Epochs
        /\ \A u \in Users : group.leftBy[u] \in 0..MaxChanges
    BY DEF TypeInv, CreatorInv, RowsShape, RowsBounded
  <2>2. group.leftBy \in [Users -> 0..MaxChanges]
    BY <2>1 DEF GroupRows
  <2> QED BY <2>1, <2>2 DEF GroupRows, Groups
<1>2. changes \in [Changes -> ChangeStates]
  <2>1. changes \in [Changes -> Requests] /\ \A c \in Changes : changes[c].epoch <= MaxChanges + 1
    BY DEF TypeInv, CreatorInv, RowsShape, RowsBounded
  <2>2. \A c \in Changes : changes[c] \in ChangeStates
    BY <2>1 DEF Requests, ChangeStates
  <2> QED BY <2>1, <2>2
<1>3. onStaleRow \in BOOLEAN
  BY DEF TypeInv, CreatorInv, RowsShape
<1> QED BY <1>1, <1>2, <1>3 DEF GroupTypeOK, TypeInv, PageTypes

\* The variables keep their types: no epoch, counter or number of chains gets ahead of the
\* requests and calls that could have raised it, whatever the bounds are.
THEOREM GroupTypes == GroupSpec => []GroupTypeOK
<1>1. GroupInit => TypeInv
  BY TypeInvInit
<1>2. TypeInv /\ [GroupNext]_vars => TypeInv'
  BY TypeInvStep
<1>3. TypeInv => GroupTypeOK
  BY TypeInvTypes
<1> QED BY <1>1, <1>2, <1>3, PTL DEF GroupSpec

-----------------------------------------------------------------------------
\* The chains of a page that its keys, calls and messages name have been made.
ChainsOK(p, pg, keys, cs, msgs) ==
    /\ \A e \in Epochs : keys[e] # NoState => keys[e].chain >= 1
    /\ \A c \in Calls : /\ cs[c].pc \in {"encrypt", "send"} => cs[c].st.chain >= 1
                        /\ cs[c].exposed \subseteq 1..pg.chains
    /\ \A i \in DOMAIN msgs :
          msgs[i].sender = p => msgs[i].st.chain \in 1..pg.chains /\ p \notin msgs[i].readers

ChainsInv == \A p \in Pages : ChainsOK(p, page[p], store[p], calls[p], messages)

LEMMA MessageFacts ==
    ASSUME TypeInv
    PROVE  \A i \in DOMAIN messages :
              /\ messages[i] \in Messages /\ messages[i].sender \in Pages
              /\ messages[i].st \in SenderStates /\ messages[i].st.chain \in Nat
              /\ messages[i].st.counter \in Nat
<1>1. messages \in Seq(Messages)
  BY DEF TypeInv, PageTypes
<1>2. \A i \in DOMAIN messages : messages[i] \in Messages
  BY <1>1
<1> QED BY <1>2, GroupAssumption DEF Messages, SenderStates

\* The messages after one was accepted.
LEMMA Accepted ==
    ASSUME TypeInv, NEW m \in Messages, messages' = Append(messages, m)
    PROVE  /\ DOMAIN messages' = DOMAIN messages \cup {Len(messages) + 1}
           /\ Len(messages) + 1 \notin DOMAIN messages
           /\ messages'[Len(messages) + 1] = m
           /\ \A i \in DOMAIN messages : messages'[i] = messages[i]
<1>1. PICK q \in Seq(Messages) : q = messages
  BY DEF TypeInv, PageTypes
<1>2. PICK n \in Nat : n = Len(q) /\ DOMAIN q = 1..n
  OBVIOUS
<1>6. Append(q, m) \in Seq(Messages)
  OBVIOUS
<1>3. PICK r \in Seq(Messages) : r = Append(q, m)
  BY <1>6, Zenon
<1>4. Len(r) = n + 1 /\ DOMAIN r = 1..(n + 1) /\ r[n + 1] = m /\ \A i \in 1..n : r[i] = q[i]
  BY <1>2, <1>3
<1>5. messages' = r
  BY <1>1, <1>3
<1> QED BY <1>1, <1>2, <1>4, <1>5

\* The messages that a step of page p adds are its own.
OnlyAdds(p) ==
    \A q \in Pages \ {p} : \A i \in DOMAIN messages' :
        messages'[i].sender = q => i \in DOMAIN messages /\ messages'[i] = messages[i]

LEMMA OthersMessages ==
    ASSUME TypeInv, NEW p \in Pages, NEW c \in Calls, NEW pg, NEW keys, NEW cs,
           CallEffect(p, c, pg, keys, cs)
    PROVE  OnlyAdds(p)
<1> SUFFICES ASSUME NEW q \in Pages, q # p
             PROVE  \A i \in DOMAIN messages' :
                messages'[i].sender = q => i \in DOMAIN messages /\ messages'[i] = messages[i]
  BY DEF OnlyAdds
<1>1. CASE messages' = messages
  BY <1>1
<1>2. CASE \E m \in Messages : messages' = Append(messages, m) /\ m.sender = p
  BY <1>2, Accepted
<1> QED BY <1>1, <1>2 DEF CallEffect, StartEffect, ReadEffect, CreateEffect, SaveEffect,
           ArriveEffect

LEMMA ChainsInit == GroupInit => ChainsInv
<1> SUFFICES ASSUME GroupInit, NEW p \in Pages
             PROVE  ChainsOK(p, page[p], store[p], calls[p], messages)
  BY DEF ChainsInv
<1>1. /\ \A e \in Epochs : store[p][e] = NoState
      /\ \A c \in Calls : calls[p][c] = NoCall
      /\ DOMAIN messages = {}
  BY DEF GroupInit
<1> QED BY <1>1 DEF ChainsOK, NoCall

LEMMA ExposedMade ==
    ASSUME TypeInv, ChainsInv, NEW p \in Pages
    PROVE  Exposed(p) \subseteq 1..page[p].chains
BY DEF Exposed, ChainsInv, ChainsOK

LEMMA ChainsStep == TypeInv /\ ChainsInv /\ [GroupNext]_vars => ChainsInv'
<1> SUFFICES ASSUME TypeInv, ChainsInv, [GroupNext]_vars
             PROVE  ChainsInv'
  OBVIOUS
<1>1. ASSUME NEW c \in Changes, ChangeStep(c)
      PROVE  ChainsInv'
  <2>1. \A p \in Pages : page'[p].chains = page[p].chains
    <3>1. CASE ChangeAnnounces(c)
      BY <3>1, AnnouncePages DEF AnnounceEffect
    <3>2. CASE page' = page
      BY <3>2
    <3> QED BY <1>1, <3>1, <3>2 DEF ChangeStep, ChangeStarts, ChangeChecks, ChangeCommits,
               ChangeHandsOver, ChangeAppoints
  <2>2. UNCHANGED <<store, calls, messages>>
    BY <1>1 DEF ChangeStep, ChangeStarts, ChangeChecks, ChangeCommits, ChangeHandsOver,
       ChangeAppoints, ChangeAnnounces
  <2> QED BY <2>1, <2>2 DEF ChainsInv, ChainsOK
\* A page writes its own states: the other pages' chains are as they were.
<1>0. ASSUME NEW p \in Pages, NEW pg \in PageStates, NEW keys \in [Epochs -> SenderStates],
             NEW cs \in [Calls -> CallStates], WrittenBy(p, pg, keys, cs),
             ChainsOK(p, pg, keys, cs, messages'), OnlyAdds(p)
      PROVE  ChainsInv'
  <2>1. /\ page \in [Pages -> PageStates] /\ store \in [Pages -> [Epochs -> SenderStates]]
        /\ calls \in [Pages -> [Calls -> CallStates]]
    BY DEF TypeInv, PageTypes
  <2>2. page'[p] = pg /\ store'[p] = keys /\ calls'[p] = cs
    BY <1>0, <2>1 DEF WrittenBy
  <2>3. ASSUME NEW q \in Pages, q # p
        PROVE  ChainsOK(q, page'[q], store'[q], calls'[q], messages')
    <3>1. page'[q] = page[q] /\ store'[q] = store[q] /\ calls'[q] = calls[q]
      BY <1>0, <2>1, <2>3 DEF WrittenBy
    <3>2. ChainsOK(q, page[q], store[q], calls[q], messages)
      BY DEF ChainsInv
    <3>3. ChainsOK(q, page[q], store[q], calls[q], messages')
      BY <1>0, <2>3, <3>2 DEF ChainsOK, OnlyAdds
    <3> QED BY <3>1, <3>3
  <2>4. \A q \in Pages : ChainsOK(q, page'[q], store'[q], calls'[q], messages')
    BY <1>0, <2>2, <2>3
  <2> QED BY <2>4 DEF ChainsInv
<1>2. ASSUME NEW p \in Pages, LoadPage(p)
      PROVE  ChainsInv'
  <2>1. PICK pg \in PageStates :
              /\ WrittenBy(p, pg, store[p], Ended(calls[p])) /\ messages' = messages
              /\ pg.chains = page[p].chains
    BY <1>2, LoadPageEffect DEF LoadEffect
  <2>2. store[p] \in [Epochs -> SenderStates] /\ Ended(calls[p]) \in [Calls -> CallStates]
        /\ calls[p] \in [Calls -> CallStates]
    BY PageFacts, EndedType
  <2>3. \A c \in Calls : /\ Ended(calls[p])[c].exposed = {}
                         /\ Ended(calls[p])[c].pc \in {"none", "done"}
    BY <2>2, EndedCalls
  <2>4. ChainsOK(p, pg, store[p], Ended(calls[p]), messages')
    BY <2>1, <2>3 DEF ChainsInv, ChainsOK
  <2> QED BY <1>0, <2>1, <2>2, <2>4 DEF OnlyAdds
<1>3. ASSUME NEW p \in Pages, NEW t \in page[p].tasks, TaskStep(p, t)
      PROVE  ChainsInv'
  <2>1. PICK pg \in PageStates, keys \in [Epochs -> SenderStates], cs \in [Calls -> CallStates] :
              /\ WrittenBy(p, pg, keys, cs) /\ messages' = messages
              /\ TaskEffect(p, t, pg, keys, cs)
    BY <1>3, TaskStepEffect
  <2>2. pg.chains = page[p].chains
        /\ (keys = store[p] \/ keys = [e \in Epochs |-> NoState])
        /\ (cs = calls[p] \/ cs = Ended(calls[p]))
    BY <2>1 DEF TaskEffect
  <2>3. calls[p] \in [Calls -> CallStates]
    BY PageFacts
  <2>4. \A c \in Calls : /\ Ended(calls[p])[c].exposed = {}
                         /\ Ended(calls[p])[c].pc \in {"none", "done"}
    BY <2>3, EndedCalls
  <2>5. ChainsOK(p, page[p], store[p], calls[p], messages)
    BY DEF ChainsInv
  <2>6. ChainsOK(p, pg, keys, cs, messages')
    BY <2>1, <2>2, <2>4, <2>5 DEF ChainsOK
  <2> QED BY <1>0, <2>1, <2>6 DEF OnlyAdds
<1>4. ASSUME NEW p \in Pages, NEW c \in Calls, CallStep(p, c)
      PROVE  ChainsInv'
  <2>1. PICK pg \in PageStates, keys \in [Epochs -> SenderStates], cs \in [Calls -> CallStates] :
              /\ WrittenBy(p, pg, keys, cs) /\ CallEffect(p, c, pg, keys, cs)
    BY <1>4, CallStepEffect
  <2>2. ChainsOK(p, page[p], store[p], calls[p], messages)
    BY DEF ChainsInv
  <2>3. /\ page[p].chains \in Nat /\ pg.chains \in Nat /\ page[p].chains <= pg.chains
        /\ \A d \in Calls : d # c => cs[d] = calls[p][d]
    <3>1. page[p].chains \in Nat /\ pg.chains \in Nat
      BY PageFacts DEF PageStates
    <3>2. \A d \in Calls : d # c => cs[d] = calls[p][d]
      BY <2>1 DEF CallEffect
    <3>3. pg.chains = page[p].chains \/ pg.chains = page[p].chains + 1
      BY <2>1 DEF CallEffect, StartEffect, ReadEffect, CreateEffect, SaveEffect, ArriveEffect
    <3> QED BY <3>1, <3>2, <3>3
  <2>4. \A n \in 1..page[p].chains : n \in 1..pg.chains
    BY <2>3
  <2>5. calls[p] \in [Calls -> CallStates] /\ store[p] \in [Epochs -> SenderStates]
        /\ PageOK(page[p], store[p], calls[p])
    BY PageFacts
  <2>6. cs[c].exposed \subseteq 1..pg.chains
    BY <2>1, <2>2, <2>4, ExposedMade, ZenonT(40) DEF CallEffect, StartEffect, ReadEffect, CreateEffect,
       SaveEffect, ArriveEffect, ChainsOK, NoCall
  <2>7. cs[c].pc \in {"encrypt", "send"} => cs[c].st.chain >= 1
    <3>1. CASE ReadEffect(p, c, pg, cs)
      <4>1. calls[p][c].epoch \in Epochs
        BY <2>5, <3>1 DEF ReadEffect, PageOK, CallStates, Epochs
      <4> QED BY <2>2, <3>1, <4>1 DEF ReadEffect, ChainsOK
    <3>2. CASE ~ ReadEffect(p, c, pg, cs)
      BY <2>1, <2>2, <2>3, <3>2, SMTT(30) DEF CallEffect, StartEffect, CreateEffect,
         SaveEffect, ArriveEffect, ChainsOK, NoCall
    <3> QED BY <3>1, <3>2
  <2>8. ASSUME NEW e \in Epochs, keys[e] # NoState
        PROVE  keys[e].chain >= 1
    <3>1. CASE keys[e] = store[p][e]
      BY <2>2, <2>8, <3>1 DEF ChainsOK
    <3>2. CASE CreateEffect(p, c, pg, cs) /\ keys[e] = cs[c].st
      BY <2>3, <3>2 DEF CreateEffect
    <3>3. CASE SaveEffect(p, c, pg, cs) /\ keys[e].chain = calls[p][c].st.chain
      BY <2>2, <3>3 DEF SaveEffect, ChainsOK
    <3>4. \/ keys[e] = store[p][e]
          \/ CreateEffect(p, c, pg, cs) /\ keys[e] = cs[c].st
          \/ SaveEffect(p, c, pg, cs) /\ keys[e].chain = calls[p][c].st.chain
      BY <2>1, <2>5 DEF CallEffect
    <3> QED BY <3>1, <3>2, <3>3, <3>4
  <2>9. ASSUME NEW i \in DOMAIN messages', messages'[i].sender = p
        PROVE  messages'[i].st.chain \in 1..pg.chains /\ p \notin messages'[i].readers
    <3>1. CASE i \in DOMAIN messages /\ messages'[i] = messages[i]
      BY <2>2, <2>4, <2>9, <3>1 DEF ChainsOK
    <3>2. CASE calls[p][c].pc = "send" /\ messages'[i].st = calls[p][c].st
               /\ p \notin messages'[i].readers
      <4>1. calls[p][c].st.chain <= page[p].chains /\ calls[p][c].st.chain \in Nat
        BY <2>5 DEF PageOK, StateOK, CallStates, SenderStates
      <4> QED BY <2>2, <2>3, <3>2, <4>1 DEF ChainsOK
    <3>3. \/ i \in DOMAIN messages /\ messages'[i] = messages[i]
          \/ calls[p][c].pc = "send" /\ messages'[i].st = calls[p][c].st
             /\ p \notin messages'[i].readers
      <4>1. CASE messages' = messages
        BY <4>1
      <4>2. CASE messages' # messages
        <5>1. PICK m \in Messages :
                /\ messages' = Append(messages, m) /\ m.st = calls[p][c].st
                /\ calls[p][c].pc = "send" /\ p \notin m.readers
          BY <2>1, <4>2 DEF CallEffect, StartEffect, ReadEffect, CreateEffect, SaveEffect,
             ArriveEffect
        <5> QED BY <5>1, Accepted
      <4> QED BY <4>1, <4>2
    <3> QED BY <3>1, <3>2, <3>3
  <2>10. \A d \in Calls : d # c => /\ cs[d].exposed \subseteq 1..pg.chains
                                   /\ cs[d].pc \in {"encrypt", "send"} => cs[d].st.chain >= 1
    BY <2>2, <2>3, <2>4 DEF ChainsOK
  <2>11. ChainsOK(p, pg, keys, cs, messages')
    BY <2>6, <2>7, <2>8, <2>9, <2>10 DEF ChainsOK
  <2>12. OnlyAdds(p)
    BY <2>1, OthersMessages
  <2> QED BY <1>0, <2>1, <2>11, <2>12
<1>5. CASE UNCHANGED vars
  BY <1>5 DEF ChainsInv, ChainsOK, vars
<1> QED BY <1>1, <1>2, <1>3, <1>4, <1>5 DEF GroupNext

-----------------------------------------------------------------------------
\* The states that a page's messages and its calls on the way to the server have used are
\* behind `st`.
Ahead(p, cs, msgs, st) ==
    /\ \A i \in DOMAIN msgs : msgs[i].sender = p /\ msgs[i].st.chain = st.chain
                              => msgs[i].st.counter < st.counter
    /\ \A d \in Calls : cs[d].pc = "send" /\ cs[d].st.chain = st.chain
                        => cs[d].st.counter < st.counter

InHand(cs, c) == cs[c].pc \in {"read", "create", "encrypt"}

\* Of the calls of a page only one has a state in hand; what was used is used once.
UsedOnce(p, cs, msgs) ==
    /\ \A c, d \in Calls : InHand(cs, c) /\ InHand(cs, d) => c = d
    /\ \A i, j \in DOMAIN msgs :
          msgs[i].sender = p /\ msgs[j].sender = p /\ msgs[i].st = msgs[j].st => i = j
    /\ \A c, d \in Calls :
          cs[c].pc = "send" /\ cs[d].pc = "send" /\ cs[c].st = cs[d].st => c = d
    /\ \A c \in Calls, i \in DOMAIN msgs :
          cs[c].pc = "send" /\ msgs[i].sender = p => cs[c].st # msgs[i].st

\* A chain is stored for one epoch, and what is stored or in hand is ahead of what was used.
StoredAhead(p, keys, cs, msgs) ==
    /\ \A e \in Epochs : keys[e] # NoState => Ahead(p, cs, msgs, keys[e])
    /\ \A e, f \in Epochs : keys[e] # NoState /\ keys[f] # NoState /\ keys[e].chain = keys[f].chain
                            => e = f
    /\ \A c \in Calls : cs[c].pc = "encrypt" =>
          /\ Ahead(p, cs, msgs, cs[c].st)
          /\ \A e \in Epochs : keys[e].chain = cs[c].st.chain => e = cs[c].epoch

NoReuse(p, pg, keys, cs, msgs) ==
    ~ pg.crossed => UsedOnce(p, cs, msgs) /\ StoredAhead(p, keys, cs, msgs)

OnceInv == \A p \in Pages : NoReuse(p, page[p], store[p], calls[p], messages)

LEMMA OnceInit == GroupInit => OnceInv
<1> SUFFICES ASSUME GroupInit, NEW p \in Pages
             PROVE  NoReuse(p, page[p], store[p], calls[p], messages)
  BY DEF OnceInv
<1>1. /\ \A e \in Epochs : store[p][e] = NoState
      /\ \A c \in Calls : calls[p][c].pc = "none"
      /\ DOMAIN messages = {}
  BY DEF GroupInit, NoCall
<1> QED BY <1>1 DEF NoReuse, UsedOnce, StoredAhead, InHand

\* A step that erases states or ends calls uses nothing again.
LEMMA OnceErased ==
    ASSUME NEW p \in Pages, NEW keys, NEW keys2, NEW cs, NEW cs2, NEW msgs,
           UsedOnce(p, cs, msgs), StoredAhead(p, keys, cs, msgs),
           keys2 = keys \/ (\A e \in Epochs : keys2[e] = NoState),
           \A c \in Calls : cs2[c] = cs[c] \/ cs2[c].pc \in {"none", "done"},
           \A c \in Calls, e \in Epochs : keys2[e] = NoState /\ cs[c].pc = "encrypt"
                                          => keys2[e].chain # cs[c].st.chain
    PROVE  UsedOnce(p, cs2, msgs) /\ StoredAhead(p, keys2, cs2, msgs)
<1>1. UsedOnce(p, cs2, msgs)
  BY DEF UsedOnce, InHand
<1>2. ASSUME NEW st, Ahead(p, cs, msgs, st)
      PROVE  Ahead(p, cs2, msgs, st)
  BY <1>2 DEF Ahead
<1>3. \A e \in Epochs : keys2[e] # NoState => keys2 = keys /\ Ahead(p, cs2, msgs, keys2[e])
  BY <1>2 DEF StoredAhead
<1>4. \A e, f \in Epochs :
         keys2[e] # NoState /\ keys2[f] # NoState /\ keys2[e].chain = keys2[f].chain => e = f
  BY DEF StoredAhead
<1>5. ASSUME NEW c \in Calls, cs2[c].pc = "encrypt"
      PROVE  /\ Ahead(p, cs2, msgs, cs2[c].st)
             /\ \A e \in Epochs : keys2[e].chain = cs2[c].st.chain => e = cs2[c].epoch
  <2>1. cs2[c] = cs[c]
    BY <1>5
  <2>2. Ahead(p, cs2, msgs, cs2[c].st)
    BY <1>2, <1>5, <2>1 DEF StoredAhead
  <2> QED BY <1>5, <2>1, <2>2 DEF StoredAhead
<1> QED BY <1>1, <1>3, <1>4, <1>5 DEF StoredAhead

-----------------------------------------------------------------------------
(* The steps of a call, as long as the page's calls do not overlap. *)

LEMMA OnceStart ==
    ASSUME TypeInv, ChainsInv, NEW p \in Pages, NEW c \in Calls,
           NEW pg \in PageStates, NEW cs \in [Calls -> CallStates],
           StartEffect(p, c, pg, cs), \A d \in Calls \ {c} : cs[d] = calls[p][d],
           NoReuse(p, page[p], store[p], calls[p], messages)
    PROVE  NoReuse(p, pg, store[p], cs, messages)
<1> SUFFICES ASSUME ~ pg.crossed
             PROVE  UsedOnce(p, cs, messages) /\ StoredAhead(p, store[p], cs, messages)
  BY DEF NoReuse
<1>1. ~ page[p].crossed /\ \A d \in Calls : ~ InFlight(p, d)
  BY DEF StartEffect
<1>2. UsedOnce(p, calls[p], messages) /\ StoredAhead(p, store[p], calls[p], messages)
  BY <1>1 DEF NoReuse
<1>3. \A d \in Calls : ~ InHand(calls[p], d)
  BY <1>1 DEF InFlight, InHand
<1>4. \A d \in Calls : cs[d].pc \in {"send", "encrypt"} => cs[d] = calls[p][d]
  BY DEF StartEffect
<1>5. UsedOnce(p, cs, messages)
  <2>1. \A d \in Calls : InHand(cs, d) => d = c
    BY <1>3 DEF InHand
  <2> QED BY <1>2, <1>4, <2>1 DEF UsedOnce
<1>6. ASSUME NEW st, Ahead(p, calls[p], messages, st)
      PROVE  Ahead(p, cs, messages, st)
  BY <1>4, <1>6 DEF Ahead
<1>7. StoredAhead(p, store[p], cs, messages)
  BY <1>2, <1>4, <1>6 DEF StoredAhead
<1> QED BY <1>5, <1>7

LEMMA OnceRead ==
    ASSUME TypeInv, ChainsInv, NEW p \in Pages, NEW c \in Calls,
           NEW pg \in PageStates, NEW cs \in [Calls -> CallStates],
           ReadEffect(p, c, pg, cs), \A d \in Calls \ {c} : cs[d] = calls[p][d],
           NoReuse(p, page[p], store[p], calls[p], messages)
    PROVE  NoReuse(p, pg, store[p], cs, messages)
<1> SUFFICES ASSUME ~ pg.crossed
             PROVE  UsedOnce(p, cs, messages) /\ StoredAhead(p, store[p], cs, messages)
  BY DEF NoReuse
<1>1. UsedOnce(p, calls[p], messages) /\ StoredAhead(p, store[p], calls[p], messages)
  BY DEF NoReuse, ReadEffect
<1>2. /\ calls[p][c].pc = "read" /\ cs[c].pc \in {"create", "encrypt"}
      /\ cs[c].pc = "encrypt" => cs[c].st # NoState
      /\ cs[c].st = store[p][cs[c].epoch] /\ cs[c].epoch = calls[p][c].epoch
  BY DEF ReadEffect
<1>3. cs[c].epoch \in Epochs
  <2>1. calls[p] \in [Calls -> CallStates] /\ PageOK(page[p], store[p], calls[p])
    BY PageFacts
  <2> QED BY <1>2, <2>1 DEF PageOK, CallStates, Epochs
<1>4. \A d \in Calls : cs[d].pc = "send" => cs[d] = calls[p][d]
  BY <1>2
<1>5. UsedOnce(p, cs, messages)
  <2>1. \A d \in Calls : InHand(cs, d) => InHand(calls[p], d)
    BY <1>2 DEF InHand
  <2> QED BY <1>1, <1>4, <2>1 DEF UsedOnce
<1>6. ASSUME NEW st, Ahead(p, calls[p], messages, st)
      PROVE  Ahead(p, cs, messages, st)
  BY <1>4, <1>6 DEF Ahead
<1>7. ASSUME NEW d \in Calls, cs[d].pc = "encrypt"
      PROVE  /\ Ahead(p, cs, messages, cs[d].st)
             /\ \A e \in Epochs : store[p][e].chain = cs[d].st.chain => e = cs[d].epoch
  <2>1. CASE d = c
    <3>1. Ahead(p, cs, messages, cs[d].st)
      BY <1>1, <1>2, <1>3, <1>6, <1>7, <2>1 DEF StoredAhead
    <3>2. cs[c].st.chain >= 1
      BY <1>2, <1>3, <1>7, <2>1 DEF ChainsInv, ChainsOK
    <3>3. \A e \in Epochs : store[p][e].chain >= 1 => store[p][e] # NoState
      BY DEF NoState
    <3> QED BY <1>1, <1>2, <1>3, <1>7, <2>1, <3>1, <3>2, <3>3 DEF StoredAhead
  <2>2. CASE d # c
    BY <1>1, <1>6, <1>7, <2>2 DEF StoredAhead
  <2> QED BY <2>1, <2>2
<1>8. StoredAhead(p, store[p], cs, messages)
  BY <1>1, <1>6, <1>7 DEF StoredAhead
<1> QED BY <1>5, <1>8

-----------------------------------------------------------------------------
LEMMA OnceCreate ==
    ASSUME TypeInv, ChainsInv, NEW p \in Pages, NEW c \in Calls,
           NEW pg \in PageStates, NEW keys \in [Epochs -> SenderStates],
           NEW cs \in [Calls -> CallStates],
           CreateEffect(p, c, pg, cs), \A d \in Calls \ {c} : cs[d] = calls[p][d],
           keys = [store[p] EXCEPT ![calls[p][c].epoch] = cs[c].st],
           NoReuse(p, page[p], store[p], calls[p], messages)
    PROVE  NoReuse(p, pg, keys, cs, messages)
<1> SUFFICES ASSUME ~ pg.crossed
             PROVE  UsedOnce(p, cs, messages) /\ StoredAhead(p, keys, cs, messages)
  BY DEF NoReuse
<1>1. UsedOnce(p, calls[p], messages) /\ StoredAhead(p, store[p], calls[p], messages)
  BY DEF NoReuse, CreateEffect
<1>2. /\ calls[p][c].pc = "create" /\ cs[c].pc = "encrypt"
      /\ cs[c].epoch = calls[p][c].epoch
      /\ cs[c].st.chain = page[p].chains + 1
  BY DEF CreateEffect
<1>3. /\ store[p] \in [Epochs -> SenderStates] /\ calls[p] \in [Calls -> CallStates]
      /\ PageOK(page[p], store[p], calls[p]) /\ page[p].chains \in Nat
  BY PageFacts DEF PageStates
<1>4. cs[c].epoch \in Epochs
  BY <1>2, <1>3 DEF PageOK, CallStates, Epochs
\* The chain is new.
<1>5. \A i \in DOMAIN messages : messages[i].sender = p => messages[i].st.chain # cs[c].st.chain
  BY <1>2, <1>3 DEF ChainsInv, ChainsOK
<1>6. \A d \in Calls : cs[d].pc = "send" => cs[d] = calls[p][d]
                                             /\ cs[d].st.chain # cs[c].st.chain
  BY <1>2, <1>3 DEF PageOK, StateOK, CallStates, SenderStates
<1>7. \A e \in Epochs : store[p][e].chain # cs[c].st.chain
  BY <1>2, <1>3 DEF PageOK, StateOK, SenderStates
<1>8. UsedOnce(p, cs, messages)
  <2>1. \A d \in Calls : InHand(cs, d) => InHand(calls[p], d)
    BY <1>2 DEF InHand
  <2> QED BY <1>1, <1>6, <2>1 DEF UsedOnce
<1>9. ASSUME NEW st, Ahead(p, calls[p], messages, st)
      PROVE  Ahead(p, cs, messages, st)
  BY <1>6, <1>9 DEF Ahead
<1>10. Ahead(p, cs, messages, cs[c].st)
  BY <1>5, <1>6 DEF Ahead
<1>11. /\ \A e \in Epochs : e # cs[c].epoch => keys[e] = store[p][e]
       /\ keys[cs[c].epoch] = cs[c].st
  BY <1>2, <1>3, <1>4
<1>12. \A e \in Epochs : keys[e] # NoState => Ahead(p, cs, messages, keys[e])
  BY <1>1, <1>9, <1>10, <1>11 DEF StoredAhead
<1>13. \A e, f \in Epochs :
          keys[e] # NoState /\ keys[f] # NoState /\ keys[e].chain = keys[f].chain => e = f
  BY <1>1, <1>7, <1>11 DEF StoredAhead
<1>14. ASSUME NEW d \in Calls, cs[d].pc = "encrypt"
       PROVE  /\ Ahead(p, cs, messages, cs[d].st)
              /\ \A e \in Epochs : keys[e].chain = cs[d].st.chain => e = cs[d].epoch
  <2>1. d = c
    BY <1>1, <1>2, <1>14 DEF UsedOnce, InHand
  <2> QED BY <1>7, <1>10, <1>11, <2>1
<1> QED BY <1>8, <1>12, <1>13, <1>14 DEF StoredAhead

LEMMA OnceSave ==
    ASSUME TypeInv, ChainsInv, NEW p \in Pages, NEW c \in Calls,
           NEW pg \in PageStates, NEW keys \in [Epochs -> SenderStates],
           NEW cs \in [Calls -> CallStates],
           SaveEffect(p, c, pg, cs), \A d \in Calls \ {c} : cs[d] = calls[p][d],
           keys = [store[p] EXCEPT ![calls[p][c].epoch] =
                      [chain |-> calls[p][c].st.chain, counter |-> calls[p][c].st.counter + 1]],
           NoReuse(p, page[p], store[p], calls[p], messages)
    PROVE  NoReuse(p, pg, keys, cs, messages)
<1> SUFFICES ASSUME ~ pg.crossed
             PROVE  UsedOnce(p, cs, messages) /\ StoredAhead(p, keys, cs, messages)
  BY DEF NoReuse
<1>1. UsedOnce(p, calls[p], messages) /\ StoredAhead(p, store[p], calls[p], messages)
  BY DEF NoReuse, SaveEffect
<1> DEFINE st == calls[p][c].st
           next == [chain |-> calls[p][c].st.chain, counter |-> calls[p][c].st.counter + 1]
           at == calls[p][c].epoch
<1>2. /\ calls[p][c].pc = "encrypt" /\ cs[c].pc = "send" /\ cs[c].st = st
  BY DEF SaveEffect
<1>3. /\ store[p] \in [Epochs -> SenderStates] /\ calls[p] \in [Calls -> CallStates]
      /\ PageOK(page[p], store[p], calls[p])
  BY PageFacts
<1>4. at \in Epochs
  BY <1>2, <1>3 DEF PageOK, CallStates, Epochs
<1>5. st.counter \in Nat /\ next.chain = st.chain /\ next.counter = st.counter + 1
  BY <1>3 DEF CallStates, SenderStates
<1>6. /\ Ahead(p, calls[p], messages, st)
      /\ \A e \in Epochs : store[p][e].chain = st.chain => e = at
  BY <1>1, <1>2 DEF StoredAhead
<1>7. \A d \in Calls : d # c => /\ cs[d] = calls[p][d]
                                /\ cs[d].pc \in {"send", "none", "done"}
                                /\ cs[d].st.counter \in Nat
  BY <1>1, <1>2, <1>3 DEF UsedOnce, InHand, CallStates, SenderStates
<1>8. UsedOnce(p, cs, messages)
  <2>1. \A d \in Calls : ~ InHand(cs, d)
    BY <1>2, <1>7 DEF InHand
  <2>2. \A d \in Calls : d # c /\ cs[d].pc = "send" => cs[d].st # st
    BY <1>5, <1>6, <1>7 DEF Ahead
  <2>3. \A i \in DOMAIN messages : messages[i].sender = p => st # messages[i].st
    BY <1>5, <1>6 DEF Ahead
  <2>4. \A d, f \in Calls :
           cs[d].pc = "send" /\ cs[f].pc = "send" /\ cs[d].st = cs[f].st => d = f
    BY <1>1, <1>2, <1>7, <2>2 DEF UsedOnce
  <2>5. \A d \in Calls, i \in DOMAIN messages :
           cs[d].pc = "send" /\ messages[i].sender = p => cs[d].st # messages[i].st
    BY <1>1, <1>2, <1>7, <2>3 DEF UsedOnce
  <2> QED BY <1>1, <2>1, <2>4, <2>5 DEF UsedOnce
<1>9. Ahead(p, cs, messages, next)
  <2>1. \A i \in DOMAIN messages : messages[i].st.counter \in Nat
    BY MessageFacts
  <2>2. \A i \in DOMAIN messages :
           messages[i].sender = p /\ messages[i].st.chain = next.chain
           => messages[i].st.counter < next.counter
    BY <1>5, <1>6, <2>1 DEF Ahead
  <2>3. \A d \in Calls : cs[d].pc = "send" /\ cs[d].st.chain = next.chain
                         => cs[d].st.counter < next.counter
    <3>1. ASSUME NEW d \in Calls, d # c, cs[d].pc = "send", cs[d].st.chain = next.chain
          PROVE  cs[d].st.counter < next.counter
      BY <1>5, <1>6, <1>7, <3>1 DEF Ahead
    <3>2. cs[c].st.counter < next.counter
      BY <1>2, <1>5
    <3> QED BY <3>1, <3>2
  <2> QED BY <2>2, <2>3 DEF Ahead
<1>10. /\ \A e \in Epochs : e # at => keys[e] = store[p][e]
       /\ keys[at] = next
  BY <1>3, <1>4
<1>11. ASSUME NEW e \in Epochs, e # at, keys[e] # NoState
       PROVE  Ahead(p, cs, messages, keys[e])
  <2>1. keys[e].chain # st.chain /\ Ahead(p, calls[p], messages, keys[e])
    BY <1>1, <1>6, <1>10, <1>11 DEF StoredAhead
  <2> QED BY <1>2, <1>7, <2>1 DEF Ahead
<1>12. \A e \in Epochs : keys[e] # NoState => Ahead(p, cs, messages, keys[e])
  BY <1>9, <1>10, <1>11
<1>13. \A e, f \in Epochs :
          keys[e] # NoState /\ keys[f] # NoState /\ keys[e].chain = keys[f].chain => e = f
  BY <1>1, <1>5, <1>6, <1>10 DEF StoredAhead
<1>14. \A d \in Calls : cs[d].pc # "encrypt"
  BY <1>2, <1>7
<1> QED BY <1>8, <1>12, <1>13, <1>14 DEF StoredAhead

LEMMA OnceArrive ==
    ASSUME TypeInv, ChainsInv, NEW p \in Pages, NEW c \in Calls,
           NEW pg \in PageStates, NEW cs \in [Calls -> CallStates],
           ArriveEffect(p, c, pg, cs), \A d \in Calls \ {c} : cs[d] = calls[p][d],
           NoReuse(p, page[p], store[p], calls[p], messages)
    PROVE  NoReuse(p, pg, store[p], cs, messages')
<1> SUFFICES ASSUME ~ pg.crossed
             PROVE  UsedOnce(p, cs, messages') /\ StoredAhead(p, store[p], cs, messages')
  BY DEF NoReuse
<1>1. UsedOnce(p, calls[p], messages) /\ StoredAhead(p, store[p], calls[p], messages)
  BY DEF NoReuse, ArriveEffect
<1>2. calls[p][c].pc = "send" /\ cs[c].pc = "done"
  BY DEF ArriveEffect, NoCall
<1>3. \A d \in Calls : cs[d].pc \in {"read", "create", "encrypt", "send"}
                       => d # c /\ cs[d] = calls[p][d]
  BY <1>2
\* A new message carries the state of the call.
<1>4. \A i \in DOMAIN messages' : messages'[i].sender = p =>
         \/ i \in DOMAIN messages /\ messages'[i] = messages[i]
         \/ i \notin DOMAIN messages /\ messages'[i].st = calls[p][c].st
  <2>1. CASE messages' = messages
    BY <2>1
  <2>2. CASE \E m \in Messages : messages' = Append(messages, m) /\ m.st = calls[p][c].st
    BY <2>2, Accepted
  <2> QED BY <2>1, <2>2 DEF ArriveEffect
<1>5. \A i, j \in DOMAIN messages' : i \notin DOMAIN messages /\ j \notin DOMAIN messages
                                     => i = j
  <2>1. CASE messages' = messages
    BY <2>1
  <2>2. CASE \E m \in Messages : messages' = Append(messages, m)
    BY <2>2, Accepted
  <2> QED BY <2>1, <2>2 DEF ArriveEffect
<1>6. UsedOnce(p, cs, messages')
  <2>1. \A d, f \in Calls : InHand(cs, d) /\ InHand(cs, f) => d = f
    BY <1>1, <1>3 DEF UsedOnce, InHand
  <2>2. \A i, j \in DOMAIN messages' :
          messages'[i].sender = p /\ messages'[j].sender = p /\ messages'[i].st = messages'[j].st
          => i = j
    BY <1>1, <1>2, <1>4, <1>5 DEF UsedOnce
  <2>3. \A d, f \in Calls :
           cs[d].pc = "send" /\ cs[f].pc = "send" /\ cs[d].st = cs[f].st => d = f
    BY <1>1, <1>3 DEF UsedOnce
  <2>4. \A d \in Calls, i \in DOMAIN messages' :
           cs[d].pc = "send" /\ messages'[i].sender = p => cs[d].st # messages'[i].st
    BY <1>1, <1>2, <1>3, <1>4 DEF UsedOnce
  <2> QED BY <2>1, <2>2, <2>3, <2>4 DEF UsedOnce
<1>7. ASSUME NEW st, Ahead(p, calls[p], messages, st)
      PROVE  Ahead(p, cs, messages', st)
  BY <1>2, <1>3, <1>4, <1>7 DEF Ahead
<1>8. StoredAhead(p, store[p], cs, messages')
  BY <1>1, <1>3, <1>7 DEF StoredAhead
<1> QED BY <1>6, <1>8

-----------------------------------------------------------------------------
\* A page writes its own states: what the other pages used is as it was.
LEMMA OnceOnePage ==
    ASSUME TypeInv, OnceInv, NEW p \in Pages, NEW pg, NEW keys, NEW cs,
           WrittenBy(p, pg, keys, cs), NoReuse(p, pg, keys, cs, messages'), OnlyAdds(p),
           DOMAIN messages \subseteq DOMAIN messages'
    PROVE  OnceInv'
<1>1. /\ page \in [Pages -> PageStates] /\ store \in [Pages -> [Epochs -> SenderStates]]
      /\ calls \in [Pages -> [Calls -> CallStates]]
  BY DEF TypeInv, PageTypes
<1>2. page'[p] = pg /\ store'[p] = keys /\ calls'[p] = cs
  BY <1>1 DEF WrittenBy
<1>3. ASSUME NEW q \in Pages, q # p
      PROVE  NoReuse(q, page'[q], store'[q], calls'[q], messages')
  <2>1. page'[q] = page[q] /\ store'[q] = store[q] /\ calls'[q] = calls[q]
    BY <1>1, <1>3 DEF WrittenBy
  <2>2. \A i \in DOMAIN messages' :
          messages'[i].sender = q => i \in DOMAIN messages /\ messages'[i] = messages[i]
    BY <1>3 DEF OnlyAdds
  <2>3. NoReuse(q, page[q], store[q], calls[q], messages)
    BY DEF OnceInv
  <2>4. ASSUME UsedOnce(q, calls[q], messages)
        PROVE  UsedOnce(q, calls[q], messages')
    BY <2>2, <2>4 DEF UsedOnce
  <2>5. ASSUME NEW st, Ahead(q, calls[q], messages, st)
        PROVE  Ahead(q, calls[q], messages', st)
    BY <2>2, <2>5 DEF Ahead
  <2>6. ASSUME StoredAhead(q, store[q], calls[q], messages)
        PROVE  StoredAhead(q, store[q], calls[q], messages')
    BY <2>5, <2>6 DEF StoredAhead
  <2> QED BY <2>1, <2>3, <2>4, <2>6 DEF NoReuse
<1>4. \A q \in Pages : NoReuse(q, page'[q], store'[q], calls'[q], messages')
  BY <1>2, <1>3
<1> QED BY <1>4 DEF OnceInv

LEMMA OnceStep == TypeInv /\ ChainsInv /\ OnceInv /\ [GroupNext]_vars => OnceInv'
<1> SUFFICES ASSUME TypeInv, ChainsInv, OnceInv, [GroupNext]_vars
             PROVE  OnceInv'
  OBVIOUS
<1>1. ASSUME NEW c \in Changes, ChangeStep(c)
      PROVE  OnceInv'
  <2>1. \A p \in Pages : page'[p].crossed = page[p].crossed
    <3>1. CASE ChangeAnnounces(c)
      BY <3>1, AnnouncePages DEF AnnounceEffect
    <3>2. CASE page' = page
      BY <3>2
    <3> QED BY <1>1, <3>1, <3>2 DEF ChangeStep, ChangeStarts, ChangeChecks, ChangeCommits,
               ChangeHandsOver, ChangeAppoints
  <2>2. UNCHANGED <<store, calls, messages>>
    BY <1>1 DEF ChangeStep, ChangeStarts, ChangeChecks, ChangeCommits, ChangeHandsOver,
       ChangeAppoints, ChangeAnnounces
  <2>3. ASSUME NEW p \in Pages
        PROVE  NoReuse(p, page'[p], store'[p], calls'[p], messages')
    BY <2>1, <2>2 DEF OnceInv, NoReuse
  <2> QED BY <2>3 DEF OnceInv
\* Erasing all states and ending all calls.
<1>2. ASSUME NEW p \in Pages, NEW pg, pg.crossed = page[p].crossed, NEW keys, NEW cs,
             keys = store[p] \/ (\A e \in Epochs : keys[e] = NoState),
             \A c \in Calls : cs[c] = calls[p][c] \/ cs[c].pc \in {"none", "done"}
      PROVE  NoReuse(p, pg, keys, cs, messages)
  <2>1. NoReuse(p, page[p], store[p], calls[p], messages)
    BY DEF OnceInv
  <2>2. \A c \in Calls, e \in Epochs :
           keys[e] = NoState /\ calls[p][c].pc = "encrypt" => keys[e].chain # calls[p][c].st.chain
    BY DEF ChainsInv, ChainsOK, NoState
  <2> QED BY <1>2, <2>1, <2>2, OnceErased DEF NoReuse
<1>3. ASSUME NEW p \in Pages, messages' = messages
      PROVE  OnlyAdds(p) /\ DOMAIN messages \subseteq DOMAIN messages'
  BY <1>3 DEF OnlyAdds
<1>4. ASSUME NEW p \in Pages, LoadPage(p)
      PROVE  OnceInv'
  <2>1. PICK pg \in PageStates :
              /\ WrittenBy(p, pg, store[p], Ended(calls[p])) /\ messages' = messages
              /\ pg.crossed = page[p].crossed
    BY <1>4, LoadPageEffect DEF LoadEffect
  <2>2. \A c \in Calls : Ended(calls[p])[c].pc \in {"none", "done"}
    BY PageFacts, EndedCalls
  <2>3. NoReuse(p, pg, store[p], Ended(calls[p]), messages')
    BY <1>2, <2>1, <2>2
  <2> QED BY <1>3, <2>1, <2>3, OnceOnePage
<1>5. ASSUME NEW p \in Pages, NEW t \in page[p].tasks, TaskStep(p, t)
      PROVE  OnceInv'
  <2>1. PICK pg \in PageStates, keys \in [Epochs -> SenderStates], cs \in [Calls -> CallStates] :
              /\ WrittenBy(p, pg, keys, cs) /\ messages' = messages
              /\ TaskEffect(p, t, pg, keys, cs)
    BY <1>5, TaskStepEffect
  <2>2. \A c \in Calls : Ended(calls[p])[c].pc \in {"none", "done"}
    BY PageFacts, EndedCalls
  <2>3. /\ pg.crossed = page[p].crossed
        /\ keys = store[p] \/ keys = [e \in Epochs |-> NoState]
        /\ cs = calls[p] \/ cs = Ended(calls[p])
    BY <2>1 DEF TaskEffect
  <2>4. NoReuse(p, pg, keys, cs, messages')
    BY <1>2, <2>1, <2>2, <2>3
  <2> QED BY <1>3, <2>1, <2>4, OnceOnePage
<1>6. ASSUME NEW p \in Pages, NEW c \in Calls, CallStep(p, c)
      PROVE  OnceInv'
  <2>1. PICK pg \in PageStates, keys \in [Epochs -> SenderStates], cs \in [Calls -> CallStates] :
              /\ WrittenBy(p, pg, keys, cs) /\ CallEffect(p, c, pg, keys, cs)
    BY <1>6, CallStepEffect
  <2>2. OnlyAdds(p)
    BY <2>1, OthersMessages
  <2>3. DOMAIN messages \subseteq DOMAIN messages'
    <3>1. CASE messages' = messages
      BY <3>1
    <3>2. CASE \E m \in Messages : messages' = Append(messages, m)
      BY <3>2, Accepted
    <3> QED BY <2>1, <3>1, <3>2 DEF CallEffect, StartEffect, ReadEffect, CreateEffect,
               SaveEffect, ArriveEffect
  <2>4. NoReuse(p, page[p], store[p], calls[p], messages)
    BY DEF OnceInv
  <2>5. \A d \in Calls \ {c} : cs[d] = calls[p][d]
    BY <2>1 DEF CallEffect
  <2>6. NoReuse(p, pg, keys, cs, messages')
    <3>1. CASE StartEffect(p, c, pg, cs) /\ keys = store[p]
      BY <2>4, <2>5, <3>1, OnceStart DEF StartEffect
    <3>2. CASE ReadEffect(p, c, pg, cs) /\ keys = store[p]
      BY <2>4, <2>5, <3>2, OnceRead DEF ReadEffect
    <3>3. CASE /\ CreateEffect(p, c, pg, cs)
               /\ keys = [store[p] EXCEPT ![calls[p][c].epoch] = cs[c].st]
      BY <2>4, <2>5, <3>3, OnceCreate DEF CreateEffect
    <3>4. CASE /\ SaveEffect(p, c, pg, cs)
               /\ keys = [store[p] EXCEPT ![calls[p][c].epoch] =
                    [chain |-> calls[p][c].st.chain, counter |-> calls[p][c].st.counter + 1]]
      BY <2>4, <2>5, <3>4, OnceSave DEF SaveEffect
    <3>5. CASE ArriveEffect(p, c, pg, cs) /\ keys = store[p]
      BY <2>4, <2>5, <3>5, OnceArrive
    <3> QED BY <2>1, <3>1, <3>2, <3>3, <3>4, <3>5 DEF CallEffect
  <2> QED BY <2>1, <2>2, <2>3, <2>6, OnceOnePage
<1>7. CASE UNCHANGED vars
  BY <1>7 DEF OnceInv, vars
<1> QED BY <1>1, <1>4, <1>5, <1>6, <1>7 DEF GroupNext

\* As long as a page's calls do not overlap, no two of its messages carry the same chain
\* and counter: the state that is stored and the one in hand are ahead of all that were
\* used, and a chain is stored under one epoch only.
THEOREM SenderKeysUsedOnceAlways == GroupSpec => []SenderKeyUsedOnce
<1>1. GroupInit => TypeInv /\ ChainsInv /\ OnceInv
  BY TypeInvInit, ChainsInit, OnceInit
<1>2. TypeInv /\ ChainsInv /\ OnceInv /\ [GroupNext]_vars => (TypeInv /\ ChainsInv /\ OnceInv)'
  BY TypeInvStep, ChainsStep, OnceStep
<1>3. TypeInv /\ OnceInv => SenderKeyUsedOnce
  <2> SUFFICES ASSUME TypeInv, OnceInv, NEW i \in DOMAIN messages, NEW j \in DOMAIN messages,
                      messages[i].sender = messages[j].sender, messages[i].st = messages[j].st,
                      ~ page[messages[i].sender].crossed
               PROVE  i = j
    BY DEF SenderKeyUsedOnce
  <2>1. messages[i].sender \in Pages
    BY MessageFacts
  <2>2. UsedOnce(messages[i].sender, calls[messages[i].sender], messages)
    BY <2>1 DEF OnceInv, NoReuse
  <2> QED BY <2>2 DEF UsedOnce
<1> QED BY <1>1, <1>2, <1>3, PTL DEF GroupSpec

-----------------------------------------------------------------------------
\* What a change that keeps the members may make of the rows, and one that adds or removes.
KeepEffect(c) ==
    /\ group'.members = group.members /\ group'.leftBy = group.leftBy
    /\ group'.epoch = group.epoch
    /\ changes[c].pc # "announce"
    /\ changes'[c].epoch \in {changes[c].epoch, group.epoch, 0}
    /\ changes[c].pc \in {"handover", "appoint"} =>
          /\ changes'[c].pc \in {"appoint", "announce"} /\ changes'[c].kind = changes[c].kind
          /\ changes'[c].user = changes[c].user /\ changes'[c].epoch = changes[c].epoch

AddEffect(c) ==
    /\ changes[c].pc = "commit" /\ changes'[c].pc = "announce"
    /\ group.members \subseteq group'.members /\ group'.leftBy = group.leftBy
    /\ changes'[c].epoch = changes[c].epoch + 1 /\ group'.epoch = changes[c].epoch + 1
    /\ ~ onStaleRow' => changes[c].epoch = group.epoch

RemoveEffect(c) ==
    /\ changes[c].pc = "commit" /\ changes'[c].pc \in {"handover", "announce"}
    /\ changes'[c].kind = "remove" /\ changes'[c].user = changes[c].user
    /\ group'.members = group.members \ {changes[c].user}
    /\ group'.leftBy[changes[c].user] = c
    /\ \A u \in Users \ {changes[c].user} : group'.leftBy[u] = group.leftBy[u]
    /\ changes'[c].epoch = changes[c].epoch + 1 /\ group'.epoch = changes[c].epoch + 1
    /\ ~ onStaleRow' => changes[c].epoch = group.epoch

AnnouncedEffect(c) ==
    /\ changes[c].pc = "announce" /\ changes'[c].pc = "done" /\ changes'[c].epoch = 0
    /\ group' = group
    /\ \A p \in Pages : AnnounceEffect(c, p, page'[p])

LEMMA ChangeEffect ==
    ASSUME TypeInv, NEW c \in Changes, ChangeStep(c)
    PROVE  /\ \A d \in Changes \ {c} : changes'[d] = changes[d]
           /\ UNCHANGED <<store, calls, messages>>
           /\ onStaleRow => onStaleRow'
           /\ changes[c].pc # "done"
           /\ \/ AnnouncedEffect(c)
              \/ page' = page /\ (KeepEffect(c) \/ AddEffect(c) \/ RemoveEffect(c))
<1>1. group \in GroupRows /\ changes \in [Changes -> Requests]
  BY DEF TypeInv, CreatorInv, RowsShape
<1> DEFINE ch == changes[c]
<1>2. /\ \A d \in Changes \ {c} : changes'[d] = changes[d]
      /\ UNCHANGED <<store, calls, messages>> /\ ch.pc # "done"
  BY <1>1 DEF ChangeStep, ChangeStarts, ChangeChecks, ChangeCommits, ChangeHandsOver,
     ChangeAppoints, ChangeAnnounces
<1>3. onStaleRow => onStaleRow'
  BY DEF ChangeStep, ChangeStarts, ChangeChecks, ChangeCommits, ChangeHandsOver,
     ChangeAppoints, ChangeAnnounces
<1>4. CASE ChangeStarts(c)
  BY <1>1, <1>2, <1>3, <1>4 DEF ChangeStarts, KeepEffect, Requests
<1>5. ASSUME NEW by \in Users, NEW user \in Users, NEW kind \in ChangeKinds,
             ChangeChecks(c, by, kind, user)
      PROVE  page' = page /\ KeepEffect(c)
  BY <1>1, <1>5 DEF ChangeChecks, KeepEffect, Requests
<1>6. CASE ChangeHandsOver(c)
  <2>1. group' = group /\ page' = page
    BY <1>6 DEF ChangeHandsOver
  <2> QED BY <1>1, <1>2, <1>3, <1>6, <2>1, HandsOverFields DEF KeepEffect
<1>7. CASE ChangeAppoints(c)
  <2>1. page' = page
    BY <1>7 DEF ChangeAppoints
  <2> QED BY <1>1, <1>2, <1>3, <1>7, <2>1, AppointsFields DEF KeepEffect
<1>8. CASE ChangeAnnounces(c)
  <2>1. changes'[c].pc = "done" /\ changes'[c].epoch = 0
    BY <1>1, <1>8 DEF ChangeAnnounces, NoChange
  <2> QED BY <1>2, <1>3, <1>8, <2>1, AnnouncePages DEF AnnouncedEffect
<1>9. CASE ChangeCommits(c)
  <2> DEFINE fails == ch.kind = "add" /\ ch.user \in group.members
  <2>1. ch.pc = "commit" /\ page' = page /\ ch.user \in Users
    BY <1>1, <1>9 DEF ChangeCommits, Requests
  <2>2. CASE fails \/ ch.kind = "meta"
    <3>1. group' = group
      BY <1>9, <2>2 DEF ChangeCommits
    <3>2. changes'[c].epoch \in {ch.epoch, 0}
      BY <1>1, <1>9, <2>2 DEF ChangeCommits, NoChange, Requests
    <3> QED BY <1>2, <1>3, <2>1, <3>1, <3>2 DEF KeepEffect
  <2>3. CASE ~ fails /\ ch.kind = "add"
    <3>1. group' = [group EXCEPT !.members = group.members \cup {ch.user}, !.epoch = ch.epoch + 1]
      BY <1>9, <2>3 DEF ChangeCommits
    <3>2. changes'[c].pc = "announce" /\ changes'[c].epoch = ch.epoch + 1
      BY <1>1, <1>9, <2>3 DEF ChangeCommits, Requests
    <3>3. ~ onStaleRow' => ch.epoch = group.epoch
      BY <1>9, <2>3 DEF ChangeCommits
    <3>4. /\ group'.members = group.members \cup {ch.user} /\ group'.epoch = ch.epoch + 1
          /\ group'.leftBy = group.leftBy
      BY <1>1, <3>1 DEF GroupRows
    <3> QED BY <1>2, <1>3, <2>1, <3>2, <3>3, <3>4 DEF AddEffect
  <2>4. CASE ch.kind = "remove"
    <3>1. group' = [group EXCEPT
                      !.members = group.members \ {ch.user}, !.epoch = ch.epoch + 1,
                      !.leftBy = [group.leftBy EXCEPT ![ch.user] = c],
                      !.emptied = group.emptied \/ group.members \subseteq {ch.user}]
      BY <1>9, <2>4 DEF ChangeCommits
    <3>2. /\ changes'[c].pc \in {"handover", "announce"} /\ changes'[c].epoch = ch.epoch + 1
          /\ changes'[c].kind = "remove" /\ changes'[c].user = ch.user
      BY <1>1, <1>9, <2>4 DEF ChangeCommits, Requests
    <3>3. ~ onStaleRow' => ch.epoch = group.epoch
      BY <1>9, <2>4 DEF ChangeCommits
    <3>4. /\ group'.members = group.members \ {ch.user} /\ group'.epoch = ch.epoch + 1
          /\ group'.leftBy = [group.leftBy EXCEPT ![ch.user] = c]
      BY <1>1, <3>1 DEF GroupRows
    <3>5. /\ group'.leftBy[ch.user] = c
          /\ \A u \in Users \ {ch.user} : group'.leftBy[u] = group.leftBy[u]
      BY <1>1, <2>1, <3>4 DEF GroupRows
    <3> QED BY <1>2, <1>3, <2>1, <3>2, <3>3, <3>4, <3>5 DEF RemoveEffect
  <2>5. ch.kind \in {"add", "remove", "meta"}
    BY <1>1 DEF Requests, AllChangeKinds
  <2> QED BY <2>2, <2>3, <2>4, <2>5
<1> QED BY <1>2, <1>3, <1>4, <1>5, <1>6, <1>7, <1>8, <1>9 DEF ChangeStep

-----------------------------------------------------------------------------
(* Removals: the change that took a user out of the group is over, or still to be          *)
(* announced; the handlers it starts are those of a removal of this user.                  *)

Announcing(chs, c, u) ==
    /\ chs[c].pc \in {"handover", "appoint", "announce"}
    /\ chs[c].kind = "remove" /\ chs[c].user = u

RemovalsOK ==
    \A u \in Users : group.leftBy[u] # 0 =>
        /\ group.leftBy[u] \in Changes
        /\ \/ changes[group.leftBy[u]].pc = "done"
           \/ Announcing(changes, group.leftBy[u], u)

RemovalTask(p, t, u) ==
    /\ t.user = u
    /\ \/ t.kind \in {"chatUpdated", "userUpdated", "memberRemoved"}
       \/ u = p

TasksOK(g, chs, p, pg) ==
    /\ \A c \in pg.handled : c \in Changes /\ chs[c].pc = "done"
    /\ \A t \in pg.tasks : t.change # 0 =>
          /\ t.change \in Changes /\ chs[t.change].pc = "done"
          /\ \A u \in Users : t.change = g.leftBy[u] => RemovalTask(p, t, u)

RemovalsInv == RemovalsOK /\ \A p \in Pages : TasksOK(group, changes, p, page[p])

LEMMA RemovalsInit == GroupInit => RemovalsInv
<1> SUFFICES ASSUME GroupInit PROVE RemovalsInv
  OBVIOUS
<1>1. /\ \A u \in Users : group.leftBy[u] = 0
      /\ \A p \in Pages : page[p].tasks = {} /\ page[p].handled = {}
  BY DEF GroupInit, ClosedPage
<1> QED BY <1>1 DEF RemovalsInv, RemovalsOK, TasksOK

\* The change that took a user out of the group is not one that is still to be committed.
LEMMA RemovedBy ==
    ASSUME RemovalsInv, NEW u \in Users, group.leftBy[u] # 0
    PROVE  /\ group.leftBy[u] \in Changes
           /\ changes[group.leftBy[u]].pc \in {"handover", "appoint", "announce", "done"}
BY DEF RemovalsInv, RemovalsOK, Announcing

LEMMA RemovalsChange ==
    ASSUME TypeInv, RemovalsInv, NEW c \in Changes, ChangeStep(c)
    PROVE  RemovalsInv'
<1>1. /\ \A d \in Changes \ {c} : changes'[d] = changes[d]
      /\ changes[c].pc # "done"
      /\ \/ AnnouncedEffect(c)
         \/ page' = page /\ (KeepEffect(c) \/ AddEffect(c) \/ RemoveEffect(c))
  BY ChangeEffect
<1>2. changes[c].user \in Users /\ 0 \notin Changes /\ c # 0
  BY RowFields DEF Changes
\* Requests that are done stay so.
<1>3. \A d \in Changes : changes[d].pc = "done" => d # c /\ changes'[d].pc = "done"
  BY <1>1
<1>4. RemovalsOK'
  <2>1. ASSUME NEW u \in Users, group'.leftBy[u] # 0
        PROVE  /\ group'.leftBy[u] \in Changes
               /\ \/ changes'[group'.leftBy[u]].pc = "done"
                  \/ Announcing(changes', group'.leftBy[u], u)
    <3>1. CASE AnnouncedEffect(c)
      <4>1. group'.leftBy[u] = group.leftBy[u] /\ changes'[c].pc = "done"
        BY <3>1 DEF AnnouncedEffect
      <4> QED BY <1>1, <2>1, <4>1 DEF RemovalsInv, RemovalsOK, Announcing
    <3>2. CASE KeepEffect(c)
      <4>1. group'.leftBy[u] = group.leftBy[u]
        BY <3>2 DEF KeepEffect
      <4>2. group.leftBy[u] # c \/ changes[c].pc \in {"handover", "appoint"}
        BY <1>1, <2>1, <3>2, <4>1 DEF RemovalsInv, RemovalsOK, Announcing, KeepEffect
      <4> QED BY <1>1, <2>1, <3>2, <4>1, <4>2 DEF RemovalsInv, RemovalsOK, Announcing, KeepEffect
    <3>3. CASE AddEffect(c)
      BY <1>1, <2>1, <3>3, RemovedBy DEF RemovalsInv, RemovalsOK, Announcing, AddEffect
    <3>4. CASE RemoveEffect(c)
      <4>1. CASE u = changes[c].user
        BY <3>4, <4>1 DEF RemoveEffect, Announcing
      <4>2. CASE u # changes[c].user
        <5>1. group'.leftBy[u] = group.leftBy[u] /\ changes[c].pc = "commit"
          BY <3>4, <4>2 DEF RemoveEffect
        <5> QED BY <1>1, <2>1, <5>1, RemovedBy DEF RemovalsInv, RemovalsOK, Announcing
      <4> QED BY <4>1, <4>2
    <3> QED BY <1>1, <3>1, <3>2, <3>3, <3>4
  <2> QED BY <2>1 DEF RemovalsOK
<1>5. ASSUME NEW p \in Pages
      PROVE  TasksOK(group', changes', p, page'[p])
  <2>1. TasksOK(group, changes, p, page[p])
    BY DEF RemovalsInv
  <2>2. CASE AnnouncedEffect(c)
    <3>1. AnnounceEffect(c, p, page'[p]) /\ group' = group /\ changes'[c].pc = "done"
          /\ changes[c].pc = "announce"
      BY <2>2 DEF AnnouncedEffect
    <3>2. page'[p].handled = page[p].handled
      BY <3>1 DEF AnnounceEffect
    <3>3. ASSUME NEW t \in page'[p].tasks, t.change # 0
          PROVE  /\ t.change \in Changes /\ changes'[t.change].pc = "done"
                 /\ \A u \in Users : t.change = group'.leftBy[u] => RemovalTask(p, t, u)
      <4>1. CASE t \in page[p].tasks
        BY <1>3, <2>1, <3>1, <3>3, <4>1 DEF TasksOK
      <4>2. CASE t \notin page[p].tasks
        <5>1. /\ t.change = c /\ t.user = changes[c].user /\ t.kind \notin {"load", "refresh"}
              /\ t.kind \in {"chatDeleted", "userDeleted", "hasLeft"} => p = changes[c].user
              /\ t.kind \in {"chatMeta", "userMeta", "metadataSaved"} => changes[c].kind = "meta"
              /\ t.kind = "userAdded" => changes[c].kind = "add"
          BY <3>1, <4>2 DEF AnnounceEffect
        <5>2. t.kind \in AllTaskKinds
          <6>1. page' \in [Pages -> PageStates]
            BY <2>2, TypeInvStep DEF TypeInv, PageTypes, GroupNext
          <6> QED BY <6>1 DEF PageStates, Tasks
        <5>3. ASSUME NEW u \in Users, c = group.leftBy[u]
              PROVE  changes[c].kind = "remove" /\ changes[c].user = u
          BY <1>2, <3>1, <5>3 DEF RemovalsInv, RemovalsOK, Announcing
        <5>4. ASSUME NEW u \in Users, c = group.leftBy[u]
              PROVE  RemovalTask(p, t, u)
          <6>1. changes[c].kind = "remove" /\ changes[c].user = u
            BY <5>3, <5>4
          <6> QED BY <5>1, <5>2, <6>1 DEF RemovalTask, AllTaskKinds
        <5> QED BY <3>1, <5>1, <5>4
      <4> QED BY <4>1, <4>2
    <3> QED BY <1>3, <2>1, <3>2, <3>3 DEF TasksOK
  <2>3. CASE page' = page /\ (KeepEffect(c) \/ AddEffect(c) \/ RemoveEffect(c))
    <3>1. \A u \in Users : \/ group'.leftBy[u] = group.leftBy[u]
                           \/ group'.leftBy[u] = c
      BY <2>3 DEF KeepEffect, AddEffect, RemoveEffect
    <3> QED BY <1>1, <1>3, <2>1, <2>3, <3>1 DEF TasksOK
  <2> QED BY <1>1, <2>2, <2>3
<1>6. \A p \in Pages : TasksOK(group', changes', p, page'[p])
  BY <1>5
<1> QED BY <1>4, <1>6 DEF RemovalsInv

-----------------------------------------------------------------------------
LEMMA RemovalsOnePage ==
    ASSUME TypeInv, RemovalsInv, NEW p \in Pages, NEW pg, NEW keys, NEW cs,
           WrittenBy(p, pg, keys, cs), TasksOK(group, changes, p, pg)
    PROVE  RemovalsInv'
<1>1. page \in [Pages -> PageStates] /\ page' = [page EXCEPT ![p] = pg]
      /\ UNCHANGED <<group, changes>>
  BY DEF TypeInv, PageTypes, WrittenBy
<1>2. RemovalsOK'
  BY <1>1 DEF RemovalsInv, RemovalsOK, Announcing
<1>3. \A q \in Pages : TasksOK(group', changes', q, page'[q])
  BY <1>1 DEF RemovalsInv
<1> QED BY <1>2, <1>3 DEF RemovalsInv

LEMMA RemovalsStep == TypeInv /\ RemovalsInv /\ [GroupNext]_vars => RemovalsInv'
<1> SUFFICES ASSUME TypeInv, RemovalsInv, [GroupNext]_vars
             PROVE  RemovalsInv'
  OBVIOUS
<1>1. ASSUME NEW p \in Pages, LoadPage(p)
      PROVE  RemovalsInv'
  <2>1. PICK pg \in PageStates :
              WrittenBy(p, pg, store[p], Ended(calls[p])) /\ LoadEffect(p, pg)
    BY <1>1, LoadPageEffect
  <2>2. TasksOK(group, changes, p, pg)
    BY <2>1 DEF RemovalsInv, TasksOK, LoadEffect
  <2> QED BY <2>1, <2>2, RemovalsOnePage
<1>2. ASSUME NEW p \in Pages, NEW t \in page[p].tasks, TaskStep(p, t)
      PROVE  RemovalsInv'
  <2>1. PICK pg \in PageStates, keys \in [Epochs -> SenderStates], cs \in [Calls -> CallStates] :
              WrittenBy(p, pg, keys, cs) /\ TaskEffect(p, t, pg, keys, cs)
    BY <1>2, TaskStepEffect
  <2>2. TasksOK(group, changes, p, page[p])
    BY DEF RemovalsInv
  <2>3. \A d \in pg.handled : d \in page[p].handled \/ (d = t.change /\ d # 0)
    BY <2>1 DEF TaskEffect
  <2>4. \A r \in pg.tasks : \/ r \in page[p].tasks
                            \/ r.kind = t.kind /\ r.change = t.change /\ r.user = t.user
                            \/ r.change = 0
    BY <2>1 DEF TaskEffect, Follows
  <2>5. TasksOK(group, changes, p, pg)
    BY <2>2, <2>3, <2>4 DEF TasksOK, RemovalTask
  <2> QED BY <2>1, <2>5, RemovalsOnePage
<1>3. ASSUME NEW p \in Pages, NEW c \in Calls, CallStep(p, c)
      PROVE  RemovalsInv'
  <2>1. PICK pg \in PageStates, keys \in [Epochs -> SenderStates], cs \in [Calls -> CallStates] :
              WrittenBy(p, pg, keys, cs) /\ CallEffect(p, c, pg, keys, cs)
    BY <1>3, CallStepEffect
  <2>2. TasksOK(group, changes, p, pg)
    BY <2>1 DEF RemovalsInv, TasksOK, CallEffect
  <2> QED BY <2>1, <2>2, RemovalsOnePage
<1>4. CASE UNCHANGED vars
  BY <1>4 DEF RemovalsInv, RemovalsOK, Announcing, vars
<1> QED BY <1>1, <1>2, <1>3, <1>4, RemovalsChange DEF GroupNext

-----------------------------------------------------------------------------
(* A chain is held for an epoch when it is stored for it, or in the hand of a call that    *)
(* will store it there; a user was sent it when a message of it had a payload for him.     *)

Holds(keys, cs, ch, e) ==
    \/ keys[e].chain = ch
    \/ \E c \in Calls : cs[c].pc = "encrypt" /\ cs[c].epoch = e /\ cs[c].st.chain = ch

Sent(p, msgs, u, ch) ==
    \E i \in DOMAIN msgs : msgs[i].sender = p /\ msgs[i].st.chain = ch /\ u \in msgs[i].readers

LEMMA SentMade ==
    ASSUME ChainsInv, NEW p \in Pages, NEW u \in Users, NEW ch, Sent(p, messages, u, ch)
    PROVE  ch \in 1..page[p].chains /\ u # p
BY DEF ChainsInv, ChainsOK, Sent

LEMMA SentOthers ==
    ASSUME NEW p \in Pages, OnlyAdds(p), NEW q \in Pages, q # p, NEW u, NEW ch,
           Sent(q, messages', u, ch)
    PROVE  Sent(q, messages, u, ch)
BY DEF OnlyAdds, Sent

\* Who is out of the group is sent nothing.
LEMMA SentKept ==
    ASSUME TypeInv, NEW p \in Pages, NEW c \in Calls, NEW pg, NEW keys, NEW cs,
           CallEffect(p, c, pg, keys, cs), NEW u \in Users, u \notin group.members,
           NEW ch, Sent(p, messages', u, ch)
    PROVE  Sent(p, messages, u, ch)
<1>1. CASE messages' = messages
  BY <1>1
<1>2. CASE messages' # messages
  <2>1. PICK m \in Messages :
          /\ messages' = Append(messages, m)
          /\ p \in Participants(group) /\ m.readers \subseteq Participants(group) \ {p}
    BY <1>2 DEF CallEffect, StartEffect, ReadEffect, CreateEffect, SaveEffect, ArriveEffect
  <2>2. u \notin m.readers
    BY <2>1 DEF Participants
  <2> QED BY <2>1, <2>2, Accepted DEF Sent
<1> QED BY <1>1, <1>2

LEMMA HeldByTask ==
    ASSUME TypeInv, NEW p \in Pages, NEW t \in page[p].tasks, NEW pg, NEW keys, NEW cs,
           TaskEffect(p, t, pg, keys, cs), NEW ch \in Chains, NEW e \in Epochs,
           Holds(keys, cs, ch, e)
    PROVE  Holds(store[p], calls[p], ch, e)
<1>1. ch # 0
  BY DEF Chains
<1>2. \A c \in Calls : Ended(calls[p])[c].pc \in {"none", "done"}
  BY PageFacts, EndedCalls
<1>3. keys[e] = store[p][e] \/ keys[e].chain = 0
  <2>1. keys = store[p] \/ keys = [f \in Epochs |-> NoState]
    BY DEF TaskEffect
  <2> QED BY <2>1 DEF NoState
<1>4. \A c \in Calls : cs[c] = calls[p][c] \/ cs[c].pc # "encrypt"
  BY <1>2 DEF TaskEffect
<1> QED BY <1>1, <1>3, <1>4 DEF Holds

LEMMA HeldByCall ==
    ASSUME TypeInv, NEW p \in Pages, NEW c \in Calls, NEW pg,
           NEW keys \in [Epochs -> SenderStates], NEW cs \in [Calls -> CallStates],
           CallEffect(p, c, pg, keys, cs), NEW ch \in Chains, NEW e \in Epochs,
           Holds(keys, cs, ch, e)
    PROVE  \/ Holds(store[p], calls[p], ch, e)
           \/ /\ CreateEffect(p, c, pg, cs) /\ ch = page[p].chains + 1
              /\ e = calls[p][c].epoch
<1>1. /\ store[p] \in [Epochs -> SenderStates] /\ calls[p] \in [Calls -> CallStates]
      /\ \A d \in Calls \ {c} : cs[d] = calls[p][d]
  BY PageFacts DEF CallEffect
<1>2. CASE StartEffect(p, c, pg, cs) /\ keys = store[p]
  BY <1>1, <1>2 DEF StartEffect, Holds
<1>3. CASE ReadEffect(p, c, pg, cs) /\ keys = store[p]
  <2>1. cs[c].epoch = calls[p][c].epoch /\ cs[c].st = store[p][cs[c].epoch]
    BY <1>3 DEF ReadEffect
  <2> QED BY <1>1, <1>3, <2>1 DEF Holds
<1>4. CASE /\ CreateEffect(p, c, pg, cs)
           /\ keys = [store[p] EXCEPT ![calls[p][c].epoch] = cs[c].st]
  <2>1. cs[c].st.chain = page[p].chains + 1 /\ cs[c].epoch = calls[p][c].epoch
    BY <1>4 DEF CreateEffect
  <2>2. keys[e] = store[p][e] \/ (e = calls[p][c].epoch /\ keys[e] = cs[c].st)
    BY <1>1, <1>4
  <2> QED BY <1>1, <1>4, <2>1, <2>2 DEF Holds
<1>5. CASE /\ SaveEffect(p, c, pg, cs)
           /\ keys = [store[p] EXCEPT ![calls[p][c].epoch] =
                        [chain |-> calls[p][c].st.chain, counter |-> calls[p][c].st.counter + 1]]
  <2>1. calls[p][c].pc = "encrypt" /\ cs[c].pc = "send"
    BY <1>5 DEF SaveEffect
  <2>2. \/ keys[e] = store[p][e]
        \/ e = calls[p][c].epoch /\ keys[e].chain = calls[p][c].st.chain
    BY <1>1, <1>5
  <2> QED BY <1>1, <2>1, <2>2 DEF Holds
<1>6. CASE ArriveEffect(p, c, pg, cs) /\ keys = store[p]
  <2>1. cs[c].pc = "done"
    BY <1>6 DEF ArriveEffect, NoCall
  <2> QED BY <1>1, <1>6, <2>1 DEF Holds
<1> QED BY <1>2, <1>3, <1>4, <1>5, <1>6 DEF CallEffect

LEMMA HeldByLoad ==
    ASSUME TypeInv, NEW p \in Pages, NEW ch, NEW e, Holds(store[p], Ended(calls[p]), ch, e)
    PROVE  Holds(store[p], calls[p], ch, e)
<1>1. \A c \in Calls : Ended(calls[p])[c].pc \in {"none", "done"}
  BY PageFacts, EndedCalls
<1> QED BY <1>1 DEF Holds

-----------------------------------------------------------------------------
\* The clearing of a removal's handlers: it is behind a task at this place of its script.
Cleared(t) == \/ t.kind = "chatUpdated" /\ t.left <= 3
              \/ t.kind = "userUpdated" /\ t.left = 1
              \/ t.kind = "memberRemoved" /\ t.left <= 4

Covered(pg, c) ==
    /\ c # 0
    /\ \/ c \in pg.handled
       \/ \E t \in pg.tasks : t.change = c /\ Cleared(t)

(***************************************************************************)
(* The first defence: unless a call straddled the last clearing, no chain  *)
(* that is held was sent to a user whose removal has cleared the store, or *)
(* is exposed for a call that has not named its chain yet.                 *)
(***************************************************************************)
ErasedOK(g, p, pg, keys, cs, msgs) ==
    ~ pg.straddled =>
        \A ch \in Chains, e \in Epochs : Holds(keys, cs, ch, e) =>
            /\ \A u \in Users :
                  u \notin g.members /\ Covered(pg, g.leftBy[u]) => ~ Sent(p, msgs, u, ch)
            /\ \A c \in Calls : InHand(cs, c) => ch \notin cs[c].exposed

LEMMA ErasedByChange ==
    ASSUME TypeInv, RemovalsInv, NEW c \in Changes, ChangeStep(c), NEW p \in Pages,
           ErasedOK(group, p, page[p], store[p], calls[p], messages)
    PROVE  ErasedOK(group', p, page'[p], store[p], calls[p], messages)
<1>1. /\ \A d \in Changes \ {c} : changes'[d] = changes[d]
      /\ changes[c].pc # "done"
      /\ \/ AnnouncedEffect(c)
         \/ page' = page /\ (KeepEffect(c) \/ AddEffect(c) \/ RemoveEffect(c))
  BY ChangeEffect
<1>2. TasksOK(group, changes, p, page[p]) /\ c # 0
  BY DEF RemovalsInv, Changes
\* A change that is not done is not covered.
<1>3. ~ Covered(page[p], c)
  BY <1>1, <1>2 DEF TasksOK, Covered
<1>4. ASSUME NEW u \in Users, u \notin group'.members, Covered(page'[p], group'.leftBy[u])
      PROVE  u \notin group.members /\ Covered(page[p], group.leftBy[u])
  <2>1. CASE AnnouncedEffect(c)
    <3>1. AnnounceEffect(c, p, page'[p]) /\ group' = group
      BY <2>1 DEF AnnouncedEffect
    <3>2. ASSUME NEW t \in page'[p].tasks, t \notin page[p].tasks
          PROVE  ~ Cleared(t)
      <4>1. t \in Tasks /\ TaskOK(page'[p], t)
        <5>1. PageTypes'
          BY TypeInvStep DEF TypeInv, GroupNext
        <5> QED BY <5>1 DEF PageTypes, PageOK, PageStates
      <4>2. t.left = Len(Script[t.kind])
        BY <3>1, <3>2 DEF AnnounceEffect
      <4>3. /\ t.kind = "memberRemoved" => Len(Script[t.kind]) = 5
            /\ t.kind = "chatUpdated" => Len(Script[t.kind]) = 4
            /\ t.kind = "userUpdated" => Len(Script[t.kind]) = 4
        BY <4>1, ScriptSteps
      <4>4. /\ t.kind = "memberRemoved" => t.left = 5
            /\ t.kind = "chatUpdated" => t.left = 4
            /\ t.kind = "userUpdated" => t.left = 4
        BY <4>2, <4>3, Zenon
      <4> QED BY <4>4 DEF Cleared
    <3>3. page'[p].handled = page[p].handled
      BY <3>1 DEF AnnounceEffect
    <3> QED BY <1>4, <3>1, <3>2, <3>3 DEF Covered
  <2>2. CASE page' = page /\ (KeepEffect(c) \/ AddEffect(c))
    BY <1>4, <2>2 DEF KeepEffect, AddEffect
  <2>3. CASE page' = page /\ RemoveEffect(c)
    <3>1. u # changes[c].user
      BY <1>3, <1>4, <2>3 DEF RemoveEffect
    <3> QED BY <1>4, <2>3, <3>1 DEF RemoveEffect
  <2> QED BY <1>1, <2>1, <2>2, <2>3
<1>5. page'[p].straddled = page[p].straddled
  BY <1>1 DEF AnnouncedEffect, AnnounceEffect
<1> QED BY <1>4, <1>5 DEF ErasedOK

LEMMA ErasedByLoad ==
    ASSUME TypeInv, RemovalsInv, NEW p \in Pages, NEW pg, LoadEffect(p, pg),
           ErasedOK(group, p, page[p], store[p], calls[p], messages)
    PROVE  ErasedOK(group, p, pg, store[p], Ended(calls[p]), messages)
<1>1. \A c \in Calls : Ended(calls[p])[c].pc \in {"none", "done"}
  BY PageFacts, EndedCalls
<1>2. ASSUME NEW c, Covered(pg, c)
      PROVE  Covered(page[p], c)
  BY <1>2 DEF Covered, LoadEffect
<1>3. ASSUME NEW ch \in Chains, NEW e \in Epochs, Holds(store[p], Ended(calls[p]), ch, e)
      PROVE  Holds(store[p], calls[p], ch, e)
  BY <1>3, HeldByLoad
<1>4. pg.straddled = page[p].straddled
  BY DEF LoadEffect
<1> QED BY <1>1, <1>2, <1>3, <1>4 DEF ErasedOK, InHand

LEMMA ErasedByTask ==
    ASSUME TypeInv, ChainsInv, RemovalsInv, NEW p \in Pages, NEW t \in page[p].tasks,
           NEW pg, NEW keys, NEW cs, TaskEffect(p, t, pg, keys, cs),
           ErasedOK(group, p, page[p], store[p], calls[p], messages)
    PROVE  ErasedOK(group, p, pg, keys, cs, messages)
<1> SUFFICES ASSUME ~ pg.straddled, NEW ch \in Chains, NEW e \in Epochs, Holds(keys, cs, ch, e)
             PROVE  /\ \A u \in Users :
                          u \notin group.members /\ Covered(pg, group.leftBy[u])
                          => ~ Sent(p, messages, u, ch)
                    /\ \A c \in Calls : InHand(cs, c) => ch \notin cs[c].exposed
  BY DEF ErasedOK
<1>1. t \in Tasks /\ TaskOK(page[p], t) /\ t.left \in 1..Len(Script[t.kind])
  BY PageFacts DEF PageOK, TaskOK
<1>2. ch # 0
  BY DEF Chains
\* Nothing is held when the store has been cleared and no call had a state in hand.
<1>3. NextStep(t) # "clear"
  <2>1. SUFFICES ASSUME NextStep(t) = "clear"
                 PROVE  FALSE
    OBVIOUS
  <2>2. keys = [f \in Epochs |-> NoState] /\ pg.straddled = \E c \in Calls : calls[p][c].pc = "encrypt"
    BY <2>1 DEF TaskEffect
  <2>3. cs = calls[p]
    BY <2>1 DEF TaskEffect
  <2> QED BY <1>2, <2>2, <2>3 DEF Holds, NoState
<1>4. pg.straddled = page[p].straddled
  BY <1>3 DEF TaskEffect
<1>5. Holds(store[p], calls[p], ch, e)
  BY HeldByTask
<1>6. ASSUME NEW u \in Users, u \notin group.members, Covered(pg, group.leftBy[u])
      PROVE  ~ Sent(p, messages, u, ch)
  <2>1. CASE u = p
    BY <2>1, SentMade
  <2>2. CASE u # p
    <3>1. Covered(page[p], group.leftBy[u])
      <4> DEFINE d == group.leftBy[u]
      <4>1. CASE d \in pg.handled
        <5>1. CASE d \in page[p].handled
          BY <1>6, <5>1 DEF Covered
        <5>2. CASE d = t.change /\ d # 0 /\ t.left = 1
          <6>1. t.kind \in {"chatUpdated", "userUpdated", "memberRemoved"}
            BY <2>2, <5>2 DEF RemovalsInv, TasksOK, RemovalTask
          <6>2. Cleared(t)
            BY <5>2, <6>1 DEF Cleared
          <6> QED BY <5>2, <6>2 DEF Covered
        <5> QED BY <4>1, <5>1, <5>2 DEF TaskEffect
      <4>2. ASSUME NEW r \in pg.tasks, r.change = d, Cleared(r)
            PROVE  Covered(page[p], d)
        <5>1. d # 0
          BY <1>6 DEF Covered
        <5>2. CASE r \in page[p].tasks
          BY <4>2, <5>1, <5>2 DEF Covered
        <5>3. CASE Follows(r, t)
          <6>1. t.change = d /\ r.kind = t.kind /\ r.left = t.left - 1
            BY <4>2, <5>3 DEF Follows
          <6>2. Cleared(t)
            BY <1>1, <1>3, <4>2, <6>1, ScriptSteps DEF Cleared
          <6> QED BY <5>1, <6>1, <6>2 DEF Covered
        <5>4. CASE r.change = 0
          BY <4>2, <5>1, <5>4
        <5> QED BY <5>2, <5>3, <5>4 DEF TaskEffect
      <4> QED BY <1>6, <4>1, <4>2 DEF Covered
    <3> QED BY <1>4, <1>5, <1>6, <3>1 DEF ErasedOK
  <2> QED BY <2>1, <2>2
<1>7. ASSUME NEW c \in Calls, InHand(cs, c)
      PROVE  ch \notin cs[c].exposed
  <2>1. cs[c] = calls[p][c]
    <3>1. Ended(calls[p])[c].pc \in {"none", "done"}
      BY PageFacts, EndedCalls
    <3> QED BY <1>7, <3>1 DEF TaskEffect, InHand
  <2> QED BY <1>4, <1>5, <1>7, <2>1 DEF ErasedOK, InHand
<1> QED BY <1>6, <1>7

\* What a call that begins finds exposed was sent to users whose removal is covered.
LEMMA ExposedSent ==
    ASSUME TypeInv, ChainsInv, NEW p \in Pages, NEW ch \in Exposed(p)
    PROVE  \E u \in Users : /\ u \notin group.members /\ group.leftBy[u] \in page[p].handled
                            /\ Sent(p, messages, u, ch)
BY DEF Exposed, Sent

LEMMA ErasedByCall ==
    ASSUME TypeInv, ChainsInv, RemovalsInv, NEW p \in Pages, NEW c \in Calls,
           NEW pg \in PageStates, NEW keys \in [Epochs -> SenderStates],
           NEW cs \in [Calls -> CallStates], CallEffect(p, c, pg, keys, cs),
           ErasedOK(group, p, page[p], store[p], calls[p], messages)
    PROVE  ErasedOK(group, p, pg, keys, cs, messages')
<1> SUFFICES ASSUME ~ pg.straddled, NEW ch \in Chains, NEW e \in Epochs, Holds(keys, cs, ch, e)
             PROVE  /\ \A u \in Users :
                          u \notin group.members /\ Covered(pg, group.leftBy[u])
                          => ~ Sent(p, messages', u, ch)
                    /\ \A d \in Calls : InHand(cs, d) => ch \notin cs[d].exposed
  BY DEF ErasedOK
<1>1. /\ ~ page[p].straddled
      /\ \A d : Covered(pg, d) => Covered(page[p], d)
      /\ \A d \in Calls \ {c} : cs[d] = calls[p][d]
  BY DEF CallEffect, Covered
<1>2. \A u \in Users : u \notin group.members /\ Sent(p, messages', u, ch)
                       => Sent(p, messages, u, ch)
  BY SentKept
<1>3. CASE Holds(store[p], calls[p], ch, e)
  <2>1. \A u \in Users : u \notin group.members /\ Covered(pg, group.leftBy[u])
                         => ~ Sent(p, messages', u, ch)
    BY <1>1, <1>2, <1>3 DEF ErasedOK
  <2>2. ASSUME InHand(cs, c)
        PROVE  ch \notin cs[c].exposed
    <3>1. CASE cs[c].exposed = Exposed(p)
      <4>1. SUFFICES ASSUME ch \in Exposed(p)
                     PROVE  FALSE
        BY <3>1
      <4>2. PICK u \in Users : /\ u \notin group.members /\ group.leftBy[u] \in page[p].handled
                               /\ Sent(p, messages, u, ch)
        BY <4>1, ExposedSent
      <4>3. group.leftBy[u] # 0
        BY <4>2 DEF RemovalsInv, TasksOK, Changes
      <4>4. Covered(page[p], group.leftBy[u])
        BY <4>2, <4>3 DEF Covered
      <4> QED BY <1>1, <1>3, <4>2, <4>4 DEF ErasedOK
    <3>2. CASE cs[c].exposed = calls[p][c].exposed /\ InHand(calls[p], c)
      BY <1>1, <1>3, <3>2 DEF ErasedOK
    <3>3. \/ cs[c].exposed = Exposed(p)
          \/ cs[c].exposed = calls[p][c].exposed /\ InHand(calls[p], c)
      BY <2>2 DEF CallEffect, StartEffect, ReadEffect, CreateEffect, SaveEffect, ArriveEffect,
         InHand, NoCall
    <3> QED BY <3>1, <3>2, <3>3
  <2>3. \A d \in Calls \ {c} : InHand(cs, d) => ch \notin cs[d].exposed
    BY <1>1, <1>3 DEF ErasedOK, InHand
  <2> QED BY <2>1, <2>2, <2>3
<1>4. CASE CreateEffect(p, c, pg, cs) /\ ch = page[p].chains + 1
  <2>1. ch \notin 1..page[p].chains
    BY <1>4, PageFacts DEF PageStates
  <2>2. \A u \in Users : ~ Sent(p, messages, u, ch)
    BY <2>1, SentMade
  <2>3. \A d \in Calls : cs[d].exposed = calls[p][d].exposed
    BY <1>1, <1>4 DEF CreateEffect
  <2>4. \A d \in Calls : ch \notin cs[d].exposed
    BY <2>1, <2>3 DEF ChainsInv, ChainsOK
  <2> QED BY <1>2, <2>2, <2>4
<1> QED BY <1>3, <1>4, HeldByCall

-----------------------------------------------------------------------------
\* Without changes on a stale row the group's epoch is the highest that anybody has seen.
RowsCurrent(g, chs) == \A c \in Changes : chs[c].epoch <= g.epoch

EpochsOK(g, pg, keys, cs) ==
    /\ pg.epoch <= g.epoch
    /\ \A t \in pg.tasks : t.epoch <= g.epoch /\ t.got <= g.epoch
    /\ \A ch \in Chains, e \in Epochs : Holds(keys, cs, ch, e) => e <= g.epoch
    /\ \A c \in Calls : cs[c].epoch <= g.epoch

\* The types of the epochs that are compared.
LEMMA EpochTypes ==
    ASSUME TypeInv
    PROVE  /\ group.epoch \in Nat /\ MaxChanges \in Nat
           /\ \A c \in Changes : changes[c].epoch \in Nat
           /\ \A p \in Pages : /\ page[p].epoch \in Nat
                               /\ \A t \in page[p].tasks : t.epoch \in Nat /\ t.got \in Nat
                               /\ \A c \in Calls : calls[p][c].epoch \in Nat
<1>1. group.epoch \in Nat /\ MaxChanges \in Nat
  BY RowFields, GroupAssumption DEF Epochs
<1>2. \A c \in Changes : changes[c].epoch \in Nat
  BY RowFields
<1>3. ASSUME NEW p \in Pages
      PROVE  /\ page[p].epoch \in Nat
             /\ \A t \in page[p].tasks : t.epoch \in Nat /\ t.got \in Nat
             /\ \A c \in Calls : calls[p][c].epoch \in Nat
  BY PageFacts DEF PageStates, Tasks, CallStates
<1> QED BY <1>1, <1>2, <1>3

LEMMA EpochGrows ==
    ASSUME TypeInv, RowsCurrent(group, changes), NEW c \in Changes, ChangeStep(c), ~ onStaleRow'
    PROVE  group.epoch <= group'.epoch /\ group'.epoch \in Nat /\ RowsCurrent(group', changes')
<1>1. /\ \A d \in Changes \ {c} : changes'[d] = changes[d]
      /\ \/ AnnouncedEffect(c)
         \/ page' = page /\ (KeepEffect(c) \/ AddEffect(c) \/ RemoveEffect(c))
  BY ChangeEffect
<1>2. group.epoch \in Nat /\ \A d \in Changes : changes[d].epoch \in Nat
  BY EpochTypes
<1>3. CASE AnnouncedEffect(c)
  BY <1>1, <1>2, <1>3 DEF AnnouncedEffect, RowsCurrent
<1>4. CASE KeepEffect(c)
  <2>1. group'.epoch = group.epoch /\ changes'[c].epoch <= group.epoch
    BY <1>2, <1>4 DEF KeepEffect, RowsCurrent
  <2> QED BY <1>1, <1>2, <2>1 DEF RowsCurrent
<1>5. CASE AddEffect(c) \/ RemoveEffect(c)
  <2>1. group'.epoch = group.epoch + 1 /\ changes'[c].epoch = group'.epoch
    BY <1>5 DEF AddEffect, RemoveEffect
  <2> QED BY <1>1, <1>2, <2>1 DEF RowsCurrent
<1> QED BY <1>1, <1>3, <1>4, <1>5

LEMMA EpochsByChange ==
    ASSUME TypeInv, RowsCurrent(group, changes), NEW c \in Changes, ChangeStep(c), ~ onStaleRow',
           NEW p \in Pages, EpochsOK(group, page[p], store[p], calls[p])
    PROVE  EpochsOK(group', page'[p], store[p], calls[p])
<1>1. group.epoch <= group'.epoch /\ group'.epoch \in Nat
  BY EpochGrows
<1>2. /\ group.epoch \in Nat /\ page[p].epoch \in Nat
      /\ \A t \in page[p].tasks : t.epoch \in Nat /\ t.got \in Nat
      /\ \A d \in Calls : calls[p][d].epoch \in Nat
      /\ \A e \in Epochs : e \in Nat
  BY EpochTypes DEF Epochs
<1>3. page'[p].epoch = page[p].epoch
      /\ \A t \in page'[p].tasks : \/ t \in page[p].tasks
                                   \/ t.epoch = changes[c].epoch /\ t.got = 0
  <2>1. AnnouncedEffect(c) \/ page' = page
    BY ChangeEffect
  <2> QED BY <2>1 DEF AnnouncedEffect, AnnounceEffect
<1>4. changes[c].epoch <= group.epoch /\ changes[c].epoch \in Nat
  BY EpochTypes DEF RowsCurrent
<1>5. ASSUME NEW t \in page'[p].tasks
      PROVE  t.epoch <= group'.epoch /\ t.got <= group'.epoch
  BY <1>1, <1>2, <1>3, <1>4 DEF EpochsOK
<1>6. page'[p].epoch <= group'.epoch
  BY <1>1, <1>2, <1>3 DEF EpochsOK
<1>7. ASSUME NEW ch \in Chains, NEW e \in Epochs, Holds(store[p], calls[p], ch, e)
      PROVE  e <= group'.epoch
  BY <1>1, <1>2, <1>7 DEF EpochsOK
<1>8. \A d \in Calls : calls[p][d].epoch <= group'.epoch
  BY <1>1, <1>2 DEF EpochsOK
<1> QED BY <1>5, <1>6, <1>7, <1>8 DEF EpochsOK

LEMMA EpochsByLoad ==
    ASSUME TypeInv, NEW p \in Pages, NEW pg, LoadEffect(p, pg),
           EpochsOK(group, page[p], store[p], calls[p])
    PROVE  EpochsOK(group, pg, store[p], Ended(calls[p]))
<1>1. \A c \in Calls : Ended(calls[p])[c].epoch = 0
  BY DEF Ended, NoCall
<1>2. group.epoch \in Nat
  BY EpochTypes
<1>3. \A ch \in Chains, e \in Epochs :
         Holds(store[p], Ended(calls[p]), ch, e) => Holds(store[p], calls[p], ch, e)
  BY HeldByLoad
<1> QED BY <1>1, <1>2, <1>3 DEF EpochsOK, LoadEffect

LEMMA EpochsByTask ==
    ASSUME TypeInv, NEW p \in Pages, NEW t \in page[p].tasks,
           NEW pg, NEW keys, NEW cs, TaskEffect(p, t, pg, keys, cs),
           EpochsOK(group, page[p], store[p], calls[p])
    PROVE  EpochsOK(group, pg, keys, cs)
<1>1. group.epoch \in Nat
  BY EpochTypes
<1>2. \A ch \in Chains, e \in Epochs :
         Holds(keys, cs, ch, e) => Holds(store[p], calls[p], ch, e)
  BY HeldByTask
<1>3. pg.epoch <= group.epoch
  BY <1>1 DEF EpochsOK, TaskEffect
<1>4. ASSUME NEW r \in pg.tasks
      PROVE  r.epoch <= group.epoch /\ r.got <= group.epoch
  <2>1. CASE r \in page[p].tasks
    BY <2>1 DEF EpochsOK
  <2>2. CASE Follows(r, t) /\ (r.got = 0 \/ r.got = group.epoch \/ r.got = t.got)
    BY <1>1, <2>2 DEF EpochsOK, Follows
  <2>3. CASE r.epoch = 0 /\ r.got = 0
    BY <1>1, <2>3
  <2> QED BY <2>1, <2>2, <2>3 DEF TaskEffect
<1>5. \A c \in Calls : cs[c].epoch <= group.epoch
  <2>1. \A c \in Calls : Ended(calls[p])[c].epoch = 0
    BY DEF Ended, NoCall
  <2> QED BY <1>1, <2>1 DEF EpochsOK, TaskEffect
<1> QED BY <1>2, <1>3, <1>4, <1>5 DEF EpochsOK

LEMMA EpochsByCall ==
    ASSUME TypeInv, NEW p \in Pages, NEW c \in Calls,
           NEW pg \in PageStates, NEW keys \in [Epochs -> SenderStates],
           NEW cs \in [Calls -> CallStates], CallEffect(p, c, pg, keys, cs),
           EpochsOK(group, page[p], store[p], calls[p])
    PROVE  EpochsOK(group, pg, keys, cs)
<1>1. group.epoch \in Nat
  BY EpochTypes
<1>2. cs[c].epoch \in {page[p].epoch, calls[p][c].epoch, 0}
  BY DEF CallEffect, StartEffect, ReadEffect, CreateEffect, SaveEffect, ArriveEffect, NoCall
<1>3. \A d \in Calls : cs[d].epoch <= group.epoch
  BY <1>1, <1>2 DEF CallEffect, EpochsOK
<1>4. ASSUME NEW ch \in Chains, NEW e \in Epochs, Holds(keys, cs, ch, e)
      PROVE  e <= group.epoch
  <2>1. Holds(store[p], calls[p], ch, e) \/ e = calls[p][c].epoch
    BY <1>4, HeldByCall
  <2> QED BY <2>1 DEF EpochsOK
<1> QED BY <1>3, <1>4 DEF EpochsOK, CallEffect

-----------------------------------------------------------------------------
\* The loading of the keys is still to bring an epoch above e.
Loading(pg, e) ==
    /\ ~ pg.listening
    /\ \A t \in pg.tasks : t.kind = "load" =>
          t.left = 4 \/ (t.left = 3 /\ (t.got = 0 \/ t.got > e))

\* A handler of change d has given the page the epoch of d.
Learned(pg, d) ==
    \/ d \in pg.handled
    \/ \E t \in pg.tasks : t.change = d /\ t.kind = "chatUpdated" /\ t.left <= 2

\* Epoch e is behind change d, behind all that its handlers will tell the page, and, if
\* the page has learned of d, behind the page's own epoch.
Behind(g, chs, pg, d, e) ==
    /\ e < g.epoch
    /\ chs[d].pc # "done" => e < chs[d].epoch
    /\ \A t \in pg.tasks : t.change = d => e < t.epoch
    /\ ~ pg.wentBack /\ ~ pg.refused =>
        /\ \A t \in pg.tasks : t.change = d /\ t.kind = "memberRemoved" /\ t.left = 1
                               => t.got = 0 \/ e < t.got
        /\ Learned(pg, d) => e < pg.epoch \/ Loading(pg, e)

(***************************************************************************)
(* The second defence: without changes on a stale row a chain that was     *)
(* sent to a user who is out is held under an epoch behind his removal, so *)
(* a page that has learned of it looks for its state elsewhere.            *)
(***************************************************************************)
ApartOK(g, chs, p, pg, keys, cs, msgs) ==
    \A ch \in Chains, e \in Epochs : Holds(keys, cs, ch, e) =>
        /\ \A u \in Users : u \notin g.members /\ Sent(p, msgs, u, ch) =>
              g.leftBy[u] # 0 /\ Behind(g, chs, pg, g.leftBy[u], e)
        /\ ~ pg.wentBack /\ ~ pg.refused =>
              \A c \in Calls : cs[c].pc = "read" /\ ch \in cs[c].exposed => e < cs[c].epoch

LEMMA ApartByChange ==
    ASSUME TypeInv, ChainsInv, RemovalsInv, RowsCurrent(group, changes),
           NEW c \in Changes, ChangeStep(c), ~ onStaleRow', NEW p \in Pages,
           EpochsOK(group, page[p], store[p], calls[p]),
           ApartOK(group, changes, p, page[p], store[p], calls[p], messages)
    PROVE  ApartOK(group', changes', p, page'[p], store[p], calls[p], messages)
<1>1. /\ \A d \in Changes \ {c} : changes'[d] = changes[d]
      /\ changes[c].pc # "done"
      /\ \/ AnnouncedEffect(c)
         \/ page' = page /\ (KeepEffect(c) \/ AddEffect(c) \/ RemoveEffect(c))
  BY ChangeEffect
<1>2. group.epoch <= group'.epoch /\ group'.epoch \in Nat /\ group.epoch \in Nat
      /\ \A d \in Changes : changes[d].epoch \in Nat
  BY EpochGrows, EpochTypes
<1>3. TasksOK(group, changes, p, page[p]) /\ c # 0
  BY DEF RemovalsInv, Changes
<1>4. /\ page'[p].wentBack = page[p].wentBack /\ page'[p].refused = page[p].refused
  BY <1>1 DEF AnnouncedEffect, AnnounceEffect
<1>5. ASSUME NEW ch \in Chains, NEW e \in Epochs, Holds(store[p], calls[p], ch, e),
             NEW u \in Users, u \notin group'.members, Sent(p, messages, u, ch)
      PROVE  group'.leftBy[u] # 0 /\ Behind(group', changes', page'[p], group'.leftBy[u], e)
  <2>1. e <= group.epoch /\ e \in Nat
    BY <1>5 DEF EpochsOK, Epochs
  <2>2. CASE u \notin group.members /\ group'.leftBy[u] = group.leftBy[u]
    <3> DEFINE d == group.leftBy[u]
    <3>1. d # 0 /\ Behind(group, changes, page[p], d, e)
      BY <1>5, <2>2 DEF ApartOK
    <3>2. d \in Changes /\ changes[d].pc \in {"handover", "appoint", "announce", "done"}
      BY <3>1, RemovedBy
    <3>3. e < group'.epoch
      BY <1>2, <2>1, <3>1 DEF Behind
    <3>4. CASE AnnouncedEffect(c)
      <4>1. AnnounceEffect(c, p, page'[p]) /\ changes'[c].pc = "done"
            /\ changes[c].pc = "announce"
        BY <3>4 DEF AnnouncedEffect
      <4>2. changes'[d].pc # "done" => e < changes'[d].epoch
        BY <1>1, <3>1, <3>2, <4>1 DEF Behind
      <4>3. \A t \in page'[p].tasks :
               \/ t \in page[p].tasks
               \/ /\ t.change = c /\ t.epoch = changes[c].epoch /\ t.kind # "load"
                  /\ t \in Tasks /\ t.left = Len(Script[t.kind])
        <5>1. PageTypes'
          BY <3>4, TypeInvStep DEF TypeInv, GroupNext
        <5>2. page'[p].tasks \subseteq Tasks
          BY <5>1 DEF PageTypes, PageStates
        <5> QED BY <4>1, <5>2 DEF AnnounceEffect
      <4>4. ASSUME NEW t \in page'[p].tasks, t \notin page[p].tasks
            PROVE  /\ t.kind = "memberRemoved" => t.left = 5
                   /\ t.kind = "chatUpdated" => t.left = 4
        <5>1. /\ t.kind = "memberRemoved" => Len(Script[t.kind]) = 5
              /\ t.kind = "chatUpdated" => Len(Script[t.kind]) = 4
          BY <4>3, <4>4, ScriptSteps
        <5>2. t.left = Len(Script[t.kind])
          BY <4>3, <4>4
        <5> QED BY <5>1, <5>2, Zenon
      <4>5. \A t \in page'[p].tasks : t.change = d => e < t.epoch
        BY <3>1, <4>1, <4>3 DEF Behind
      <4>6. Learned(page'[p], d) => Learned(page[p], d)
        BY <4>1, <4>4 DEF Learned, AnnounceEffect
      <4>7. Loading(page[p], e) => Loading(page'[p], e)
        BY <4>1, <4>3 DEF Loading, AnnounceEffect
      <4>8. page'[p].epoch = page[p].epoch
        BY <4>1 DEF AnnounceEffect
      <4>9. ASSUME ~ page[p].wentBack, ~ page[p].refused, NEW t \in page'[p].tasks,
                   t.change = d, t.kind = "memberRemoved", t.left = 1
            PROVE  t.got = 0 \/ e < t.got
        BY <3>1, <4>4, <4>9 DEF Behind
      <4> QED BY <1>4, <2>2, <3>1, <3>3, <4>2, <4>5, <4>6, <4>7, <4>8, <4>9 DEF Behind
    <3>5. CASE page' = page
      <4>1. changes'[d].pc # "done" => changes[d].pc # "done" /\ changes'[d].epoch = changes[d].epoch
        BY <1>1, <3>2, <3>5 DEF KeepEffect, AddEffect, RemoveEffect, AnnouncedEffect
      <4> QED BY <2>2, <3>1, <3>3, <3>5, <4>1 DEF Behind
    <3> QED BY <1>1, <3>4, <3>5
  <2>3. CASE page' = page /\ RemoveEffect(c) /\ group'.leftBy[u] = c
    <3>1. e < group'.epoch /\ e < changes'[c].epoch
      BY <1>2, <2>1, <2>3 DEF RemoveEffect
    <3>2. c \notin page[p].handled /\ \A t \in page[p].tasks : t.change # c
      BY <1>1, <1>3 DEF TasksOK
    <3> QED BY <1>3, <2>3, <3>1, <3>2 DEF Behind, Learned
  <2>4. \/ u \notin group.members /\ group'.leftBy[u] = group.leftBy[u]
        \/ page' = page /\ RemoveEffect(c) /\ group'.leftBy[u] = c
    <3>1. CASE AnnouncedEffect(c) \/ KeepEffect(c) \/ AddEffect(c)
      BY <1>5, <3>1 DEF AnnouncedEffect, KeepEffect, AddEffect
    <3>2. CASE page' = page /\ RemoveEffect(c)
      BY <1>5, <3>2 DEF RemoveEffect
    <3> QED BY <1>1, <3>1, <3>2
  <2> QED BY <2>2, <2>3, <2>4
<1> QED BY <1>4, <1>5 DEF ApartOK

LEMMA ApartByLoad ==
    ASSUME TypeInv, RemovalsInv, NEW p \in Pages, NEW pg, LoadEffect(p, pg),
           ApartOK(group, changes, p, page[p], store[p], calls[p], messages)
    PROVE  ApartOK(group, changes, p, pg, store[p], Ended(calls[p]), messages)
<1>1. \A c \in Calls : Ended(calls[p])[c].pc \in {"none", "done"}
  BY PageFacts, EndedCalls
<1>2. \A ch \in Chains, e \in Epochs :
         Holds(store[p], Ended(calls[p]), ch, e) => Holds(store[p], calls[p], ch, e)
  BY HeldByLoad
<1>3. ASSUME NEW d, d # 0, NEW e, Behind(group, changes, page[p], d, e)
      PROVE  Behind(group, changes, pg, d, e)
  BY <1>3 DEF Behind, LoadEffect, Loading
<1> QED BY <1>1, <1>2, <1>3 DEF ApartOK

-----------------------------------------------------------------------------
\* A task's step leaves an epoch behind a removal that the page was not the object of.
LEMMA BehindByTask ==
    ASSUME TypeInv, RemovalsInv, NEW p \in Pages, NEW t \in page[p].tasks,
           NEW pg \in PageStates, NEW keys, NEW cs, TaskEffect(p, t, pg, keys, cs),
           NEW e \in Nat, NEW u \in Users, u # p, group.leftBy[u] # 0,
           Behind(group, changes, page[p], group.leftBy[u], e)
    PROVE  Behind(group, changes, pg, group.leftBy[u], e)
<1> DEFINE d == group.leftBy[u]
<1>1. t \in Tasks /\ TaskOK(page[p], t) /\ t.left \in 1..Len(Script[t.kind])
  BY PageFacts DEF PageOK, TaskOK
<1>2. /\ group.epoch \in Nat /\ page[p].epoch \in Nat /\ t.epoch \in Nat /\ t.got \in Nat
      /\ pg.epoch \in Nat /\ t.left \in Nat
  BY <1>1, EpochTypes DEF PageStates, Tasks
<1>3. /\ e < group.epoch /\ (changes[d].pc # "done" => e < changes[d].epoch)
      /\ \A r \in page[p].tasks : r.change = d => e < r.epoch
  BY DEF Behind
<1>4. \A r \in pg.tasks : \/ r \in page[p].tasks
                          \/ Follows(r, t)
                          \/ r.change = 0 /\ r.kind = "refresh"
  BY DEF TaskEffect
<1>5. \A r \in pg.tasks : r.change = d => e < r.epoch
  BY <1>3, <1>4 DEF Follows
<1>6. ASSUME ~ pg.wentBack, ~ pg.refused
      PROVE  /\ \A r \in pg.tasks : r.change = d /\ r.kind = "memberRemoved" /\ r.left = 1
                                    => r.got = 0 \/ e < r.got
             /\ Learned(pg, d) => e < pg.epoch \/ Loading(pg, e)
  <2>1. /\ ~ page[p].wentBack /\ ~ page[p].refused
        /\ NextStep(t) # "leave" => page[p].epoch <= pg.epoch
    BY <1>6 DEF TaskEffect
  <2>2. /\ \A r \in page[p].tasks : r.change = d /\ r.kind = "memberRemoved" /\ r.left = 1
                                    => r.got = 0 \/ e < r.got
        /\ Learned(page[p], d) => e < page[p].epoch \/ Loading(page[p], e)
    BY <2>1 DEF Behind
  <2>3. ASSUME NEW r \in pg.tasks, r.change = d, r.kind = "memberRemoved", r.left = 1
        PROVE  r.got = 0 \/ e < r.got
    <3>1. CASE r \in page[p].tasks
      BY <2>2, <2>3, <3>1
    <3>2. CASE r \notin page[p].tasks
      <4>1. Follows(r, t)
        BY <1>4, <2>3, <3>2
      <4>2. t.kind = "memberRemoved" /\ t.left = 2
        BY <1>2, <2>3, <4>1 DEF Follows
      <4>3. NextStep(t) = "fetch"
        BY <1>1, <4>2, ScriptSteps
      <4>4. r.got = 0 \/ r.got = group.epoch
        BY <2>3, <3>2, <4>3 DEF TaskEffect
      <4> QED BY <1>3, <4>4
    <3> QED BY <3>1, <3>2
  <2>4. ASSUME Learned(pg, d)
        PROVE  e < pg.epoch \/ Loading(pg, e)
    <3>1. CASE NextStep(t) = "leave"
      BY <3>1 DEF TaskEffect, Loading
    <3>2. CASE NextStep(t) # "leave" /\ e < page[p].epoch
      BY <1>2, <2>1, <3>2
    <3>3. CASE NextStep(t) # "leave" /\ Loading(page[p], e)
      <4>1. t.kind = "load" => t.left = 4 \/ (t.left = 3 /\ (t.got = 0 \/ t.got > e))
        BY <3>3 DEF Loading
      <4>2. ~ pg.listening
        <5>1. NextStep(t) # "listen"
          BY <1>1, <4>1, ScriptSteps
        <5> QED BY <3>3, <5>1 DEF TaskEffect, Loading
      <4>3. CASE t.kind = "load" /\ t.left = 3 /\ t.got # 0
        <5>1. NextStep(t) = "applyKeys"
          BY <1>1, <4>3, ScriptSteps
        <5>2. pg.epoch = t.got
          BY <4>3, <5>1 DEF TaskEffect
        <5> QED BY <1>2, <4>1, <4>3, <5>2
      <4>4. CASE t.kind = "load" /\ t.left = 3 /\ t.got = 0
        <5>1. NextStep(t) = "applyKeys"
          BY <1>1, <4>4, ScriptSteps
        <5>2. \A r \in pg.tasks : r.kind = "load" => r \in page[p].tasks
          BY <4>4, <5>1 DEF TaskEffect
        <5> QED BY <3>3, <4>2, <5>2 DEF Loading
      <4>5. CASE t.kind = "load" /\ t.left = 4
        <5>1. NextStep(t) = "fetchKeys"
          BY <1>1, <4>5, ScriptSteps
        <5>2. \A r \in pg.tasks : r.kind = "load" =>
                 r \in page[p].tasks \/ (r.left = 3 /\ (r.got = 0 \/ r.got = group.epoch))
          BY <4>5, <5>1 DEF TaskEffect, Follows
        <5> QED BY <1>2, <1>3, <3>3, <4>2, <5>2 DEF Loading
      <4>6. CASE t.kind # "load"
        <5>1. \A r \in pg.tasks : r.kind = "load" => r \in page[p].tasks
          BY <1>4, <4>6 DEF Follows
        <5> QED BY <3>3, <4>2, <5>1 DEF Loading
      <4> QED BY <4>1, <4>3, <4>4, <4>5, <4>6
    <3>4. CASE NextStep(t) # "leave" /\ ~ Learned(page[p], d)
      <4>1. CASE d \in pg.handled
        <5>1. d = t.change /\ t.left = 1
          BY <3>4, <4>1 DEF TaskEffect, Learned
        <5>2. t.kind \in {"chatUpdated", "userUpdated", "memberRemoved"}
          BY <5>1 DEF RemovalsInv, TasksOK, RemovalTask
        <5>3. t.kind # "chatUpdated"
          BY <3>4, <5>1 DEF Learned
        <5>4. CASE t.kind = "userUpdated"
          <6>1. NextStep(t) = "apply"
            BY <1>1, <5>1, <5>4, ScriptSteps
          <6>2. pg.epoch = t.epoch
            BY <6>1 DEF TaskEffect
          <6> QED BY <1>3, <5>1, <6>2
        <5>5. CASE t.kind = "memberRemoved"
          <6>1. NextStep(t) = "settle"
            BY <1>1, <5>1, <5>5, ScriptSteps
          <6>2. t.got # 0
            BY <1>6, <5>1, <5>5, <6>1 DEF TaskEffect
          <6>3. pg.epoch = t.got
            BY <6>1, <6>2 DEF TaskEffect
          <6> QED BY <2>2, <5>1, <5>5, <6>2, <6>3
        <5> QED BY <5>2, <5>3, <5>4, <5>5
      <4>2. ASSUME NEW r \in pg.tasks, r.change = d, r.kind = "chatUpdated", r.left <= 2
            PROVE  e < pg.epoch
        <5>1. r \notin page[p].tasks
          BY <3>4, <4>2 DEF Learned
        <5>2. Follows(r, t)
          BY <1>4, <4>2, <5>1
        <5>3. t.kind = "chatUpdated" /\ t.change = d /\ t.left <= 3
          BY <1>2, <4>2, <5>2 DEF Follows
        <5>4. t.left = 3
          BY <1>2, <3>4, <5>3 DEF Learned
        <5>5. NextStep(t) = "apply"
          BY <1>1, <5>3, <5>4, ScriptSteps
        <5>6. pg.epoch = t.epoch
          BY <5>5 DEF TaskEffect
        <5> QED BY <1>3, <5>3, <5>6
      <4> QED BY <2>4, <4>1, <4>2 DEF Learned
    <3> QED BY <2>2, <3>1, <3>2, <3>3, <3>4
  <2> QED BY <2>3, <2>4
<1> QED BY <1>3, <1>5, <1>6 DEF Behind

LEMMA ApartByTask ==
    ASSUME TypeInv, ChainsInv, RemovalsInv, NEW p \in Pages, NEW t \in page[p].tasks,
           NEW pg \in PageStates, NEW keys, NEW cs, TaskEffect(p, t, pg, keys, cs),
           ApartOK(group, changes, p, page[p], store[p], calls[p], messages)
    PROVE  ApartOK(group, changes, p, pg, keys, cs, messages)
<1> SUFFICES ASSUME NEW ch \in Chains, NEW e \in Epochs, Holds(keys, cs, ch, e)
             PROVE  /\ \A u \in Users : u \notin group.members /\ Sent(p, messages, u, ch) =>
                          /\ group.leftBy[u] # 0
                          /\ Behind(group, changes, pg, group.leftBy[u], e)
                    /\ ~ pg.wentBack /\ ~ pg.refused =>
                          \A c \in Calls :
                              cs[c].pc = "read" /\ ch \in cs[c].exposed => e < cs[c].epoch
  BY DEF ApartOK
<1>1. Holds(store[p], calls[p], ch, e)
  BY HeldByTask
<1>2. e \in Nat
  BY DEF Epochs
<1>3. ASSUME NEW u \in Users, u \notin group.members, Sent(p, messages, u, ch)
      PROVE  group.leftBy[u] # 0 /\ Behind(group, changes, pg, group.leftBy[u], e)
  <2>1. u # p
    BY <1>3, SentMade
  <2>2. group.leftBy[u] # 0 /\ Behind(group, changes, page[p], group.leftBy[u], e)
    BY <1>1, <1>3 DEF ApartOK
  <2> QED BY <1>2, <2>1, <2>2, BehindByTask
<1>4. ASSUME ~ pg.wentBack, ~ pg.refused, NEW c \in Calls, cs[c].pc = "read",
             ch \in cs[c].exposed
      PROVE  e < cs[c].epoch
  <2>1. Ended(calls[p])[c].pc \in {"none", "done"}
    BY PageFacts, EndedCalls
  <2>2. cs = calls[p] /\ ~ page[p].wentBack /\ ~ page[p].refused
    BY <1>4, <2>1 DEF TaskEffect
  <2> QED BY <1>1, <1>4, <2>2 DEF ApartOK
<1> QED BY <1>3, <1>4

LEMMA ApartByCall ==
    ASSUME TypeInv, ChainsInv, RemovalsInv, NEW p \in Pages, NEW c \in Calls,
           NEW pg \in PageStates, NEW keys \in [Epochs -> SenderStates],
           NEW cs \in [Calls -> CallStates], CallEffect(p, c, pg, keys, cs),
           ApartOK(group, changes, p, page[p], store[p], calls[p], messages)
    PROVE  ApartOK(group, changes, p, pg, keys, cs, messages')
<1> SUFFICES ASSUME NEW ch \in Chains, NEW e \in Epochs, Holds(keys, cs, ch, e)
             PROVE  /\ \A u \in Users : u \notin group.members /\ Sent(p, messages', u, ch) =>
                          /\ group.leftBy[u] # 0
                          /\ Behind(group, changes, pg, group.leftBy[u], e)
                    /\ ~ pg.wentBack /\ ~ pg.refused =>
                          \A d \in Calls :
                              cs[d].pc = "read" /\ ch \in cs[d].exposed => e < cs[d].epoch
  BY DEF ApartOK
<1>1. /\ pg.epoch = page[p].epoch /\ pg.tasks = page[p].tasks /\ pg.handled = page[p].handled
      /\ pg.wentBack = page[p].wentBack /\ pg.refused = page[p].refused
      /\ \A d \in Calls \ {c} : cs[d] = calls[p][d]
      /\ pg.listening => page[p].listening
  BY DEF CallEffect, StartEffect, ReadEffect, CreateEffect, SaveEffect, ArriveEffect
<1>2. \A u \in Users : u \notin group.members /\ Sent(p, messages', u, ch)
                       => Sent(p, messages, u, ch)
  BY SentKept
<1>3. \A d : Behind(group, changes, page[p], d, e) => Behind(group, changes, pg, d, e)
  BY <1>1 DEF Behind, Learned, Loading
<1>4. CASE Holds(store[p], calls[p], ch, e)
  <2>1. \A u \in Users : u \notin group.members /\ Sent(p, messages', u, ch) =>
           group.leftBy[u] # 0 /\ Behind(group, changes, pg, group.leftBy[u], e)
    BY <1>2, <1>3, <1>4 DEF ApartOK
  <2>2. ASSUME ~ pg.wentBack, ~ pg.refused, NEW d \in Calls, cs[d].pc = "read",
               ch \in cs[d].exposed
        PROVE  e < cs[d].epoch
    <3>1. CASE d # c
      BY <1>1, <1>4, <2>2, <3>1 DEF ApartOK
    <3>2. CASE d = c
      <4>1. StartEffect(p, c, pg, cs)
        BY <2>2, <3>2 DEF CallEffect, ReadEffect, CreateEffect, SaveEffect, ArriveEffect, NoCall
      <4>2. /\ page[p].listening /\ ch \in Exposed(p) /\ cs[c].epoch = page[p].epoch
        BY <2>2, <3>2, <4>1 DEF StartEffect
      <4>3. PICK u \in Users : /\ u \notin group.members /\ group.leftBy[u] \in page[p].handled
                               /\ Sent(p, messages, u, ch)
        BY <4>2, ExposedSent
      <4>4. Behind(group, changes, page[p], group.leftBy[u], e)
        BY <1>4, <4>3 DEF ApartOK
      <4>5. e < page[p].epoch \/ Loading(page[p], e)
        BY <1>1, <2>2, <4>3, <4>4 DEF Behind, Learned
      <4> QED BY <3>2, <4>2, <4>5 DEF Loading
    <3> QED BY <3>1, <3>2
  <2> QED BY <2>1, <2>2
<1>5. CASE CreateEffect(p, c, pg, cs) /\ ch = page[p].chains + 1
  <2>1. ch \notin 1..page[p].chains
    BY <1>5, PageFacts DEF PageStates
  <2>2. \A u \in Users : ~ Sent(p, messages, u, ch)
    BY <2>1, SentMade
  <2>3. \A d \in Calls : cs[d].exposed = calls[p][d].exposed
    BY <1>1, <1>5 DEF CreateEffect
  <2>4. \A d \in Calls : ch \notin cs[d].exposed
    BY <2>1, <2>3 DEF ChainsInv, ChainsOK
  <2> QED BY <1>2, <2>2, <2>4
<1> QED BY <1>4, <1>5, HeldByCall

-----------------------------------------------------------------------------
\* What FreshAfterRemoval says of messages, of a page's calls as well.
NamedOK(p, cs, msgs) ==
    /\ \A c \in Calls : cs[c].pc \in {"encrypt", "send"} =>
          cs[c].weak \/ cs[c].st.chain \notin cs[c].exposed
    /\ \A i \in DOMAIN msgs : msgs[i].sender = p =>
          msgs[i].weak \/ msgs[i].st.chain \notin msgs[i].exposed

FreshOK(g, chs, stale, p, pg, keys, cs, msgs) ==
    /\ ErasedOK(g, p, pg, keys, cs, msgs)
    /\ ~ stale => EpochsOK(g, pg, keys, cs) /\ ApartOK(g, chs, p, pg, keys, cs, msgs)
    /\ NamedOK(p, cs, msgs)

FreshInv ==
    /\ RemovalsInv
    /\ ~ onStaleRow => RowsCurrent(group, changes)
    /\ \A p \in Pages :
          FreshOK(group, changes, onStaleRow, p, page[p], store[p], calls[p], messages)

LEMMA FreshInit == GroupInit => FreshInv
<1> SUFFICES ASSUME GroupInit PROVE FreshInv
  OBVIOUS
<1>1. RowsCurrent(group, changes)
  BY DEF GroupInit, RowsCurrent, NoChange
<1>2. ASSUME NEW p \in Pages
      PROVE  FreshOK(group, changes, onStaleRow, p, page[p], store[p], calls[p], messages)
  <2>1. /\ \A e \in Epochs : store[p][e].chain = 0
        /\ \A c \in Calls : calls[p][c].pc = "none" /\ calls[p][c].epoch = 0
        /\ DOMAIN messages = {} /\ page[p].tasks = {} /\ page[p].epoch = 0 /\ group.epoch = 1
    BY DEF GroupInit, NoCall, NoState, ClosedPage
  <2>2. \A ch \in Chains, e \in Epochs : ~ Holds(store[p], calls[p], ch, e)
    BY <2>1 DEF Holds, Chains
  <2> QED BY <2>1, <2>2 DEF FreshOK, ErasedOK, EpochsOK, ApartOK, NamedOK
<1> QED BY <1>1, <1>2, RemovalsInit DEF FreshInv

LEMMA NamedByCall ==
    ASSUME TypeInv, ChainsInv, NEW p \in Pages, NEW c \in Calls,
           NEW pg \in PageStates, NEW keys \in [Epochs -> SenderStates],
           NEW cs \in [Calls -> CallStates], CallEffect(p, c, pg, keys, cs),
           FreshOK(group, changes, onStaleRow, p, page[p], store[p], calls[p], messages)
    PROVE  NamedOK(p, cs, messages')
<1> DEFINE call == calls[p][c]
           named == cs[c].weak \/ cs[c].st.chain \notin cs[c].exposed
<1>1. /\ NamedOK(p, calls[p], messages)
      /\ \A d \in Calls \ {c} : cs[d] = calls[p][d]
      /\ calls[p] \in [Calls -> CallStates] /\ store[p] \in [Epochs -> SenderStates]
      /\ PageOK(page[p], store[p], calls[p])
  BY PageFacts DEF FreshOK, CallEffect
<1>2. ASSUME ReadEffect(p, c, pg, cs), cs[c].pc = "encrypt", cs[c].st.chain \in cs[c].exposed
      PROVE  named
  <2>1. /\ call.pc = "read" /\ call.epoch \in Epochs
        /\ cs[c].st = store[p][call.epoch] /\ cs[c].exposed = call.exposed
    BY <1>1, <1>2 DEF ReadEffect, PageOK, CallStates, Epochs
  <2>2. cs[c].st.chain \in Chains
    BY <1>2 DEF CallStates
  <2>3. Holds(store[p], calls[p], cs[c].st.chain, call.epoch)
    BY <2>1 DEF Holds
  <2>4. page[p].straddled
    BY <1>2, <2>1, <2>2, <2>3 DEF FreshOK, ErasedOK, InHand
  <2>5. onStaleRow \/ page[p].wentBack \/ page[p].refused
    <3>1. SUFFICES ASSUME ~ onStaleRow, ~ page[p].wentBack, ~ page[p].refused
                   PROVE  FALSE
      OBVIOUS
    <3>2. call.epoch < call.epoch
      BY <1>2, <2>1, <2>2, <2>3, <3>1 DEF FreshOK, ApartOK
    <3> QED BY <2>1, <3>2 DEF Epochs
  <2>6. call.exposed # {}
    BY <1>2, <2>1
  <2>7. cs[c].weak
    <3>1. cs[c].weak = (/\ call.exposed # {} /\ page[p].straddled
                        /\ onStaleRow \/ page[p].wentBack \/ page[p].refused)
      BY <1>2 DEF ReadEffect
    <3> HIDE DEF call
    <3> QED BY <2>4, <2>5, <2>6, <3>1, Zenon
  <2> QED BY <2>7
<1>3. ASSUME CreateEffect(p, c, pg, cs)
      PROVE  named
  <2>1. call.exposed \subseteq 1..page[p].chains /\ page[p].chains \in Nat
    BY PageFacts DEF ChainsInv, ChainsOK, PageStates
  <2>2. cs[c].st.chain \notin cs[c].exposed
    BY <1>3, <2>1 DEF CreateEffect
  <2> QED BY <2>2
<1>4. ASSUME SaveEffect(p, c, pg, cs)
      PROVE  named
  <2>1. /\ call.pc = "encrypt" /\ cs[c].st = call.st /\ cs[c].exposed = call.exposed
        /\ cs[c].weak = call.weak
    BY <1>4 DEF SaveEffect
  <2>2. call.weak \/ call.st.chain \notin call.exposed
    BY <1>1, <2>1 DEF NamedOK
  <2> HIDE DEF call
  <2> QED BY <2>1, <2>2, Zenon
<1>5. cs[c].pc \in {"encrypt", "send"} => named
  <2>1. cs[c].pc \in {"encrypt", "send"} /\ cs[c].st.chain \in cs[c].exposed
        => \/ ReadEffect(p, c, pg, cs) /\ cs[c].pc = "encrypt"
           \/ CreateEffect(p, c, pg, cs)
           \/ SaveEffect(p, c, pg, cs)
    BY DEF CallEffect, StartEffect, ReadEffect, ArriveEffect, NoCall
  <2>2. cs[c].st.chain \notin cs[c].exposed => named
    OBVIOUS
  <2> HIDE DEF named
  <2> QED BY <1>2, <1>3, <1>4, <2>1, <2>2
<1>6. ASSUME NEW i \in DOMAIN messages', messages'[i].sender = p
      PROVE  messages'[i].weak \/ messages'[i].st.chain \notin messages'[i].exposed
  <2>1. CASE i \in DOMAIN messages /\ messages'[i] = messages[i]
    BY <1>1, <1>6, <2>1 DEF NamedOK
  <2>2. CASE /\ call.pc = "send" /\ messages'[i].st = call.st
             /\ messages'[i].exposed = call.exposed /\ messages'[i].weak = call.weak
    <3>1. call.weak \/ call.st.chain \notin call.exposed
      BY <1>1, <2>2 DEF NamedOK
    <3> QED BY <2>2, <3>1, Zenon
  <2>3. CASE messages' = messages
    BY <1>6, <2>1, <2>3
  <2>4. CASE messages' # messages
    <3>1. PICK m \in Messages :
            /\ messages' = Append(messages, m) /\ call.pc = "send"
            /\ m.st = call.st /\ m.exposed = call.exposed /\ m.weak = call.weak
      BY <2>4 DEF CallEffect, StartEffect, ReadEffect, CreateEffect, SaveEffect, ArriveEffect
    <3>2. \/ i \in DOMAIN messages /\ messages'[i] = messages[i]
          \/ messages'[i] = m
      BY <3>1, Accepted
    <3> QED BY <2>1, <2>2, <3>1, <3>2
  <2> QED BY <2>3, <2>4
<1>7. \A d \in Calls \ {c} : cs[d].pc \in {"encrypt", "send"} =>
         cs[d].weak \/ cs[d].st.chain \notin cs[d].exposed
  BY <1>1 DEF NamedOK
<1>8. \A d \in Calls : cs[d].pc \in {"encrypt", "send"} =>
         cs[d].weak \/ cs[d].st.chain \notin cs[d].exposed
  BY <1>5, <1>7, Zenon
<1>9. \A i \in DOMAIN messages' : messages'[i].sender = p =>
         messages'[i].weak \/ messages'[i].st.chain \notin messages'[i].exposed
  BY <1>6, Zenon
<1> QED BY <1>8, <1>9, Zenon DEF NamedOK

\* The other pages' messages are as they were.
LEMMA FreshOthers ==
    ASSUME NEW p \in Pages, OnlyAdds(p), NEW q \in Pages, q # p,
           FreshOK(group, changes, onStaleRow, q, page[q], store[q], calls[q], messages)
    PROVE  FreshOK(group, changes, onStaleRow, q, page[q], store[q], calls[q], messages')
<1>1. \A u, ch : Sent(q, messages', u, ch) => Sent(q, messages, u, ch)
  BY SentOthers
<1>2. NamedOK(q, calls[q], messages')
  BY DEF FreshOK, NamedOK, OnlyAdds
<1>3. ErasedOK(group, q, page[q], store[q], calls[q], messages')
  BY <1>1 DEF FreshOK, ErasedOK
<1>4. ASSUME ApartOK(group, changes, q, page[q], store[q], calls[q], messages)
      PROVE  ApartOK(group, changes, q, page[q], store[q], calls[q], messages')
  BY <1>1, <1>4 DEF ApartOK
<1> QED BY <1>2, <1>3, <1>4 DEF FreshOK

LEMMA FreshOnePage ==
    ASSUME TypeInv, FreshInv, RemovalsInv', NEW p \in Pages, NEW pg, NEW keys, NEW cs,
           WrittenBy(p, pg, keys, cs), OnlyAdds(p),
           FreshOK(group, changes, onStaleRow, p, pg, keys, cs, messages')
    PROVE  FreshInv'
<1>1. /\ page \in [Pages -> PageStates] /\ store \in [Pages -> [Epochs -> SenderStates]]
      /\ calls \in [Pages -> [Calls -> CallStates]]
  BY DEF TypeInv, PageTypes
<1>2. /\ page'[p] = pg /\ store'[p] = keys /\ calls'[p] = cs
      /\ UNCHANGED <<group, changes, onStaleRow>>
  BY <1>1 DEF WrittenBy
<1>3. ASSUME NEW q \in Pages, q # p
      PROVE  FreshOK(group, changes, onStaleRow, q, page'[q], store'[q], calls'[q], messages')
  <2>1. page'[q] = page[q] /\ store'[q] = store[q] /\ calls'[q] = calls[q]
    BY <1>1, <1>3 DEF WrittenBy
  <2> QED BY <1>3, <2>1, FreshOthers DEF FreshInv
<1>4. \A q \in Pages :
         FreshOK(group', changes', onStaleRow', q, page'[q], store'[q], calls'[q], messages')
  BY <1>2, <1>3
<1> QED BY <1>2, <1>4 DEF FreshInv

LEMMA FreshStep == TypeInv /\ ChainsInv /\ FreshInv /\ [GroupNext]_vars => FreshInv'
<1> SUFFICES ASSUME TypeInv, ChainsInv, FreshInv, [GroupNext]_vars
             PROVE  FreshInv'
  OBVIOUS
<1>0. RemovalsInv /\ RemovalsInv'
  BY RemovalsStep DEF FreshInv
<1>1. ASSUME NEW c \in Changes, ChangeStep(c)
      PROVE  FreshInv'
  <2>1. UNCHANGED <<store, calls, messages>> /\ (onStaleRow => onStaleRow')
    BY <1>1, ChangeEffect
  <2>2. ~ onStaleRow' => RowsCurrent(group', changes')
    BY <1>1, <2>1, EpochGrows DEF FreshInv
  <2>3. ASSUME NEW p \in Pages
        PROVE  FreshOK(group', changes', onStaleRow', p, page'[p], store[p], calls[p], messages)
    <3>1. FreshOK(group, changes, onStaleRow, p, page[p], store[p], calls[p], messages)
      BY DEF FreshInv
    <3>2. ErasedOK(group', p, page'[p], store[p], calls[p], messages)
      BY <1>0, <1>1, <3>1, ErasedByChange DEF FreshOK
    <3>3. ASSUME ~ onStaleRow'
          PROVE  /\ EpochsOK(group', page'[p], store[p], calls[p])
                 /\ ApartOK(group', changes', p, page'[p], store[p], calls[p], messages)
      BY <1>0, <1>1, <2>1, <3>1, <3>3, EpochsByChange, ApartByChange DEF FreshOK, FreshInv
    <3> QED BY <3>1, <3>2, <3>3 DEF FreshOK
  <2>4. \A p \in Pages :
           FreshOK(group', changes', onStaleRow', p, page'[p], store'[p], calls'[p], messages')
    BY <2>1, <2>3
  <2> QED BY <1>0, <2>2, <2>4 DEF FreshInv
<1>2. ASSUME NEW p \in Pages, LoadPage(p)
      PROVE  FreshInv'
  <2>1. PICK pg \in PageStates :
              /\ WrittenBy(p, pg, store[p], Ended(calls[p])) /\ messages' = messages
              /\ LoadEffect(p, pg)
    BY <1>2, LoadPageEffect
  <2>2. FreshOK(group, changes, onStaleRow, p, page[p], store[p], calls[p], messages)
    BY DEF FreshInv
  <2>3. ErasedOK(group, p, pg, store[p], Ended(calls[p]), messages)
    BY <1>0, <2>1, <2>2, ErasedByLoad DEF FreshOK
  <2>4. ASSUME ~ onStaleRow
        PROVE  /\ EpochsOK(group, pg, store[p], Ended(calls[p]))
               /\ ApartOK(group, changes, p, pg, store[p], Ended(calls[p]), messages)
    BY <1>0, <2>1, <2>2, <2>4, EpochsByLoad, ApartByLoad DEF FreshOK
  <2>5. NamedOK(p, Ended(calls[p]), messages)
    <3>1. \A c \in Calls : Ended(calls[p])[c].pc \in {"none", "done"}
      BY PageFacts, EndedCalls
    <3> QED BY <2>2, <3>1 DEF FreshOK, NamedOK
  <2>6. OnlyAdds(p)
    BY <2>1 DEF OnlyAdds
  <2>7. FreshOK(group, changes, onStaleRow, p, pg, store[p], Ended(calls[p]), messages')
    BY <2>1, <2>3, <2>4, <2>5 DEF FreshOK
  <2> QED BY <1>0, <2>1, <2>6, <2>7, FreshOnePage
<1>3. ASSUME NEW p \in Pages, NEW t \in page[p].tasks, TaskStep(p, t)
      PROVE  FreshInv'
  <2>1. PICK pg \in PageStates, keys \in [Epochs -> SenderStates], cs \in [Calls -> CallStates] :
              /\ WrittenBy(p, pg, keys, cs) /\ messages' = messages
              /\ TaskEffect(p, t, pg, keys, cs)
    BY <1>3, TaskStepEffect
  <2>2. FreshOK(group, changes, onStaleRow, p, page[p], store[p], calls[p], messages)
    BY DEF FreshInv
  <2>3. ErasedOK(group, p, pg, keys, cs, messages)
    BY <1>0, <2>1, <2>2, ErasedByTask DEF FreshOK
  <2>4. ASSUME ~ onStaleRow
        PROVE  /\ EpochsOK(group, pg, keys, cs)
               /\ ApartOK(group, changes, p, pg, keys, cs, messages)
    BY <1>0, <2>1, <2>2, <2>4, EpochsByTask, ApartByTask DEF FreshOK
  <2>5. NamedOK(p, cs, messages)
    <3>1. \A c \in Calls : Ended(calls[p])[c].pc \in {"none", "done"}
      BY PageFacts, EndedCalls
    <3>2. cs = calls[p] \/ cs = Ended(calls[p])
      BY <2>1 DEF TaskEffect
    <3> QED BY <2>2, <3>1, <3>2 DEF FreshOK, NamedOK
  <2>6. OnlyAdds(p)
    BY <2>1 DEF OnlyAdds
  <2>7. FreshOK(group, changes, onStaleRow, p, pg, keys, cs, messages')
    BY <2>1, <2>3, <2>4, <2>5 DEF FreshOK
  <2> QED BY <1>0, <2>1, <2>6, <2>7, FreshOnePage
<1>4. ASSUME NEW p \in Pages, NEW c \in Calls, CallStep(p, c)
      PROVE  FreshInv'
  <2>1. PICK pg \in PageStates, keys \in [Epochs -> SenderStates], cs \in [Calls -> CallStates] :
              /\ WrittenBy(p, pg, keys, cs) /\ CallEffect(p, c, pg, keys, cs)
    BY <1>4, CallStepEffect
  <2>2. FreshOK(group, changes, onStaleRow, p, page[p], store[p], calls[p], messages)
    BY DEF FreshInv
  <2>3. ErasedOK(group, p, pg, keys, cs, messages')
    BY <1>0, <2>1, <2>2, ErasedByCall DEF FreshOK
  <2>4. ASSUME ~ onStaleRow
        PROVE  /\ EpochsOK(group, pg, keys, cs)
               /\ ApartOK(group, changes, p, pg, keys, cs, messages')
    BY <1>0, <2>1, <2>2, <2>4, EpochsByCall, ApartByCall DEF FreshOK
  <2>5. NamedOK(p, cs, messages')
    BY <2>1, <2>2, NamedByCall
  <2>6. OnlyAdds(p)
    BY <2>1, OthersMessages
  <2>7. FreshOK(group, changes, onStaleRow, p, pg, keys, cs, messages')
    BY <2>3, <2>4, <2>5 DEF FreshOK
  <2> QED BY <1>0, <2>1, <2>6, <2>7, FreshOnePage
<1>5. CASE UNCHANGED vars
  BY <1>0, <1>5 DEF FreshInv, vars
<1> QED BY <1>1, <1>2, <1>3, <1>4, <1>5 DEF GroupNext

\* A message whose sending began after its page had handled a user's removal uses no chain
\* of which the user was sent a message, unless both defences had failed: the clearing of
\* the states and the epoch that they are stored for.
THEOREM ChainsAreFreshAfterRemoval == GroupSpec => []FreshAfterRemoval
<1>1. GroupInit => TypeInv /\ ChainsInv /\ FreshInv
  BY TypeInvInit, ChainsInit, FreshInit
<1>2. TypeInv /\ ChainsInv /\ FreshInv /\ [GroupNext]_vars => (TypeInv /\ ChainsInv /\ FreshInv)'
  BY TypeInvStep, ChainsStep, FreshStep
<1>3. TypeInv /\ FreshInv => FreshAfterRemoval
  <2> SUFFICES ASSUME TypeInv, FreshInv, NEW i \in DOMAIN messages
               PROVE  messages[i].weak \/ messages[i].st.chain \notin messages[i].exposed
    BY DEF FreshAfterRemoval
  <2>1. messages[i].sender \in Pages
    BY MessageFacts
  <2> QED BY <2>1 DEF FreshInv, FreshOK, NamedOK
<1> QED BY <1>1, <1>2, <1>3, PTL DEF GroupSpec
-----------------------------------------------------------------------------
(* Settling.  While requests do not work on stale rows, at most one handover is under way,  *)
(* the creator's, who is out of the group; and a request that has read the epoch which the *)
(* group still has may do what it was permitted to do.                                     *)

StillPermitted ==
    \A c \in Changes : changes[c].pc = "commit" /\ changes[c].epoch = group.epoch =>
        Permitted(changes[c].creator, changes[c].by, changes[c].kind, changes[c].user)

OneHandover ==
    \A c \in Changes : changes[c].pc \in {"handover", "appoint"} =>
        /\ changes[c].kind = "remove" /\ changes[c].user = group.creator
        /\ changes[c].user \notin group.members
        /\ \A d \in Changes : changes[d].pc \in {"handover", "appoint"} => d = c

RowsOrdered == RowsCurrent(group, changes) /\ StillPermitted /\ OneHandover

\* What a request's commit finds, unless it works on a stale row.
LEMMA CommitPermitted ==
    ASSUME TypeInv, StillPermitted, NEW c \in Changes, ChangeCommits(c), ~ onStaleRow',
           changes[c].kind # "meta",
           ~ (changes[c].kind = "add" /\ changes[c].user \in group.members)
    PROVE  /\ changes[c].pc = "commit"
           /\ changes[c].epoch = group.epoch /\ changes[c].creator = group.creator
           /\ Permitted(group.creator, changes[c].by, changes[c].kind, changes[c].user)
BY DEF ChangeCommits, StillPermitted

LEMMA RowsOrderedStep ==
    ASSUME TypeInv, RowsOrdered, NEW c \in Changes, ChangeStep(c), ~ onStaleRow'
    PROVE  RowsOrdered'
<1>1. group \in GroupRows /\ changes \in [Changes -> Requests] /\ group.epoch \in Nat
      /\ \A d \in Changes : changes[d].epoch \in Nat
  BY EpochTypes DEF TypeInv, CreatorInv, RowsShape
<1>2. RowsCurrent(group', changes')
  BY EpochGrows DEF RowsOrdered
<1> SUFFICES StillPermitted' /\ OneHandover'
  BY <1>2 DEF RowsOrdered
<1>3. \A d \in Changes \ {c} : changes'[d] = changes[d]
  BY ChangeEffect
<1>4. StillPermitted /\ OneHandover /\ RowsCurrent(group, changes)
  BY DEF RowsOrdered
<1> DEFINE ch == changes[c]
\* Steps that change neither the members nor a request that another request looks at.
<1>5. ASSUME group'.members = group.members, group'.founder = group.founder,
             group'.epoch = group.epoch,
             group'.creator = group.creator \/ ch.pc = "appoint",
             changes'[c].pc \notin {"handover", "appoint"},
             changes'[c].pc # "commit"
             \/ Permitted(changes'[c].creator, changes'[c].by, changes'[c].kind, changes'[c].user)
      PROVE  StillPermitted' /\ OneHandover'
  <2>1. Participants(group') = Participants(group)
    BY <1>5 DEF Participants
  <2>2. StillPermitted'
    BY <1>3, <1>4, <1>5, <2>1 DEF StillPermitted, Permitted
  <2>3. OneHandover'
    BY <1>3, <1>4, <1>5 DEF OneHandover
  <2> QED BY <2>2, <2>3
<1>6. CASE ChangeStarts(c)
  BY <1>1, <1>5, <1>6 DEF ChangeStarts, Requests
<1>7. ASSUME NEW by \in Users, NEW user \in Users, NEW kind \in ChangeKinds,
             ChangeChecks(c, by, kind, user)
      PROVE  StillPermitted' /\ OneHandover'
  <2>1. /\ changes'[c].pc = "commit" /\ changes'[c].by = by /\ changes'[c].kind = kind
        /\ changes'[c].user = user /\ changes'[c].creator = ch.creator /\ group' = group
    BY <1>1, <1>7 DEF ChangeChecks, Requests
  <2>2. Permitted(ch.creator, by, kind, user)
    BY <1>7 DEF ChangeChecks
  <2>3. Permitted(changes'[c].creator, changes'[c].by, changes'[c].kind, changes'[c].user)
    BY <2>1, <2>2
  <2> QED BY <1>5, <2>1, <2>3
<1>8. CASE ChangeCommits(c)
  <2> DEFINE fails == ch.kind = "add" /\ ch.user \in group.members
  <2>1. CASE fails \/ ch.kind = "meta"
    <3>1. group' = group
      BY <1>8, <2>1 DEF ChangeCommits
    <3>2. changes'[c].pc \in {"done", "announce"}
      BY <1>1, <1>8, <2>1 DEF ChangeCommits, NoChange, Requests
    <3> QED BY <1>5, <3>1, <3>2
  <2>2. CASE ~ fails /\ ch.kind # "meta"
    <3>1. /\ ch.pc = "commit" /\ ch.epoch = group.epoch /\ ch.creator = group.creator
          /\ Permitted(group.creator, ch.by, ch.kind, ch.user)
      BY <1>4, <1>8, <2>2, CommitPermitted
    <3>2. ch.kind \in {"add", "remove"}
      BY <1>1, <2>2 DEF Requests, AllChangeKinds
    <3>3. group'.epoch = group.epoch + 1 /\ group'.creator = group.creator
      BY ZenonT(40), <1>1, <1>8, <2>2, <3>1, <3>2 DEF ChangeCommits, GroupRows
    <3>4. changes'[c].pc \in {"handover", "announce"}
      BY <1>1, <1>8, <2>2, <3>1, <3>2 DEF ChangeCommits, Requests
    <3>5. group'.epoch = group.epoch + 1 /\ changes'[c].pc # "commit"
          /\ group'.creator = group.creator
      BY <3>3, <3>4
    <3>6. StillPermitted'
      BY <1>1, <1>3, <1>4, <3>5 DEF StillPermitted, RowsCurrent
    <3>7. CASE ch.kind = "add"
      <4>1. group'.members = group.members \cup {ch.user} /\ changes'[c].pc = "announce"
        BY <1>1, <1>8, <2>2, <3>7 DEF ChangeCommits, GroupRows, Requests
      <4>2. group.creator # ch.user
        BY <3>1, <3>7 DEF Permitted
      <4> QED BY <1>3, <1>4, <3>5, <3>6, <4>1, <4>2 DEF OneHandover
    <3>8. CASE ch.kind = "remove"
      <4>1. group'.members = group.members \ {ch.user} /\ ch.user \in group.members
        BY <1>1, <1>8, <2>2, <3>1, <3>8 DEF ChangeCommits, GroupRows, Permitted
      <4>2. /\ changes'[c].kind = "remove" /\ changes'[c].user = ch.user
            /\ changes'[c].pc = "handover" => ch.creator = ch.user
        BY <1>1, <1>8, <2>2, <3>8 DEF ChangeCommits, Requests
      <4>3. changes'[c].pc = "handover" =>
               \A d \in Changes : changes[d].pc \notin {"handover", "appoint"}
        BY <1>4, <3>1, <4>1, <4>2 DEF OneHandover
      <4>4. ASSUME NEW d \in Changes, changes'[d].pc \in {"handover", "appoint"}
            PROVE  /\ changes'[d].kind = "remove" /\ changes'[d].user = group'.creator
                   /\ changes'[d].user \notin group'.members
                   /\ \A e \in Changes : changes'[e].pc \in {"handover", "appoint"} => e = d
        <5>1. CASE changes'[c].pc = "handover"
          <6>1. d = c /\ \A e \in Changes : changes'[e].pc \in {"handover", "appoint"} => e = c
            BY <1>3, <4>3, <4>4, <5>1
          <6>2. ch.user = group.creator
            BY <3>1, <4>2, <5>1
          <6> QED BY <3>5, <4>1, <4>2, <6>1, <6>2
        <5>2. CASE changes'[c].pc # "handover"
          <6>1. changes'[c].pc = "announce"
            BY <3>4, <5>2
          <6>2. d # c /\ changes'[d] = changes[d]
            BY <1>3, <4>4, <6>1
          <6>3. /\ changes[d].kind = "remove" /\ changes[d].user = group.creator
                /\ changes[d].user \notin group.members
                /\ \A e \in Changes : changes[e].pc \in {"handover", "appoint"} => e = d
            BY <1>4, <4>4, <6>2 DEF OneHandover
          <6> QED BY <1>3, <3>5, <4>1, <6>1, <6>2, <6>3
        <5> QED BY <5>1, <5>2
      <4>5. OneHandover'
        BY <4>4 DEF OneHandover
      <4> QED BY <3>6, <4>5
    <3>9. ch.kind \in {"add", "remove", "meta"}
      BY <1>1 DEF Requests, AllChangeKinds
    <3> QED BY <2>2, <3>7, <3>8, <3>9
  <2> QED BY <2>1, <2>2
<1>9. CASE ChangeHandsOver(c)
  <2>1. group' = group
    BY <1>9 DEF ChangeHandsOver
  <2>2. /\ ch.pc = "handover" /\ changes'[c].pc \in {"appoint", "announce"}
        /\ changes'[c].kind = ch.kind /\ changes'[c].user = ch.user
    BY <1>1, <1>9, HandsOverFields
  <2>3. StillPermitted'
    BY <1>3, <1>4, <2>1, <2>2 DEF StillPermitted, Permitted, Participants
  <2>4. OneHandover'
    BY <1>3, <1>4, <2>1, <2>2 DEF OneHandover
  <2> QED BY <2>3, <2>4
<1>10. CASE ChangeAppoints(c)
  BY <1>1, <1>5, <1>10, AppointsFields
<1>11. CASE ChangeAnnounces(c)
  BY <1>1, <1>5, <1>11 DEF ChangeAnnounces, NoChange
<1> QED BY <1>6, <1>7, <1>8, <1>9, <1>10, <1>11 DEF ChangeStep

-----------------------------------------------------------------------------
\* A task goes on: what is left of it, and what the loading of the keys has got.
Continues(p, r, t) ==
    /\ Follows(r, t)
    /\ NextStep(t) = "fetchKeys" => r.got = IF p \in Participants(group) THEN group.epoch ELSE 0

\* A step of a task leaves the other tasks of the page alone and goes on with this one, as
\* `rest`.
GoesOnAs(p, t, pg, rest) ==
    /\ pg.open = page[p].open
    /\ \A r \in page[p].tasks : r # t => r \in pg.tasks
    /\ \A r \in pg.tasks : r.kind = "load" => \/ r \in page[p].tasks /\ r # t
                                              \/ r = rest /\ Continues(p, rest, t)
    /\ t.left # 1 /\ ~ (NextStep(t) = "applyKeys" /\ t.got = 0)
       => rest \in pg.tasks /\ Continues(p, rest, t)

GoesOn(p, t, pg) == \E rest \in Tasks : GoesOnAs(p, t, pg, rest)

Left(pg) == ~ pg.open /\ ~ pg.listening /\ pg.tasks = {}

LEMMA MovesGoesOn ==
    ASSUME TypeInv, NEW p \in Pages, NEW t \in page[p].tasks, NEW t2 \in Tasks,
           t2.left = t.left, t2.kind = t.kind, t2.change = t.change, t2.user = t.user,
           t2.epoch = t.epoch,
           NextStep(t) = "fetchKeys"
           => t2.got = IF p \in Participants(group) THEN group.epoch ELSE 0
    PROVE  GoesOn(p, t, Moves(page[p], t, t2))
<1> DEFINE rest == [t2 EXCEPT !.left = @ - 1]
<1>1. page[p] \in PageStates /\ t \in Tasks /\ TaskOK(page[p], t)
  BY PageFacts DEF PageOK
<1>2. PICK m : m = Moves(page[p], t, t2)
  OBVIOUS
<1>3. PICK pg : pg = page[p]
  OBVIOUS
<1>4. /\ m \in PageStates
      /\ m.open = pg.open /\ m.listening = pg.listening /\ m.loads = pg.loads
      /\ m.epoch = pg.epoch /\ m.bundles = pg.bundles /\ m.chains = pg.chains
      /\ m.straddled = pg.straddled /\ m.wentBack = pg.wentBack
      /\ m.refused = pg.refused /\ m.crossed = pg.crossed
      /\ m.tasks = (pg.tasks \ {t}) \cup (IF t.left = 1 THEN {} ELSE {rest})
      /\ t.left # 1 => Follows(rest, t) /\ rest.got = t2.got
      /\ m.handled = IF t.left = 1 /\ group.leftBy[t.user] = t.change
                     THEN pg.handled \cup ({t.change} \ {0}) ELSE pg.handled
  BY <1>1, <1>2, <1>3, MovesFields
<1>5. rest \in Tasks
  <2>1. t.left \in 1..5
    BY <1>1 DEF TaskOK, Tasks
  <2> QED BY <2>1 DEF Tasks
<1> HIDE DEF rest
<1>6. t.left # 1 => Continues(p, rest, t)
  BY <1>4 DEF Continues
<1>7. \A r \in pg.tasks : r # t => r \in m.tasks
  BY <1>4
<1>8. \A r \in m.tasks : \/ r \in pg.tasks /\ r # t
                         \/ t.left # 1 /\ r = rest
  BY <1>4
<1>9. t.left # 1 => rest \in m.tasks
  BY <1>4
<1>10. GoesOnAs(p, t, m, rest)
  BY <1>3, <1>4, <1>6, <1>7, <1>8, <1>9 DEF GoesOnAs
<1> QED BY <1>2, <1>5, <1>10 DEF GoesOn

\* It depends only on whether the page is open and on its tasks, apart from refreshes.
LEMMA GoesOnAlike ==
    ASSUME NEW p, NEW t, NEW m, NEW pg, GoesOn(p, t, m), pg.open = m.open,
           m.tasks \subseteq pg.tasks,
           \A r \in pg.tasks : r \in m.tasks \/ r.kind # "load"
    PROVE  GoesOn(p, t, pg)
BY DEF GoesOn, GoesOnAs

LEMMA TaskGoesOn ==
    ASSUME TypeInv, NEW p \in Pages, NEW t \in page[p].tasks, TaskStep(p, t)
    PROVE  IF NextStep(t) = "leave" THEN Left(page'[p]) ELSE GoesOn(p, t, page'[p])
<1> USE GroupAssumption
<1>1. /\ page[p] \in PageStates /\ t \in Tasks /\ page \in [Pages -> PageStates]
  BY PageFacts DEF TypeInv, PageTypes
<1>2. 0 \in 0..(MaxChanges + 1)
  OBVIOUS
<1>3. PICK m : m = Moves(page[p], t, t)
  OBVIOUS
<1>4. Moved(m, page[p], t, t.got)
  BY <1>1, <1>3, MovesMoved
<1>5. NextStep(t) # "fetchKeys" => GoesOn(p, t, m)
  BY <1>1, <1>3, MovesGoesOn
<1>6. CASE ClearSenderStates(p, t)
  <2>1. PICK b \in BOOLEAN : b = \E c \in Calls : calls[p][c].pc = "encrypt"
    OBVIOUS
  <2>2. page'[p] = [m EXCEPT !.straddled = b] /\ NextStep(t) = "clear"
    BY <1>1, <1>3, <1>6, <2>1 DEF ClearSenderStates
  <2>3. page'[p].open = m.open /\ page'[p].tasks = m.tasks
    BY <1>4, <2>2 DEF Moved, PageStates
  <2> QED BY <1>5, <2>2, <2>3, GoesOnAlike
<1>7. CASE ApplyEvent(p, t)
  <2>1. page'[p] = WithEpoch(m, t.epoch) /\ NextStep(t) = "apply"
    BY <1>1, <1>3, <1>7 DEF ApplyEvent
  <2>2. t.epoch \in 0..(MaxChanges + 1)
    BY <1>1 DEF Tasks
  <2>3. page'[p].open = m.open /\ page'[p].tasks = m.tasks
    BY <1>4, <2>1, <2>2, WithEpochFields DEF Moved
  <2> QED BY <1>5, <2>1, <2>3, GoesOnAlike
<1>8. CASE ServerAnswers(p, t)
  <2> DEFINE access == p \in Participants(group)
  <2>1. PICK got \in 0..(MaxChanges + 1) : got = IF access THEN group.epoch ELSE 0
    BY RowFields DEF Epochs
  <2>2. PICK bs \in SUBSET Users :
           bs = IF access /\ NextStep(t) = "fetchKeys" THEN Participants(group) \ {p} ELSE {}
    BY RowFields
  <2>3. PICK t2 : t2 = [t EXCEPT !.got = got, !.bundles = bs]
    OBVIOUS
  <2>4. /\ t2 \in Tasks /\ t2.left = t.left /\ t2.kind = t.kind /\ t2.change = t.change
        /\ t2.user = t.user /\ t2.epoch = t.epoch /\ t2.got = got
    BY <1>1, <2>3 DEF Tasks
  <2>5. page'[p] = Moves(page[p], t, t2) /\ NextStep(t) \in {"fetch", "fetchKeys"}
    BY <1>1, <1>8, <2>1, <2>2, <2>3 DEF ServerAnswers
  <2>6. GoesOn(p, t, Moves(page[p], t, t2))
    BY <2>1, <2>4, MovesGoesOn
  <2> QED BY <2>5, <2>6
<1>9. CASE SettleDetails(p, t)
  <2>1. PICK t2 : t2 = [t EXCEPT !.got = 0]
    OBVIOUS
  <2>2. /\ t2 \in Tasks /\ t2.left = t.left /\ t2.kind = t.kind /\ t2.change = t.change
        /\ t2.user = t.user /\ t2.epoch = t.epoch /\ t2.got = 0
    BY <1>1, <1>2, <2>1 DEF Tasks
  <2>3. PICK n : n = Moves(page[p], t, t2)
    OBVIOUS
  <2>4. NextStep(t) = "settle"
    BY <1>9 DEF SettleDetails
  <2>5. GoesOn(p, t, n) /\ Moved(n, page[p], t, 0)
    BY <2>2, <2>3, <2>4, MovesGoesOn, MovesMoved
  <2>6. page'[p].open = n.open /\ page'[p].tasks = n.tasks
    <3>1. CASE t.got = 0
      <4> DEFINE b == n.refused \/ (t.kind = "memberRemoved" /\ t.left = 1)
      <4>1. page'[p] = [n EXCEPT !.refused = b]
        BY <1>1, <1>9, <2>1, <2>3, <3>1 DEF SettleDetails
      <4> HIDE DEF b
      <4> QED BY <2>5, <4>1 DEF Moved, PageStates
    <3>2. CASE t.got # 0
      <4>1. page'[p] = WithEpoch(n, t.got)
        BY <1>1, <1>9, <2>1, <2>3, <3>2 DEF SettleDetails
      <4>2. t.got \in 0..(MaxChanges + 1)
        BY <1>1 DEF Tasks
      <4> QED BY <2>5, <4>1, <4>2, WithEpochFields DEF Moved
    <3> QED BY <3>1, <3>2
  <2> QED BY <2>4, <2>5, <2>6, GoesOnAlike
<1>10. CASE ApplyKeys(p, t)
  <2>1. NextStep(t) = "applyKeys"
    BY <1>10 DEF ApplyKeys
  <2>2. CASE t.got = 0
    <3>1. page'[p] = [page[p] EXCEPT !.tasks = page[p].tasks \ {t}]
      BY <1>1, <1>10, <2>2 DEF ApplyKeys
    <3>2. page'[p].open = page[p].open /\ page'[p].tasks = page[p].tasks \ {t}
      BY <1>1, <3>1 DEF PageStates
    <3>3. GoesOnAs(p, t, page'[p], t)
      BY <2>1, <2>2, <3>2 DEF GoesOnAs
    <3> QED BY <1>1, <2>1, <3>3 DEF GoesOn
  <2>3. CASE t.got # 0
    <3>1. PICK none \in SUBSET Users : none = {}
      OBVIOUS
    <3>2. PICK t2 : t2 = [t EXCEPT !.got = 0, !.bundles = none]
      OBVIOUS
    <3>3. /\ t2 \in Tasks /\ t2.left = t.left /\ t2.kind = t.kind /\ t2.change = t.change
          /\ t2.user = t.user /\ t2.epoch = t.epoch /\ t2.got = 0
      BY <1>1, <1>2, <3>2 DEF Tasks
    <3>4. PICK n : n = Moves(page[p], t, t2)
      OBVIOUS
    <3>5. GoesOn(p, t, n) /\ Moved(n, page[p], t, 0)
      BY <2>1, <3>3, <3>4, MovesGoesOn, MovesMoved
    <3>6. PICK kinds : kinds = IF t.kind = "load" THEN {"refresh"} \cap TaskKinds ELSE {}
      OBVIOUS
    <3>7. PICK w : w = WithEpoch(n, t.got)
      OBVIOUS
    <3>8. t.got \in 0..(MaxChanges + 1)
      BY <1>1 DEF Tasks
    <3>9. w \in PageStates /\ w.open = n.open /\ w.tasks = n.tasks
      BY <3>5, <3>7, <3>8, WithEpochFields DEF Moved
    <3>10. page'[p] = [w EXCEPT !.bundles = t.bundles,
                                !.tasks = n.tasks \cup {LoadTask(kind) : kind \in kinds}]
      BY <1>1, <1>10, <2>3, <3>1, <3>2, <3>4, <3>6, <3>7 DEF ApplyKeys
    <3>11. /\ page'[p].open = w.open
           /\ page'[p].tasks = n.tasks \cup {LoadTask(kind) : kind \in kinds}
      BY <3>9, <3>10 DEF PageStates
    <3>12. \A kind \in kinds : LoadTask(kind).kind = "refresh"
      BY <3>6 DEF LoadTask
    <3> QED BY <2>1, <3>5, <3>9, <3>11, <3>12, GoesOnAlike
  <2> QED BY <2>2, <2>3
<1>11. CASE ListenOnChat(p, t)
  <2> DEFINE b == p \in group.members \cup {group.founder}
  <2>2. page'[p] = [m EXCEPT !.listening = b] /\ NextStep(t) = "listen"
    BY <1>1, <1>3, <1>11 DEF ListenOnChat
  <2> HIDE DEF b
  <2>3. page'[p].open = m.open /\ page'[p].tasks = m.tasks
    BY <1>4, <2>2 DEF Moved, PageStates
  <2> QED BY <1>5, <2>2, <2>3, GoesOnAlike
<1>12. CASE AppendBundles(p, t)
  <2>1. PICK bs : bs = page[p].bundles \cup {t.user}
    OBVIOUS
  <2>2. page'[p] = [m EXCEPT !.bundles = bs] /\ NextStep(t) = "append"
    BY <1>1, <1>3, <1>12, <2>1 DEF AppendBundles
  <2>3. page'[p].open = m.open /\ page'[p].tasks = m.tasks
    BY <1>4, <2>2 DEF Moved, PageStates
  <2> QED BY <1>5, <2>2, <2>3, GoesOnAlike
<1>13. CASE LeavePage(p, t)
  <2>1. page'[p] = [page[p] EXCEPT !.open = FALSE, !.listening = FALSE, !.epoch = 0,
                                   !.bundles = {}, !.tasks = {}]
        /\ NextStep(t) = "leave"
    BY <1>1, <1>13 DEF LeavePage
  <2> QED BY <1>1, <2>1 DEF Left, PageStates
<1> QED BY <1>6, <1>7, <1>8, <1>9, <1>10, <1>11, <1>12, <1>13 DEF TaskStep

-----------------------------------------------------------------------------
(* A page settles: it has the group's epoch, or something that gives it to the page is on  *)
(* its way, or the page is not on the chat.                                                *)

\* The change that made the group's epoch is still to be announced.
ToAnnounce(g, chs, c) ==
    /\ chs[c].pc \in {"handover", "appoint", "announce"}
    /\ chs[c].kind # "meta" /\ chs[c].epoch = g.epoch

\* Tasks that will give the page epoch e.
Informs(t, e) ==
    /\ t.epoch = e
    /\ \/ t.kind = "userUpdated"
       \/ t.kind = "userAdded" /\ t.left >= 3

Unasked(t) == t.kind = "load" /\ t.left = 4

Brings(t, e) == t.kind = "load" /\ t.left = 3 /\ t.got = e

Aware(g, chs, pg) ==
    \/ pg.epoch = g.epoch
    \/ \E c \in Changes : ToAnnounce(g, chs, c)
    \/ \E t \in pg.tasks : Informs(t, g.epoch) \/ Unasked(t) \/ Brings(t, g.epoch)

\* Refused by the server, about to be told so, told so, or about to be told of the removal.
Gone(chs, p, pg) ==
    \/ /\ ~ pg.listening
       /\ \A t \in pg.tasks : t.kind = "load" => t.left = 3 /\ t.got = 0
    \/ \E t \in pg.tasks : t.kind = "userDeleted"
    \/ \E c \in Changes : Announcing(chs, c, p)

\* When everybody had left, the founder took part again, and lost that by adding a user.
FounderOutside(g, chs, p) ==
    /\ p = g.founder /\ p = g.creator
    /\ \E u \in Users : g.members = {u}
    /\ \A c \in Changes : ToAnnounce(g, chs, c) => chs[c].by = p /\ chs[c].kind = "add"

\* Loading keeps a page off the chat socket, and a page loads once at a time.
LoadsApart(pg) ==
    /\ ~ pg.open => ~ pg.listening /\ pg.tasks = {}
    /\ \A t \in pg.tasks : t.kind = "load" =>
          /\ ~ pg.listening
          /\ \A r \in pg.tasks : r.kind = "load" => r = t

Settles(g, chs, p, pg) ==
    pg.open /\ ~ pg.wentBack =>
        /\ Aware(g, chs, pg) \/ Gone(chs, p, pg)
        /\ \/ p \in Participants(g)
           \/ Gone(chs, p, pg)
           \/ FounderOutside(g, chs, p)
           \/ \E t \in pg.tasks : Unasked(t)

-----------------------------------------------------------------------------
LEMMA UserDeletedLeaves ==
    ASSUME NEW t \in Tasks, t.kind = "userDeleted", t.left = 1
    PROVE  NextStep(t) = "leave"
BY DEF Script, NextStep

LEMMA LoadsApartByTask ==
    ASSUME TypeInv, NEW p \in Pages, NEW t \in page[p].tasks, TaskStep(p, t),
           NEW pg, NEW keys, NEW cs, TaskEffect(p, t, pg, keys, cs), pg = page'[p],
           LoadsApart(page[p])
    PROVE  LoadsApart(pg)
<1>1. t \in Tasks /\ TaskOK(page[p], t) /\ t.left \in 1..Len(Script[t.kind]) /\ t.left \in Nat
  BY PageFacts DEF PageOK, TaskOK, Tasks
<1>2. CASE NextStep(t) = "leave"
  BY <1>2, TaskGoesOn DEF Left, LoadsApart
<1>3. CASE NextStep(t) # "leave"
  <2>1. PICK rest \in Tasks : GoesOnAs(p, t, pg, rest)
    BY <1>3, TaskGoesOn DEF GoesOn
  <2>2. page[p].open
    BY DEF LoadsApart
  <2>3. ASSUME NEW r \in pg.tasks, r.kind = "load"
        PROVE  /\ ~ pg.listening
               /\ \A s \in pg.tasks : s.kind = "load" => s = r
    <3>1. CASE t.kind = "load" /\ t.left = 1
      <4>1. r \in page[p].tasks /\ r # t
        BY <1>1, <2>1, <2>3, <3>1 DEF GoesOnAs, Continues, Follows
      <4> QED BY <3>1, <2>3, <4>1 DEF LoadsApart
    <3>2. CASE t.kind = "load" /\ t.left # 1
      <4>1. NextStep(t) # "listen" /\ ~ page[p].listening
        BY <1>1, <3>2, ScriptSteps DEF LoadsApart
      <4>2. ~ pg.listening
        BY <4>1 DEF TaskEffect
      <4>3. \A s \in pg.tasks : s.kind = "load" => s = rest
        BY <2>1, <3>2 DEF GoesOnAs, LoadsApart
      <4> QED BY <2>3, <4>2, <4>3
    <3>3. CASE t.kind # "load"
      <4>1. \A s \in pg.tasks : s.kind = "load" => s \in page[p].tasks
        BY <2>1, <3>3 DEF GoesOnAs, Continues, Follows
      <4>2. NextStep(t) # "listen"
        BY <1>1, <3>3, ScriptSteps
      <4>3. pg.listening => page[p].listening
        BY <4>2 DEF TaskEffect
      <4> QED BY <2>3, <4>1, <4>3 DEF LoadsApart
    <3> QED BY <3>1, <3>2, <3>3
  <2> QED BY <2>1, <2>2, <2>3 DEF LoadsApart, GoesOnAs
<1> QED BY <1>2, <1>3

LEMMA AwareByTask ==
    ASSUME TypeInv, NEW p \in Pages, NEW t \in page[p].tasks, TaskStep(p, t),
           NEW pg, NEW keys, NEW cs, TaskEffect(p, t, pg, keys, cs), pg = page'[p],
           LoadsApart(page[p]), pg.open, ~ pg.wentBack, pg.epoch \in Nat,
           pg.epoch <= group.epoch, Aware(group, changes, page[p])
    PROVE  Aware(group, changes, pg) \/ Gone(changes, p, pg)
<1>1. /\ t \in Tasks /\ TaskOK(page[p], t) /\ t.left \in 1..Len(Script[t.kind])
      /\ t.left \in 1..5
  BY PageFacts DEF PageOK, TaskOK, Tasks
<1>2. group.epoch \in Nat /\ group.epoch # 0 /\ page[p].epoch \in Nat
  BY EpochTypes, RowFields DEF Epochs
<1>3. NextStep(t) # "leave"
  BY TaskGoesOn DEF Left
<1>4. PICK rest \in Tasks : GoesOnAs(p, t, pg, rest)
  BY <1>3, TaskGoesOn DEF GoesOn
<1>5. CASE page[p].epoch = group.epoch
  <2>1. page[p].epoch <= pg.epoch
    BY <1>3 DEF TaskEffect
  <2>2. pg.epoch = group.epoch
    BY <1>2, <1>5, <2>1
  <2> QED BY <2>2 DEF Aware
<1>6. ASSUME NEW c \in Changes, ToAnnounce(group, changes, c)
      PROVE  Aware(group, changes, pg)
  BY <1>6 DEF Aware
<1>7. ASSUME NEW r \in page[p].tasks, r # t,
             Informs(r, group.epoch) \/ Unasked(r) \/ Brings(r, group.epoch)
      PROVE  Aware(group, changes, pg)
  <2>1. r \in pg.tasks
    BY <1>4, <1>7 DEF GoesOnAs
  <2> QED BY <1>7, <2>1 DEF Aware
<1>8. CASE Informs(t, group.epoch)
  <2>1. CASE NextStep(t) = "apply"
    <3>1. pg.epoch = group.epoch
      BY <1>8, <2>1 DEF TaskEffect, Informs
    <3> QED BY <3>1 DEF Aware
  <2>2. CASE NextStep(t) # "apply"
    <3>1. /\ t.kind = "userUpdated" => t.left # 1
          /\ t.kind = "userAdded" => t.left \in {4, 5}
      BY <1>1, <1>8, <2>2, ScriptSteps DEF Informs
    <3>2. NextStep(t) # "applyKeys" /\ t.left # 1
      BY <1>1, <1>8, <3>1, ScriptSteps DEF Informs
    <3>3. rest \in pg.tasks /\ Follows(rest, t)
      BY <1>4, <3>2 DEF GoesOnAs, Continues
    <3>4. Informs(rest, group.epoch)
      BY <1>1, <1>8, <3>1, <3>3 DEF Informs, Follows
    <3> QED BY <3>3, <3>4 DEF Aware
  <2> QED BY <2>1, <2>2
<1>9. CASE Unasked(t)
  <2>1. NextStep(t) = "fetchKeys" /\ t.left = 4
    BY <1>1, <1>9, ScriptSteps DEF Unasked
  <2>2. rest \in pg.tasks /\ Continues(p, rest, t)
    BY <1>4, <2>1 DEF GoesOnAs
  <2>3. rest.kind = "load" /\ rest.left = 3
    BY <1>9, <2>1, <2>2 DEF Continues, Follows, Unasked
  <2>4. CASE p \in Participants(group)
    <3>1. Brings(rest, group.epoch)
      BY <2>1, <2>2, <2>3, <2>4 DEF Continues, Brings
    <3> QED BY <2>2, <3>1 DEF Aware
  <2>5. CASE p \notin Participants(group)
    <3>1. rest.got = 0
      BY <2>1, <2>2, <2>5 DEF Continues
    <3>2. LoadsApart(pg)
      BY LoadsApartByTask
    <3> QED BY <2>2, <2>3, <3>1, <3>2 DEF Gone, LoadsApart
  <2> QED BY <2>4, <2>5
<1>10. CASE Brings(t, group.epoch)
  <2>1. NextStep(t) = "applyKeys" /\ t.got # 0
    BY <1>1, <1>2, <1>10, ScriptSteps DEF Brings
  <2>2. pg.epoch = group.epoch
    BY <1>10, <2>1 DEF TaskEffect, Brings
  <2> QED BY <2>2 DEF Aware
<1> QED BY <1>5, <1>6, <1>7, <1>8, <1>9, <1>10 DEF Aware

LEMMA GoneByTask ==
    ASSUME TypeInv, NEW p \in Pages, NEW t \in page[p].tasks, TaskStep(p, t),
           NEW pg, NEW keys, NEW cs, TaskEffect(p, t, pg, keys, cs), pg = page'[p],
           pg.open, Gone(changes, p, page[p])
    PROVE  Gone(changes, p, pg)
<1>1. /\ t \in Tasks /\ TaskOK(page[p], t) /\ t.left \in 1..Len(Script[t.kind])
      /\ t.left \in 1..5
  BY PageFacts DEF PageOK, TaskOK, Tasks
<1>2. NextStep(t) # "leave"
  BY TaskGoesOn DEF Left
<1>3. PICK rest \in Tasks : GoesOnAs(p, t, pg, rest)
  BY <1>2, TaskGoesOn DEF GoesOn
<1>4. ASSUME ~ page[p].listening,
             \A r \in page[p].tasks : r.kind = "load" => r.left = 3 /\ r.got = 0
      PROVE  Gone(changes, p, pg)
  <2>1. t.kind = "load" => NextStep(t) = "applyKeys" /\ t.got = 0
    BY <1>1, <1>4, ScriptSteps
  <2>2. NextStep(t) # "listen"
    BY <1>1, <2>1, ScriptSteps
  <2>3. ~ pg.listening
    BY <1>4, <2>2 DEF TaskEffect
  <2>4. ASSUME NEW r \in pg.tasks, r.kind = "load"
        PROVE  r \in page[p].tasks
    BY <2>1, <2>4 DEF TaskEffect, Follows
  <2> QED BY <1>4, <2>3, <2>4 DEF Gone
<1>5. ASSUME NEW r \in page[p].tasks, r.kind = "userDeleted"
      PROVE  \E s \in pg.tasks : s.kind = "userDeleted"
  <2>1. CASE r # t
    BY <1>3, <1>5, <2>1 DEF GoesOnAs
  <2>2. CASE r = t
    <3>1. t.left # 1 /\ NextStep(t) # "applyKeys"
      BY <1>1, <1>2, <1>5, <2>2, UserDeletedLeaves, ScriptSteps
    <3> QED BY <1>3, <1>5, <2>2, <3>1 DEF GoesOnAs, Continues, Follows
  <2> QED BY <2>1, <2>2
<1> QED BY <1>4, <1>5 DEF Gone

LEMMA SettlesByTask ==
    ASSUME TypeInv, NEW p \in Pages, NEW t \in page[p].tasks, TaskStep(p, t),
           NEW pg, NEW keys, NEW cs, TaskEffect(p, t, pg, keys, cs), pg = page'[p],
           LoadsApart(page[p]), pg.epoch \in Nat, pg.epoch <= group.epoch,
           Settles(group, changes, p, page[p])
    PROVE  Settles(group, changes, p, pg)
<1> SUFFICES ASSUME pg.open, ~ pg.wentBack
             PROVE  /\ Aware(group, changes, pg) \/ Gone(changes, p, pg)
                    /\ \/ p \in Participants(group)
                       \/ Gone(changes, p, pg)
                       \/ FounderOutside(group, changes, p)
                       \/ \E r \in pg.tasks : Unasked(r)
  BY DEF Settles
<1>1. /\ t \in Tasks /\ TaskOK(page[p], t) /\ t.left \in 1..Len(Script[t.kind])
  BY PageFacts DEF PageOK, TaskOK
<1>2. NextStep(t) # "leave"
  BY TaskGoesOn DEF Left
<1>3. PICK rest \in Tasks : GoesOnAs(p, t, pg, rest)
  BY <1>2, TaskGoesOn DEF GoesOn
<1>4. page[p].open /\ ~ page[p].wentBack
  BY <1>3 DEF GoesOnAs, TaskEffect
<1>5. Aware(group, changes, pg) \/ Gone(changes, p, pg)
  BY <1>4, AwareByTask, GoneByTask DEF Settles
<1>6. ASSUME NEW r \in page[p].tasks, Unasked(r), p \notin Participants(group)
      PROVE  Gone(changes, p, pg) \/ \E s \in pg.tasks : Unasked(s)
  <2>1. CASE r # t
    BY <1>3, <1>6, <2>1 DEF GoesOnAs
  <2>2. CASE r = t
    <3>1. NextStep(t) = "fetchKeys" /\ t.left = 4
      BY <1>1, <1>6, <2>2, ScriptSteps DEF Unasked
    <3>2. rest \in pg.tasks /\ Continues(p, rest, t)
      BY <1>3, <3>1 DEF GoesOnAs
    <3>3. rest.kind = "load" /\ rest.left = 3 /\ rest.got = 0
      BY <1>6, <2>2, <3>1, <3>2 DEF Continues, Follows, Unasked
    <3>4. LoadsApart(pg)
      BY LoadsApartByTask
    <3> QED BY <3>2, <3>3, <3>4 DEF Gone, LoadsApart
  <2> QED BY <2>1, <2>2
<1> QED BY <1>4, <1>5, <1>6, GoneByTask DEF Settles

\* A page that is loaded has its keys to ask for.
LEMMA SettlesByLoad ==
    ASSUME TypeInv, NEW p \in Pages, LoadPage(p)
    PROVE  LoadsApart(page'[p]) /\ Settles(group, changes, p, page'[p])
<1>1. page[p] \in PageStates /\ page \in [Pages -> PageStates]
  BY PageFacts DEF TypeInv, PageTypes
<1>2. PICK t : t = LoadTask("load")
  OBVIOUS
<1>3. t.kind = "load" /\ t.left = 4
  BY <1>2 DEF LoadTask, Script
<1>4. PICK n : n = page[p].loads + 1
  OBVIOUS
<1>5. page'[p] = [page[p] EXCEPT !.open = TRUE, !.listening = FALSE, !.loads = n,
                                 !.epoch = 0, !.bundles = {}, !.tasks = {t}]
  BY <1>1, <1>2, <1>4 DEF LoadPage
<1>6. page'[p].open /\ ~ page'[p].listening /\ page'[p].tasks = {t}
  BY <1>1, <1>5 DEF PageStates
<1>7. Unasked(t)
  BY <1>3 DEF Unasked
<1>8. LoadsApart(page'[p])
  BY <1>6 DEF LoadsApart
<1>9. Aware(group, changes, page'[p]) /\ \E r \in page'[p].tasks : Unasked(r)
  BY <1>6, <1>7 DEF Aware
<1> QED BY <1>8, <1>9 DEF Settles

\* Whether a page is open is not changed by a call.
LEMMA CallsKeepOpen ==
    ASSUME TypeInv, NEW p \in Pages, NEW c \in Calls, CallStep(p, c)
    PROVE  page'[p].open = page[p].open /\ (page'[p].listening => page[p].listening)
<1>1. page[p] \in PageStates /\ page \in [Pages -> PageStates]
  BY PageFacts DEF TypeInv, PageTypes
<1>2. CASE CallStarts(p, c)
  <2>1. PICK b : b = (page[p].crossed \/ \E d \in Calls : InFlight(p, d))
    OBVIOUS
  <2>2. page'[p] = [page[p] EXCEPT !.crossed = b]
    BY <1>1, <1>2, <2>1 DEF CallStarts
  <2> QED BY <1>1, <2>2 DEF PageStates
<1>3. CASE CreateSenderState(p, c)
  <2>1. page'[p] = [page[p] EXCEPT !.chains = page[p].chains + 1]
    BY <1>1, <1>3 DEF CreateSenderState
  <2> QED BY <1>1, <2>1 DEF PageStates
<1>4. CASE MessageArrives(p, c)
  <2>1. PICK b \in BOOLEAN : b = (page[p].listening /\ p \in Participants(group))
    OBVIOUS
  <2>2. page'[p] = [page[p] EXCEPT !.listening = b]
    BY <1>1, <1>4, <2>1 DEF MessageArrives
  <2>3. page'[p].open = page[p].open /\ page'[p].listening = b
    BY <1>1, <2>2 DEF PageStates
  <2> QED BY <2>1, <2>3
<1>5. CASE page' = page
  BY <1>5
<1> QED BY <1>2, <1>3, <1>4, <1>5 DEF CallStep, ReadSenderState, SaveSenderState

LEMMA SettlesByCall ==
    ASSUME NEW p, NEW pg, NEW old, LoadsApart(old), Settles(group, changes, p, old),
           pg.open = old.open, pg.listening => old.listening,
           pg.tasks = old.tasks, pg.epoch = old.epoch, pg.wentBack = old.wentBack
    PROVE  LoadsApart(pg) /\ Settles(group, changes, p, pg)
<1>1. LoadsApart(pg)
  BY DEF LoadsApart
<1>2. Aware(group, changes, old) => Aware(group, changes, pg)
  BY DEF Aware
<1>3. Gone(changes, p, old) => Gone(changes, p, pg)
  BY DEF Gone
<1> QED BY <1>1, <1>2, <1>3 DEF Settles

-----------------------------------------------------------------------------
\* What a change that is neither committed nor announced now leaves as it was.
LEMMA SettlesUnchanged ==
    ASSUME NEW c \in Changes, NEW p \in Pages, NEW pg,
           \A d \in Changes \ {c} : changes'[d] = changes[d],
           group'.members = group.members, group'.founder = group.founder,
           group'.epoch = group.epoch, group'.creator = group.creator,
           changes[c].pc \notin {"handover", "appoint", "announce"},
           \/ changes'[c].pc \notin {"handover", "appoint", "announce"}
           \/ changes'[c].kind = "meta",
           Settles(group, changes, p, pg)
    PROVE  Settles(group', changes', p, pg)
<1>1. Participants(group') = Participants(group)
  BY DEF Participants
<1>2. \A d \in Changes : ToAnnounce(group', changes', d)
                         <=> ToAnnounce(group, changes, d) /\ d # c
  BY DEF ToAnnounce
<1>3. \A d \in Changes : ToAnnounce(group, changes, d) => d # c
  BY DEF ToAnnounce
<1>4. \A d \in Changes : Announcing(changes, d, p) => Announcing(changes', d, p)
  BY DEF Announcing
<1>5. Aware(group, changes, pg) => Aware(group', changes', pg)
  BY <1>2, <1>3 DEF Aware
<1>6. Gone(changes, p, pg) => Gone(changes', p, pg)
  BY <1>4 DEF Gone
<1>7. FounderOutside(group, changes, p) => FounderOutside(group', changes', p)
  BY <1>2 DEF FounderOutside
<1> QED BY <1>1, <1>5, <1>6, <1>7 DEF Settles

\* A committed change of members is still to be announced to everybody.
LEMMA SettlesByCommit ==
    ASSUME TypeInv, RowsOrdered, NEW c \in Changes, ChangeCommits(c), ~ onStaleRow',
           changes[c].kind # "meta",
           ~ (changes[c].kind = "add" /\ changes[c].user \in group.members),
           NEW p \in Pages, NEW pg, Settles(group, changes, p, pg)
    PROVE  Settles(group', changes', p, pg)
<1> DEFINE ch == changes[c]
<1>1. group \in GroupRows /\ changes \in [Changes -> Requests] /\ group.epoch \in Nat
      /\ \A d \in Changes : changes[d].epoch \in Nat
  BY EpochTypes DEF TypeInv, CreatorInv, RowsShape
<1>2. \A d \in Changes \ {c} : changes'[d] = changes[d]
  BY <1>1 DEF ChangeCommits
<1>3. /\ ch.pc = "commit" /\ ch.epoch = group.epoch /\ ch.creator = group.creator
      /\ Permitted(group.creator, ch.by, ch.kind, ch.user)
  BY CommitPermitted DEF RowsOrdered
<1>4. ch.kind \in {"add", "remove"}
  BY <1>1 DEF Requests, AllChangeKinds
<1>5. /\ group'.epoch = group.epoch + 1 /\ group'.creator = group.creator
      /\ group'.founder = group.founder
      /\ group'.members = IF ch.kind = "add" THEN group.members \cup {ch.user}
                          ELSE group.members \ {ch.user}
  BY <1>1, <1>3, <1>4 DEF ChangeCommits, GroupRows
<1>6. /\ changes'[c].pc \in {"handover", "announce"} /\ changes'[c].epoch = ch.epoch + 1
      /\ changes'[c].kind = ch.kind /\ changes'[c].user = ch.user /\ changes'[c].by = ch.by
  BY <1>1, <1>3, <1>4 DEF ChangeCommits, Requests
<1>7. ToAnnounce(group', changes', c)
  BY <1>3, <1>4, <1>5, <1>6 DEF ToAnnounce
<1>8. Aware(group', changes', pg)
  BY <1>7 DEF Aware
<1>9. Gone(changes, p, pg) => Gone(changes', p, pg)
  <2>1. \A d \in Changes : Announcing(changes, d, p) => Announcing(changes', d, p)
    BY <1>2, <1>3 DEF Announcing
  <2> QED BY <2>1 DEF Gone
<1>10. ASSUME pg.open, ~ pg.wentBack, p \notin Participants(group')
       PROVE  \/ Gone(changes', p, pg)
              \/ FounderOutside(group', changes', p)
              \/ \E t \in pg.tasks : Unasked(t)
  <2>1. \/ p \in Participants(group)
        \/ Gone(changes, p, pg)
        \/ FounderOutside(group, changes, p)
        \/ \E t \in pg.tasks : Unasked(t)
    BY <1>10 DEF Settles
  <2>2. CASE ch.kind = "add"
    <3>1. ch.by = group.creator /\ ch.by \in Participants(group)
      BY <1>3, <2>2 DEF Permitted
    <3>2. group'.members = group.members \cup {ch.user}
      BY <1>5, <2>2
    <3>3. ASSUME FounderOutside(group, changes, p)
          PROVE  p \in Participants(group')
      <4>1. group.members # {} /\ p = group.creator
        BY <3>3 DEF FounderOutside
      <4> QED BY <3>1, <3>2, <4>1 DEF Participants
    <3>4. ASSUME p \in Participants(group)
          PROVE  FounderOutside(group', changes', p)
      <4>1. group.members = {} /\ p = group.founder
        BY <1>10, <3>2, <3>4 DEF Participants
      <4>2. p = ch.by /\ group'.members = {ch.user} /\ ch.user \in Users
        BY <1>1, <3>1, <3>2, <4>1 DEF Participants, Requests
      <4>3. ASSUME NEW d \in Changes, ToAnnounce(group', changes', d)
            PROVE  d = c
        <5>1. d # c => changes[d].epoch = group.epoch + 1
          BY <1>2, <1>5, <4>3 DEF ToAnnounce
        <5>2. changes[d].epoch <= group.epoch
          BY DEF RowsOrdered, RowsCurrent
        <5> QED BY <1>1, <5>1, <5>2
      <4>4. \A d \in Changes : ToAnnounce(group', changes', d) =>
               changes'[d].by = p /\ changes'[d].kind = "add"
        BY <1>6, <2>2, <4>2, <4>3
      <4> QED BY <1>5, <3>1, <4>1, <4>2, <4>4 DEF FounderOutside
    <3> QED BY <1>9, <1>10, <2>1, <3>3, <3>4
  <2>3. CASE ch.kind = "remove"
    <3>1. /\ ch.user \in group.members /\ ch.by \in group.members
          /\ ch.by \in {group.creator, ch.user}
          /\ group'.members = group.members \ {ch.user}
      BY <1>3, <1>5, <2>3 DEF Permitted, Participants
    <3>2. ASSUME FounderOutside(group, changes, p)
          PROVE  p \in Participants(group')
      <4>1. PICK u \in Users : group.members = {u}
        BY <3>2 DEF FounderOutside
      <4>2. group'.members = {} /\ p = group.founder
        BY <3>1, <3>2, <4>1 DEF FounderOutside
      <4> QED BY <1>5, <4>2 DEF Participants
    <3>3. ASSUME p \in Participants(group)
          PROVE  Gone(changes', p, pg)
      <4>1. p = ch.user
        BY <1>10, <3>1, <3>3 DEF Participants
      <4>2. Announcing(changes', c, p)
        BY <1>6, <2>3, <4>1 DEF Announcing
      <4> QED BY <4>2 DEF Gone
    <3> QED BY <1>9, <1>10, <2>1, <3>2, <3>3
  <2> QED BY <1>4, <2>2, <2>3
<1> QED BY <1>8, <1>10 DEF Settles

\* During a handover and after it the old creator is still to be told that he is out.
LEMMA SettlesByHandover ==
    ASSUME TypeInv, RowsOrdered, NEW c \in Changes, ChangeHandsOver(c) \/ ChangeAppoints(c),
           NEW p \in Pages, NEW pg, Settles(group, changes, p, pg)
    PROVE  Settles(group', changes', p, pg)
<1> DEFINE ch == changes[c]
<1>1. group \in GroupRows /\ changes \in [Changes -> Requests]
  BY DEF TypeInv, CreatorInv, RowsShape
<1>2. \A d \in Changes \ {c} : changes'[d] = changes[d]
  BY <1>1, HandsOverFields, AppointsFields
<1>4. /\ group'.members = group.members /\ group'.founder = group.founder
      /\ group'.epoch = group.epoch
  <2>1. ChangeHandsOver(c) => group' = group
    BY DEF ChangeHandsOver
  <2> QED BY <1>1, <2>1, AppointsFields
<1>5. /\ ch.pc \in {"handover", "appoint"} /\ changes'[c].pc \in {"appoint", "announce"}
      /\ changes'[c].kind = ch.kind
      /\ changes'[c].user = ch.user /\ changes'[c].epoch = ch.epoch
  BY <1>1, HandsOverFields, AppointsFields
<1>6. ch.kind = "remove" /\ ch.user = group.creator
  BY <1>5 DEF RowsOrdered, OneHandover
<1>7. \A d \in Changes : ToAnnounce(group, changes, d) => ToAnnounce(group', changes', d)
  BY <1>2, <1>4, <1>5 DEF ToAnnounce
<1>8. Aware(group, changes, pg) => Aware(group', changes', pg)
  BY <1>4, <1>7 DEF Aware
<1>9. \A d \in Changes : Announcing(changes, d, p) => Announcing(changes', d, p)
  BY <1>2, <1>5 DEF Announcing
<1>10. Gone(changes, p, pg) => Gone(changes', p, pg)
  BY <1>9 DEF Gone
<1>11. FounderOutside(group, changes, p) => Gone(changes', p, pg)
  <2>1. p = group.creator => Announcing(changes', c, p)
    BY <1>5, <1>6 DEF Announcing
  <2> QED BY <2>1 DEF FounderOutside, Gone
<1>12. Participants(group') = Participants(group)
  BY <1>4 DEF Participants
<1> QED BY <1>8, <1>10, <1>11, <1>12 DEF Settles

\* The pages whom a change of members is announced to are given its epoch, and so is the
\* page of the founder who has added a user; whoever was removed is told so.
LEMMA SettlesByAnnouncement ==
    ASSUME {"userUpdated", "userAdded", "userDeleted"} \subseteq TaskKinds,
           TypeInv, NEW c \in Changes, ChangeAnnounces(c), NEW p \in Pages,
           LoadsApart(page[p]), Settles(group, changes, p, page[p])
    PROVE  LoadsApart(page'[p]) /\ Settles(group', changes', p, page'[p])
<1> DEFINE ch == changes[c]
           pg == page'[p]
<1>1. changes \in [Changes -> Requests] /\ page[p] \in PageStates /\ group' = group
      /\ ch.pc = "announce" /\ AnnounceEffect(c, p, pg)
  BY PageFacts, AnnouncePages DEF TypeInv, CreatorInv, RowsShape
<1>2. /\ \A d \in Changes \ {c} : changes'[d] = changes[d]
      /\ changes'[c].pc = "done"
  BY <1>1 DEF ChangeAnnounces, NoChange
<1>3. CASE ~ page[p].open
  <2>1. pg = page[p]
    BY <1>3 DEF ChangeAnnounces
  <2> QED BY <1>3, <2>1 DEF Settles
<1>4. CASE page[p].open
  <2>1. pg.tasks = page[p].tasks \cup Announced(c, p) /\ pg.open
    <3>1. PICK ts : ts = page[p].tasks \cup Announced(c, p)
      OBVIOUS
    <3>2. PICK l : l = (page[p].listening /\ ~ (ch.kind = "remove" /\ p = ch.user))
      OBVIOUS
    <3>3. pg = [page[p] EXCEPT !.tasks = ts, !.listening = l]
      BY <1>4, <3>1, <3>2 DEF ChangeAnnounces
    <3> QED BY <1>1, <1>4, <3>1, <3>3 DEF PageStates
  <2>2. /\ pg.listening => page[p].listening
        /\ pg.epoch = page[p].epoch /\ pg.wentBack = page[p].wentBack
        /\ \A t \in pg.tasks : t \in page[p].tasks \/ t.kind # "load"
    BY <1>1 DEF AnnounceEffect
  <2>3. LoadsApart(pg)
    BY <2>1, <2>2 DEF LoadsApart
  <2>4. \A d \in Changes : d # c =>
           /\ ToAnnounce(group', changes', d) <=> ToAnnounce(group, changes, d)
           /\ Announcing(changes', d, p) <=> Announcing(changes, d, p)
    BY <1>1, <1>2 DEF ToAnnounce, Announcing
  <2>5. \A k \in TaskKinds : /\ Task(k, c).kind = k /\ Task(k, c).epoch = ch.epoch
                             /\ Task(k, c).left = Len(Script[k])
    BY DEF Task
  <2>6. Gone(changes, p, page[p]) => Gone(changes', p, pg)
    <3>1. ASSUME Announcing(changes, c, p)
          PROVE  \E t \in pg.tasks : t.kind = "userDeleted"
      <4>1. Task("userDeleted", c) \in Announced(c, p)
        BY <3>1 DEF Announcing, Announced
      <4> QED BY <2>1, <2>5, <4>1
    <3> QED BY <2>1, <2>2, <2>4, <3>1 DEF Gone
  <2>7. ASSUME ToAnnounce(group, changes, c),
               p \in Participants(group)
        PROVE  Aware(group', changes', pg)
    <3>1. Task("userUpdated", c) \in Announced(c, p)
      BY <2>7 DEF ToAnnounce, Announced, Told
    <3>2. Informs(Task("userUpdated", c), group.epoch)
      BY <2>5, <2>7 DEF Informs, ToAnnounce
    <3> QED BY <1>1, <2>1, <3>1, <3>2 DEF Aware
  <2>8. ASSUME ToAnnounce(group, changes, c),
               FounderOutside(group, changes, p)
        PROVE  Aware(group', changes', pg)
    <3>1. ch.by = p /\ ch.kind = "add"
      BY <2>8 DEF FounderOutside
    <3>2. Task("userAdded", c) \in Announced(c, p)
      BY <3>1 DEF Announced
    <3>3. Task("userAdded", c).left = 5
      BY <2>5 DEF Script
    <3>4. Informs(Task("userAdded", c), group.epoch)
      BY <2>5, <2>8, <3>3 DEF Informs, ToAnnounce
    <3> QED BY <1>1, <2>1, <3>2, <3>4 DEF Aware
  <2>9. ASSUME NEW t \in page[p].tasks, Unasked(t)
        PROVE  Aware(group', changes', pg) /\ \E r \in pg.tasks : Unasked(r)
    BY <2>1, <2>9 DEF Aware
  <2>10. Aware(group, changes, page[p]) /\ ~ ToAnnounce(group, changes, c)
         => Aware(group', changes', pg)
    BY <1>1, <2>1, <2>2, <2>4 DEF Aware
  <2>11. FounderOutside(group, changes, p) => FounderOutside(group', changes', p)
    <3>1. \A d \in Changes : ToAnnounce(group', changes', d) =>
             d # c /\ ToAnnounce(group, changes, d) /\ changes'[d] = changes[d]
      BY <1>2, <2>4 DEF ToAnnounce
    <3> QED BY <1>1, <3>1 DEF FounderOutside
  <2>12. ASSUME pg.open, ~ pg.wentBack
         PROVE  /\ Aware(group', changes', pg) \/ Gone(changes', p, pg)
                /\ \/ p \in Participants(group')
                   \/ Gone(changes', p, pg)
                   \/ FounderOutside(group', changes', p)
                   \/ \E t \in pg.tasks : Unasked(t)
    <3>1. /\ Aware(group, changes, page[p]) \/ Gone(changes, p, page[p])
          /\ \/ p \in Participants(group)
             \/ Gone(changes, p, page[p])
             \/ FounderOutside(group, changes, p)
             \/ \E t \in page[p].tasks : Unasked(t)
      BY <1>4, <2>2, <2>12 DEF Settles
    <3> QED BY <1>1, <2>6, <2>7, <2>8, <2>9, <2>10, <2>11, <3>1
  <2> QED BY <2>3, <2>12 DEF Settles
<1> QED BY <1>3, <1>4

-----------------------------------------------------------------------------
SettleInv ==
    /\ \A p \in Pages : LoadsApart(page[p])
    /\ ~ onStaleRow => /\ RowsOrdered
                       /\ \A p \in Pages : Settles(group, changes, p, page[p])

LEMMA SettleInit == GroupInit => SettleInv
<1> SUFFICES ASSUME GroupInit PROVE SettleInv
  OBVIOUS
<1>1. \A p \in Pages : ~ page[p].open /\ ~ page[p].listening /\ page[p].tasks = {}
  BY DEF GroupInit, ClosedPage
<1>2. \A c \in Changes : changes[c].pc = "none"
  BY DEF GroupInit, NoChange
<1>3. RowsOrdered
  BY <1>2, FreshInit DEF FreshInv, RowsOrdered, StillPermitted, OneHandover, GroupInit
<1> QED BY <1>1, <1>3 DEF SettleInv, LoadsApart, Settles

LEMMA SettleByChange ==
    ASSUME {"userUpdated", "userAdded", "userDeleted"} \subseteq TaskKinds,
           TypeInv, SettleInv, NEW c \in Changes, ChangeStep(c)
    PROVE  SettleInv'
<1> DEFINE ch == changes[c]
<1>1. group \in GroupRows /\ changes \in [Changes -> Requests]
  BY DEF TypeInv, CreatorInv, RowsShape
<1>2. /\ \A d \in Changes \ {c} : changes'[d] = changes[d]
      /\ onStaleRow => onStaleRow'
  BY ChangeEffect
<1>3. CASE ChangeAnnounces(c)
  <2>1. onStaleRow' = onStaleRow
    BY <1>3 DEF ChangeAnnounces
  <2>2. ~ onStaleRow => RowsOrdered'
    BY <2>1, RowsOrderedStep DEF SettleInv
  <2>3. ASSUME ~ onStaleRow, NEW p \in Pages
        PROVE  Settles(group', changes', p, page'[p])
    BY <1>3, <2>3, SettlesByAnnouncement DEF SettleInv
  <2>4. ASSUME NEW p \in Pages
        PROVE  LoadsApart(page'[p])
    <3>1. AnnounceEffect(c, p, page'[p]) /\ LoadsApart(page[p])
      BY <1>3, AnnouncePages DEF SettleInv
    <3>2. ~ page[p].open => page'[p] = page[p]
      BY <1>3 DEF ChangeAnnounces
    <3>3. page[p].open => page'[p].open
      BY <1>3, PageFacts DEF ChangeAnnounces, PageStates
    <3> QED BY <3>1, <3>2, <3>3 DEF AnnounceEffect, LoadsApart
  <2> QED BY <2>1, <2>2, <2>3, <2>4 DEF SettleInv
<1>4. CASE ~ ChangeAnnounces(c)
  <2>1. page' = page
    BY <1>4 DEF ChangeStep, ChangeStarts, ChangeChecks, ChangeCommits, ChangeHandsOver,
       ChangeAppoints
  <2>2. SUFFICES ASSUME ~ onStaleRow', NEW p \in Pages
                 PROVE  Settles(group', changes', p, page[p])
    BY <1>2, <2>1, RowsOrderedStep DEF SettleInv
  <2>3. RowsOrdered /\ Settles(group, changes, p, page[p])
    BY <1>2, <2>2 DEF SettleInv
  <2>4. CASE ChangeStarts(c)
    <3>1. group' = group /\ ch.pc = "none" /\ changes'[c].pc = "check"
      BY <1>1, <2>4 DEF ChangeStarts, Requests
    <3> QED BY <1>2, <2>3, <3>1, SettlesUnchanged
  <2>5. ASSUME NEW by \in Users, NEW user \in Users, NEW kind \in ChangeKinds,
               ChangeChecks(c, by, kind, user)
        PROVE  Settles(group', changes', p, page[p])
    <3>1. group' = group /\ ch.pc = "check" /\ changes'[c].pc = "commit"
      BY <1>1, <2>5 DEF ChangeChecks, Requests
    <3> QED BY <1>2, <2>3, <3>1, SettlesUnchanged
  <2>6. CASE ChangeCommits(c)
    <3> DEFINE fails == ch.kind = "add" /\ ch.user \in group.members
    <3>1. CASE fails \/ ch.kind = "meta"
      <4>1. group' = group /\ ch.pc = "commit"
        BY <2>6, <3>1 DEF ChangeCommits
      <4>2. changes'[c].pc = "done" \/ changes'[c].kind = "meta"
        BY <1>1, <2>6, <3>1 DEF ChangeCommits, NoChange, Requests
      <4> QED BY <1>2, <2>3, <4>1, <4>2, SettlesUnchanged
    <3>2. CASE ~ fails /\ ch.kind # "meta"
      BY <2>2, <2>3, <2>6, <3>2, SettlesByCommit
    <3> QED BY <3>1, <3>2
  <2>7. CASE ChangeHandsOver(c) \/ ChangeAppoints(c)
    BY <2>3, <2>7, SettlesByHandover
  <2> QED BY <1>4, <2>4, <2>5, <2>6, <2>7 DEF ChangeStep
<1> QED BY <1>3, <1>4

\* A step that writes one page leaves the others as settled as they were.
LEMMA SettleOnePage ==
    ASSUME TypeInv, SettleInv, NEW p \in Pages, UNCHANGED <<group, changes, onStaleRow>>,
           \A q \in Pages \ {p} : page'[q] = page[q],
           LoadsApart(page'[p]),
           ~ onStaleRow => Settles(group, changes, p, page'[p])
    PROVE  SettleInv'
<1>1. ~ onStaleRow => RowsOrdered'
  BY DEF SettleInv, RowsOrdered, RowsCurrent, StillPermitted, OneHandover, Permitted
<1>2. \A q \in Pages : LoadsApart(page'[q])
  BY DEF SettleInv
<1>3. ~ onStaleRow => \A q \in Pages : Settles(group, changes, q, page'[q])
  BY DEF SettleInv
<1> QED BY <1>1, <1>2, <1>3 DEF SettleInv

LEMMA SettleStep ==
    ASSUME {"userUpdated", "userAdded", "userDeleted"} \subseteq TaskKinds,
           TypeInv, FreshInv, FreshInv', SettleInv, [GroupNext]_vars
    PROVE  SettleInv'
<1>1. page \in [Pages -> PageStates]
  BY DEF TypeInv, PageTypes
<1>2. ASSUME NEW p \in Pages, LoadPage(p)
      PROVE  SettleInv'
  <2>1. UNCHANGED <<group, changes, onStaleRow>> /\ \A q \in Pages \ {p} : page'[q] = page[q]
    BY <1>1, <1>2 DEF LoadPage
  <2> QED BY <1>2, <2>1, SettlesByLoad, SettleOnePage
<1>3. ASSUME NEW p \in Pages, NEW t \in page[p].tasks, TaskStep(p, t)
      PROVE  SettleInv'
  <2>1. PICK pg \in PageStates, keys \in [Epochs -> SenderStates], cs \in [Calls -> CallStates] :
              WrittenBy(p, pg, keys, cs) /\ TaskEffect(p, t, pg, keys, cs)
    BY <1>3, TaskStepEffect
  <2>2. /\ page'[p] = pg /\ \A q \in Pages \ {p} : page'[q] = page[q]
        /\ UNCHANGED <<group, changes, onStaleRow>>
    BY <1>1, <2>1 DEF WrittenBy
  <2>3. LoadsApart(page[p]) /\ LoadsApart(page'[p])
    BY <1>3, <2>1, <2>2, LoadsApartByTask DEF SettleInv
  <2>4. ASSUME ~ onStaleRow
        PROVE  Settles(group, changes, p, page'[p])
    <3>1. pg.epoch \in Nat /\ pg.epoch <= group.epoch
      BY <2>2, <2>4 DEF FreshInv, FreshOK, EpochsOK, PageStates
    <3>2. Settles(group, changes, p, page[p])
      BY <2>4 DEF SettleInv
    <3> QED BY <1>3, <2>1, <2>2, <2>3, <3>1, <3>2, SettlesByTask
  <2> QED BY <2>2, <2>3, <2>4, SettleOnePage
<1>4. ASSUME NEW p \in Pages, NEW c \in Calls, CallStep(p, c)
      PROVE  SettleInv'
  <2>1. PICK pg \in PageStates, keys \in [Epochs -> SenderStates], cs \in [Calls -> CallStates] :
              WrittenBy(p, pg, keys, cs) /\ CallEffect(p, c, pg, keys, cs)
    BY <1>4, CallStepEffect
  <2>2. /\ page'[p] = pg /\ \A q \in Pages \ {p} : page'[q] = page[q]
        /\ UNCHANGED <<group, changes, onStaleRow>>
    BY <1>1, <2>1 DEF WrittenBy
  <2>3. /\ pg.tasks = page[p].tasks /\ pg.epoch = page[p].epoch
        /\ pg.wentBack = page[p].wentBack
    BY <2>1 DEF CallEffect
  <2>4. page'[p].open = page[p].open /\ (page'[p].listening => page[p].listening)
    BY <1>4, CallsKeepOpen
  <2>5. LoadsApart(page'[p])
    BY <2>2, <2>3, <2>4 DEF SettleInv, LoadsApart
  <2>6. ~ onStaleRow => Settles(group, changes, p, page'[p])
    BY <2>2, <2>3, <2>4, SettlesByCall DEF SettleInv
  <2> QED BY <2>2, <2>5, <2>6, SettleOnePage
<1>5. CASE UNCHANGED vars
  BY <1>5 DEF vars, SettleInv, RowsOrdered, RowsCurrent, StillPermitted, OneHandover, Permitted
<1> QED BY <1>2, <1>3, <1>4, <1>5, SettleByChange DEF GroupNext

LEMMA SettleShown == SettleInv => PagesSettleOnEpoch
<1> SUFFICES ASSUME SettleInv, ~ onStaleRow, NEW p \in Pages,
                    page[p].listening, page[p].tasks = {}, ~ page[p].wentBack,
                    \A c \in Changes : changes[c].pc \in {"none", "done"}
             PROVE  page[p].epoch = group.epoch
  BY DEF PagesSettleOnEpoch
<1>1. page[p].open
  BY DEF SettleInv, LoadsApart
<1>2. Aware(group, changes, page[p]) \/ Gone(changes, p, page[p])
  BY <1>1 DEF SettleInv, Settles
<1>3. \A c \in Changes : ~ ToAnnounce(group, changes, c) /\ ~ Announcing(changes, c, p)
  BY DEF ToAnnounce, Announcing
<1> QED BY <1>2, <1>3 DEF Aware, Gone

\* With the handlers of the events that come on the user's own socket (TaskKinds is a bound
\* for TLC; a page has them all), a page on the chat that has processed every event has the
\* epoch of the server, unless an answer overtaken by a newer one put it back or two changes
\* took the same epoch.  The chat socket, whose messages can be missed, is not needed.
THEOREM PagesSettleAlways ==
    ASSUME {"userUpdated", "userAdded", "userDeleted"} \subseteq TaskKinds
    PROVE  GroupSpec => []PagesSettleOnEpoch
<1>1. GroupInit => TypeInv /\ ChainsInv /\ FreshInv /\ SettleInv
  BY TypeInvInit, ChainsInit, FreshInit, SettleInit
<1>2. TypeInv /\ ChainsInv /\ FreshInv /\ SettleInv /\ [GroupNext]_vars
      => (TypeInv /\ ChainsInv /\ FreshInv /\ SettleInv)'
  BY TypeInvStep, ChainsStep, FreshStep, SettleStep
<1>3. SettleInv => PagesSettleOnEpoch
  BY SettleShown
<1> QED BY <1>1, <1>2, <1>3, PTL DEF GroupSpec
=============================================================================
