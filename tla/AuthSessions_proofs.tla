------------------------ MODULE AuthSessions_proofs ------------------------
(***************************************************************************)
(* Proofs about AuthSessions, for any number of browsers, places and       *)
(* overlapping requests.  The history variables say which rows and calls   *)
(* an exception of a property is about; what is proved is that there are   *)
(* no other ones.                                                          *)
(***************************************************************************)
EXTENDS AuthSessions, TLAPS

Rows == [token : Nat, place : Places, grant : Nat]

CallStates ==
    [kind : {"none", "login", "refresh", "logout", "forgot", "reset"},
     pc : {"idle", "insert", "extend", "drop", "delete", "commit", "reply"},
     browser : Browsers, token : Nat, link : Nat, grant : Nat,
     gone : SUBSET Rows, goneLinks : SUBSET Nat, before : BOOLEAN]

TypeInv ==
    /\ password \in Nat
    /\ sessions \subseteq Rows
    /\ links \subseteq Nat
    /\ made \in [tokens : Nat, links : Nat]
    /\ cookie \in [Browsers -> [refresh : Nat, access : BOOLEAN]]
    /\ place \in [Browsers -> Places]
    /\ call \in [Calls -> CallStates]
    /\ out \in [Browsers -> Nat]
    /\ raced \in [Browsers -> SUBSET Nat]
    /\ late \subseteq Nat
    /\ spent \subseteq Nat /\ doubled \subseteq Nat

LEMMA IdleIsState == Idle \in CallStates
  BY AuthAssumption DEF Idle, CallStates

LEMMA TypeInit == AuthInit => TypeInv
  BY IdleIsState DEF AuthInit, TypeInv, NoCookies

\* Most steps replace the state of one call.
LEMMA GoesKeepsType ==
    ASSUME TypeInv, NEW c \in Calls, NEW state \in CallStates, Goes(c, state)
    PROVE  call' \in [Calls -> CallStates]
  BY DEF TypeInv, Goes

LEMMA TypeStep == TypeInv /\ [AuthNext]_vars => TypeInv'
<1> SUFFICES ASSUME TypeInv, [AuthNext]_vars PROVE TypeInv'
  OBVIOUS
<1> USE IdleIsState, GoesKeepsType DEF tables, histories
<1>1. ASSUME NEW c \in Calls, NEW b \in Browsers, LoginVerifies(c, b) PROVE TypeInv'
  <2>1. [Idle EXCEPT !.kind = "login", !.pc = "insert", !.browser = b, !.grant = password]
           \in CallStates
    BY DEF CallStates, TypeInv
  <2> QED BY <1>1, <2>1 DEF LoginVerifies, TypeInv
<1>2. ASSUME NEW c \in Calls, NEW b \in Browsers, RefreshReads(c, b) PROVE TypeInv'
  <2>1. PICK s \in sessions :
           Goes(c, [Idle EXCEPT !.kind = "refresh", !.browser = b, !.token = s.token,
                                !.pc = IF s.place = place[b] THEN "extend" ELSE "drop"])
    BY <1>2 DEF RefreshReads, RowsOf
  <2>2. s.token \in Nat
    BY DEF TypeInv, Rows
  <2>3. [Idle EXCEPT !.kind = "refresh", !.browser = b, !.token = s.token,
                     !.pc = IF s.place = place[b] THEN "extend" ELSE "drop"] \in CallStates
    BY <2>2 DEF CallStates
  <2> QED BY <1>2, <2>1, <2>3 DEF RefreshReads, TypeInv
<1>3. ASSUME NEW c \in Calls, NEW b \in Browsers, LogoutDeletes(c, b) PROVE TypeInv'
  <2>1. cookie[b].refresh \in Nat
    BY DEF TypeInv
  <2>2. [Idle EXCEPT !.kind = "logout", !.pc = "reply", !.browser = b,
                     !.token = cookie[b].refresh] \in CallStates
    BY <2>1 DEF CallStates
  <2> QED BY <1>3, <2>2 DEF LogoutDeletes, TypeInv
<1>4. ASSUME NEW c \in Calls, LoginInserts(c) PROVE TypeInv'
  <2> DEFINE t == made.tokens + 1
  <2>1. t \in Nat /\ call[c] \in CallStates
    BY DEF TypeInv
  <2>2. [call[c] EXCEPT !.pc = "reply", !.token = t] \in CallStates
    BY <2>1 DEF CallStates
  <2>3. call' \in [Calls -> CallStates]
    BY <1>4, <2>2 DEF LoginInserts
  <2>4. call[c].browser \in Browsers /\ place[call[c].browser] \in Places
    BY <2>1 DEF TypeInv, CallStates
  <2>5. call[c].grant \in Nat
    BY <2>1 DEF CallStates
  <2> QED BY <1>4, <2>1, <2>3, <2>4, <2>5 DEF LoginInserts, TypeInv, Rows
<1>5. ASSUME NEW c \in Calls, RefreshExtends(c) PROVE TypeInv'
  <2>1. [call[c] EXCEPT !.pc = "reply"] \in CallStates
    BY DEF TypeInv, CallStates
  <2> QED BY <1>5, <2>1 DEF RefreshExtends, TypeInv
<1>6. ASSUME NEW c \in Calls, RefreshDrops(c) PROVE TypeInv'
  BY <1>6 DEF RefreshDrops, TypeInv
<1>7. ASSUME NEW c \in Calls, SetCookies(c) PROVE TypeInv'
  <2>1. [refresh |-> call[c].token, access |-> TRUE] \in [refresh : Nat, access : BOOLEAN]
    BY DEF TypeInv, CallStates
  <2>2. cookie' \in [Browsers -> [refresh : Nat, access : BOOLEAN]]
    BY <1>7, <2>1 DEF SetCookies, TypeInv
  <2>3. call' \in [Calls -> CallStates]
    BY <1>7 DEF SetCookies
  <2>4. CASE call[c].kind = "login"
    BY <1>7, <2>2, <2>3, <2>4 DEF SetCookies, TypeInv
  <2>5. CASE call[c].kind # "login"
    BY <1>7, <2>2, <2>3, <2>5 DEF SetCookies, TypeInv
  <2> QED BY <2>4, <2>5
<1>8. ASSUME NEW c \in Calls, DeleteCookies(c) PROVE TypeInv'
  <2>1. call[c].browser \in Browsers /\ call[c].token \in Nat
    BY DEF TypeInv, CallStates
  <2>2. CookiesGone(cookie[call[c].browser]) \in [refresh : Nat, access : BOOLEAN]
    BY DEF CookiesGone, NoCookies
  <2>3. {call[d].token : d \in {x \in Calls : Refreshing(x, call[c].browser)}} \subseteq Nat
    BY DEF TypeInv, CallStates
  <2>4. raced' \in [Browsers -> SUBSET Nat]
    BY <1>8, <2>1, <2>3 DEF DeleteCookies, TypeInv
  <2> QED BY <1>8, <2>1, <2>2, <2>4, AuthAssumption DEF DeleteCookies, TypeInv
<1>9. ASSUME NEW c \in Calls, ReplyLost(c) PROVE TypeInv'
  BY <1>9 DEF ReplyLost, TypeInv
<1>10. ASSUME NEW c \in Calls, ForgotDeletes(c) PROVE TypeInv'
  <2>1. \A before \in BOOLEAN :
           [Idle EXCEPT !.kind = "forgot", !.pc = "insert",
                        !.goneLinks = LinksSeen, !.before = before] \in CallStates
    BY DEF LinksSeen, TypeInv, CallStates
  <2>2. \A d \in Calls : call[d] \in CallStates /\ [call[d] EXCEPT !.before = TRUE] \in CallStates
    BY DEF TypeInv, CallStates
  <2>3. call' \in [Calls -> CallStates]
    BY <1>10, <2>1, <2>2 DEF ForgotDeletes
  <2> QED BY <1>10, <2>3 DEF ForgotDeletes, TypeInv
<1>11. ASSUME NEW c \in Calls, ForgotCommits(c) PROVE TypeInv'
  BY <1>11 DEF ForgotCommits, TypeInv
<1>12. ASSUME NEW c \in Calls, ResetDeletes(c) PROVE TypeInv'
  <2>1. [call[c] EXCEPT !.pc = "commit", !.gone = sessions, !.goneLinks = LinksSeen]
           \in CallStates
    BY ZenonT(40) DEF LinksSeen, TypeInv, CallStates
  <2> QED BY <1>12, <2>1 DEF ResetDeletes, TypeInv
<1>13. ASSUME NEW c \in Calls, ResetCommits(c) PROVE TypeInv'
  <2>1. \A d \in Calls : call[d] \in CallStates /\ [call[d] EXCEPT !.before = TRUE] \in CallStates
    BY DEF TypeInv, CallStates
  <2>2. call' \in [Calls -> CallStates]
    BY <1>13, <2>1 DEF ResetCommits
  <2>3. call[c].link \in Nat
    BY <2>1 DEF CallStates
  <2> QED BY <1>13, <2>2, <2>3 DEF ResetCommits, LinksLeft, TypeInv
<1>14. ASSUME NEW c \in Calls, NEW l \in Links, ResetReads(c, l) PROVE TypeInv'
  <2> l \in Nat
    BY AuthAssumption DEF Links
  <2>1. [Idle EXCEPT !.kind = "reset", !.pc = "delete", !.link = l] \in CallStates
    BY DEF CallStates
  <2> QED BY <1>14, <2>1 DEF ResetReads, TypeInv
<1>15. ASSUME NEW b \in Browsers, Move(b) PROVE TypeInv'
  BY <1>15 DEF Move, TypeInv
<1>16. CASE UNCHANGED vars
  BY <1>16 DEF vars, TypeInv
<1> QED
  BY <1>1, <1>2, <1>3, <1>4, <1>5, <1>6, <1>7, <1>8, <1>9, <1>10, <1>11, <1>12, <1>13,
     <1>14, <1>15, <1>16 DEF AuthNext
-----------------------------------------------------------------------------
(* A reset ends every session.                                             *)

\* A reset that has looked for tokens has seen all but the late ones.
ResetsSeeTokens ==
    \A c \in Calls : Resetting(c) =>
        \A s \in sessions : s \in call[c].gone \/ s.token \in late

ResetInv == ResetEndsSessions /\ ResetsSeeTokens

\* It is enough that no session is added, no token forgotten and no call set to resetting.
LEMMA FewerSessions ==
    ASSUME ResetInv, sessions' \subseteq sessions, late' = late, password' = password,
           \A c \in Calls : Resetting(c)' => Resetting(c) /\ call'[c].gone = call[c].gone
    PROVE  ResetInv'
  BY DEF ResetInv, ResetEndsSessions, ResetsSeeTokens

\* A call that goes on anywhere but to its commit.
LEMMA GoesElsewhere ==
    ASSUME TypeInv, NEW c \in Calls, NEW state, Goes(c, state), state.pc # "commit"
    PROVE  \A d \in Calls : Resetting(d)' => Resetting(d) /\ call'[d].gone = call[d].gone
  BY DEF TypeInv, Goes, Resetting

LEMMA IdleIsNoCommit == Idle.pc # "commit" /\ Idle.kind # "reset" /\ Idle.kind # "refresh"
  BY DEF Idle

LEMMA ResetStep == TypeInv /\ ResetInv /\ [AuthNext]_vars => ResetInv'
<1> SUFFICES ASSUME TypeInv, ResetInv, [AuthNext]_vars PROVE ResetInv'
  OBVIOUS
<1> USE FewerSessions, GoesElsewhere, IdleIsNoCommit, IdleIsState DEF tables, histories
<1>0. \A d \in Calls : call[d] \in CallStates
  BY DEF TypeInv
<1>1. ASSUME NEW c \in Calls, NEW b \in Browsers, LoginVerifies(c, b) PROVE ResetInv'
  <2>1. [Idle EXCEPT !.kind = "login", !.pc = "insert", !.browser = b, !.grant = password].pc
           = "insert"
    BY DEF CallStates
  <2> QED BY <1>1, <2>1 DEF LoginVerifies
<1>2. ASSUME NEW c \in Calls, NEW b \in Browsers, RefreshReads(c, b) PROVE ResetInv'
  <2>1. PICK s \in sessions :
           Goes(c, [Idle EXCEPT !.kind = "refresh", !.browser = b, !.token = s.token,
                                !.pc = IF s.place = place[b] THEN "extend" ELSE "drop"])
    BY <1>2 DEF RefreshReads, RowsOf
  <2>2. [Idle EXCEPT !.kind = "refresh", !.browser = b, !.token = s.token,
                     !.pc = IF s.place = place[b] THEN "extend" ELSE "drop"].pc # "commit"
    BY DEF CallStates
  <2> QED BY <1>2, <2>1, <2>2 DEF RefreshReads
<1>3. ASSUME NEW c \in Calls, NEW b \in Browsers, LogoutDeletes(c, b) PROVE ResetInv'
  <2>1. [Idle EXCEPT !.kind = "logout", !.pc = "reply", !.browser = b,
                     !.token = cookie[b].refresh].pc = "reply"
    BY DEF CallStates
  <2> QED BY <1>3, <2>1 DEF LogoutDeletes
<1>4. ASSUME NEW c \in Calls, LoginInserts(c) PROVE ResetInv'
  <2> DEFINE t == made.tokens + 1
             new == [token |-> t, place |-> place[call[c].browser], grant |-> call[c].grant]
  <2>1. [call[c] EXCEPT !.pc = "reply", !.token = t].pc = "reply"
    BY <1>0 DEF CallStates
  <2>2. \A d \in Calls : Resetting(d)' => Resetting(d) /\ call'[d].gone = call[d].gone
    BY <1>4, <2>1 DEF LoginInserts
  <2>3. sessions' = sessions \cup {new} /\ password' = password /\ late \subseteq late'
    BY <1>4 DEF LoginInserts
  <2>4. t \in late' \/ (call[c].grant = password /\ \A d \in Calls : ~ Resetting(d))
    BY <1>4 DEF LoginInserts
  <2>5. ResetEndsSessions'
    BY <2>3, <2>4 DEF ResetInv, ResetEndsSessions
  <2>6. ResetsSeeTokens'
    BY <2>2, <2>3, <2>4 DEF ResetInv, ResetsSeeTokens
  <2> QED BY <2>5, <2>6 DEF ResetInv
<1>5. ASSUME NEW c \in Calls, RefreshExtends(c) PROVE ResetInv'
  <2>1. [call[c] EXCEPT !.pc = "reply"].pc = "reply"
    BY <1>0 DEF CallStates
  <2> QED BY <1>5, <2>1 DEF RefreshExtends
<1>6. ASSUME NEW c \in Calls, RefreshDrops(c) PROVE ResetInv'
  BY <1>6 DEF RefreshDrops
<1>7. ASSUME NEW c \in Calls, SetCookies(c) PROVE ResetInv'
  BY <1>7 DEF SetCookies
<1>8. ASSUME NEW c \in Calls, DeleteCookies(c) PROVE ResetInv'
  BY <1>8 DEF DeleteCookies
<1>9. ASSUME NEW c \in Calls, ReplyLost(c) PROVE ResetInv'
  BY <1>9 DEF ReplyLost
<1>10. ASSUME NEW c \in Calls, ForgotDeletes(c) PROVE ResetInv'
  <2> DEFINE others == {d \in Calls : Forgetting(d)}
             mine == [Idle EXCEPT !.kind = "forgot", !.pc = "insert",
                                  !.goneLinks = LinksSeen, !.before = others # {}]
             next(d) == [call[d] EXCEPT !.before = TRUE]
  <2>1. mine.kind = "forgot"
    BY DEF CallStates
  <2>2. \A d \in Calls :
           next(d).kind = call[d].kind /\ next(d).pc = call[d].pc /\ next(d).gone = call[d].gone
    BY <1>0 DEF CallStates
  <2>3. call' = [d \in Calls |->
           CASE d = c -> mine [] d \in others -> next(d) [] OTHER -> call[d]]
    BY <1>10, Zenon DEF ForgotDeletes
  <2> HIDE DEF mine, next, others
  <2>4. \A d \in Calls : Resetting(d)' => Resetting(d) /\ call'[d].gone = call[d].gone
    BY <2>1, <2>2, <2>3 DEF Resetting
  <2> QED BY <1>10, <2>4 DEF ForgotDeletes
<1>11. ASSUME NEW c \in Calls, ForgotCommits(c) PROVE ResetInv'
  BY <1>11 DEF ForgotCommits
<1>12. ASSUME NEW c \in Calls, ResetDeletes(c) PROVE ResetInv'
  <2> DEFINE next == [call[c] EXCEPT !.pc = "commit", !.gone = sessions, !.goneLinks = LinksSeen]
  <2>1. next.gone = sessions
    BY <1>0 DEF CallStates
  <2>2. call' = [call EXCEPT ![c] = next] /\ UNCHANGED <<sessions, late, password>>
    BY <1>12 DEF ResetDeletes, Goes
  <2> HIDE DEF next
  <2>3. ResetsSeeTokens'
    BY <2>1, <2>2 DEF ResetInv, ResetsSeeTokens, Resetting, TypeInv
  <2> QED BY <2>2, <2>3 DEF ResetInv, ResetEndsSessions
<1>13. ASSUME NEW c \in Calls, ResetCommits(c) PROVE ResetInv'
  <2>1. \A d \in Calls :
           LET next == [call[d] EXCEPT !.before = TRUE] IN
           next.kind = call[d].kind /\ next.pc = call[d].pc /\ next.gone = call[d].gone
    BY <1>0 DEF CallStates
  <2>2. \A d \in Calls : Resetting(d)' => Resetting(d) /\ call'[d].gone = call[d].gone
    BY <1>13, <2>1 DEF ResetCommits, Resetting
  <2>3. sessions' = sessions \ call[c].gone /\ late' = late /\ Resetting(c)
    BY <1>13 DEF ResetCommits
  <2>4. ResetEndsSessions'
    BY <2>3 DEF ResetInv, ResetsSeeTokens, ResetEndsSessions
  <2> QED BY <2>2, <2>3, <2>4 DEF ResetInv, ResetsSeeTokens
<1>14. ASSUME NEW c \in Calls, NEW l \in Links, ResetReads(c, l) PROVE ResetInv'
  <2>1. [Idle EXCEPT !.kind = "reset", !.pc = "delete", !.link = l].pc = "delete"
    BY DEF CallStates
  <2> QED BY <1>14, <2>1 DEF ResetReads
<1>15. ASSUME NEW b \in Browsers, Move(b) PROVE ResetInv'
  BY <1>15 DEF Move, Resetting
<1>16. CASE UNCHANGED vars
  BY <1>16 DEF vars, Resetting
<1> QED
  BY <1>1, <1>2, <1>3, <1>4, <1>5, <1>6, <1>7, <1>8, <1>9, <1>10, <1>11, <1>12, <1>13,
     <1>14, <1>15, <1>16 DEF AuthNext

\* A reset ends every session but those whose login raced it, of whatever browser and
\* whatever refreshes are under way (reset_password_submit, refresh_token_route).
THEOREM ResetEndsAllSessions == AuthSpec => []ResetEndsSessions
<1>1. AuthInit => ResetInv
  BY DEF AuthInit, ResetInv, ResetEndsSessions, ResetsSeeTokens
<1>2. ResetInv => ResetEndsSessions
  BY DEF ResetInv
<1> QED BY <1>1, <1>2, TypeInit, TypeStep, ResetStep, PTL DEF AuthSpec

-----------------------------------------------------------------------------
(* The links.                                                              *)

\* Links are numbered as they are mailed.
LinksMade ==
    /\ \A l \in links \cup spent : l <= made.links
    /\ \A c \in Calls : call[c].kind = "reset" => call[c].link <= made.links

\* A link that has changed the password is not in the table.
SpentIsGone == links \cap spent = {}

\* A reset deletes its own link, if that is still there.
ResetTakesLink ==
    \A c \in Calls : Resetting(c) /\ call[c].link \in links => call[c].link \in call[c].goneLinks

\* Links that a call has not seen were made by others that overlap it, and it knows of them.
ForgotSeesLinks ==
    \A c \in Calls : Forgetting(c) =>
        /\ links \subseteq call[c].goneLinks \cup doubled
        /\ call[c].before \/ links \subseteq call[c].goneLinks

OverlapIsKnown ==
    \A c, d \in Calls : c # d /\ Forgetting(c) /\ Forgetting(d) => call[c].before

LinkInv ==
    /\ LinksMade /\ SpentIsGone /\ ResetTakesLink /\ SpentLinkIsRefused
    /\ ForgotSeesLinks /\ OverlapIsKnown /\ LastLinkOnly

\* Steps of the other handlers.
LEMMA LinksUntouched ==
    ASSUME LinkInv, UNCHANGED <<links, spent, doubled>>, made'.links = made.links,
           \A d \in Calls : call'[d] = call[d] \/ call'[d].kind \notin {"forgot", "reset"}
    PROVE  LinkInv'
  BY DEF LinkInv, LinksMade, SpentIsGone, ResetTakesLink, SpentLinkIsRefused, ForgotSeesLinks,
         OverlapIsKnown, LastLinkOnly, Resetting, Forgetting

\* A call that goes on as something else than a forgot or a reset.
LEMMA GoesApart ==
    ASSUME TypeInv, NEW c \in Calls, NEW state, Goes(c, state),
           state.kind \notin {"forgot", "reset"}
    PROVE  \A d \in Calls : call'[d] = call[d] \/ call'[d].kind \notin {"forgot", "reset"}
  BY DEF TypeInv, Goes

LEMMA IdleIsApart == Idle.kind = "none" /\ Idle.token = 0
  BY DEF Idle

LEMMA LinkStep == TypeInv /\ LinkInv /\ [AuthNext]_vars => LinkInv'
<1> SUFFICES ASSUME TypeInv, LinkInv, [AuthNext]_vars PROVE LinkInv'
  OBVIOUS
<1> USE LinksUntouched, GoesApart, IdleIsApart, IdleIsState DEF tables, histories
<1>0. (\A d \in Calls : call[d] \in CallStates) /\ made.links \in Nat
  BY DEF TypeInv
<1>1. ASSUME NEW c \in Calls, NEW b \in Browsers, LoginVerifies(c, b) PROVE LinkInv'
  <2>1. [Idle EXCEPT !.kind = "login", !.pc = "insert", !.browser = b, !.grant = password].kind
           = "login"
    BY DEF CallStates
  <2> QED BY <1>1, <2>1 DEF LoginVerifies
<1>2. ASSUME NEW c \in Calls, NEW b \in Browsers, RefreshReads(c, b) PROVE LinkInv'
  <2>1. PICK s \in sessions :
           Goes(c, [Idle EXCEPT !.kind = "refresh", !.browser = b, !.token = s.token,
                                !.pc = IF s.place = place[b] THEN "extend" ELSE "drop"])
    BY <1>2 DEF RefreshReads, RowsOf
  <2>2. [Idle EXCEPT !.kind = "refresh", !.browser = b, !.token = s.token,
                     !.pc = IF s.place = place[b] THEN "extend" ELSE "drop"].kind = "refresh"
    BY DEF CallStates
  <2> QED BY <1>2, <2>1, <2>2 DEF RefreshReads
<1>3. ASSUME NEW c \in Calls, NEW b \in Browsers, LogoutDeletes(c, b) PROVE LinkInv'
  <2>1. [Idle EXCEPT !.kind = "logout", !.pc = "reply", !.browser = b,
                     !.token = cookie[b].refresh].kind = "logout"
    BY DEF CallStates
  <2> QED BY <1>3, <2>1 DEF LogoutDeletes
<1>4. ASSUME NEW c \in Calls, LoginInserts(c) PROVE LinkInv'
  <2>1. [call[c] EXCEPT !.pc = "reply", !.token = made.tokens + 1].kind = call[c].kind
    BY <1>0 DEF CallStates
  <2>2. made'.links = made.links
    BY <1>4 DEF LoginInserts, TypeInv
  <2> QED BY <1>4, <2>1, <2>2 DEF LoginInserts
<1>5. ASSUME NEW c \in Calls, RefreshExtends(c) PROVE LinkInv'
  <2>1. [call[c] EXCEPT !.pc = "reply"].kind = call[c].kind
    BY <1>0 DEF CallStates
  <2> QED BY <1>5, <2>1 DEF RefreshExtends
<1>6. ASSUME NEW c \in Calls, RefreshDrops(c) PROVE LinkInv'
  BY <1>6 DEF RefreshDrops
<1>7. ASSUME NEW c \in Calls, SetCookies(c) PROVE LinkInv'
  BY <1>7 DEF SetCookies
<1>8. ASSUME NEW c \in Calls, DeleteCookies(c) PROVE LinkInv'
  BY <1>8 DEF DeleteCookies
<1>9. ASSUME NEW c \in Calls, ReplyLost(c) PROVE LinkInv'
  BY <1>9 DEF ReplyLost
<1>10. ASSUME NEW c \in Calls, ForgotDeletes(c) PROVE LinkInv'
  <2> DEFINE others == {d \in Calls : Forgetting(d)}
             mine == [Idle EXCEPT !.kind = "forgot", !.pc = "insert",
                                  !.goneLinks = LinksSeen, !.before = others # {}]
             next(d) == [call[d] EXCEPT !.before = TRUE]
  <2>1. mine.kind = "forgot" /\ mine.goneLinks = links /\ (mine.before <=> others # {})
    BY DEF CallStates, LinksSeen
  <2>2. \A d \in Calls : next(d).kind = call[d].kind /\ next(d).pc = call[d].pc
                         /\ next(d).goneLinks = call[d].goneLinks /\ next(d).before
    BY <1>0 DEF CallStates
  <2>3. call' = [d \in Calls |->
           CASE d = c -> mine [] d \in others -> next(d) [] OTHER -> call[d]]
    BY <1>10, Zenon DEF ForgotDeletes
  <2>4. UNCHANGED <<links, spent, doubled, made>>
    BY <1>10 DEF ForgotDeletes
  <2> HIDE DEF mine, next
  <2>5. ResetTakesLink' /\ SpentLinkIsRefused' /\ LinksMade'
    BY <2>1, <2>2, <2>3, <2>4
    DEF LinkInv, LinksMade, ResetTakesLink, SpentLinkIsRefused, Resetting, Forgetting
  <2>6. ForgotSeesLinks'
    BY <2>1, <2>2, <2>3, <2>4 DEF LinkInv, ForgotSeesLinks, Forgetting
  <2>7. OverlapIsKnown'
    BY <2>1, <2>2, <2>3 DEF LinkInv, OverlapIsKnown, Forgetting
  <2> QED BY <2>4, <2>5, <2>6, <2>7 DEF LinkInv, SpentIsGone, LastLinkOnly
<1>11. ASSUME NEW c \in Calls, ForgotCommits(c) PROVE LinkInv'
  <2> DEFINE l == made.links + 1
  <2>1. /\ links' = (links \ call[c].goneLinks) \cup {l}
        /\ call' = [call EXCEPT ![c] = Idle] /\ spent' = spent /\ Forgetting(c)
        /\ doubled' = IF call[c].before THEN doubled \cup {l} ELSE doubled
    BY <1>11 DEF ForgotCommits, Goes
  <2>2. made'.links = l
    BY <1>11 DEF ForgotCommits, TypeInv
  <2> HIDE DEF l
  <2>3. l > made.links /\ \A k \in Nat : k <= made.links => k <= l
    BY <1>0 DEF l
  <2>4. links \subseteq Nat /\ spent \subseteq Nat /\ \A d \in Calls : call[d].link \in Nat
    BY <1>0 DEF TypeInv, CallStates
  <2>5. \A k \in links \cup spent : k <= made.links /\ k # l
    BY <1>0, <2>3, <2>4 DEF LinkInv, LinksMade, l
  <2>6. \A d \in Calls : call[d].kind = "reset" => call[d].link <= l /\ call[d].link # l
    BY <1>0, <2>3, <2>4 DEF LinkInv, LinksMade, l
  <2>7. \A d \in Calls : call'[d] = call[d] \/ call'[d] = Idle
    BY <2>1 DEF TypeInv
  <2>8. LinksMade' /\ SpentIsGone'
    <3>1. \A k \in links' \cup spent' : k <= l
      BY <2>1, <2>3, <2>4, <2>5, <1>0 DEF l
    <3>2. \A d \in Calls : call'[d].kind = "reset" => call'[d].link <= l
      BY <2>6, <2>7, IdleIsApart
    <3>3. SpentIsGone'
      BY <2>1, <2>5 DEF LinkInv, SpentIsGone
    <3> QED BY <2>2, <3>1, <3>2, <3>3 DEF LinksMade
  <2>9. ResetTakesLink' /\ SpentLinkIsRefused'
    BY <2>1, <2>6, <2>7, IdleIsApart
    DEF LinkInv, ResetTakesLink, SpentLinkIsRefused, Resetting
  <2>10. ForgotSeesLinks'
    BY <2>1, IdleIsApart DEF LinkInv, ForgotSeesLinks, OverlapIsKnown, Forgetting, TypeInv
  <2>11. OverlapIsKnown'
    BY <2>1, IdleIsApart DEF LinkInv, OverlapIsKnown, Forgetting, TypeInv
  <2>12. LastLinkOnly'
    BY <2>1 DEF LinkInv, LastLinkOnly, ForgotSeesLinks
  <2> QED BY <2>8, <2>9, <2>10, <2>11, <2>12 DEF LinkInv
<1>12. ASSUME NEW c \in Calls, ResetDeletes(c) PROVE LinkInv'
  <2> DEFINE next == [call[c] EXCEPT !.pc = "commit", !.gone = sessions, !.goneLinks = LinksSeen]
  <2>1. /\ next.goneLinks = links /\ next.kind = "reset" /\ next.link = call[c].link
        /\ next.before = call[c].before
    BY <1>0, <1>12 DEF CallStates, LinksSeen, ResetDeletes
  <2>2. call' = [call EXCEPT ![c] = next] /\ UNCHANGED <<links, spent, doubled, made>>
    BY <1>12 DEF ResetDeletes, Goes
  <2> HIDE DEF next
  <2>3. call[c].kind = "reset"
    BY <1>12 DEF ResetDeletes
  <2> QED BY <2>1, <2>2, <2>3
    DEF LinkInv, LinksMade, SpentIsGone, ResetTakesLink, SpentLinkIsRefused, ForgotSeesLinks,
        OverlapIsKnown, LastLinkOnly, Resetting, Forgetting, TypeInv
<1>13. ASSUME NEW c \in Calls, ResetCommits(c) PROVE LinkInv'
  <2> DEFINE next(d) == [call[d] EXCEPT !.before = TRUE]
             same(d) == d # c /\ call[d].kind = "reset" /\ call[d].link = call[c].link
  <2>1. \A d \in Calls : /\ next(d).kind = call[d].kind /\ next(d).pc = call[d].pc
                         /\ next(d).goneLinks = call[d].goneLinks /\ next(d).before
                         /\ next(d).link = call[d].link
    BY <1>0 DEF CallStates
  <2>2. call' = [d \in Calls |->
           CASE d = c -> Idle [] same(d) -> next(d) [] OTHER -> call[d]]
    BY <1>13, Zenon DEF ResetCommits
  <2>3. /\ links' = links \ call[c].goneLinks /\ spent' = spent \cup {call[c].link}
        /\ made' = made /\ doubled' = doubled /\ Resetting(c)
    BY <1>13 DEF ResetCommits, LinksLeft
  <2> HIDE DEF next
  <2>4. LinksMade' /\ SpentIsGone' /\ ResetTakesLink'
    BY <2>1, <2>2, <2>3, IdleIsApart
    DEF LinkInv, LinksMade, SpentIsGone, ResetTakesLink, Resetting
  <2>5. SpentLinkIsRefused'
    BY <2>1, <2>2, <2>3, IdleIsApart DEF LinkInv, SpentLinkIsRefused
  <2>6. ForgotSeesLinks' /\ OverlapIsKnown'
    BY <2>1, <2>2, <2>3, IdleIsApart DEF LinkInv, ForgotSeesLinks, OverlapIsKnown, Forgetting
  <2> QED BY <2>3, <2>4, <2>5, <2>6 DEF LinkInv, LastLinkOnly
<1>14. ASSUME NEW c \in Calls, NEW l \in Links, ResetReads(c, l) PROVE LinkInv'
  <2> DEFINE next == [Idle EXCEPT !.kind = "reset", !.pc = "delete", !.link = l]
  <2>1. next.kind = "reset" /\ next.pc = "delete" /\ next.link = l
    BY DEF CallStates
  <2>2. call' = [call EXCEPT ![c] = next] /\ UNCHANGED <<links, spent, doubled, made>>
        /\ l \in links
    BY <1>14 DEF ResetReads, Goes
  <2> HIDE DEF next
  <2> QED BY <2>1, <2>2
    DEF LinkInv, LinksMade, SpentIsGone, ResetTakesLink, SpentLinkIsRefused, ForgotSeesLinks,
        OverlapIsKnown, LastLinkOnly, Resetting, Forgetting, TypeInv
<1>15. ASSUME NEW b \in Browsers, Move(b) PROVE LinkInv'
  BY <1>15 DEF Move
<1>16. CASE UNCHANGED vars
  BY <1>16 DEF vars
<1> QED
  BY <1>1, <1>2, <1>3, <1>4, <1>5, <1>6, <1>7, <1>8, <1>9, <1>10, <1>11, <1>12, <1>13,
     <1>14, <1>15, <1>16 DEF AuthNext

LEMMA LinkInit == AuthInit => LinkInv
  BY IdleIsApart
  DEF AuthInit, LinkInv, LinksMade, SpentIsGone, ResetTakesLink, SpentLinkIsRefused,
      ForgotSeesLinks, OverlapIsKnown, LastLinkOnly, Resetting, Forgetting

\* A link changes the password once, but for submissions that overlap the first
\* (reset_password_submit).
THEOREM LinkIsSpentOnce == AuthSpec => []SpentLinkIsRefused
<1>1. LinkInv => SpentLinkIsRefused
  BY DEF LinkInv
<1> QED BY <1>1, LinkInit, TypeInit, TypeStep, LinkStep, PTL DEF AuthSpec

\* A new link replaces the ones before it, but for links asked for at the same time
\* (forgot_password_submit).
THEOREM OnlyLastLink == AuthSpec => []LastLinkOnly
<1>1. LinkInv => LastLinkOnly
  BY DEF LinkInv
<1> QED BY <1>1, LinkInit, TypeInit, TypeStep, LinkStep, PTL DEF AuthSpec

-----------------------------------------------------------------------------
(* Logging out.                                                            *)

\* Tokens are numbered as they are made; 0 is no token.
TokensMade ==
    /\ made.tokens <= MaxTokens
    /\ \A s \in sessions : 0 < s.token /\ s.token <= made.tokens
    /\ \A c \in Calls : call[c].token <= made.tokens
    /\ \A b \in Browsers :
          /\ cookie[b].refresh <= made.tokens
          /\ out[b] <= made.tokens \/ out[b] = MaxTokens + 1

LogoutsDone == \A c \in Calls : call[c].kind = "logout" => RowsOf(call[c].token) = {}

\* A refresh for a browser that has logged out was under way when it did.
RefreshesKnown ==
    \A c \in Calls : call[c].kind = "refresh" /\ out[call[c].browser] # 0
        => call[c].token \in raced[call[c].browser]

OutInv == TokensMade /\ LogoutsDone /\ RefreshesKnown /\ LoggedOutStaysOut

\* Fewer rows, the same cookies, and calls that go on as they were, or as none of interest.
LEMMA CookiesUntouched ==
    ASSUME OutInv, sessions' \subseteq sessions, made'.tokens = made.tokens,
           UNCHANGED <<cookie, out, raced>>,
           \A d \in Calls :
              /\ call'[d].token <= made.tokens
              /\ call'[d].kind \in {"logout", "refresh"} =>
                    call'[d].kind = call[d].kind /\ call'[d].token = call[d].token
                    /\ call'[d].browser = call[d].browser
    PROVE  OutInv'
<1>1. TokensMade'
  BY DEF OutInv, TokensMade
<1>2. LogoutsDone'
  BY DEF OutInv, LogoutsDone, RowsOf
<1>3. RefreshesKnown'
  BY DEF OutInv, RefreshesKnown
<1>4. LoggedOutStaysOut'
  BY DEF OutInv, LoggedOutStaysOut, RowsOf
<1> QED BY <1>1, <1>2, <1>3, <1>4 DEF OutInv

\* A call that goes on as it is, or as none of interest.
LEMMA GoesOn ==
    ASSUME TypeInv, OutInv, NEW c \in Calls, NEW state, Goes(c, state),
           state.token <= made.tokens,
           state.kind \in {"logout", "refresh"} =>
              state.kind = call[c].kind /\ state.token = call[c].token
              /\ state.browser = call[c].browser
    PROVE  \A d \in Calls :
              /\ call'[d].token <= made.tokens
              /\ call'[d].kind \in {"logout", "refresh"} =>
                    call'[d].kind = call[d].kind /\ call'[d].token = call[d].token
                    /\ call'[d].browser = call[d].browser
  BY DEF TypeInv, OutInv, TokensMade, Goes

LEMMA OutStep == TypeInv /\ OutInv /\ [AuthNext]_vars => OutInv'
<1> SUFFICES ASSUME TypeInv, OutInv, [AuthNext]_vars PROVE OutInv'
  OBVIOUS
<1> USE CookiesUntouched, GoesOn, IdleIsApart, IdleIsState DEF tables, histories
<1>0. /\ \A d \in Calls : call[d] \in CallStates /\ call[d].token <= made.tokens
      /\ made.tokens \in Nat /\ MaxTokens \in Nat /\ 0 <= made.tokens
  BY AuthAssumption DEF TypeInv, OutInv, TokensMade
<1>1. ASSUME NEW c \in Calls, NEW b \in Browsers, LoginVerifies(c, b) PROVE OutInv'
  <2> DEFINE next == [Idle EXCEPT !.kind = "login", !.pc = "insert", !.browser = b,
                                  !.grant = password]
  <2>1. next.kind = "login" /\ next.token = 0
    BY DEF CallStates
  <2>2. Goes(c, next) /\ UNCHANGED <<sessions, made, cookie, out, raced>>
    BY <1>1 DEF LoginVerifies
  <2> HIDE DEF next
  <2> QED BY <1>0, <2>1, <2>2
<1>2. ASSUME NEW c \in Calls, NEW b \in Browsers, RefreshReads(c, b) PROVE OutInv'
  <2>1. PICK s \in RowsOf(cookie[b].refresh) :
           Goes(c, [Idle EXCEPT !.kind = "refresh", !.browser = b, !.token = s.token,
                                !.pc = IF s.place = place[b] THEN "extend" ELSE "drop"])
    BY <1>2 DEF RefreshReads
  <2> DEFINE next == [Idle EXCEPT !.kind = "refresh", !.browser = b, !.token = s.token,
                                  !.pc = IF s.place = place[b] THEN "extend" ELSE "drop"]
  <2>2. next.kind = "refresh" /\ next.token = s.token /\ next.browser = b
    BY DEF CallStates
  <2>3. call' = [call EXCEPT ![c] = next] /\ UNCHANGED <<sessions, made, cookie, out, raced>>
    BY <1>2, <2>1 DEF RefreshReads, Goes
  <2> HIDE DEF next
  <2>4. s \in sessions /\ s.token = cookie[b].refresh /\ 0 < s.token /\ s.token <= made.tokens
    BY DEF RowsOf, OutInv, TokensMade
  <2>5. out[b] # 0 => cookie[b].refresh \in raced[b]
    BY <2>4, AuthAssumption DEF OutInv, LoggedOutStaysOut, NoCookies, TypeInv, Rows
  <2>6. TokensMade'
    BY <2>2, <2>3, <2>4 DEF OutInv, TokensMade, TypeInv
  <2>7. LogoutsDone'
    BY <2>2, <2>3 DEF OutInv, LogoutsDone, RowsOf, TypeInv
  <2>8. RefreshesKnown'
    <3>1. \A d \in Calls : call'[d] = IF d = c THEN next ELSE call[d]
      BY <2>3 DEF TypeInv
    <3>2. next.kind = "refresh" /\ out[next.browser] # 0 => next.token \in raced[next.browser]
      BY <2>2, <2>4, <2>5
    <3> QED BY <2>3, <3>1, <3>2 DEF OutInv, RefreshesKnown
  <2>9. LoggedOutStaysOut'
    BY <2>3 DEF OutInv, LoggedOutStaysOut, RowsOf
  <2> QED BY <2>6, <2>7, <2>8, <2>9 DEF OutInv
<1>3. ASSUME NEW c \in Calls, NEW b \in Browsers, LogoutDeletes(c, b) PROVE OutInv'
  <2> DEFINE next == [Idle EXCEPT !.kind = "logout", !.pc = "reply", !.browser = b,
                                  !.token = cookie[b].refresh]
  <2>1. next.kind = "logout" /\ next.token = cookie[b].refresh
    BY DEF CallStates, TypeInv
  <2>2. /\ call' = [call EXCEPT ![c] = next] /\ UNCHANGED <<made, cookie, out, raced>>
        /\ sessions' = sessions \ RowsOf(cookie[b].refresh)
    BY <1>3 DEF LogoutDeletes, Goes
  <2> HIDE DEF next
  <2>3. TokensMade'
    BY <2>1, <2>2 DEF OutInv, TokensMade, TypeInv
  <2>4. LogoutsDone'
    BY <2>1, <2>2 DEF OutInv, LogoutsDone, RowsOf, TypeInv
  <2>5. RefreshesKnown'
    BY <2>1, <2>2 DEF OutInv, RefreshesKnown, TypeInv
  <2>6. LoggedOutStaysOut'
    BY <2>2 DEF OutInv, LoggedOutStaysOut, RowsOf
  <2> QED BY <2>3, <2>4, <2>5, <2>6 DEF OutInv
<1>4. ASSUME NEW c \in Calls, LoginInserts(c) PROVE OutInv'
  <2> DEFINE t == made.tokens + 1
             new == [token |-> t, place |-> place[call[c].browser], grant |-> call[c].grant]
             next == [call[c] EXCEPT !.pc = "reply", !.token = t]
  <2>1. next.kind = "login" /\ next.token = t
    BY <1>0, <1>4 DEF CallStates, LoginInserts
  <2>2. /\ call' = [call EXCEPT ![c] = next] /\ UNCHANGED <<cookie, out, raced>>
        /\ sessions' = sessions \cup {new} /\ t <= MaxTokens
    BY <1>4 DEF LoginInserts, Goes
  <2>3. made'.tokens = t
    BY <1>4 DEF LoginInserts, TypeInv
  <2>4. new.token = t
    OBVIOUS
  <2> HIDE DEF next, new
  <2>5. \A n \in Nat : n <= made.tokens => n <= t /\ n # t
    BY <1>0
  <2>6. /\ \A s \in sessions : s.token \in Nat
        /\ \A d \in Calls : call[d].token \in Nat
        /\ \A b \in Browsers : cookie[b].refresh \in Nat /\ out[b] \in Nat
    BY <1>0 DEF TypeInv, Rows, CallStates
  <2>7. TokensMade'
    <3>1. \A s \in sessions' : 0 < s.token /\ s.token <= t
      BY <1>0, <2>2, <2>4, <2>5, <2>6 DEF OutInv, TokensMade
    <3>2. \A d \in Calls : call'[d].token <= t
      BY <1>0, <2>1, <2>2, <2>5, <2>6 DEF OutInv, TokensMade, TypeInv
    <3>3. \A b \in Browsers : cookie[b].refresh <= t /\ (out[b] <= t \/ out[b] = MaxTokens + 1)
      BY <2>5, <2>6 DEF OutInv, TokensMade
    <3> QED BY <2>2, <2>3, <3>1, <3>2, <3>3 DEF TokensMade
  <2>8. LogoutsDone'
    BY <1>0, <2>1, <2>2, <2>4, <2>5, <2>6 DEF OutInv, LogoutsDone, RowsOf, TypeInv
  <2>9. RefreshesKnown'
    BY <2>1, <2>2 DEF OutInv, RefreshesKnown, TypeInv
  <2>10. LoggedOutStaysOut'
    <3>1. \A b \in Browsers : out[b] # t
      BY <1>0, <2>2, <2>5, <2>6 DEF OutInv, TokensMade
    <3> QED BY <2>2, <2>4, <3>1 DEF OutInv, LoggedOutStaysOut, RowsOf
  <2> QED BY <2>7, <2>8, <2>9, <2>10 DEF OutInv
<1>5. ASSUME NEW c \in Calls, RefreshExtends(c) PROVE OutInv'
  <2> DEFINE next == [call[c] EXCEPT !.pc = "reply"]
  <2>1. /\ next.kind = call[c].kind /\ next.token = call[c].token
        /\ next.browser = call[c].browser
    BY <1>0 DEF CallStates
  <2>2. (Goes(c, Idle) \/ Goes(c, next)) /\ UNCHANGED <<sessions, made, cookie, out, raced>>
    BY <1>5 DEF RefreshExtends
  <2> HIDE DEF next
  <2> QED BY <1>0, <2>1, <2>2
<1>6. ASSUME NEW c \in Calls, RefreshDrops(c) PROVE OutInv'
  BY <1>0, <1>6 DEF RefreshDrops
<1>7. ASSUME NEW c \in Calls, SetCookies(c) PROVE OutInv'
  <2> DEFINE b == call[c].browser
             k == [refresh |-> call[c].token, access |-> TRUE]
  <2>1. /\ cookie' = [cookie EXCEPT ![b] = k] /\ call' = [call EXCEPT ![c] = Idle]
        /\ UNCHANGED <<sessions, made>>
    BY <1>7 DEF SetCookies, Goes
  <2>2. k.refresh = call[c].token
    OBVIOUS
  <2> HIDE DEF k
  <2>3. \A d \in Browsers : out'[d] = out[d] \/ out'[d] = 0
    BY <1>7 DEF SetCookies, TypeInv
  <2>4. TokensMade'
    BY <1>0, <2>1, <2>2, <2>3 DEF OutInv, TokensMade, TypeInv
  <2>5. LogoutsDone'
    BY <2>1 DEF OutInv, LogoutsDone, RowsOf, TypeInv
  <2>6. \A d \in Browsers : out'[d] # 0 => out'[d] = out[d] /\ raced'[d] = raced[d]
    BY <1>7 DEF SetCookies, TypeInv
  <2>7. RefreshesKnown'
    BY <1>0, <2>1, <2>6 DEF OutInv, RefreshesKnown, TypeInv, CallStates
  <2>8. b \in Browsers /\ (out'[b] # 0 => call[c].token \in raced'[b])
    <3>1. b \in Browsers
      BY <1>0 DEF CallStates
    <3>2. CASE call[c].kind = "login"
      BY <1>7, <3>1, <3>2 DEF SetCookies, TypeInv
    <3>3. CASE call[c].kind = "refresh"
      BY <1>7, <3>1, <3>3 DEF SetCookies, OutInv, RefreshesKnown
    <3> QED BY <1>7, <3>1, <3>2, <3>3 DEF SetCookies
  <2>9. LoggedOutStaysOut'
    <3>1. \A d \in Browsers : cookie'[d] = IF d = b THEN k ELSE cookie[d]
      BY <2>1 DEF TypeInv
    <3> QED BY <2>1, <2>2, <2>6, <2>8, <3>1 DEF OutInv, LoggedOutStaysOut, RowsOf
  <2> QED BY <2>4, <2>5, <2>7, <2>9 DEF OutInv
<1>8. ASSUME NEW c \in Calls, DeleteCookies(c) PROVE OutInv'
  <2> DEFINE b == call[c].browser
             t == call[c].token
  <2>1. /\ cookie' = [cookie EXCEPT ![b] = NoCookies] /\ call' = [call EXCEPT ![c] = Idle]
        /\ UNCHANGED <<sessions, made>> /\ call[c].kind = "logout"
        /\ out' = [out EXCEPT ![b] = IF t = 0 THEN MaxTokens + 1 ELSE t]
    BY <1>8 DEF DeleteCookies, Goes, CookiesGone
  <2>2. b \in Browsers /\ t \in Nat /\ t <= made.tokens
    BY <1>0 DEF CallStates
  <2>3. \A d \in Browsers : d # b => out'[d] = out[d] /\ raced'[d] = raced[d]
    BY <1>8, <2>1 DEF DeleteCookies, TypeInv
  <2>4. TokensMade'
    BY <1>0, <2>1, <2>2, <2>3 DEF OutInv, TokensMade, NoCookies, TypeInv
  <2>5. LogoutsDone'
    BY <2>1 DEF OutInv, LogoutsDone, RowsOf, TypeInv
  <2>6. RefreshesKnown'
    <3> SUFFICES ASSUME NEW d \in Calls, call'[d].kind = "refresh", out'[call'[d].browser] # 0
                 PROVE  call'[d].token \in raced'[call'[d].browser]
      BY DEF RefreshesKnown
    <3>1. call'[d] = call[d] /\ call[d].browser \in Browsers
      BY <1>0, <2>1, IdleIsApart DEF TypeInv, CallStates
    <3>2. CASE call[d].browser = b
      BY <1>8, <2>2, <3>1, <3>2 DEF DeleteCookies, Refreshing, TypeInv
    <3>3. CASE call[d].browser # b
      BY <2>3, <3>1, <3>3 DEF OutInv, RefreshesKnown
    <3> QED BY <3>2, <3>3
  <2>7. LoggedOutStaysOut'
    <3>1. RowsOf(MaxTokens + 1) = {}
      BY <1>0 DEF OutInv, TokensMade, RowsOf, TypeInv, Rows
    <3>2. RowsOf(t) = {}
      BY <2>1 DEF OutInv, LogoutsDone
    <3> QED BY <2>1, <2>2, <2>3, <3>1, <3>2 DEF OutInv, LoggedOutStaysOut, RowsOf, TypeInv
  <2> QED BY <2>4, <2>5, <2>6, <2>7 DEF OutInv
<1>9. ASSUME NEW c \in Calls, ReplyLost(c) PROVE OutInv'
  BY <1>0, <1>9 DEF ReplyLost
<1>10. ASSUME NEW c \in Calls, ForgotDeletes(c) PROVE OutInv'
  <2> DEFINE others == {d \in Calls : Forgetting(d)}
             mine == [Idle EXCEPT !.kind = "forgot", !.pc = "insert",
                                  !.goneLinks = LinksSeen, !.before = others # {}]
             next(d) == [call[d] EXCEPT !.before = TRUE]
  <2>1. mine.kind = "forgot" /\ mine.token = 0
    BY DEF CallStates
  <2>2. \A d \in Calls : next(d).kind = call[d].kind /\ next(d).token = call[d].token
                         /\ next(d).browser = call[d].browser
    BY <1>0 DEF CallStates
  <2>3. call' = [d \in Calls |->
           CASE d = c -> mine [] d \in others -> next(d) [] OTHER -> call[d]]
    BY <1>10, Zenon DEF ForgotDeletes
  <2>4. UNCHANGED <<sessions, made, cookie, out, raced>>
    BY <1>10 DEF ForgotDeletes
  <2> HIDE DEF mine, next, others
  <2> QED BY <1>0, <2>1, <2>2, <2>3, <2>4
<1>11. ASSUME NEW c \in Calls, ForgotCommits(c) PROVE OutInv'
  <2>1. made'.tokens = made.tokens
    BY <1>11 DEF ForgotCommits, TypeInv
  <2> QED BY <1>0, <1>11, <2>1 DEF ForgotCommits
<1>12. ASSUME NEW c \in Calls, ResetDeletes(c) PROVE OutInv'
  <2> DEFINE next == [call[c] EXCEPT !.pc = "commit", !.gone = sessions, !.goneLinks = LinksSeen]
  <2>1. /\ next.kind = call[c].kind /\ next.token = call[c].token
        /\ next.browser = call[c].browser
    BY <1>0 DEF CallStates
  <2>2. Goes(c, next) /\ UNCHANGED <<sessions, made, cookie, out, raced>>
    BY <1>12 DEF ResetDeletes
  <2> HIDE DEF next
  <2> QED BY <1>0, <2>1, <2>2
<1>13. ASSUME NEW c \in Calls, ResetCommits(c) PROVE OutInv'
  <2> DEFINE next(d) == [call[d] EXCEPT !.before = TRUE]
             same(d) == d # c /\ call[d].kind = "reset" /\ call[d].link = call[c].link
  <2>1. \A d \in Calls : next(d).kind = call[d].kind /\ next(d).token = call[d].token
                         /\ next(d).browser = call[d].browser
    BY <1>0 DEF CallStates
  <2>2. call' = [d \in Calls |->
           CASE d = c -> Idle [] same(d) -> next(d) [] OTHER -> call[d]]
    BY <1>13, Zenon DEF ResetCommits
  <2>3. sessions' = sessions \ call[c].gone /\ UNCHANGED <<made, cookie, out, raced>>
    BY <1>13 DEF ResetCommits
  <2> HIDE DEF next, same
  <2> QED BY <1>0, <2>1, <2>2, <2>3
<1>14. ASSUME NEW c \in Calls, NEW l \in Links, ResetReads(c, l) PROVE OutInv'
  <2> DEFINE next == [Idle EXCEPT !.kind = "reset", !.pc = "delete", !.link = l]
  <2>1. next.kind = "reset" /\ next.token = 0
    BY DEF CallStates
  <2>2. Goes(c, next) /\ UNCHANGED <<sessions, made, cookie, out, raced>>
    BY <1>14 DEF ResetReads
  <2> HIDE DEF next
  <2> QED BY <1>0, <2>1, <2>2
<1>15. ASSUME NEW b \in Browsers, Move(b) PROVE OutInv'
  BY <1>0, <1>15 DEF Move
<1>16. CASE UNCHANGED vars
  BY <1>0, <1>16 DEF vars
<1> QED
  BY <1>1, <1>2, <1>3, <1>4, <1>5, <1>6, <1>7, <1>8, <1>9, <1>10, <1>11, <1>12, <1>13,
     <1>14, <1>15, <1>16 DEF AuthNext

LEMMA OutInit == AuthInit => OutInv
  BY IdleIsApart, AuthAssumption
  DEF AuthInit, OutInv, TokensMade, LogoutsDone, RefreshesKnown, LoggedOutStaysOut, NoCookies

\* The session a browser has logged out of never comes back, and until its next login the
\* browser has cookies only by the reply of a /refresh that was under way at the logout, with
\* the token that was sent, be it of another session (logout, set_auth_cookies).
THEOREM LogoutLasts == AuthSpec => []LoggedOutStaysOut
<1>1. OutInv => LoggedOutStaysOut
  BY DEF OutInv
<1> QED BY <1>1, OutInit, TypeInit, TypeStep, OutStep, PTL DEF AuthSpec
-----------------------------------------------------------------------------
(* Every token and link has been made, every grant given.                  *)

CallBounded(x, pw) ==
    /\ x.token \in {0} \cup Tokens /\ x.link \in {0} \cup Links /\ x.grant <= pw
    /\ x.kind = "reset" => x.link \in Links
    /\ \A s \in x.gone : s.token \in Tokens /\ s.grant <= pw
    /\ x.goneLinks \subseteq Links

CallsBounded == \A c \in Calls : CallBounded(call[c], password)

TablesBounded ==
    /\ made.tokens <= MaxTokens /\ made.links <= MaxLinks
    /\ \A s \in sessions : s.token \in Tokens /\ s.token <= made.tokens /\ s.grant <= password
    /\ \A s, t \in sessions : s.token = t.token => s = t
    /\ links \subseteq Links

CookiesBounded ==
    \A b \in Browsers : /\ cookie[b].refresh \in {0} \cup Tokens
                        /\ out[b] \in {0} \cup Tokens \cup {MaxTokens + 1}
                        /\ raced[b] \subseteq {0} \cup Tokens

HistoriesBounded == late \subseteq Tokens /\ spent \subseteq Links /\ doubled \subseteq Links

BoundsInv == CallsBounded /\ TablesBounded /\ CookiesBounded /\ HistoriesBounded

LEMMA BoundsImplyTypes == TypeInv /\ BoundsInv => AuthTypeOK
<1> SUFFICES ASSUME TypeInv, BoundsInv PROVE AuthTypeOK
  OBVIOUS
<1>1. sessions \subseteq Sessions
  BY DEF TypeInv, Rows, BoundsInv, TablesBounded, Sessions
<1>2. made \in [tokens : 0..MaxTokens, links : 0..MaxLinks]
  BY AuthAssumption DEF TypeInv, BoundsInv, TablesBounded
<1>3. cookie \in [Browsers -> [refresh : {0} \cup Tokens, access : BOOLEAN]]
  BY DEF TypeInv, BoundsInv, CookiesBounded
<1>4. out \in [Browsers -> {0} \cup Tokens \cup {MaxTokens + 1}]
  BY DEF TypeInv, BoundsInv, CookiesBounded
<1>6. raced \in [Browsers -> SUBSET ({0} \cup Tokens)]
  BY DEF TypeInv, BoundsInv, CookiesBounded
<1>5. ASSUME NEW c \in Calls
      PROVE  /\ call[c].kind \in {"none", "login", "refresh", "logout", "forgot", "reset"}
             /\ call[c].pc \in {"idle", "insert", "extend", "drop", "delete", "commit", "reply"}
             /\ call[c].browser \in Browsers /\ call[c].token \in {0} \cup Tokens
             /\ call[c].link \in {0} \cup Links /\ call[c].grant \in 0..password
             /\ call[c].gone \subseteq Sessions /\ call[c].goneLinks \subseteq Links
             /\ call[c].before \in BOOLEAN
  <2>1. call[c] \in CallStates /\ CallBounded(call[c], password) /\ password \in Nat
    BY DEF TypeInv, BoundsInv, CallsBounded
  <2>2. call[c].gone \subseteq Sessions
    BY <2>1 DEF CallStates, CallBounded, Rows, Sessions
  <2> QED
    BY <2>1, <2>2 DEF CallStates, CallBounded
<1> QED
  BY <1>1, <1>2, <1>3, <1>4, <1>5, <1>6
  DEF TypeInv, BoundsInv, TablesBounded, HistoriesBounded, AuthTypeOK

LEMMA BoundsInit == AuthInit => BoundsInv
<1>1. CallBounded(Idle, 0)
  BY DEF Idle, CallBounded
<1> QED
  BY <1>1, AuthAssumption DEF AuthInit, BoundsInv, CallsBounded, TablesBounded, CookiesBounded,
     HistoriesBounded, NoCookies

\* Most steps replace the state of one call.
LEMMA GoesBounded ==
    ASSUME TypeInv, CallsBounded, NEW c \in Calls, NEW state, Goes(c, state),
           CallBounded(state, password), password' = password
    PROVE  CallsBounded'
<1>1. \A d \in Calls : call'[d] = IF d = c THEN state ELSE call[d]
  BY DEF TypeInv, Goes
<1> QED
  BY <1>1 DEF CallsBounded

LEMMA SameTables ==
    ASSUME TypeInv, TablesBounded, sessions' \subseteq sessions, links' \subseteq links,
           made' = made, password' \in Nat, password <= password'
    PROVE  TablesBounded'
  BY DEF TypeInv, Rows, TablesBounded

LEMMA SameCookies ==
    ASSUME CookiesBounded, UNCHANGED <<cookie, out, raced>> PROVE CookiesBounded'
  BY DEF CookiesBounded

LEMMA SameHistories ==
    ASSUME HistoriesBounded, late' = late, spent' = spent, doubled' = doubled
    PROVE  HistoriesBounded'
  BY DEF HistoriesBounded

LEMMA BoundsStep == TypeInv /\ BoundsInv /\ [AuthNext]_vars => BoundsInv'
<1> SUFFICES ASSUME TypeInv, BoundsInv, [AuthNext]_vars PROVE BoundsInv'
  OBVIOUS
<1> USE DEF tables, histories
<1>0. /\ CallsBounded /\ TablesBounded /\ CookiesBounded /\ HistoriesBounded
      /\ password \in Nat /\ password <= password /\ made \in [tokens : Nat, links : Nat]
      /\ \A d \in Calls : call[d] \in CallStates /\ CallBounded(call[d], password)
  BY DEF BoundsInv, TypeInv, CallsBounded
<1>a. CallBounded(Idle, password) /\ Idle \in CallStates
  BY <1>0, IdleIsState DEF Idle, CallBounded
\* A step that changes nothing but the state of one call.
<1>b. ASSUME NEW c \in Calls, NEW state, Goes(c, state), CallBounded(state, password),
             UNCHANGED <<tables, cookie, out, raced, late, spent, doubled>>
      PROVE  BoundsInv'
  BY <1>0, <1>b, GoesBounded, SameTables, SameCookies, SameHistories DEF BoundsInv
<1>1. ASSUME NEW c \in Calls, NEW b \in Browsers, LoginVerifies(c, b) PROVE BoundsInv'
  <2> DEFINE next == [Idle EXCEPT !.kind = "login", !.pc = "insert", !.browser = b,
                                  !.grant = password]
  <2>1. CallBounded(next, password)
    BY <1>0, <1>a DEF CallBounded, CallStates
  <2> HIDE DEF next
  <2> QED
    BY <1>1, <1>b, <2>1 DEF LoginVerifies, next
<1>2. ASSUME NEW c \in Calls, NEW b \in Browsers, RefreshReads(c, b) PROVE BoundsInv'
  <2> DEFINE next(s) == [Idle EXCEPT !.kind = "refresh", !.browser = b, !.token = s.token,
                                     !.pc = IF s.place = place[b] THEN "extend" ELSE "drop"]
  <2>1. PICK s \in sessions : Goes(c, next(s))
    BY <1>2 DEF RefreshReads, RowsOf
  <2>2. s.token \in Tokens
    BY <1>0 DEF TablesBounded
  <2>3. CallBounded(next(s), password)
    BY <1>a, <2>2 DEF CallBounded, CallStates
  <2> HIDE DEF next
  <2> QED
    BY <1>2, <1>b, <2>1, <2>3 DEF RefreshReads
<1>3. ASSUME NEW c \in Calls, NEW b \in Browsers, LogoutDeletes(c, b) PROVE BoundsInv'
  <2> DEFINE next == [Idle EXCEPT !.kind = "logout", !.pc = "reply", !.browser = b,
                                  !.token = cookie[b].refresh]
  <2>1. cookie[b].refresh \in {0} \cup Tokens
    BY <1>0 DEF CookiesBounded
  <2>2. CallBounded(next, password)
    BY <1>a, <2>1 DEF CallBounded, CallStates
  <2>3. Goes(c, next) /\ sessions' \subseteq sessions
    BY <1>3 DEF LogoutDeletes
  <2> HIDE DEF next
  <2> QED
    BY <1>0, <1>3, <2>2, <2>3, GoesBounded, SameTables, SameCookies, SameHistories
    DEF LogoutDeletes, BoundsInv
<1>4. ASSUME NEW c \in Calls, LoginInserts(c) PROVE BoundsInv'
  <2> DEFINE t == made.tokens + 1
             next == [call[c] EXCEPT !.pc = "reply", !.token = t]
             new == [token |-> t, place |-> place[call[c].browser], grant |-> call[c].grant]
  <2>1. t \in Tokens /\ t <= MaxTokens
    BY <1>0, <1>4, AuthAssumption DEF LoginInserts, Tokens
  <2>2. CallBounded(next, password)
    BY <1>0, <2>1 DEF CallBounded, CallStates
  <2>3. Goes(c, next) /\ sessions' = sessions \cup {new} /\ late' \subseteq late \cup {t}
    BY <1>4 DEF LoginInserts
  <2>4. made' = [made EXCEPT !.tokens = t]
    BY <1>4 DEF LoginInserts
  <2>5. UNCHANGED <<password, links, cookie, place, out, raced, spent, doubled>>
    BY <1>4 DEF LoginInserts
  <2>6. new.token = t /\ new.grant <= password
    BY <1>0 DEF CallBounded
  <2>7. \A s \in sessions : s.token \in Nat /\ s.token <= made.tokens
    BY <1>0 DEF TablesBounded, TypeInv, Rows
  <2> HIDE DEF next, new
  <2>8. TablesBounded'
    <3>1. made'.tokens = t /\ made'.links = made.links /\ t > made.tokens
      BY <1>0, <2>4
    <3>2. \A s \in sessions' : s.token \in Tokens /\ s.token <= made'.tokens /\ s.grant <= password'
      BY <1>0, <2>1, <2>3, <2>5, <2>6, <2>7, <3>1 DEF TablesBounded
    <3>3. \A s, u \in sessions' : s.token = u.token => s = u
      BY <1>0, <2>3, <2>6, <2>7, <3>1 DEF TablesBounded
    <3> QED
      BY <1>0, <2>1, <2>5, <3>1, <3>2, <3>3 DEF TablesBounded
  <2>9. HistoriesBounded'
    BY <1>0, <2>1, <2>3, <2>5 DEF HistoriesBounded
  <2>10. CallsBounded'
    BY <1>0, <2>2, <2>3, <2>5, GoesBounded
  <2> QED
    BY <1>0, <2>5, <2>8, <2>9, <2>10, SameCookies DEF BoundsInv
<1>5. ASSUME NEW c \in Calls, RefreshExtends(c) PROVE BoundsInv'
  <2> DEFINE next == [call[c] EXCEPT !.pc = "reply"]
  <2>1. CallBounded(next, password)
    BY <1>0 DEF CallBounded, CallStates
  <2> HIDE DEF next
  <2>2. Goes(c, IF RowsOf(call[c].token) = {} THEN Idle ELSE next)
    BY <1>5 DEF RefreshExtends, next
  <2> QED
    BY <1>5, <1>a, <1>b, <2>1, <2>2 DEF RefreshExtends
<1>6. ASSUME NEW c \in Calls, RefreshDrops(c) PROVE BoundsInv'
  BY <1>0, <1>6, <1>a, GoesBounded, SameTables, SameCookies, SameHistories
  DEF RefreshDrops, BoundsInv
<1>7. ASSUME NEW c \in Calls, SetCookies(c) PROVE BoundsInv'
  <2> DEFINE b == call[c].browser
  <2>1. b \in Browsers /\ call[c].token \in {0} \cup Tokens
    BY <1>0 DEF CallStates, CallBounded
  <2>2. cookie' = [cookie EXCEPT ![b] = [refresh |-> call[c].token, access |-> TRUE]]
        /\ out' \in {out, [out EXCEPT ![b] = 0]} /\ raced' \in {raced, [raced EXCEPT ![b] = {}]}
    BY <1>7 DEF SetCookies
  <2> HIDE DEF b
  <2>3. CookiesBounded'
    BY <1>0, <2>1, <2>2 DEF CookiesBounded, TypeInv
  <2>4. Goes(c, Idle) /\ UNCHANGED <<tables, late, spent, doubled>>
    BY <1>7 DEF SetCookies
  <2> QED
    BY <1>0, <1>a, <2>3, <2>4, GoesBounded, SameTables, SameHistories DEF BoundsInv
<1>8. ASSUME NEW c \in Calls, DeleteCookies(c) PROVE BoundsInv'
  <2> DEFINE b == call[c].browser
             o == IF call[c].token = 0 THEN MaxTokens + 1 ELSE call[c].token
             r == {call[d].token : d \in {x \in Calls : Refreshing(x, b)}}
  <2>1. /\ b \in Browsers /\ o \in {0} \cup Tokens \cup {MaxTokens + 1}
        /\ r \subseteq {0} \cup Tokens
    BY <1>0 DEF CallStates, CallBounded
  <2>2. cookie' = [cookie EXCEPT ![b] = NoCookies] /\ out' = [out EXCEPT ![b] = o]
        /\ raced' = [raced EXCEPT ![b] = r]
    BY <1>8 DEF DeleteCookies, CookiesGone
  <2> HIDE DEF b, o, r
  <2>3. CookiesBounded'
    BY <1>0, <2>1, <2>2 DEF CookiesBounded, TypeInv, NoCookies
  <2>4. Goes(c, Idle) /\ UNCHANGED <<tables, late, spent, doubled>>
    BY <1>8 DEF DeleteCookies
  <2> QED
    BY <1>0, <1>a, <2>3, <2>4, GoesBounded, SameTables, SameHistories DEF BoundsInv
<1>9. ASSUME NEW c \in Calls, ReplyLost(c) PROVE BoundsInv'
  BY <1>9, <1>a, <1>b DEF ReplyLost
<1>10. ASSUME NEW c \in Calls, ForgotDeletes(c) PROVE BoundsInv'
  <2> DEFINE others == {d \in Calls : Forgetting(d)}
             mine == [Idle EXCEPT !.kind = "forgot", !.pc = "insert",
                                  !.goneLinks = LinksSeen, !.before = others # {}]
             next(d) == [call[d] EXCEPT !.before = TRUE]
  <2>1. CallBounded(mine, password)
    BY <1>0, <1>a DEF CallBounded, CallStates, LinksSeen, TablesBounded
  <2>2. \A d \in Calls : CallBounded(next(d), password)
    BY <1>0 DEF CallBounded, CallStates
  <2>3. call' = [d \in Calls |->
           CASE d = c -> mine [] d \in others -> next(d) [] OTHER -> call[d]]
    BY <1>10, Zenon DEF ForgotDeletes
  <2> HIDE DEF mine, next, others
  <2>4. CallsBounded'
    BY <1>0, <1>10, <2>1, <2>2, <2>3 DEF CallsBounded, ForgotDeletes
  <2> QED
    BY <1>0, <1>10, <2>4, SameTables, SameCookies, SameHistories DEF ForgotDeletes, BoundsInv
<1>11. ASSUME NEW c \in Calls, ForgotCommits(c) PROVE BoundsInv'
  <2> DEFINE l == made.links + 1
  <2>1. l \in Links /\ l <= MaxLinks
    BY <1>0, <1>11, AuthAssumption DEF ForgotCommits, Links
  <2>2. /\ links' \subseteq links \cup {l} /\ doubled' \subseteq doubled \cup {l}
        /\ made' = [made EXCEPT !.links = l] /\ Goes(c, Idle)
        /\ UNCHANGED <<password, sessions, cookie, out, raced, late, spent>>
    BY <1>11 DEF ForgotCommits
  <2>3. made'.tokens = made.tokens /\ made'.links = l
    BY <1>0, <2>2
  <2> HIDE DEF l
  <2>4. TablesBounded' /\ HistoriesBounded'
    BY <1>0, <2>1, <2>2, <2>3 DEF TablesBounded, HistoriesBounded
  <2> QED
    BY <1>0, <1>a, <2>2, <2>4, GoesBounded, SameCookies DEF BoundsInv
<1>12. ASSUME NEW c \in Calls, ResetDeletes(c) PROVE BoundsInv'
  <2> DEFINE next == [call[c] EXCEPT !.pc = "commit", !.gone = sessions, !.goneLinks = LinksSeen]
  <2>1. CallBounded(next, password)
    BY <1>0 DEF CallBounded, CallStates, LinksSeen, TablesBounded
  <2> HIDE DEF next
  <2> QED
    BY <1>12, <1>b, <2>1 DEF ResetDeletes, next
<1>13. ASSUME NEW c \in Calls, ResetCommits(c) PROVE BoundsInv'
  <2> DEFINE next(d) == [call[d] EXCEPT !.before = TRUE]
             same(d) == d # c /\ call[d].kind = "reset" /\ call[d].link = call[c].link
  <2>0. password' \in Nat /\ password <= password'
    BY <1>0, <1>13 DEF ResetCommits
  <2>1. ASSUME NEW x \in CallStates, CallBounded(x, password) PROVE CallBounded(x, password')
    <3>1. x.grant \in Nat /\ \A s \in x.gone : s.grant \in Nat
      BY DEF CallStates, Rows
    <3> QED
      BY <1>0, <2>0, <2>1, <3>1 DEF CallBounded
  <2>2. \A d \in Calls : next(d) \in CallStates /\ CallBounded(next(d), password)
    BY SMTT(30), ZenonT(30), <1>0 DEF CallBounded, CallStates
  <2>3. call' = [d \in Calls |->
           CASE d = c -> Idle [] same(d) -> next(d) [] OTHER -> call[d]]
    BY <1>13, Zenon DEF ResetCommits
  <2>4. /\ sessions' \subseteq sessions /\ links' \subseteq links /\ spent' = spent \cup {call[c].link}
        /\ UNCHANGED <<made, cookie, out, raced, late, doubled>>
    BY <1>13 DEF ResetCommits, LinksLeft
  <2>5. call[c].link \in Links
    BY <1>0, <1>13 DEF ResetCommits, Resetting, CallBounded
  <2> HIDE DEF next, same
  <2>6. CallsBounded'
    BY <1>0, <1>a, <2>1, <2>2, <2>3 DEF CallsBounded
  <2>7. HistoriesBounded'
    BY <1>0, <2>4, <2>5 DEF HistoriesBounded
  <2> QED
    BY <1>0, <2>0, <2>4, <2>6, <2>7, SameTables, SameCookies DEF BoundsInv
<1>14. ASSUME NEW c \in Calls, NEW l \in Links, ResetReads(c, l) PROVE BoundsInv'
  <2> DEFINE next == [Idle EXCEPT !.kind = "reset", !.pc = "delete", !.link = l]
  <2>1. CallBounded(next, password)
    BY <1>a DEF CallBounded, CallStates
  <2> HIDE DEF next
  <2> QED
    BY <1>14, <1>b, <2>1 DEF ResetReads, next
<1>15. ASSUME NEW b \in Browsers, Move(b) PROVE BoundsInv'
  BY <1>0, <1>15, SameTables, SameCookies, SameHistories DEF Move, BoundsInv, CallsBounded
<1>16. CASE UNCHANGED vars
  BY <1>0, <1>16, SameTables, SameCookies, SameHistories DEF vars, BoundsInv, CallsBounded
<1> QED
  BY <1>1, <1>2, <1>3, <1>4, <1>5, <1>6, <1>7, <1>8, <1>9, <1>10, <1>11, <1>12, <1>13,
     <1>14, <1>15, <1>16 DEF AuthNext

\* Every token, link and cookie is one that was handed out, no session is of a password that
\* there has not been yet, and no two sessions have one token, whatever requests overlap.
THEOREM AuthTypes == AuthSpec => []AuthTypeOK
  BY TypeInit, TypeStep, BoundsInit, BoundsStep, BoundsImplyTypes, PTL DEF AuthSpec
=============================================================================
