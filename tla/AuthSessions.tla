---------------------------- MODULE AuthSessions ----------------------------
(***************************************************************************)
(* The sessions of one account: passwords, refresh tokens, reset links and *)
(* the cookies of the browsers (auth.py).                                  *)
(*                                                                         *)
(* The handlers run in threads, each with a database session of its own,   *)
(* READ COMMITTED and without autoflush: what a handler has read may have  *)
(* changed when it writes, what it deletes are the rows its statement saw, *)
(* and an UPDATE of a row that is gone makes the commit fail.  Cookies are *)
(* those of the moment in a request, and change when the reply arrives.    *)
(*                                                                         *)
(* Refresh tokens and links are numbered as they are made; the password is *)
(* the number of resets.  Time is left out: an expired token or link is    *)
(* refused like one that is not there.                                     *)
(***************************************************************************)
EXTENDS Naturals, FiniteSets

CONSTANTS
    Browsers,
    Places,       \* user agents and addresses a request may come from
    Calls,        \* requests under way at a time
    MaxTokens,    \* bound: refresh tokens made
    MaxLinks      \* bound: links mailed

ASSUME AuthAssumption == Browsers # {} /\ MaxTokens \in Nat /\ MaxLinks \in Nat

VARIABLES
    password,     \* users.password
    sessions,     \* refresh_tokens
    links,        \* password_reset_tokens
    made,         \* how many tokens and links have been made
    cookie,       \* of each browser: refresh_token, or 0, and whether there is an access_token
    place,        \* where each browser is
    call,         \* the handlers
    out,          \* history: browsers that have logged out, with the token; 0 for the others
    raced,        \* history: of each browser, the tokens whose refresh was under way when it logged out
    late,         \* history: tokens of logins that a reset has not seen, though it replaces their password
    spent,        \* history: links that have changed the password
    doubled       \* history: links made by calls that overlapped

tables == <<password, sessions, links, made>>
histories == <<out, raced, late, spent, doubled>>
vars == <<tables, cookie, place, call, histories>>

Tokens == 1..MaxTokens
Links == 1..MaxLinks
Sessions == [token : Tokens, place : Places, grant : 0..password]

Idle == [kind |-> "none", pc |-> "idle", browser |-> CHOOSE b \in Browsers : TRUE,
         token |-> 0, link |-> 0, grant |-> 0, gone |-> {}, goneLinks |-> {}, before |-> FALSE]

\* The tokens of the rows are unique, and none is of a password there has not been yet.
AuthTypeOK ==
    /\ password \in Nat
    /\ sessions \subseteq Sessions
    /\ links \subseteq Links
    /\ made \in [tokens : 0..MaxTokens, links : 0..MaxLinks]
    /\ cookie \in [Browsers -> [refresh : {0} \cup Tokens, access : BOOLEAN]]
    /\ place \in [Browsers -> Places]
    /\ \A c \in Calls :
          /\ call[c].kind \in {"none", "login", "refresh", "logout", "forgot", "reset"}
          /\ call[c].pc \in {"idle", "insert", "extend", "drop", "delete", "commit", "reply"}
          /\ call[c].browser \in Browsers /\ call[c].token \in {0} \cup Tokens
          /\ call[c].link \in {0} \cup Links /\ call[c].grant \in 0..password
          /\ call[c].gone \subseteq Sessions /\ call[c].goneLinks \subseteq Links
          /\ call[c].before \in BOOLEAN
    /\ out \in [Browsers -> {0} \cup Tokens \cup {MaxTokens + 1}]
    /\ raced \in [Browsers -> SUBSET ({0} \cup Tokens)]
    /\ late \subseteq Tokens
    /\ spent \subseteq Links /\ doubled \subseteq Links
    /\ \A s, t \in sessions : s.token = t.token => s = t

NoCookies == [refresh |-> 0, access |-> FALSE]

AuthInit ==
    /\ password = 0
    /\ sessions = {} /\ links = {}
    /\ made = [tokens |-> 0, links |-> 0]
    /\ cookie = [b \in Browsers |-> NoCookies]
    /\ place \in [Browsers -> Places]
    /\ call = [c \in Calls |-> Idle]
    /\ out = [b \in Browsers |-> 0]
    /\ raced = [b \in Browsers |-> {}]
    /\ late = {} /\ spent = {} /\ doubled = {}

\* How a call goes on; Idle is its end.
Goes(c, state) == call' = [call EXCEPT ![c] = state]

RowsOf(t) == {s \in sessions : s.token = t}

\* The tokens are deleted, or about to be.
Resetting(c) == call[c].kind = "reset" /\ call[c].pc = "commit"

-----------------------------------------------------------------------------
(* login                                                                   *)

LoginVerifies(c, b) ==
    /\ call[c].pc = "idle"
    /\ Goes(c, [Idle EXCEPT !.kind = "login", !.pc = "insert", !.browser = b,
                            !.grant = password])
    /\ UNCHANGED <<tables, cookie, place, histories>>

LoginInserts(c) ==
    LET t == made.tokens + 1
        b == call[c].browser
    IN
    /\ call[c].kind = "login" /\ call[c].pc = "insert" /\ t <= MaxTokens
    /\ sessions' = sessions \cup {[token |-> t, place |-> place[b], grant |-> call[c].grant]}
    /\ made' = [made EXCEPT !.tokens = t]
    /\ late' = IF call[c].grant = password /\ ~ \E d \in Calls : Resetting(d)
               THEN late ELSE late \cup {t}
    /\ Goes(c, [call[c] EXCEPT !.pc = "reply", !.token = t])
    /\ UNCHANGED <<password, links, cookie, place, out, raced, spent, doubled>>

-----------------------------------------------------------------------------
(* refresh_token_route                                                     *)

RefreshReads(c, b) ==
    /\ call[c].pc = "idle"
    /\ \E s \in RowsOf(cookie[b].refresh) :
          Goes(c, [Idle EXCEPT !.kind = "refresh", !.browser = b, !.token = s.token,
                               !.pc = IF s.place = place[b] THEN "extend" ELSE "drop"])
    /\ UNCHANGED <<tables, cookie, place, histories>>

\* Rows that a handler has deleted and not committed yet.
Held == UNION {call[c].gone : c \in Calls}

\* Mutant: the row is written anew, whether it is there or not.
RefreshWrites(c) ==
    /\ call[c].kind = "refresh" /\ call[c].pc = "extend"
    /\ sessions' = sessions \cup
          {[token |-> call[c].token, place |-> place[call[c].browser], grant |-> 0]}
    /\ Goes(c, [call[c] EXCEPT !.pc = "reply"])
    /\ UNCHANGED <<password, links, made, cookie, place, histories>>

\* The UPDATE of expires_at waits for the row; if it is gone the handler fails.
RefreshExtends(c) ==
    /\ call[c].kind = "refresh" /\ call[c].pc = "extend"
    /\ RowsOf(call[c].token) \cap Held = {}
    /\ Goes(c, IF RowsOf(call[c].token) = {} THEN Idle ELSE [call[c] EXCEPT !.pc = "reply"])
    /\ UNCHANGED <<tables, cookie, place, histories>>

\* Device mismatch: the session is ended.
RefreshDrops(c) ==
    /\ call[c].pc = "drop"
    /\ sessions' = sessions \ RowsOf(call[c].token)
    /\ Goes(c, Idle)
    /\ UNCHANGED <<password, links, made, cookie, place, histories>>

-----------------------------------------------------------------------------
(* logout                                                                  *)

LogoutDeletes(c, b) ==
    /\ call[c].pc = "idle"
    /\ sessions' = sessions \ RowsOf(cookie[b].refresh)
    /\ Goes(c, [Idle EXCEPT !.kind = "logout", !.pc = "reply", !.browser = b,
                            !.token = cookie[b].refresh])
    /\ UNCHANGED <<password, links, made, cookie, place, histories>>

-----------------------------------------------------------------------------
(* Replies                                                                 *)

\* set_auth_cookies.
SetCookies(c) ==
    /\ call[c].pc = "reply" /\ call[c].kind \in {"login", "refresh"}
    /\ cookie' = [cookie EXCEPT ![call[c].browser] = [refresh |-> call[c].token, access |-> TRUE]]
    /\ IF call[c].kind = "login"
       THEN /\ out' = [out EXCEPT ![call[c].browser] = 0]
            /\ raced' = [raced EXCEPT ![call[c].browser] = {}]
       ELSE UNCHANGED <<out, raced>>
    /\ Goes(c, Idle)
    /\ UNCHANGED <<tables, place, late, spent, doubled>>

\* Mutant: only the refresh token is deleted.
RefreshCookieGone(k) == [k EXCEPT !.refresh = 0]

CookiesGone(k) == NoCookies

\* A refresh of the browser is under way.
Refreshing(c, b) == call[c].kind = "refresh" /\ call[c].browser = b

DeleteCookies(c) ==
    LET b == call[c].browser IN
    /\ call[c].pc = "reply" /\ call[c].kind = "logout"
    /\ cookie' = [cookie EXCEPT ![b] = CookiesGone(cookie[b])]
    /\ out' = [out EXCEPT ![b] = IF call[c].token = 0 THEN MaxTokens + 1 ELSE call[c].token]
    /\ raced' = [raced EXCEPT ![b] =
                   {call[d].token : d \in {x \in Calls : Refreshing(x, b)}}]
    /\ Goes(c, Idle)
    /\ UNCHANGED <<tables, place, late, spent, doubled>>

ReplyLost(c) ==
    /\ call[c].pc = "reply"
    /\ Goes(c, Idle)
    /\ UNCHANGED <<tables, cookie, place, histories>>

Move(b) ==
    /\ \E p \in Places \ {place[b]} : place' = [place EXCEPT ![b] = p]
    /\ UNCHANGED <<tables, cookie, call, histories>>

-----------------------------------------------------------------------------
(* forgot_password_submit                                                  *)

\* Mutant: the links mailed before stay valid.
NoneSeen == {}

\* The rows a DELETE takes are those that were committed when it began.
LinksSeen == links

Forgetting(c) == call[c].kind = "forgot"

ForgotDeletes(c) ==
    LET others == {d \in Calls : Forgetting(d)} IN
    /\ call[c].pc = "idle"
    /\ call' = [d \in Calls |->
          CASE d = c -> [Idle EXCEPT !.kind = "forgot", !.pc = "insert",
                                     !.goneLinks = LinksSeen, !.before = others # {}]
            [] d \in others -> [call[d] EXCEPT !.before = TRUE]
            [] OTHER -> call[d]]
    /\ UNCHANGED <<tables, cookie, place, histories>>

\* The new row is committed with the deletion, then the link is mailed.
ForgotCommits(c) ==
    LET l == made.links + 1 IN
    /\ Forgetting(c) /\ l <= MaxLinks
    /\ links' = (links \ call[c].goneLinks) \cup {l}
    /\ made' = [made EXCEPT !.links = l]
    /\ doubled' = IF call[c].before THEN doubled \cup {l} ELSE doubled
    /\ Goes(c, Idle)
    /\ UNCHANGED <<password, sessions, cookie, place, out, raced, late, spent>>

-----------------------------------------------------------------------------
(* reset_password_submit                                                   *)

\* Whoever has the mail may submit it, and more than once.
ResetReads(c, l) ==
    /\ call[c].pc = "idle" /\ l \in links
    /\ Goes(c, [Idle EXCEPT !.kind = "reset", !.pc = "delete", !.link = l])
    /\ UNCHANGED <<tables, cookie, place, histories>>

\* The two DELETEs. used_at is set on an object that the second of them takes out of the
\* database session, and is never written.
ResetDeletes(c) ==
    /\ call[c].kind = "reset" /\ call[c].pc = "delete"
    /\ Goes(c, [call[c] EXCEPT !.pc = "commit", !.gone = sessions, !.goneLinks = LinksSeen])
    /\ UNCHANGED <<tables, cookie, place, histories>>

\* Mutant: the link stays in the table.
LinksAfterReset(c) == links

LinksLeft(c) == links \ call[c].goneLinks

\* The password is written at the commit.
ResetCommits(c) ==
    /\ Resetting(c)
    /\ password' = password + 1
    /\ sessions' = sessions \ call[c].gone
    /\ links' = LinksLeft(c)
    /\ spent' = spent \cup {call[c].link}
    /\ call' = [d \in Calls |->
          CASE d = c -> Idle
            [] d # c /\ call[d].kind = "reset" /\ call[d].link = call[c].link ->
                  [call[d] EXCEPT !.before = TRUE]
            [] OTHER -> call[d]]
    /\ UNCHANGED <<made, cookie, place, out, raced, late, doubled>>

-----------------------------------------------------------------------------
AuthNext ==
    \/ \E c \in Calls, b \in Browsers :
          LoginVerifies(c, b) \/ RefreshReads(c, b) \/ LogoutDeletes(c, b)
    \/ \E c \in Calls :
          \/ LoginInserts(c) \/ RefreshExtends(c) \/ RefreshDrops(c)
          \/ SetCookies(c) \/ DeleteCookies(c) \/ ReplyLost(c)
          \/ ForgotDeletes(c) \/ ForgotCommits(c)
          \/ ResetDeletes(c) \/ ResetCommits(c)
          \/ \E l \in Links : ResetReads(c, l)
    \/ \E b \in Browsers : Move(b)

AuthSpec == AuthInit /\ [][AuthNext]_vars
-----------------------------------------------------------------------------
(* What a session and a reset are good for.                                *)

\* A reset ends every session: what is left, or comes back, was inserted by a login that had
\* verified the old password, after the reset had looked for tokens. In particular no
\* refresh that runs meanwhile keeps a session (reset_password_submit, refresh_token_route).
ResetEndsSessions ==
    \A s \in sessions : s.grant = password \/ s.token \in late

\* A link that has changed the password changes it again only for a call that had read it
\* before the first change was committed (reset_password_submit).
SpentLinkIsRefused ==
    \A c \in Calls : (call[c].kind = "reset" /\ call[c].link \in spent) => call[c].before

\* Only the link mailed last is valid, unless it was asked for twice at once
\* (forgot_password_submit).
LastLinkOnly == \A l, m \in links : l # m => {l, m} \subseteq doubled

\* Until the next login of the browser, the session that it has logged out of is gone, and
\* it has no cookies but those that the late reply of a /refresh brings back. That reply was
\* under way when the cookies were deleted and names the token it was sent with: the one of
\* the logout, which is not valid any more, or that of another login of this browser, which
\* the logout did not delete. In the second case the browser is logged in again without a
\* login (logout, refresh_token_route, set_auth_cookies).
LoggedOutStaysOut ==
    \A b \in Browsers : out[b] # 0 =>
        /\ RowsOf(out[b]) = {}
        /\ cookie[b] = NoCookies \/ cookie[b].refresh \in raced[b]
=============================================================================
