--------------------------- MODULE MCCloudBackup ---------------------------
(* Instance of CloudBackup for TLC. *)
EXTENDS CloudBackup, TLC

CONSTANTS alice, bob, laptop, phone, t1, t2, t3, x, y

VARIABLE story   \* chosen once: which of the cases below a behaviour is about

\* Two tabs on the laptop, one on the phone.
Homes == (t1 :> laptop) @@ (t2 :> laptop) @@ (t3 :> phone)

Unused(t) == tab[t].pc = "closed" /\ tab[t].key = None

\* Alice's pages and Bob's share the laptop: logins, and passwords mistyped and reset by
\* Bob; without resets and mistakes, also a store that both have bound.
TwoAccounts ==
    /\ Unused(t3)
    /\ tab[t1].account # bob /\ tab[t2].account # alice
    /\ password[alice] = x /\ tab[t1].key # y
    /\ mixed # {} \/ strayed # {} => trouble = {} /\ password[bob] = x
    /\ Len(made) <= 1

\* Only Alice uses the browsers, and types her password right.
AliceAlone ==
    /\ password = [a \in Accounts |-> x]
    /\ \A t \in Tabs : tab[t].key # y /\ tab[t].account # bob
    /\ \A b \in Browsers : cookie[b] # bob

Told ==
    CASE story = "accounts" -> TwoAccounts
      [] story = "tabs" -> Unused(t3) /\ AliceAlone
      [] story = "browsers" -> Unused(t2) /\ AliceAlone

MCInit == BackupInit /\ story \in {"accounts", "tabs", "browsers"}

MCSpec ==
    MCInit /\ [][BackupNext /\ UNCHANGED story]_<<vars, story>> /\ Fairness
=============================================================================
