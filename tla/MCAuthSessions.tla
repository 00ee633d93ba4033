--------------------------- MODULE MCAuthSessions ---------------------------
(* Instance of AuthSessions for TLC. *)
EXTENDS AuthSessions, TLC

CONSTANTS laptop, phone, home, cafe, c1, c2, c3

VARIABLE story   \* chosen once: which of the cases below a behaviour is about

Busy == {c \in Calls : call[c].pc # "idle"}
Only(kinds) == \A c \in Busy : call[c].kind \in kinds
LaptopOnly == out[phone] = 0 /\ \A c \in Busy : call[c].browser = laptop
AtHome == \A b \in Browsers : place[b] = home

\* One browser that moves; its sessions and a reset; the links; two browsers.
Told ==
    CASE story = "browser" ->
            Only({"login", "refresh", "logout"}) /\ LaptopOnly /\ place[phone] = home
      [] story = "reset" ->
            Only({"login", "refresh", "forgot", "reset"}) /\ LaptopOnly /\ AtHome /\ made.links <= 1
      [] story = "links" -> Only({"forgot", "reset"}) /\ AtHome
      [] story = "browsers" -> Cardinality(Busy) <= 2 /\ AtHome /\ made.links <= 1

MCInit == AuthInit /\ story \in {"browser", "reset", "links", "browsers"}

MCSpec == MCInit /\ [][AuthNext /\ UNCHANGED story]_<<vars, story>>

Interchangeable == Permutations(Calls)
=============================================================================
