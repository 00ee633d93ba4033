--------------------------- MODULE MCChatDelivery ---------------------------
(* Instances of ChatDelivery for TLC. *)
EXTENDS ChatDelivery, TLC

CONSTANTS alice, bob, aliceLaptop, bobPhone, a1, a2, b1, b2

Owners == (aliceLaptop :> alice) @@ (bobPhone :> bob)

\* Two pages of one device are open one after the other or both at once.
Homes == (a1 :> aliceLaptop) @@ (a2 :> aliceLaptop) @@ (b1 :> bobPhone) @@ (b2 :> bobPhone)
OnePageEach == (a1 :> aliceLaptop) @@ (b1 :> bobPhone)

AliceWrites ==
    \A s \in {a2, b1, b2} : handler[s].pc \notin {"commit", "payloads", "echo", "fanout"}

Connecting ==
    {s \in Sockets : /\ link[s] # "none"
                     /\ handler[s].pc \in {"none", "rows", "query", "register", "history"}}

\* Alice's laptop has a second page open; then Bob's phone has none.
TwoOfAlice == link[a2] # "none"

\* Alice's page has payloads for her laptop, and for Bob's phone when it opens the chat twice.
Knows ==
    \A i \in DOMAIN messages :
        /\ aliceLaptop \in messages[i].named
        /\ link[b2] # "none" => bobPhone \in messages[i].named

\* The sockets open one after the other, and at most one of them closes.
OneStory ==
    /\ Knows
    /\ AliceWrites
    /\ TwoOfAlice => link[b1] = "none" /\ link[b2] = "none"
    /\ link[b2] # "none" => link[b1] # "none"
    /\ link[b1] # "none" \/ TwoOfAlice => link[a1] # "none"
    /\ Cardinality(Connecting) <= 1
    /\ Cardinality({s \in Sockets : link[s] = "closed"}) <= 1
=============================================================================
