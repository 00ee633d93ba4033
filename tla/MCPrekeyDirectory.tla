-------------------------- MODULE MCPrekeyDirectory --------------------------
(* Instances of PrekeyDirectory for TLC. *)
EXTENDS PrekeyDirectory, TLC

CONSTANTS laptop, phone, p1, p2

\* One page, which may be reloaded while its uploads are in flight.
OnePage == [p \in {p1} |-> laptop]

PageEach == (p1 :> laptop) @@ (p2 :> phone)

\* The devices, with their pages, are alike.
SwapDevices == laptop :> phone @@ phone :> laptop @@ p1 :> p2 @@ p2 :> p1

Symmetry == Permutations(Uploads) \cup Permutations(Requests) \cup {SwapDevices}

NoIssuing == \A r \in Requests : request[r].pc = "idle"

OneDevice == \E p \in Pages : page[p].pc = "closed" /\ device[HomeOf[p]] = "none"

\* The properties about pages that do not overlap are about these states only.
InTurn == ~ overlapped /\ NoIssuing

\* One page, whose uploads, revocations and purges meet each other and the issuing calls.
Alone ==
    /\ OneDevice
    /\ keys <= 2 /\ signed <= 1 /\ version <= 2 /\ late = {}
    /\ \A d \in Devices : local[d].used = {}

\* One page, which consumes keys while its uploads are under way.
Late == OneDevice /\ NoIssuing /\ keys <= 2 /\ signed <= 1

\* The uploads of two devices meet.
Meeting ==
    /\ NoIssuing /\ seen = {} /\ keys <= 2 /\ signed <= 2
    /\ \A d \in Devices : device[d] # "revoked"

OneStory == InTurn \/ Alone \/ Late \/ Meeting
=============================================================================
