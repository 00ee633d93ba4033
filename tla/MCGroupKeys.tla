----------------------------- MODULE MCGroupKeys -----------------------------
(* Instances of GroupKeys for TLC. *)
EXTENDS GroupKeys, TLC

CONSTANTS u1, u2, u3

\* The users without a page are alike.
Symmetry == Permutations(Users \ Pages)

\* Only states in which no two calls of a page ran at once: every state that comes before
\* such a state is one, too.
NotCrossed == \A p \in Pages : ~ page[p].crossed

\* Where no messages are sent, neither who reads them nor what the page has handled makes
\* a difference to a step or to a property.
WithoutMessages ==
    <<[group EXCEPT !.leftBy = 0], changes,
      [p \in Pages |-> [page[p] EXCEPT !.handled = {}, !.bundles = {}, !.refused = FALSE]],
      store, calls, messages, onStaleRow>>
=============================================================================
