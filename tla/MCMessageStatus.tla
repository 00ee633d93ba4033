-------------------------- MODULE MCMessageStatus --------------------------
(* Instance of MessageStatus for TLC. *)
EXTENDS MessageStatus, TLC

CONSTANTS p1, p2, l1, l2, m1, v1

VARIABLE story   \* chosen once: which of the cases below a behaviour is about

UsedLines == {l \in Lines : line[l].pc # "none"}
Left == l1 \in UsedLines \ connected \/ visit[v1].pc = "ended"
UsedPages == {p \in Pages : page[p].pc # "none"}

\* The dot of one page; two pages; two messages; the reader's sockets coming and going.
StoryTold ==
    CASE story = "presence" ->
            UsedPages \subseteq {p1} /\ visit[v1].pc = "none" /\ save[p1].pc = "idle"
      [] story = "pages" ->
            UsedLines \subseteq {l1} /\ ~ Left /\ Len(row) <= 1 /\ save[p2].pc = "idle"
      [] story = "messages" -> UsedLines \subseteq {l1} /\ ~ Left /\ UsedPages \subseteq {p1}
      [] story = "reader" ->
            /\ m1 \notin UsedLines /\ (l2 \in UsedLines => l1 \in UsedLines)
            /\ UsedPages \subseteq {p1} /\ Len(row) <= 1
            /\ page[p1].complete \/ (UsedLines = {} /\ visit[v1].pc = "none")

MCInit == StatusInit /\ story \in {"presence", "pages", "messages", "reader"}

MCSpec == MCInit /\ [][StatusNext /\ UNCHANGED story]_<<vars, story>> /\ Fairness
=============================================================================
