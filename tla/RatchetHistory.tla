--------------------------- MODULE RatchetHistory ---------------------------
(***************************************************************************)
(* RatchetSession with a record of what the receiver could once read.      *)
(*                                                                         *)
(* openChatSocket clears the cached texts together with the ratchet state, *)
(* so what a reopened chat shows is what the page can decrypt again.       *)
(***************************************************************************)
EXTENDS RatchetSession

VARIABLE everRead   \* ids decrypted on this page load or an earlier one

HistoryInit == SessionInit /\ everRead = {}

HistoryNext == SessionNext /\ everRead' = everRead \cup read'

HistorySpec == HistoryInit /\ [][HistoryNext]_<<vars, everRead>>

\* The history of a chat can be read after the chat is opened again: a message that was
\* decrypted once is decrypted whenever a later page load processes it.
HistoryStaysReadable == everRead \cap Processed \subseteq read
=============================================================================
