-------------------------- MODULE MCRatchetSession --------------------------
(* Instance of RatchetSession for TLC. *)
EXTENDS RatchetSession, TLC

MCBundles == [spk : 1..MaxSignedPreKeys, otpk : 1..MaxOneTimeKeys]

Symmetry == Permutations(Ops)

\* Sends overlap, or the receiver's prekeys change and messages are deleted, not both.
\* Every state that comes before such a state is one, too.
OneTrouble == overlapped => spk = 1 /\ published.otpk = 1 /\ deleted = {}
=============================================================================
