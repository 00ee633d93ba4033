-------------------------- MODULE MCRatchetHistory --------------------------
(* Instance of RatchetHistory for TLC. *)
EXTENDS RatchetHistory

MCBundles == [spk : 1..MaxSignedPreKeys, otpk : 1..MaxOneTimeKeys]
=============================================================================
