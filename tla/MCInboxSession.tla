---------------------------- MODULE MCInboxSession ----------------------------
(* Instances of InboxSession for TLC. *)
EXTENDS InboxSession, MCActivation

=============================================================================
