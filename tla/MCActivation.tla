----------------------------- MODULE MCActivation -----------------------------
(* Instances of Activation for TLC. *)
EXTENDS Activation

Everywhere(direction) == [r \in Relays |-> direction]

\* A relay for listings, one for messages, one for both.
MCConfigs == {Everywhere(direction) : direction \in {"public", "inbox", "both"}}

MCStarters == [direction \in {"public", "inbox"} |-> Everywhere(direction)]

=============================================================================
