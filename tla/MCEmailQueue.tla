---------------------------- MODULE MCEmailQueue -----------------------------
(* Instances of EmailQueue for TLC. *)
EXTENDS EmailQueue

CONSTANTS toBuyer, toShop, trial

MCChannel == [m \in Mails |->
  CASE m = toBuyer -> "customer" [] m = toShop -> "merchant" [] OTHER -> "test"]

=============================================================================
