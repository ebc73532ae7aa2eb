------------------------------ MODULE MCOutbox ------------------------------
(* Instances of Outbox for TLC. *)
EXTENDS Outbox, TLC

CONSTANTS
  c1, p1,
  BuyerRelays, OwnRelays  \* the inbox relays of the buyer and of the merchant

MCHome == [p \in Products |-> c1]

MCCopyOf ==
  [r \in Relays |-> IF r \in BuyerRelays THEN "recipient"
                    ELSE IF r \in OwnRelays THEN "sender" ELSE "public"]

\* The listing is on sale, or still to be published.
OnSale == <<c1, p1>>
Unpublished == <<>>

\* Publisher passes are interchangeable, and so are the relays of one inbox.
Interchangeable == Permutations(Workers) \cup Permutations(BuyerRelays) \cup Permutations(OwnRelays)

=============================================================================
