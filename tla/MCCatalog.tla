------------------------------ MODULE MCCatalog ------------------------------
(* Instances of Catalog for TLC. *)
EXTENDS Catalog

CONSTANTS tea, pot, kitchen, gifts, post, van

\* A product on sale in a collection, both shipped by an option.
MCOnSale == <<post, kitchen, tea>>
MCMembers == {<<tea, kitchen>>}
MCShips == {<<tea, post>>, <<kitchen, post>>}

\* What requests set: nothing, homes, shipping, or both.
MCContents ==
  [members : {Keep, {}, {gifts}, {kitchen, gifts}}, ships : {Keep, {}, {post}, {kitchen, van}}]

Interchangeable == Permutations(Editors)

=============================================================================
