----------------------------- MODULE MCCatalog -----------------------------
(* A small instance of Catalog for TLC. *)
EXTENDS Catalog, TLC

CONSTANTS t1, t2, t3, c1

MCNames == {t1, t2, t3}

\* Table names are interchangeable.
NameSymmetry == Permutations(MCNames)

Id == [name |-> c1, type |-> "INTEGER", is_primary_key |-> TRUE]
Text == [name |-> c1, type |-> "TEXT", is_primary_key |-> FALSE]
Number == [name |-> c1, type |-> "INTEGER", is_primary_key |-> FALSE]

\* Two declarations that are accepted, with the key first and last, and one
\* for each reason to refuse one.
MCColumns ==
    { <<Id, Text>>, <<Number, Id>>,
      << >>, <<Id, Text, Text, Text>>,
      <<Id, [Text EXCEPT !.name = BadName]>>,
      <<Text>>, <<Id, Id>>,
      <<[Text EXCEPT !.is_primary_key = TRUE]>>,
      <<Id, Text, Text>> }

\* Rows for both, and rows that are refused.
MCRows ==
    LET int(n) == [kind |-> "INTEGER", data |-> n]
        text(n) == [kind |-> "TEXT", data |-> n]
    IN  { <<int(1), text(3)>>, <<int(1), text(15)>>, <<int(2), text(3)>>,
          <<int(2), int(1)>>, <<int(1), int(2)>>,
          <<int(1)>>, <<int(1), text(16)>>, <<text(3), text(3)>> }
=============================================================================
