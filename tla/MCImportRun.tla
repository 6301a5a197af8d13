----------------------------- MODULE MCImportRun -----------------------------
(* Two imports of small files that share products.                         *)
EXTENDS ImportRun, TLC

CONSTANTS k1, k2, a, b

Row1 == [name |-> a, key |-> k1]
Row2 == [name |-> a, key |-> k2]
Moved == [name |-> b, key |-> k1]
Bare == [name |-> a, key |-> None]

\* A product by its external id and by its name in one batch and the next, two
\* ids of one name, a product under another name, a name twice, replacements
\* with and without a source, and rows that are passed over or do not parse.
SmallRequests ==
  { <<"upsert", <<Row1, Bare, Row1>>>>, <<"upsert", <<Bare, Bare>>>>,
    <<"upsert", <<Moved, Row2>>>>,
    <<"replace_source", <<Header, Row2>>>>, <<"replace_source", <<Header>>>>,
    <<"create_only", <<Row1, Invalid>>>>,
    <<"update_only", <<Bare>>>> }

\* The product is there, and not yet under the name of the files.
SmallCatalogs == { << [name |-> b, key |-> k1, active |-> TRUE] >> }

Symmetry == Permutations(Run) \union Permutations(Process)
=============================================================================
