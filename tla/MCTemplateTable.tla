--------------------------- MODULE MCTemplateTable ---------------------------
(***************************************************************************)
(* An instance of TemplateTable for TLC.                                   *)
(***************************************************************************)
EXTENDS TemplateTable, TLC, FiniteSetsExt

\* Templates are told apart only by what was seen of them.
Symmetry == Permutations(Hashes)

\* The list, the map and the byte count tell of the same templates: each template once in
\* order, and bytes the sum of what they cost, however rings grew and templates left.
TableAddsUp ==
  /\ \A h \in Hashes : Cardinality({i \in DOMAIN order : order[i] = h}) = IF In(h) THEN 1 ELSE 0
  /\ bytes = MapThenSumSet(LAMBDA h : Bytes(table[h]), {h \in Hashes : In(h)})
=============================================================================
