--------------------------- MODULE MCBlockParser ---------------------------
(* Eight nodes hold a table with a body row.  Documents of lists and       *)
(* quotes are kept to six: a list with two items, one of them a block with *)
(* a list or a quote in it.                                                *)
EXTENDS BlockParser

SixWithoutTable ==
  Cardinality(used) <= 6 \/ \E n \in used : type[n] = "Table" /\ arena[n].parent # None
=============================================================================
