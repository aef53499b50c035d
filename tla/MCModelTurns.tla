----------------------------- MODULE MCModelTurns ------------------------------
(* Small instances of ModelTurns. *)
EXTENDS ModelTurns

CONSTANTS notes, wiki, x, read

(* Two providers that read in one namespace, the first of which also has a *)
(* tool with the plain name that joins the two.  Registered twice, it gives *)
(* its tools other names; beside the second, its names clash.              *)
ReadersByName ==
  notes :> <<[name |-> <<read>>, namespace |-> <<x>>],
             [name |-> <<x, Joint, read>>, namespace |-> NoNamespace]>> @@
  wiki :> <<[name |-> <<read>>, namespace |-> <<x>>]>>

PartsOfNames == {x, read, Joint}
================================================================================
