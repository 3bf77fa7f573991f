--------------------------- MODULE MCImportCustody ---------------------------
(* Instances of ImportCustody for TLC: two collections, one of which is a   *)
(* file that cannot be opened, and a backup beside them.  A text carries a  *)
(* credential that the net finds, one of another type, or one in a text     *)
(* that does not parse.                                                     *)
EXTENDS ImportCustody
=============================================================================
