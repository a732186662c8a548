----------------------------- MODULE MCWalJournal -----------------------------
(***************************************************************************)
(* A small instance of WalJournal: the first batch edits a map of the      *)
(* device and one of a viewer, the second the viewer's map again.          *)
(***************************************************************************)
EXTENDS WalJournal

Spanning == << 1, 1, 2 >>
Maps == << "hall", "realm", "realm" >>
Owner == CHOOSE v \in Viewers : TRUE
Directories == << Local, Owner, Owner >>
===============================================================================
