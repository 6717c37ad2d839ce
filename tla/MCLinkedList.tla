----------------------------- MODULE MCLinkedList -----------------------------
(* LinkedListOps on two lists that share three nodes.                      *)
EXTENDS LinkedListOps
===============================================================================
