----------------------------- MODULE MCRwSpinlock -----------------------------
(* Two CPUs, a thread and a service routine on each; the word counts up to *)
(* one more than the contexts that can be inside.                          *)
EXTENDS RwSpinlock
===============================================================================
