---- MODULE MC_StateFile ----
(* StateFile on the initial state and two others. *)
EXTENDS StateFile
====
