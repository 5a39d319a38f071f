----------------------------- MODULE MCInMemory -----------------------------
(***************************************************************************)
(* The code that reads and writes no device: the functions of MCFunctions, *)
(* which keep no state, and the list macros of Lists, which keep theirs in *)
(* the elements.  A behaviour is about one of them; the lists are one more *)
(* topic.                                                                  *)
(***************************************************************************)
EXTENDS MCFunctions, Lists

InMemoryInit ==
  /\ Init
  /\ \/ InputInit
     \/ topic = "list" /\ probe = 0 /\ line = <<>> /\ volume = <<>> /\ tables = <<>>

InMemoryNext ==
  \/ InputNext /\ UNCHANGED vars
  \/ topic = "list" /\ Next /\ UNCHANGED inputs

InMemorySpec == InMemoryInit /\ [][InMemoryNext]_<<inputs, vars>>
=============================================================================
