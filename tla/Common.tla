------------------------------- MODULE Common --------------------------------
(***************************************************************************)
(* The parameters the small components share.                              *)
(***************************************************************************)
EXTENDS Integers, Sequences, FiniteSets

CONSTANTS Producers, Consumers,  \* the threads
          Items,                 \* what is pushed once
          Values,                \* what is pushed any number of times
          NULL                   \* nullptr, std::nullopt, an empty function

ASSUME RolesDisjoint == Producers \cap Consumers = {}
ASSUME NullIsNoItem == NULL \notin Items \cup Values
ASSUME ItemsInOrder == Items \subseteq Nat
=============================================================================
