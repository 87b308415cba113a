----------------------------- MODULE MCProcess -----------------------------
(***************************************************************************)
(* A put and a delete of one key, which clients and peers may offer again. *)
(***************************************************************************)
EXTENDS Process

MCCommands ==
  {[id |-> 1, op |-> "put", key |-> "k", value |-> "v"],
   [id |-> 2, op |-> "delete", key |-> "k", value |-> NoValue]}
=============================================================================
