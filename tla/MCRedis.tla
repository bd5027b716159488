------------------------------- MODULE MCRedis -------------------------------
(***************************************************************************)
(* The instance of module RedisBackend for TLC: two names, for             *)
(* participants and for channels, one of which is the name in the key of   *)
(* the general chat.                                                       *)
(***************************************************************************)
EXTENDS RedisBackend

CONSTANT ann

BothNames == {ann, General}

=============================================================================
