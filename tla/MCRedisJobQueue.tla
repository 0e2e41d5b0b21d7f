-------------------------- MODULE MCRedisJobQueue --------------------------
(* Instances of RedisJobQueue for TLC. *)
EXTENDS RedisJobQueue
CONSTANTS a, bad, k1, k2

MCConsumers == {k1, k2}
=============================================================================
