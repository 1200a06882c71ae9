----------------------------- MODULE MCClusterEnv -----------------------------
(* Two replicas, of which the first sends the second one message in each cluster. *)
EXTENDS ClusterEnv

MCSystems == {"redisraft", "cbft", "ratis"}
MCLinks == {<<1, 2>>}
=============================================================================
