----------------------------- MODULE MCRedisConn -----------------------------
EXTENDS RedisConn, TLC

Symmetry == Permutations(Pooled)

=============================================================================
