---------------------------- MODULE MCSearchShards ----------------------------
\* Instances of SearchShards for TLC.
EXTENDS SearchShards

\* a shard with one replica and a shard with two
TwoShards == <<1, 2>>

=============================================================================
