----------------------------- MODULE MCCollector -----------------------------
(* A small instance of the collector and its environment.                  *)
EXTENDS Collector

MCIndex(k, n, c) == n - 1 - c

OwnShard == [g \in Sweepers |-> g]
=============================================================================
