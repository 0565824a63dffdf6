--------------------------- MODULE MCIngestPipeline ----------------------------
(* Small instances of IngestPipeline for TLC.                                 *)
EXTENDS IngestPipeline, TLC

CONSTANTS j1, j2, v1, v2, x1, x2, u1, u2

\* Every job is for v1 and brings the same text.
OneVault == [j \in Jobs |-> v1]
SameText == [j \in Jobs |-> x1]

SchemaOfV1 == [u \in Schemas |-> v1]
===============================================================================
