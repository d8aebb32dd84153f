------------------------ MODULE MCSemanticConnector ------------------------
(* SemanticConnector for TLC: two readings, an invalid message and one of   *)
(* the readings again, in Kafka batches and SLM batches of every length.    *)
EXTENDS SemanticConnector

CONSTANTS a, b

MCLog == <<a, Invalid, b, a>>
=============================================================================
