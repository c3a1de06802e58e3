--------------------------- MODULE MCIngestQueue ---------------------------
(* Instances of IngestQueue for TLC.  What a message holds makes no           *)
(* difference here: there is one body.                                        *)
EXTENDS IngestQueue
=============================================================================
