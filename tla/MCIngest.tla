------------------------------- MODULE MCIngest -------------------------------
(* The instances of Ingest that TLC checks: the .cfg files give the sets.     *)
EXTENDS IngestInvariant
===============================================================================
