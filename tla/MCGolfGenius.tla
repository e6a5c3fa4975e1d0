----------------------------- MODULE MCGolfGenius ------------------------------
(* GolfGenius on small instances.                                            *)
EXTENDS GolfGenius, TLC

CONSTANTS results, pairings

\* Points are deleted before they are fetched, as pairings are: an import of
\* points has no table of its own here.
ActionOfTable == results :> "results" @@ pairings :> "teesheet"
================================================================================
