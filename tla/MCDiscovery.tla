---------------------------- MODULE MCDiscovery -----------------------------
(* Three servers, the first of which has the file.                         *)
EXTENDS Discovery

CONSTANTS s1, s2, s3

ThreeServers == <<s1, s2, s3>>

AnyFaults == SUBSET Fault
=============================================================================
