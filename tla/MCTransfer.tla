----------------------------- MODULE MCTransfer -----------------------------
(* Small files and a packet of a few bytes: every way in which the ends of *)
(* parts and packets can fall against each other happens below two packets *)
(* per part.                                                               *)
EXTENDS Transfer

AnyFaults == SUBSET Fault
=============================================================================
