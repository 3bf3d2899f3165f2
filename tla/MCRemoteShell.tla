--------------------------- MODULE MCRemoteShell ---------------------------
(* Two users of one server, each fault by itself and those that interact.  *)
EXTENDS RemoteShell

CONSTANTS a, b

\* a types twice, so that it may be out of step.
Typing == [c \in Clients |-> IF c = a THEN 2 ELSE 1]

ShellFaults == SUBSET Fault
=============================================================================
