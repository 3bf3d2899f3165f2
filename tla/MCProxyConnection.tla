------------------------- MODULE MCProxyConnection -------------------------
(* A host that leaves is noticed at the third request only.                *)
EXTENDS ProxyConnection

AnyFaults   == SUBSET Fault
BrowserEnds == {{"browser ends"}}
=============================================================================
