---------------------------- MODULE PartDownload ----------------------------
(***************************************************************************)
(* What the parallel downloader of HW4 keeps while it downloads a file in  *)
(* parts, whatever its threads do and whichever servers fail.              *)
(*                                                                         *)
(* A part is leased to at most one server at a time and a server works on  *)
(* at most one part.  A part that is finished is never leased again, and a *)
(* server whose transfer was abandoned is never used again.  The download  *)
(* is concluded only when no part is on lease.  Nothing is promised about  *)
(* every part being finished at that point: the program does not keep it.  *)
(***************************************************************************)
CONSTANTS Parts,     \* the parts of the file
          Servers,   \* the servers the client starts with
          NoServer   \* the part is not on lease; no server is called so

VARIABLES lease,     \* lease[p]: the server that works on part p
          finished,  \* the parts that were downloaded
          live,      \* the servers still in use
          outcome    \* "running", "concluded" or "failed"

vars == <<lease, finished, live, outcome>>

TypeOK == /\ lease \in [Parts -> Servers \cup {NoServer}]
          /\ finished \subseteq Parts
          /\ live \subseteq Servers
          /\ outcome \in {"running", "concluded", "failed"}

OnLease == {p \in Parts : lease[p] # NoServer}

Init == /\ lease = [p \in Parts |-> NoServer]
        /\ finished = {}
        /\ live = Servers
        /\ outcome = "running"

\* A part nobody works on and a server that works on nothing are matched.
Claim(p, s) == /\ outcome = "running"
               /\ lease[p] = NoServer /\ p \notin finished
               /\ s \in live /\ \A q \in Parts : lease[q] # s
               /\ lease' = [lease EXCEPT ![p] = s]
               /\ UNCHANGED <<finished, live, outcome>>

Finish(p) == /\ outcome = "running"
             /\ lease[p] # NoServer
             /\ lease' = [lease EXCEPT ![p] = NoServer]
             /\ finished' = finished \cup {p}
             /\ UNCHANGED <<live, outcome>>

\* The transfer failed: the part is open again and its server is given up.
Abandon(p) == /\ outcome = "running"
              /\ lease[p] # NoServer
              /\ lease' = [lease EXCEPT ![p] = NoServer]
              /\ live' = live \ {lease[p]}
              /\ UNCHANGED <<finished, outcome>>

\* An idle server may be given up, but only once every part is finished.
Discard(s) == /\ outcome = "running"
              /\ finished = Parts
              /\ s \in live
              /\ live' = live \ {s}
              /\ UNCHANGED <<lease, finished, outcome>>

Conclude == /\ outcome = "running"
            /\ OnLease = {}
            /\ outcome' = "concluded"
            /\ UNCHANGED <<lease, finished, live>>

Fail == /\ outcome # "failed"
        /\ outcome' = "failed"
        /\ UNCHANGED <<lease, finished, live>>

Next == \/ \E p \in Parts, s \in Servers : Claim(p, s)
        \/ \E p \in Parts : Finish(p) \/ Abandon(p)
        \/ \E s \in Servers : Discard(s)
        \/ Conclude \/ Fail

Spec == Init /\ [][Next]_vars
=============================================================================
