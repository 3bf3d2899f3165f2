----------------------------- MODULE MCChatRoom -----------------------------
(* Two users with two commands each, so that they wait, break and wait     *)
(* again, or three users with one command, so that two ask for the third.  *)
EXTENDS ChatRoom

CONSTANTS u1, u2, u3, n1, n2, n3

Own    == [u \in Users |-> IF u = u1 THEN n1 ELSE IF u = u2 THEN n2 ELSE n3]
Shared == [u \in Users |-> IF u = u3 THEN n3 ELSE n1]

Each == [u \in Users |-> 1]
Two  == [u \in Users |-> IF u = u3 THEN 0 ELSE 2]

Scenario(names, f, m, c) == [names |-> names, faults |-> f, mortal |-> m, cmds |-> c]

RoomScenarios ==
  {Scenario(Own, {}, {}, Each), Scenario(Own, {}, {}, Two),
   Scenario(Own, {"early break"}, {}, Two), Scenario(Own, {"coalesce"}, {}, Two),
   Scenario(Own, {}, {u3}, Each), Scenario(Shared, {}, {u1}, Each),
   Scenario(Shared, {"early break"}, {u1, u2}, Two)}

TwoJoin == {Scenario(Shared, {}, {}, Two)}
=============================================================================
