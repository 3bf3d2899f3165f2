CONSTANTS
  u1 = u1
  u2 = u2
  u3 = u3
  n1 = n1
  n2 = n2
  n3 = n3
  Users = {u1, u2, u3}
  Names = {n1, n2, n3}
  MaxCmds = 2
  Scenarios <- RoomScenarios
SPECIFICATION FairSpec
INVARIANTS WaitersListed HandedOnce NamesFreed
PROPERTIES AsksAnswered
