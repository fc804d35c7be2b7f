SPECIFICATION Spec
CONSTANTS
  server = server
  command = command
  s1 = s1
  s2 = s2
  c1 = c1
  Process = {server, command}
  Thread = {s1, s2, c1}
  Home <- AtHome
  Path = {p1, p2}
  Account = {a1, a2}
  Torn = Torn
  Gone = Gone
  Down = Down
  Unread = Unread
  Unsure = Unsure
  MaxOps = 3
SYMMETRY Symmetric
INVARIANT TypeOK
INVARIANT FileIsWhole
INVARIANT ToldIsKept
PROPERTY EntriesStay
