SPECIFICATION ShellSpec
CONSTANTS
  Process = {p1, p2, p3}
  p1 = p1
  p2 = p2
  p3 = p3
  Path = {w, r}
  w = w
  r = r
  Default = w
  Override <- mcOverride
  BackupId = {b}
  Nonce = {n}
  File = {f1, f2}
  Size <- mcSize
  FreeBytes = {2, 10}
  MinReserve = 1
  ReservePercent = 5
  MaxEdits = 3
  Roles <- mcRoles
  None = None
  Session = {s1, s2}
  Class = {c}
  Year = {y1, y2}
  y1 = y1
  y2 = y2
  Roster = {r1, r2}
  Pack = {k1, k2}
  k1 = k1
  k2 = k2
  Clash <- mcClash
  Calendar = {d}
  d = d
  MaxOutside = 1
  Wishes <- mcWishes
  Nothing = Nothing
  Console = {q1, q2}
  Component = {a1, a2, a3}
  MaxRecent = 2
  Installations <- mcInstallations
  MaxHands = 1
  Idle = Idle
  Script = {x1, x2}
  Release = {"v1", "v2"}
  Optional = {"omr"}
  Ships <- mcShips
  Orders <- mcOrders
  Found <- mcFound
  MaxMade = 2
  MaxMeddling = 1
  Nil = Nil
  Family = {"classroom"}
INVARIANT WritesReported
CHECK_DEADLOCK FALSE
