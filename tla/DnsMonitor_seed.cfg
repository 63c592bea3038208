CONSTANTS
  r1 = r1
  p1 = p1
  Null = Null
  Tasks = {r1}
  Requests = {p1}
  Types = {"IP"}
  Records = {1, 2}
  Answers = {{1}, {1, 2}}
  Scopes <- SeedScopes
SPECIFICATION Spec
INVARIANT SeedIsNoBaseline
