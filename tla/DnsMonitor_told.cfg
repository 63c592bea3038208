CONSTANTS
  r1 = r1
  p1 = p1
  Null = Null
  Tasks = {r1}
  Requests = {p1}
  Types = {"IP", "NS"}
  Records = {1, 2}
  Answers = {{1}, {1, 2}}
  Scopes <- MCScopes
SPECIFICATION FairSpec
INVARIANTS TypeOK ToldOnce NoChangeLost SameInterval
PROPERTIES PendingSettled CatchesUp
