SPECIFICATION CommentsSpec
CONSTANTS
  Users = {u1, u2}
  Owner = u1
  Kinds = {like}
  RequestIDs = {q1}
  Handlers = {h1, h2}
  None = None
  MaxComments = 2
SYMMETRY HandlerSymmetry
CHECK_DEADLOCK FALSE
INVARIANTS
  OneCommentPerRequest
  CountNeverOver
  LedgersAgree
  ToldOnce
