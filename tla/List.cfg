SPECIFICATION Spec
CONSTANTS
  u1 = u1 u2 = u2 h1 = h1 h2 = h2 m1 = m1 m2 = m2
  NoUser = NoUser NoMessage = NoMessage
  Users = {u1, u2} Handlers = {h1, h2} Messages = {m1}
  PageSize = 2 MaxLinks = 5
SYMMETRY Symmetry
INVARIANTS TypeOK PagingIsWhole ChatShowsOwnLinks
PROPERTIES OwnPressAnswered
