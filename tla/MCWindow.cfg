\* Two windows, or processes, with a file that has two annotations, changed three times; three
\* views, one of them with two positions, and a history of four places; the list of functions made
\* four times, and two names; two processes, with three files in a list of two.
CONSTANTS
  Windows = {w1, w2}
  Items = {i1, i2}
  NoStore = NoStore
  Cut = Cut
  MaxEdits = 3
  Types = {root, list, code}
  Root = root
  Positioned = {code}
  OnRequest = {code}
  Positions = {0, 1}
  Handles = {h1, h2, h3, h4}
  None = None
  MaxHistory = 4
  MaxViews = 4
  MaxNamings = 2
  Processes = {p1, p2}
  Paths = {a, b, c}
  MaxFiles = 2
SPECIFICATION WindowSpec
SYMMETRY Symmetry
INVARIANT SavedIsKept
PROPERTY NothingIsLostUnlessStale
PROPERTY ImplementsKeptNames
INVARIANT MapsAgree
INVARIANT KnowsWhereTheUserIs
INVARIANT BackComesToWhereTheUserWas
PROPERTY ImplementsTrail
INVARIANT FunctionsAreCurrent
PROPERTY OnlyStaleForgets
CHECK_DEADLOCK FALSE
