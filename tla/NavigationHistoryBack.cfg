\* Two views, one of which has positions; a place may be passed through on the way to another.
CONSTANTS
  Types = {root, code}
  Root = root
  Positioned = {code}
  OnRequest = {code}
  Positions = {0, 1}
  Handles = {h1, h2, h3}
  None = None
  MaxHistory = 4
SPECIFICATION NavigationSpec
INVARIANT BackReturnsToWhereTheUserWas
