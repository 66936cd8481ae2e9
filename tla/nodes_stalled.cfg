SPECIFICATION NodeFairSpec
CONSTANTS
  Nodes = {n1}
  NodeNames = {x}
  Visitors = {v1, v2}
  MaxConns = 2
  MaxChecks = 1
PROPERTY VisitsEnd
