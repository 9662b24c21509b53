SPECIFICATION Spec
CONSTANTS
  Nodes <- MCNodes
  Adjacency <- MCAdjacency
  Limits = {2, 80}
INVARIANTS TypeOK SccsAreClasses FoundAreCycles CyclesFound
PROPERTIES Ends
