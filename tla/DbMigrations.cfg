SPECIFICATION FairSpec
CONSTANTS
  Proc = {p1, p2}
  Free = Free
  Statements <- MCStatements
  MaxFailures = 2
INVARIANTS SchemaIsWhole LoserWasOvertaken
PROPERTIES EveryProcessGetsThrough
