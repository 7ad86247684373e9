\* Grants, disk roots, attempts, loops and nested swaps of a word that `wd`
\* redefines, three deep, with tests that fail or fault.
CONSTANTS
  Cap = {"d", "s"}
  Disk = "d"
  Path <- MCPaths
  Allows <- MCAllows
  Word = {"w"}
  Body = {"b1", "b2"}
  None = None
  MaxDepth = 3
  MaxStack = 1
  MaxRepeat = 1
SPECIFICATION FairSpec
INVARIANTS AuthorityIsScoped CleanWhenIdle
PROPERTIES ImplementsScoping SwapAllOrNothing InnermostCatches
