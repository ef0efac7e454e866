CONSTANTS
  Programs <- MCPrograms
  ProgramOf <- MCProgramOf
  Build <- MCBuild
  Width = 3
  Operand <- MCOperand
  Thread = {"main", "worker"}
  Main = "main"
SPECIFICATION Spec
INVARIANTS PointersLead RuntimeStands SymbolsDistinct
PROPERTY ImplementsModules
