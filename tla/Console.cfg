SPECIFICATION Spec
CONSTANTS
  Letter = {"x", "s"}
  Digit = {}
  SHELL_VAR_MAX = 2
  SHELL_VAR_NAME = 3
  SHELL_VAR_VAL = 2
  SHELL_LINE_MAX = 14
  LINE_MAX = 6
  SHELL_MAX_ARGS = 3
  SetWord <- SetName
  UnsetWord <- UnsetName
  cmds <- Commands
  Listing <- Names
  MountPaths <- Mounts
  Dirs <- Directories
  Printable <- Keys
  SHELL_HIST_MAX = 2
  Entered <- Lines3
  ScriptLines <- Scripts
  InitVars <- Tables

  
PROPERTIES
  LineEdited
  VarSpec
