SPECIFICATION DriverSpec
CONSTANTS
  Commands = {"c1", "c2"}
  Sources = {"a.c", "b.c", "c.c"}
  Inputs <- ApartInputs
  KeepInter = {"c2"}
  CompileOnly = {}
  Stale = {"a.c", "c.c"}
  Unwritable = {"c.c"}
INVARIANTS DriverTypeOK OwnResults LeftAsTold NoSpuriousFailure
PROPERTY Terminates
CHECK_DEADLOCK FALSE
