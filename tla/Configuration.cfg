SPECIFICATION Spec
CONSTANTS
  Names = {"own", "edge", "cut"}
  Typed = {"edge", "cut"}
  Empty = ""
  NameLength <- Lengths
  Default <- OwnNames
  PidLength = 5
  MaxArgs = 4
  MaxForks = 2
INVARIANTS AllOrDefaults SameFiles ErrorEndsProcess BuffersSuffice NothingLeft IInv
