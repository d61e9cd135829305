\* Every sequence of calls, exceptions and dropped pointers within the limits.
SPECIFICATION TrSpec
CONSTANTS
  Limit <- MCLimit
  Null = Null
INVARIANTS
  NoDangling
  PluginSeesItsOwn
  OneWrapper
  NothingLeaks
