CONSTANTS
  LenMod = 64
  MaxFrames = 6
  Programs <- AllPrograms
SPECIFICATION FairSpec
INVARIANTS TypeOK HandlesLive OneReasonToWait FlagConsumed OnlyNestedSpawnMisblames OnlyLateThrowCrashes DeadlinesLinked TestsPass OutcomesExact
PROPERTIES ProgramsEnd
