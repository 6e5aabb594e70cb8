CONSTANTS
  IntOf <- MCInts
  TextOf <- MCTexts
  MAX_PROTO_NESTING = 8
  JsonNameOf <- MCJsonNames
  MaxFieldNumber = 6
  ImplementationNumbers = {4}
  Versions <- MCVersions
  EntryFile = "a.proto"
  MaxReleases = 3
  MaxNesting = 3
  MaxNumber = 9
  Compiled <- CompiledEntry
  ReservedBy <- ReservedText
SPECIFICATION Spec
INVARIANTS ReferencesResolve NumbersKeepMeaning ReservedStays UnchangedIsSilent
CHECK_DEADLOCK FALSE
