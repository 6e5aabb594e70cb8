CONSTANTS
  IntOf <- MCInts
  TextOf <- MCTexts
  MAX_PROTO_NESTING = 8
  JsonNameOf <- MCJsonNames
  MaxFieldNumber = 6
  ImplementationNumbers = {4}
  Versions <- MCVersions
  Protos <- MCProtos
  Listing <- MCListing
  StemOf <- MCStems
  Configs <- MCConfigs
  CompileOne <- compile_one
  MaxBuilds = 3
  MaxEdits = 3
SPECIFICATION Spec
INVARIANTS FreshOutput
CHECK_DEADLOCK FALSE
