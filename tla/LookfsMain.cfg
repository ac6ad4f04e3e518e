CONSTANTS
  Arguments <- MCArguments
  MaxArgs = 3
  StaticBuf = 2
  Ntdlls <- MCNtdlls
  TokenSizes = {2}
  Results = {1, 2}
SPECIFICATION Spec
INVARIANTS
  CommandLineObeyed
  EnabledMeansHeld
  EndsInOrder
