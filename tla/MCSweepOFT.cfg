SPECIFICATION MCSpec
CONSTANTS
  A = A
  B = B
  m1 = m1
  m2 = m2
  Chains <- MCChains
  MintChains <- MCMintChains
  Accounts <- MCAccounts
  Amounts = {1}
  Caps = {2}
  MaxSupply = 2
  MaxNonce <- MCMaxNonce
INVARIANTS
  TypeOK
  MinterListConsistent
PROPERTIES
  BackingChangesOnlyByRemoval
  PathDrains
  ImplementsOneLedger
