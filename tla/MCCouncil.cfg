CONSTANTS
  alice = alice
  bob = bob
  NoVote = NoVote
  One = 10
  Accounts <- MCAccounts
  Powers <- MCPowers
  NoPower <- MCNoPower
  Deposits = {2}
  Configs <- MCConfigs
  MessageLists <- MCMessageLists
  MaxProposals = 2
  MaxHeight = 5
SPECIFICATION Spec
INVARIANTS
  DepositsAreHeld
  VotesAreBacked
  PassedByMajority
PROPERTIES
  OutcomesAreFinal
CHECK_DEADLOCK FALSE
