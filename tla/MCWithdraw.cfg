SPECIFICATION Spec
CONSTANTS
  p1 = p1
  p2 = p2
  p3 = p3
  b1 = b1
  b2 = b2
  Peers <- MCPeers
  Beneficiaries <- MCBeneficiaries
  EthereumAddress <- MCEthereumAddress
  Known <- MCKnown
  Amounts = {1}
  ExchangeRate = 1
  Deduction = 1
  Funds = 3
  Deposits = {3}
  Withdrawals = {2}
  MaxPayments = 2
  MaxWithdrawals = 1
INVARIANT WithdrawLeavesCover
CHECK_DEADLOCK FALSE
