\* Two purchases, refunds and payouts nested three deep.
CONSTANTS
  admin = admin
  alice = alice
  relay = relay
  Accounts = {admin, alice, relay}
  Admin = admin
  Contracts = {admin, alice}
  HoursAsked <- MCHoursAsked
  Values <- MCValues
  Amounts <- MCAmounts
  MaxSessions = 2
  MaxDepth = 3
SPECIFICATION Spec
INVARIANTS
  TypeOK
  RefundedOnce
  BooksBalance
PROPERTIES
  HistoryIsKept
CHECK_DEADLOCK FALSE
