CONSTANTS
    alice = alice
    bob = bob
    self = self
    zero = zero
    defaultDAO = defaultDAO
    council = council
    gold = gold
    Users = {alice, bob}
    Contracts = {}
    This = self
    Zero = zero
    Collaterals = {gold}
    MaxCondition = 2
    MaxOracle = 1
    Amounts = {1, 2}
    MaxNested = 0
    MaxTime = 3
    MaxDonated = 2
    Deadlines = {3}
    Wealth <- MCWealthOfBob
    FixedOne = 4
    Scored <- MCScored
    Scores = {1}
    Customers = {alice}
    ControlChoices = {FALSE}
    DAOs = {defaultDAO}
    DefaultDAO = defaultDAO
SPECIFICATION MarketSpec
CHECK_DEADLOCK FALSE
INVARIANTS
    PaidWithinDonations
