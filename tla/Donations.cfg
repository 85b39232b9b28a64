CONSTANTS
    alice = alice
    bob = bob
    self = self
    zero = zero
    defaultDAO = defaultDAO
    council = council
    gold = gold
    Users = {alice}
    Contracts = {}
    This = self
    Zero = zero
    Collaterals = {gold}
    MaxCondition = 1
    MaxOracle = 2
    Amounts = {1, 2}
    MaxNested = 0
    MaxTime = 2
    MaxDonated = 4
    Deadlines = {1, 2}
    Wealth <- MCWealth
    FixedOne = 2
    Scored <- MCScored
    Scores = {1}
    Customers = {alice}
    ControlChoices = {FALSE}
    DAOs = {defaultDAO}
    DefaultDAO = defaultDAO
SPECIFICATION DonatedToContractSpec
CHECK_DEADLOCK FALSE
INVARIANTS
    CountersBacked
    LastWithinDonations
