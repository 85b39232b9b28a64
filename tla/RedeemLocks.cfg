CONSTANTS
    alice = alice
    bob = bob
    self = self
    zero = zero
    defaultDAO = defaultDAO
    council = council
    gold = gold
    Users = {alice, bob}
    Contracts = {}
    This = self
    Zero = zero
    Collaterals = {gold}
    MaxCondition = 2
    MaxOracle = 1
    Amounts = {1}
    MaxNested = 0
    MaxTime = 2
    MaxDonated = 0
    Deadlines = {2}
    Wealth <- MCNoWealth
    FixedOne = 2
    Scored <- MCScored
    Scores = {1, 2}
    Customers = {alice}
    ControlChoices = {FALSE}
    DAOs = {defaultDAO}
    DefaultDAO = defaultDAO
SPECIFICATION Spec
CHECK_DEADLOCK FALSE
INVARIANTS
    DenominatorIsSum
PROPERTIES
    LockedTokensNotGathered
    SharesFrozen
