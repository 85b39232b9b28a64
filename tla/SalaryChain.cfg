CONSTANTS
    alice = alice
    bob = bob
    self = self
    zero = zero
    defaultDAO = defaultDAO
    council = council
    gold = gold
    Users = {alice, bob}
    Contracts = {bob}
    This = self
    Zero = zero
    Collaterals = {}
    MaxCondition = 3
    MaxOracle = 0
    Amounts = {0, 1}
    MaxNested = 2
    MaxTime = 3
    MaxDonated = 0
    Deadlines = {}
    Wealth <- MCNoWealth
    FixedOne = 1
    Scored = {}
    Scores = {}
    Customers = {alice, bob}
    ControlChoices = {FALSE}
    DAOs = {defaultDAO}
    DefaultDAO = defaultDAO
SPECIFICATION ChainSpec
CHECK_DEADLOCK FALSE
INVARIANTS
    SalaryOncePerSecond
    ChainsAgree
    ChainConserved
PROPERTIES
    ImplementsStream
