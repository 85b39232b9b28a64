CONSTANTS
    alice = alice
    bob = bob
    self = self
    zero = zero
    defaultDAO = defaultDAO
    council = council
    gold = gold
    Users = {alice, bob}
    Contracts = {}
    This = self
    Zero = zero
    Collaterals = {}
    MaxCondition = 2
    MaxOracle = 0
    Amounts = {0, 1}
    MaxNested = 0
    MaxTime = 2
    MaxDonated = 0
    Deadlines = {}
    Wealth <- MCNoWealth
    FixedOne = 1
    Scored = {}
    Scores = {}
    Customers = {alice, bob}
    ControlChoices = {TRUE, FALSE}
    DAOs = {defaultDAO, council}
    DefaultDAO = defaultDAO
SPECIFICATION Spec
CHECK_DEADLOCK FALSE
INVARIANTS
    TypeOK
    ControlNeedsSalary
PROPERTIES
    OnlyOwnerSpends
