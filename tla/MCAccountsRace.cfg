CONSTANTS
    HolderKinds = {"credit"}
    acct1 = acct1
    acct2 = acct2
    owner = owner
    other = other
    rcpt = rcpt
    rcpt2 = rcpt2
    None = None
    Accounts = {acct1, acct2}
    Identities = {owner, other}
    Approvals = {rcpt, rcpt2}
    Bound <- MCBound
    Customer <- MCCustomer
    Scenes <- MCScenes
    MaxSources = 3
    MaxDebits = 2
    Resellers = {"reseller", "seller"}
    Owner = "owner"
    ParentOf <- MCParentOf
    Sales = {1, 2}
    Changes = {1, 2}
    CrPlans <- MCCrRace
    Cards = {1, 2}
    MaxPayments = 3
    PoolPlans <- MCPoolPlans
    NoCard = NoCard
SPECIFICATION AccountsSpec
INVARIANTS BooksAgree
CHECK_DEADLOCK FALSE
