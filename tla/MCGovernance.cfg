CONSTANTS
    alice = alice
    bob = bob
    Users = {alice, bob}
    ExtraRoles = {}
    GrantablePerms = {"approve"}
    MaxDepth = 10
    NoRole = NoRole
    ApproverLists <- MCApproverLists
    Delays = {0, 1}
    MaxProposals = 2
    MaxTime = 2
SPECIFICATION MCSpec
INVARIANTS VotesCounted ExecutedHadQuorum SomeoneManagesAcl
PROPERTY ClosedStaysClosed
