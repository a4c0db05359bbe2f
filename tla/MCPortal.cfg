\* Sign-ins of one person through two providers, and replicas that seed at once.
SPECIFICATION Spec
CONSTANTS
    b1 = b1
    b2 = b2
    n1 = n1
    n2 = n2
    a1 = a1
    a2 = a2
    o1 = o1
    Browsers = {b1, b2}
    Replicas = {n1, n2}
    Subjects = {a1, a2, o1}
    EmailOf <- MCEmailOf
    Lower <- MCLower
    ProviderOf <- MCProviderOf
    CanUse <- MCCanUse
    MaxFlows = 3
    MaxKeys <- MCMaxKeys
    MaxBoots = 3
CHECK_DEADLOCK FALSE
INVARIANTS MembershipHolds OnePersonOneOrg OneDevOrg
PROPERTIES LastFlowOnly FormsActOnTheirTenant
