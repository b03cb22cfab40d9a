SPECIFICATION Spec
CONSTANTS
    w1 = w1
    w2 = w2
    f1 = f1
    f2 = f2
    d1 = d1
    d2 = d2
    None = None
    Workers = {w1}
    Files = {f1, f2}
    Documents = {d1}
    DocumentOf <- OneDocument
    Tenants = {1}
    TenantOf <- OneOrganisation
    MaxJobs = 1
    MaxAttempts = 2
    Budget <- SafetyBudget
PROPERTY
    FinishedStaysFinished
