CONSTANTS
    j1 = j1
    j2 = j2
    j3 = j3
    admin = admin
    user = user
    jan = jan
    early = early
    r1 = r1
    r2 = r2
    r3 = r3
    p1 = p1
    p2 = p2
    s1 = s1
    s2 = s2
    None = None
    Jobs = {j1, j2, j3}
    Users = {admin, user}
    Admins = {admin}
    MonthWindows = {jan}
    SelfWindows = {early}
    ReceiptIds = {r1, r2, r3}
    PaymentIds = {p1, p2}
    Sessions = {s1}
    StartInMonth = FALSE
    JobUser <- MCJobUser
    JobsIn <- MCJobsIn
SPECIFICATION Spec
INVARIANT OneInvoicePerUserMonth
