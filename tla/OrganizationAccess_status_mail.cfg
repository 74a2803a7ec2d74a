SPECIFICATION FairSpec
CONSTANTS
    admin = admin  member = member
    c1 = c1  c2 = c2  c3 = c3  c4 = c4  g1 = g1  g2 = g2
    Page = {admin, member}
    AdminPage = {admin}
    Call = {c1, c2}
    Grant = {g1}
    Operations <- Approving
    MaxCertificates = 1
PROPERTIES StatusChangeIsMailed
CHECK_DEADLOCK FALSE
