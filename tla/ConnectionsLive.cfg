SPECIFICATION FairSpec
CONSTANTS
    u1 = u1
    u2 = u2
    s1 = s1
    k1 = k1
    k2 = k2
    t1 = t1
    None = None
    User = {u1}
    Server = {s1}
    Token = {k1}
    Ticket = {t1}
    Conn = {c1}
    Request = {r1}
    Editor = {e1}
    Holder <- OneHolder
    TicketFor <- OneTicket
    Archives <- OneArchives
    MaxGeneration = 1
PROPERTIES
    OrphanEnds
    UnassignedEnds
