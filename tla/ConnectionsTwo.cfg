SPECIFICATION Spec
CONSTANTS
    u1 = u1
    u2 = u2
    s1 = s1
    k1 = k1
    k2 = k2
    t1 = t1
    None = None
    User = {u1, u2}
    Server = {s1}
    Token = {k1, k2}
    Ticket = {t1}
    Conn = {c1, c2}
    Request = {r1}
    Editor = {}
    Holder <- TwoHolder
    TicketFor <- OneTicket
    Archives <- TwoArchives
    MaxGeneration = 0
SYMMETRY ConnSymmetry
INVARIANTS
    TicketAdmitsOnce
