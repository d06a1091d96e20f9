\* Two clients, two flights at one server, and a customer.
CONSTANTS
    c1 = c1
    c2 = c2
    a = a
    b = b
    u = u
    Null = Null
    Client = {c1, c2}
    Item = {a, b}
    Customer = {u}
    ServerOf <- Servers
    Methods <- AllMethods
    MaxSeats = 2
    MaxCalls = 3
SPECIFICATION Spec
INVARIANTS TypeOK SeatsBounded ReservationsMatch CustomersAgree
SYMMETRY ClientSymmetry
CHECK_DEADLOCK FALSE
