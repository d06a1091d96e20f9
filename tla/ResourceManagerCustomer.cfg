\* Two sessions reserve for one customer.
CONSTANTS
    s1 = s1
    s2 = s2
    c1 = c1
    c2 = c2
    a = a
    Session = {s1, s2}
    Item = {a}
    Customer = {c1}
    CustomersOf <- AnyCustomer
    Methods <- ReserveMethods
    MaxFlights = 2
    MaxSeats = 2
    Null = Null
SPECIFICATION Spec
INVARIANTS ReservationsMatch
