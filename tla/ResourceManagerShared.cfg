\* Two sessions share items and customers; every method.
CONSTANTS
    s1 = s1
    s2 = s2
    c1 = c1
    c2 = c2
    a = a
    b = b
    Session = {s1, s2}
    Item = {a, b}
    Customer = {c1}
    CustomersOf <- AnyCustomer
    Methods <- AllMethods
    MaxFlights = 2
    MaxSeats = 2
    Null = Null
SPECIFICATION Spec
INVARIANTS TypeOK SeatsAddUp ReservationsMatchUnlessRaced
    BundleOfDifferentIsAtomic
SYMMETRY FullSymmetry
