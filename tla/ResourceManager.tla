--------------------------- MODULE ResourceManager ---------------------------
(***************************************************************************)
(* One resource manager (Common/ResourceManager.java) with its items and    *)
(* its copy of the customers, used by several sessions: a session runs one  *)
(* transaction after another.  An operation is one step that takes the lock *)
(* Middleware.java takes for it and works on the transaction's private      *)
(* copies; commit writes every copy back, changed or not.                   *)
(* Flights, cars and rooms differ only in their names; prices are left out. *)
(***************************************************************************)
EXTENDS Integers, Sequences, SequencesExt, FiniteSetsExt

CONSTANTS Session,       \* clients, each with one transaction at a time
          Item,          \* keys of flights (or cars, or rooms)
          Customer,      \* keys of customers
          CustomersOf,   \* CustomersOf[s]: customers session s works with
          Methods,       \* the methods sessions call
          MaxSeats,      \* bound: an item has at most so many seats, and a
                         \* customer at most so many reservations of it
          MaxFlights,    \* bound: flights of a bundle
          Null           \* no object

Key == Item \cup Customer
(* All but newCustomer(xid), which makes up a key.                         *)
AllMethods == {"add", "delete", "query", "reserve", "bundle",
               "newCustomer", "deleteCustomer", "queryCustomerInfo"}

(* getKey begins with "flight-", "car-", "room-" or "customer-".           *)
ASSUME KeyAssumption == Item \cap Customer = {}
ASSUME NullAssumption ==
    Null \notin Key \cup [count : Int, reserved : Int] \cup [Item -> Int]
ASSUME MethodsAssumption == Methods \subseteq AllMethods
ASSUME CustomersAssumption == CustomersOf \in [Session -> SUBSET Customer]
ASSUME BoundsAssumption == MaxSeats \in Nat /\ MaxFlights \in Nat

VARIABLES m_data,   \* m_data[k]: the committed object, or Null
          copies,   \* copies[s]: s's transaction's objects, a map from keys
          held,     \* the locks the middleware holds for the sessions
          added,    \* history: committed seats of each item
          delta,    \* history: delta[s][k]: seats s's transaction has added
          bare,     \* history: bare[s]: keys of the objects s's transaction
                    \* has read or changed without a lock for it
          raced     \* history: keys of objects that were changed by a commit
                    \* while another transaction had a copy, one of them bare

history == <<added, delta, bare, raced>>
vars == <<m_data, copies, held, history>>

Seats == 0 .. MaxSeats
ItemObject == [count : 0 .. 2 * MaxSeats, reserved : -MaxSeats .. MaxSeats]
CustomerObject == [Item -> Seats]   \* the customer's reservations
NoReservations == [k \in Item |-> 0]
Object(k) == IF k \in Item THEN ItemObject ELSE CustomerObject

IsObject(k, obj) == obj = Null \/ obj \in Object(k)

TypeOK == /\ \A k \in Key : IsObject(k, m_data[k])
          /\ \A s \in Session : /\ DOMAIN copies[s] \subseteq Key
                                /\ \A k \in DOMAIN copies[s] :
                                      IsObject(k, copies[s][k])
          /\ held \subseteq [session : Session, key : Key,
                             type : {"READ", "WRITE"}]
          /\ added \in [Item -> Seats]
          /\ bare \in [Session -> SUBSET Key]
          /\ raced \subseteq Key

NoCopies == [k \in {} |-> Null]
NoSeats == [k \in Item |-> 0]

Init == /\ m_data = [k \in Key |-> Null]
        /\ copies = [s \in Session |-> NoCopies]
        /\ held = {}
        /\ added = NoSeats
        /\ delta = [s \in Session |-> NoSeats]
        /\ bare = [s \in Session |-> {}]
        /\ raced = {}

-----------------------------------------------------------------------------
(* The methods, as functions from the transaction's copies v to new copies. *)

ReadAll(v, K) == [j \in DOMAIN v \cup K |->
                     IF j \in DOMAIN v THEN v[j] ELSE m_data[j]]
ReadData(v, k) == ReadAll(v, {k})
WriteData(v, k, obj) == [ReadData(v, k) EXCEPT ![k] = obj]

AddSeats(v, k, n) ==
    LET item == ReadData(v, k)[k] IN
    WriteData(v, k, IF item = Null THEN [count |-> n, reserved |-> 0]
                    ELSE [item EXCEPT !.count = @ + n])

CanDelete(v, k) == LET item == ReadData(v, k)[k]
                   IN  item # Null /\ item.reserved = 0

DeleteItem(v, k) == IF CanDelete(v, k) THEN WriteData(v, k, Null)
                    ELSE ReadData(v, k)

(* Fault: an item is reserved though none is left.                         *)
AvailableIfKnown(v, k) == ReadData(v, k)[k] # Null

Available(v, k) == LET item == ReadData(v, k)[k]
                   IN  item # Null /\ item.count > 0

(* Without the customer the item is not read.                              *)
ReserveItem(v, c, k) ==
    LET w == ReadAll(v, {c, k}) IN
    IF w[c] = Null THEN ReadData(v, c)
    ELSE IF ~Available(v, k) THEN w
    ELSE [w EXCEPT ![c][k] = @ + 1,
                   ![k] = [count |-> @.count - 1, reserved |-> @.reserved + 1]]

NewCustomer(v, c) == IF ReadData(v, c)[c] = Null
                     THEN WriteData(v, c, NoReservations) ELSE ReadData(v, c)

Reserved(customer) == {k \in Item : customer[k] > 0}

(* The items of K get back what the customer has reserved of them.         *)
GiveBack(v, c, K) ==
    LET w == ReadAll(v, K \cup {c}) IN
    [j \in DOMAIN w |->
        IF j \in K THEN [count |-> w[j].count + w[c][j],
                         reserved |-> w[j].reserved - w[c][j]]
        ELSE w[j]]

(* The possible results of deleteCustomer.  A reserved item that is gone    *)
(* makes it throw, after it has given back some of the others.              *)
DeleteCustomer(v, c) ==
    LET w == ReadData(v, c)
        K == Reserved(w[c])
        gone == {k \in K : ReadData(v, k)[k] = Null}
    IN  IF w[c] = Null THEN {w}
        ELSE IF gone = {} THEN {WriteData(GiveBack(v, c, K), c, Null)}
        ELSE {ReadData(GiveBack(v, c, D), g) : D \in SUBSET (K \ gone), g \in gone}

(* bundle, its flights ks: lock and query them up to the first that has no  *)
(* seats; if all have, reserve one after another.  Its car and its room, at *)
(* resource managers of their own, are left out.                           *)
BundleLocks(v, ks) ==
    {ks[i] : i \in {j \in DOMAIN ks : \A h \in 1 .. j - 1 : Available(v, ks[h])}}

(* Fault: the flights are reserved though one of them has no seats.        *)
BundleUnasked(v, c, ks) ==
    LET Step(w, k) == ReserveItem(w, c, k)
    IN  FoldLeft(Step, ReadAll(v, BundleLocks(v, ks)), ks)

Bundle(v, c, ks) ==
    LET asked == ReadAll(v, BundleLocks(v, ks))
        Step(w, k) == ReserveItem(w, c, k)
    IN  IF \A i \in DOMAIN ks : Available(v, ks[i])
        THEN FoldLeft(Step, asked, ks) ELSE asked

-----------------------------------------------------------------------------
LockFor(s, k, type) == [session |-> s, key |-> k, type |-> type]

HasCopy(s, k) == k \in DOMAIN copies[s]

(* Fault: readers do not hold off a writer.                                *)
FreeOfWrites(l) == \A h \in held : h.session # l.session /\ h.key = l.key
                                     => h.type = "READ" \/ l.type = "READ"

Free(l) == \A h \in held : h.session # l.session /\ h.key = l.key
                              => h.type = "READ" /\ l.type = "READ"

(* Bound: no transaction begins after one has been overtaken.              *)
Going(s) == raced = {} \/ copies[s] # NoCopies

(* s calls a method, with the locks L, and its copies become w.            *)
Operate(s, method, L, w) ==
    /\ method \in Methods
    /\ Going(s)
    /\ \A l \in L : Free(l)
    /\ held' = held \cup L
    /\ copies' = [copies EXCEPT ![s] = w]
    /\ bare' = [bare EXCEPT ![s] = @ \cup
                  {k \in DOMAIN w : /\ k \notin {l.key : l \in L}
                                    /\ LockFor(s, k, "WRITE") \notin held
                                    /\ ~HasCopy(s, k) \/ w[k] # copies[s][k]}]
    /\ UNCHANGED <<m_data, added, raced>>

(* Bounds: what lost reservations could otherwise add up to.               *)
Bounded(w) == /\ \A c \in Customer \cap DOMAIN w : IsObject(c, w[c])
              /\ \A k \in Item \cap DOMAIN w :
                    w[k] # Null => w[k].reserved >= -MaxSeats

Write(s, k) == {LockFor(s, k, "WRITE")}

(* Only positive numbers of seats: the code takes any int (and would let a  *)
(* reservation take one more from a negative count).                       *)
Add(s) == \E k \in Item, n \in Seats \ {0} :
             LET w == AddSeats(copies[s], k, n) IN
             /\ w[k].count + w[k].reserved <= MaxSeats
             /\ Operate(s, "add", Write(s, k), w)
             /\ delta' = [delta EXCEPT ![s][k] = @ + n]

Delete(s) == \E k \in Item :
                /\ Operate(s, "delete", Write(s, k), DeleteItem(copies[s], k))
                /\ delta' = IF CanDelete(copies[s], k)
                            THEN [delta EXCEPT ![s][k] =
                                     @ - ReadData(copies[s], k)[k].count]
                            ELSE delta

Query(s) == \E k \in Item :
               /\ Operate(s, "query", {LockFor(s, k, "READ")},
                          ReadData(copies[s], k))
               /\ UNCHANGED delta

(* Fault: a reservation takes a READ lock.                                 *)
ReserveReadLocked(s) == \E k \in Item, c \in CustomersOf[s] :
                 /\ Operate(s, "reserve", {LockFor(s, k, "READ")},
                            ReserveItem(copies[s], c, k))
                 /\ UNCHANGED delta

(* Middleware.reserveFlight and its like lock the item, not the customer.   *)
Reserve(s) == \E k \in Item, c \in CustomersOf[s] :
                 /\ Bounded(ReserveItem(copies[s], c, k))
                 /\ Operate(s, "reserve", Write(s, k),
                            ReserveItem(copies[s], c, k))
                 /\ UNCHANGED delta

ReserveBundle(s, c, ks) ==
    /\ Bounded(Bundle(copies[s], c, ks))
    /\ Operate(s, "bundle", UNION {Write(s, k) : k \in BundleLocks(copies[s], ks)},
               Bundle(copies[s], c, ks))
    /\ UNCHANGED delta

CreateCustomer(s) == \E c \in CustomersOf[s] :
    /\ Operate(s, "newCustomer", Write(s, c), NewCustomer(copies[s], c))
    /\ UNCHANGED delta

(* Middleware.deleteCustomer locks the customer, not the reserved items.    *)
RemoveCustomer(s) == \E c \in CustomersOf[s] :
    /\ \E w \in DeleteCustomer(copies[s], c) :
          Bounded(w) /\ Operate(s, "deleteCustomer", Write(s, c), w)
    /\ UNCHANGED delta

QueryCustomerInfo(s) == \E c \in CustomersOf[s] :
    /\ Operate(s, "queryCustomerInfo", Write(s, c), ReadData(copies[s], c))
    /\ UNCHANGED delta

Finish(s) == /\ copies' = [copies EXCEPT ![s] = NoCopies]
             /\ bare' = [bare EXCEPT ![s] = {}]
             /\ delta' = [delta EXCEPT ![s] = NoSeats]
             /\ held' = {h \in held : h.session # s}

(* The copies another transaction has of what s changes are out of date     *)
(* when s commits.                                                          *)
Overtaken(s) == {k \in Key : /\ ReadData(copies[s], k)[k] # m_data[k]
                             /\ \E t \in Session \ {s} :
                                   HasCopy(t, k) /\ k \in bare[s] \cup bare[t]}

(* commit writes back every copy, and the middleware then unlocks.          *)
Commit(s) == /\ m_data' = [k \in Key |-> ReadData(copies[s], k)[k]]
             /\ raced' = raced \cup Overtaken(s)
             /\ added' = [k \in Item |-> IF k \in raced' THEN 0
                                         ELSE added[k] + delta[s][k]]
             /\ Finish(s)

Abort(s) == Finish(s) /\ UNCHANGED <<m_data, added, raced>>

Flights == UNION {[1 .. n -> Item] : n \in 1 .. MaxFlights}

Next == \E s \in Session :
           \/ Add(s) \/ Delete(s) \/ Query(s) \/ Reserve(s)
           \/ \E c \in CustomersOf[s], ks \in Flights : ReserveBundle(s, c, ks)
           \/ CreateCustomer(s) \/ RemoveCustomer(s) \/ QueryCustomerInfo(s)
           \/ Commit(s) \/ Abort(s)

Spec == Init /\ [][Next]_vars

-----------------------------------------------------------------------------
(* No seat is lost or made up: an item has, free and reserved, the seats    *)
(* that committed transactions have given it, in whatever order they ran,   *)
(* unless deleteCustomer has worked on it, without a lock, at the same time *)
(* as another transaction.                                                  *)
SeatsAddUp ==
    \A k \in Item \ raced :
        added[k] = IF m_data[k] = Null THEN 0
                   ELSE m_data[k].count + m_data[k].reserved

(* ResourceManager.java:177 "Read customer object if it exists (and read    *)
(* lock it)": what an item counts as reserved is what the customers have    *)
(* reserved, and an item that is gone is reserved by nobody.                *)
ReservationsMatch ==
    \A k \in Item :
        MapThenSumSet(LAMBDA c : IF m_data[c] = Null THEN 0 ELSE m_data[c][k],
                      Customer) =
        IF m_data[k] = Null THEN 0 ELSE m_data[k].reserved

(* They do match as long as no transaction has changed a customer or, with  *)
(* deleteCustomer, an item under the eyes of another.                       *)
ReservationsMatchUnlessRaced == raced = {} => ReservationsMatch

(* The seats of k that customer c has reserved in the copies v.            *)
Booked(v, c, k) == LET customer == ReadData(v, c)[c]
                   IN  IF customer = Null THEN 0 ELSE customer[k]

(* The copies w have every flight of the bundle ks reserved that the copies *)
(* v have not, as often as ks names it, or no new reservation at all.       *)
AllOrNone(v, w, c, ks) ==
    LET new(k) == Booked(w, c, k) - Booked(v, c, k)
    IN  \/ \A k \in Item : new(k) = 0
        \/ \A k \in Item : new(k) = Quantify(DOMAIN ks, LAMBDA i : ks[i] = k)

(* Middleware.java:382-386 "Query all required resources before making      *)
(* reservations to ensure atomicity": whatever the transaction has done     *)
(* before, a bundle is atomic if no flight is named twice.                  *)
BundleOfDifferentIsAtomic ==
    \A s \in Session, ks \in {fs \in Flights : IsInjective(fs)} :
        \A c \in CustomersOf[s] :
            AllOrNone(copies[s], Bundle(copies[s], c, ks), c, ks)
=============================================================================
