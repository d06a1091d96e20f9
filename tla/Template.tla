------------------------------ MODULE Template ------------------------------
(***************************************************************************)
(* The system without transactions (src/Template).  The middleware forwards *)
(* a client's call to one server, or to several in turn.  A server's method *)
(* reads objects (readData returns a clone), computes, and writes them back *)
(* (writeData, removeData): each of these accesses is one step, in the      *)
(* monitor of m_data, and nothing is kept locked in between.  The servers   *)
(* are reached over RMI or TCP and run a thread per client.                 *)
(* Methods that only read are left out.                                     *)
(***************************************************************************)
EXTENDS Integers, Sequences, FiniteSetsExt

CONSTANTS Client,     \* clients, each waits for the answer to its last call
          Item,       \* keys of flights, cars and rooms
          ServerOf,   \* ServerOf[k]: the server of item k
          Customer,   \* keys of customers
          Methods,    \* the calls clients make: sequences of commands
          MaxSeats,   \* bound: seats that are ever added to an item
          MaxCalls,   \* bound: calls of a client
          Null        \* no object

Server == {"Flight", "Car", "Room"}
Key == Item \cup Customer

ASSUME KeyAssumption == Item \cap Customer = {}
ASSUME NullAssumption ==
    Null \notin Key \cup [count : Nat, reserved : Int] \cup [Item -> Nat]
ASSUME ServerAssumption == ServerOf \in [Item -> Server]

-----------------------------------------------------------------------------
(* What a server is asked to do.  must: the middleware throws if the answer *)
(* is false.                                                                *)
Command(name, s, c, k, must) ==
    [name |-> name, server |-> s, customer |-> c, item |-> k, must |-> must]

OnItem(name, k) == <<Command(name, ServerOf[k], Null, k, FALSE)>>
Add(k) == OnItem("add", k)
Delete(k) == OnItem("delete", k)

(* Fault: the rooms are forgotten.                                         *)
ToFlightAndCar(name, c) == <<Command(name, "Flight", c, Null, FALSE),
                             Command(name, "Car", c, Null, FALSE)>>

ToAll(name, c) == <<Command(name, "Flight", c, Null, FALSE),
                    Command(name, "Car", c, Null, FALSE),
                    Command(name, "Room", c, Null, FALSE)>>
NewCustomer(c) == ToAll("newCustomer", c)
DeleteCustomer(c) == ToAll("deleteCustomer", c)

(* newCustomer(id): the flight server makes up the identifier c.           *)
NewCustomerId(c) == <<Command("makeUpCustomer", "Flight", c, Null, FALSE),
                      Command("newCustomer", "Car", c, Null, TRUE),
                      Command("newCustomer", "Room", c, Null, TRUE)>>

(* ks: the flights in their order, then the car, then the room.  A         *)
(* reservation that fails does not keep the others from being made.        *)
Bundle(c, ks) ==
    [i \in DOMAIN ks |-> Command("reserve", ServerOf[ks[i]], c, ks[i], FALSE)]

-----------------------------------------------------------------------------
VARIABLES m_data,   \* m_data[s][k]: the object at server s, or Null
          todo,     \* todo[t]: commands of t's call that are not finished
          pc,       \* pc[t]: the next step of the first of them
          customer, \* customer[t], item[t]: t's clones, or Null
          item,
          key,      \* key[t]: the key of item[t]
          left,     \* left[t]: reserved keys deleteCustomer has yet to visit
          calls,    \* calls[t]: calls that t has made
          added,    \* history: added[k]: seats clients asked to add
          raced,    \* history: the objects that two commands used at once
          split     \* history: the customers that two calls worked on at
                    \* once or that a call left half-way

locals == <<customer, item, key, left>>
vars == <<m_data, todo, pc, locals, calls, added, raced, split>>

ItemObject == [count : Nat, reserved : Int]
CustomerObject == [Item -> Nat]   \* the customer's reservations
Label == {"idle", "begin", "readItem", "writeCustomer", "writeItem", "remove"}

TypeOK == /\ \A s \in Server :
                /\ \A k \in Item : m_data[s][k] \in ItemObject \cup {Null}
                /\ \A c \in Customer : m_data[s][c] \in CustomerObject \cup {Null}
          /\ pc \in [Client -> Label]
          /\ \A t \in Client : /\ customer[t] \in CustomerObject \cup {Null}
                               /\ item[t] \in ItemObject \cup {Null}
                               /\ left[t] \subseteq Item
                               /\ (pc[t] = "idle") = (todo[t] = <<>>)
          /\ raced \subseteq Server \X Key
          /\ split \subseteq Customer

Init == /\ m_data = [s \in Server |-> [k \in Key |-> Null]]
        /\ todo = [t \in Client |-> <<>>]
        /\ pc = [t \in Client |-> "idle"]
        /\ customer = [t \in Client |-> Null]
        /\ item = [t \in Client |-> Null]
        /\ key = [t \in Client |-> Null]
        /\ left = [t \in Client |-> {}]
        /\ calls = [t \in Client |-> 0]
        /\ added = [k \in Item |-> 0]
        /\ raced = {}
        /\ split = {}

-----------------------------------------------------------------------------
command(t) == Head(todo[t])
server(t) == command(t).server
Runs(t, label, names) ==
    pc[t] = label /\ todo[t] # <<>> /\ command(t).name \in names

Goto(t, label) == pc' = [pc EXCEPT ![t] = label]
Put(s, k, obj) == m_data' = [m_data EXCEPT ![s][k] = obj]

(* The command is answered; the middleware goes on with the call's next     *)
(* one, or throws if it insists on success.                                 *)
Answer(t, success) ==
    LET rest == IF command(t).must /\ ~success THEN <<>> ELSE Tail(todo[t])
    IN  /\ todo' = [todo EXCEPT ![t] = rest]
        /\ Goto(t, IF rest = <<>> THEN "idle" ELSE "begin")
        /\ customer' = [customer EXCEPT ![t] = Null]
        /\ item' = [item EXCEPT ![t] = Null]
        /\ key' = [key EXCEPT ![t] = Null]
        /\ left' = [left EXCEPT ![t] = {}]

(* The command throws, and so does the whole call.                         *)
Throw(t) == /\ todo' = [todo EXCEPT ![t] = <<>>]
            /\ Goto(t, "idle")
            /\ customer' = [customer EXCEPT ![t] = Null]
            /\ item' = [item EXCEPT ![t] = Null]
            /\ key' = [key EXCEPT ![t] = Null]
            /\ left' = [left EXCEPT ![t] = {}]
            /\ split' = split \cup ({command(t).customer} \cap Customer)

(* The customers whose existence a call changes.                           *)
Settles(cs) == {cs[i].customer : i \in
                   {j \in DOMAIN cs : cs[j].name # "reserve"}} \cap Customer

Invoke(t) == /\ pc[t] = "idle"
             /\ calls[t] < MaxCalls
             /\ \E m \in Methods :
                   LET adds(k) == m[1].name = "add" /\ m[1].item = k
                       busy == UNION {Settles(todo[u]) : u \in Client}
                   IN  /\ \A k \in Item : adds(k) => added[k] < MaxSeats
                       /\ added' = [k \in Item |-> IF adds(k) THEN added[k] + 1
                                                   ELSE added[k]]
                       /\ todo' = [todo EXCEPT ![t] = m]
                       /\ split' = split \cup (Settles(m) \cap busy)
             /\ calls' = [calls EXCEPT ![t] = @ + 1]
             /\ Goto(t, "begin")
             /\ UNCHANGED <<m_data, locals>>

(* A command that does not reach its server.  (One that is executed and     *)
(* whose answer is then lost is left out.)                                 *)
Unreachable(t) == /\ pc[t] = "begin"
                  /\ Throw(t)
                  /\ UNCHANGED <<m_data, calls, added>>

-----------------------------------------------------------------------------
(* Fault: an item is deleted though it is reserved.                        *)
CanDeleteReserved(obj) == obj # Null

CanDelete(obj) == obj # Null /\ obj.reserved = 0

(* addFlight, addCars, addRooms (of one seat) and deleteItem.              *)
BeginItem(t) ==
    LET k == command(t).item
        obj == m_data[server(t)][k]
    IN  /\ Runs(t, "begin", {"add", "delete"})
        /\ \/ /\ command(t).name = "add" \/ CanDelete(obj)
              /\ item' = [item EXCEPT ![t] = obj]
              /\ key' = [key EXCEPT ![t] = k]
              /\ Goto(t, IF command(t).name = "add" THEN "writeItem" ELSE "remove")
              /\ UNCHANGED <<todo, customer, left>>
           \/ /\ command(t).name = "delete"
              /\ ~CanDelete(obj)
              /\ Answer(t, FALSE)
        /\ UNCHANGED <<m_data, calls, added, split>>

WriteAdded(t) ==
    /\ Runs(t, "writeItem", {"add"})
    /\ Put(server(t), key[t],
           IF item[t] = Null THEN [count |-> 1, reserved |-> 0]
           ELSE [item[t] EXCEPT !.count = @ + 1])
    /\ Answer(t, TRUE)
    /\ UNCHANGED <<calls, added, split>>

RemoveItem(t) == /\ Runs(t, "remove", {"delete"})
                 /\ Put(server(t), key[t], Null)
                 /\ Answer(t, TRUE)
                 /\ UNCHANGED <<calls, added, split>>

-----------------------------------------------------------------------------
(* The commands that begin with the customer.                              *)
BeginCustomer(t) ==
    LET obj == m_data[server(t)][command(t).customer]
        name == command(t).name
    IN  /\ Runs(t, "begin", {"reserve", "newCustomer", "deleteCustomer"})
        /\ \/ /\ (obj = Null) = (name = "newCustomer")
              /\ customer' = [customer EXCEPT ![t] = obj]
              /\ left' = [left EXCEPT ![t] =
                    IF name = "deleteCustomer" THEN {k \in Item : obj[k] > 0} ELSE {}]
              /\ Goto(t, CASE name = "reserve" -> "readItem"
                           [] name = "newCustomer" -> "writeCustomer"
                           [] OTHER -> IF left'[t] = {} THEN "remove" ELSE "readItem")
              /\ UNCHANGED <<todo, item, key>>
           \/ /\ (obj = Null) # (name = "newCustomer")
              /\ Answer(t, FALSE)
        /\ UNCHANGED <<m_data, calls, added, split>>

(* newCustomer(xid) writes without a look.                                 *)
MakeUpCustomer(t) == /\ Runs(t, "begin", {"makeUpCustomer"})
                     /\ Put("Flight", command(t).customer, [k \in Item |-> 0])
                     /\ Answer(t, TRUE)
                     /\ UNCHANGED <<calls, added, split>>

WriteCustomer(t) ==
    LET c == command(t).customer
        k == command(t).item
    IN  /\ pc[t] = "writeCustomer"
        /\ \/ /\ command(t).name = "newCustomer"
              /\ Put(server(t), c, [j \in Item |-> 0])
              /\ Answer(t, TRUE)
           \/ /\ command(t).name = "reserve"
              /\ Put(server(t), c, [customer[t] EXCEPT ![k] = @ + 1])
              /\ Goto(t, "writeItem")
              /\ UNCHANGED <<todo, locals>>
        /\ UNCHANGED <<calls, added, split>>

(* Fault: an item is reserved though none is left.                         *)
AvailableIfKnown(obj) == obj # Null

Available(obj) == obj # Null /\ obj.count > 0

ReadReserved(t) ==
    LET k == command(t).item
        obj == m_data[server(t)][k]
    IN  /\ Runs(t, "readItem", {"reserve"})
        /\ \/ /\ Available(obj)
              /\ item' = [item EXCEPT ![t] = obj]
              /\ key' = [key EXCEPT ![t] = k]
              /\ Goto(t, "writeCustomer")
              /\ UNCHANGED <<todo, customer, left>>
           \/ ~Available(obj) /\ Answer(t, FALSE)
        /\ UNCHANGED <<m_data, calls, added, split>>

WriteReserved(t) ==
    /\ Runs(t, "writeItem", {"reserve"})
    /\ Put(server(t), key[t], [count |-> item[t].count - 1,
                               reserved |-> item[t].reserved + 1])
    /\ Answer(t, TRUE)
    /\ UNCHANGED <<calls, added, split>>

(* deleteCustomer's loop, in any order; a reserved item that is gone makes *)
(* it throw.                                                                *)
ReadGivenBack(t) ==
    /\ Runs(t, "readItem", {"deleteCustomer"})
    /\ \E k \in left[t] :
          LET obj == m_data[server(t)][k] IN
          \/ /\ obj # Null
             /\ item' = [item EXCEPT ![t] = obj]
             /\ key' = [key EXCEPT ![t] = k]
             /\ left' = [left EXCEPT ![t] = @ \ {k}]
             /\ Goto(t, "writeItem")
             /\ UNCHANGED <<todo, customer, split>>
          \/ obj = Null /\ Throw(t)
    /\ UNCHANGED <<m_data, calls, added>>

(* Fault: the item's count of reservations is left as it was.              *)
GiveBackCount(obj, n) == [obj EXCEPT !.count = @ + n]

GiveBack(obj, n) == [count |-> obj.count + n, reserved |-> obj.reserved - n]

WriteGivenBack(t) ==
    /\ Runs(t, "writeItem", {"deleteCustomer"})
    /\ Put(server(t), key[t], GiveBack(item[t], customer[t][key[t]]))
    /\ item' = [item EXCEPT ![t] = Null]
    /\ key' = [key EXCEPT ![t] = Null]
    /\ Goto(t, IF left[t] = {} THEN "remove" ELSE "readItem")
    /\ UNCHANGED <<todo, customer, left, calls, added, split>>

RemoveCustomer(t) == /\ Runs(t, "remove", {"deleteCustomer"})
                     /\ Put(server(t), command(t).customer, Null)
                     /\ Answer(t, TRUE)
                     /\ UNCHANGED <<calls, added, split>>

-----------------------------------------------------------------------------
Step(t) == \/ BeginItem(t) \/ WriteAdded(t) \/ RemoveItem(t)
           \/ BeginCustomer(t) \/ MakeUpCustomer(t) \/ WriteCustomer(t)
           \/ ReadReserved(t) \/ WriteReserved(t)
           \/ ReadGivenBack(t) \/ WriteGivenBack(t) \/ RemoveCustomer(t)

(* The objects that t's command has read and may still write or rely on.   *)
Uses(t) == IF pc[t] \in {"idle", "begin"} THEN {}
           ELSE {server(t)} \X ({command(t).customer, key[t]} \cap Key)

Overwritten(t) == {<<"Flight", c>> : c \in
    {d \in Customer : /\ Runs(t, "begin", {"makeUpCustomer"})
                      /\ command(t).customer = d
                      /\ m_data["Flight"][d] # Null}}

(* Two commands have used one object at once, or one overwrites it unseen. *)
Races(t) == raced' = raced \cup Overwritten(t)
                \cup {o \in Uses(t) \cup Uses(t)' :
                         \E u \in Client \ {t} : o \in Uses(u)}

Next == \E t \in Client : /\ \/ Invoke(t) \/ Unreachable(t) \/ Step(t)
                          /\ Races(t)

Spec == Init /\ [][Next]_vars

-----------------------------------------------------------------------------
(* Whatever the interleaving, updates are lost but no seats are made out of *)
(* nothing: an item never has more than clients asked to add.               *)
SeatsBounded ==
    \A s \in Server, k \in Item :
        m_data[s][k] # Null =>
            m_data[s][k].count + m_data[s][k].reserved <= added[k]

Quiet(s) == \A t \in Client : pc[t] \in {"idle", "begin"} \/ server(t) # s

Booked(s, k) == MapThenSumSet(
    LAMBDA c : IF m_data[s][c] = Null THEN 0 ELSE m_data[s][c][k], Customer)

Unraced(s) == \A k \in Key : <<s, k>> \notin raced

(* Races are all that can go wrong: while no two commands have met on an    *)
(* object of a server, each item there counts just what the customers have  *)
(* reserved of it, and is there if they have; calls that were interleaved   *)
(* command by command, or broken off, do no harm.  A race on another item   *)
(* may: deleteCustomer then throws after it has given this one back.        *)
ReservationsMatch ==
    \A s \in Server : Quiet(s) /\ Unraced(s) =>
        \A k \in Item :
            Booked(s, k) = IF m_data[s][k] = Null THEN 0 ELSE m_data[s][k].reserved

(* A customer exists at all servers or at none when nobody works on it,     *)
(* unless calls that create or delete it have met or broken off, or         *)
(* commands have raced on it at a server.                                   *)
CustomersAgree ==
    \A c \in Customer \ split :
        /\ \A t \in Client : c \notin Settles(todo[t])
        /\ raced \cap (Server \X {c}) = {}
        => \/ \A s \in Server : m_data[s][c] = Null
           \/ \A s \in Server : m_data[s][c] # Null
=============================================================================
