------------------------ MODULE ResourceManagerProofs ------------------------
(* Theorems about ResourceManager for any sessions, items, customers and    *)
(* bounds, and for bundles of any length.                                   *)
EXTENDS ResourceManager, FoldTheorems

-----------------------------------------------------------------------------
(* Objects.  Whole: an item has seats, and not more than it may; what a     *)
(* customer has reserved is a number of seats.                              *)

SomeItem == [count : Nat, reserved : Int]
SomeCustomer == [Item -> Nat]
SomeObject == {Null} \cup SomeItem \cup SomeCustomer

Total(obj) == IF obj = Null THEN 0 ELSE obj.count + obj.reserved

Whole(k, obj) ==
    \/ obj = Null
    \/ IF k \in Item THEN obj \in SomeItem /\ obj.count + obj.reserved \in Seats
       ELSE obj \in SomeCustomer

(* The copies of a transaction, and all data as a transaction sees them.    *)
Copies == {v \in UNION {[K -> SomeObject] : K \in SUBSET Key} :
              \A k \in DOMAIN v : Whole(k, v[k])}
Data == {d \in [Key -> SomeObject] : \A k \in Key : Whole(k, d[k])}

Put(d, k, obj) == [d EXCEPT ![k] = obj]

Over(v, m) == [k \in Key |-> IF k \in DOMAIN v THEN v[k] ELSE m[k]]
View(v) == Over(v, m_data)

LEMMA NullIsNoObject ==
    /\ Null \notin SomeItem
    /\ Null \notin SomeCustomer
    /\ NoReservations \in SomeCustomer
    /\ \A c \in Customer : c \notin Item /\ c \in Key
    /\ \A k \in Item : k \notin Customer /\ k \in Key
BY NullAssumption, KeyAssumption
   DEF SomeItem, SomeCustomer, NoReservations, Key

LEMMA WholeObjects ==
    /\ \A k : Whole(k, Null)
    /\ \A k, obj : Whole(k, obj) => obj \in SomeObject
    /\ \A k \in Item : \A obj : Whole(k, obj) /\ obj # Null =>
          obj \in SomeItem /\ Total(obj) = obj.count + obj.reserved
    /\ \A c \in Customer : \A obj : Whole(c, obj) /\ obj # Null => obj \in SomeCustomer
    /\ \A k \in Item : \A obj : Whole(k, obj) => Total(obj) \in Seats
BY NullIsNoObject, BoundsAssumption DEF Whole, SomeObject, Total, Seats

LEMMA CopiesType ==
    ASSUME NEW v
    PROVE  v \in Copies <=>
              /\ DOMAIN v \subseteq Key
              /\ v = [k \in DOMAIN v |-> v[k]]
              /\ \A k \in DOMAIN v : Whole(k, v[k])
<1>1. ASSUME v \in Copies
      PROVE  /\ DOMAIN v \subseteq Key
             /\ v = [k \in DOMAIN v |-> v[k]]
             /\ \A k \in DOMAIN v : Whole(k, v[k])
  BY <1>1 DEF Copies
<1>2. ASSUME DOMAIN v \subseteq Key, v = [k \in DOMAIN v |-> v[k]],
             \A k \in DOMAIN v : Whole(k, v[k])
      PROVE  v \in Copies
  <2>1. v \in [DOMAIN v -> SomeObject]
    BY <1>2, WholeObjects
  <2> QED BY <1>2, <2>1 DEF Copies
<1> QED BY <1>1, <1>2

LEMMA ViewType ==
    ASSUME m_data \in Data, NEW v \in Copies
    PROVE  /\ View(v) \in Data
           /\ \A k \in DOMAIN v : View(v)[k] = v[k]
           /\ \A k \in Key : k \notin DOMAIN v => View(v)[k] = m_data[k]
<1>1. \A k \in Key : Whole(k, View(v)[k])
  BY CopiesType DEF View, Over, Data
<1>2. View(v) \in [Key -> SomeObject]
  BY <1>1, WholeObjects DEF View, Over
<1>3. DOMAIN v \subseteq Key
  BY CopiesType
<1> QED BY <1>1, <1>2, <1>3 DEF Data, View, Over

-----------------------------------------------------------------------------
(* The methods.  Each reads some keys, so that they are copied, and turns   *)
(* the data the transaction sees into other data.                           *)

LEMMA Reading ==
    ASSUME m_data \in Data, NEW v \in Copies, NEW K \in SUBSET Key
    PROVE  /\ ReadAll(v, K) \in Copies
           /\ DOMAIN ReadAll(v, K) = DOMAIN v \cup K
           /\ View(ReadAll(v, K)) = View(v)
           /\ \A k \in DOMAIN v \cup K : ReadAll(v, K)[k] = View(v)[k]
<1> DEFINE w == ReadAll(v, K)
<1>1. DOMAIN w = DOMAIN v \cup K /\ DOMAIN v \subseteq Key
  BY CopiesType DEF ReadAll
<1>2. \A k \in DOMAIN v \cup K : w[k] = View(v)[k]
  BY <1>1 DEF ReadAll, View, Over
<1>3. w = [k \in DOMAIN w |-> w[k]]
  BY DEF ReadAll
<1>4. \A k \in DOMAIN w : Whole(k, w[k])
  <2>1. \A k \in Key : Whole(k, View(v)[k])
    BY ViewType DEF Data
  <2> HIDE DEF w
  <2> QED BY <1>1, <1>2, <2>1
<1>5. w \in Copies
  <2> HIDE DEF w
  <2> QED BY <1>1, <1>3, <1>4, CopiesType
<1>6. \A k \in Key : View(w)[k] = View(v)[k]
  <2> HIDE DEF w
  <2> QED BY <1>1, <1>2 DEF View, Over
<1>7. View(w) = View(v)
  <2> HIDE DEF w
  <2> QED BY <1>6 DEF View, Over
<1> QED BY <1>1, <1>2, <1>5, <1>7

LEMMA ReadingOne ==
    ASSUME m_data \in Data, NEW v \in Copies, NEW k \in Key
    PROVE  /\ ReadData(v, k) \in Copies
           /\ DOMAIN ReadData(v, k) = DOMAIN v \cup {k}
           /\ View(ReadData(v, k)) = View(v)
           /\ ReadData(v, k)[k] = View(v)[k]
BY Reading, {k} \in SUBSET Key DEF ReadData

(* Copies that differ from v only in what they have of K.                   *)
LEMMA Changing ==
    ASSUME m_data \in Data, NEW v \in Copies, NEW w, NEW d \in Data,
           DOMAIN v \subseteq DOMAIN w, DOMAIN w \subseteq Key,
           w = [k \in DOMAIN w |-> w[k]],
           \A k \in DOMAIN w : w[k] = d[k],
           \A k \in Key \ DOMAIN w : d[k] = View(v)[k]
    PROVE  w \in Copies /\ View(w) = d
<1>1. w \in Copies
  BY CopiesType DEF Data
<1>2. \A k \in Key : View(w)[k] = d[k]
  BY DEF View, Over
<1>3. View(w) = [k \in Key |-> View(w)[k]] /\ d = [k \in Key |-> d[k]]
  BY DEF View, Over, Data
<1> QED BY <1>1, <1>2, <1>3

LEMMA Writing ==
    ASSUME m_data \in Data, NEW v \in Copies, NEW k \in Key, NEW obj, Whole(k, obj)
    PROVE  /\ WriteData(v, k, obj) \in Copies
           /\ DOMAIN WriteData(v, k, obj) = DOMAIN v \cup {k}
           /\ View(WriteData(v, k, obj)) = Put(View(v), k, obj)
<1> DEFINE w == WriteData(v, k, obj)
           r == ReadData(v, k)
           d == Put(View(v), k, obj)
<1>1. /\ r \in Copies /\ DOMAIN r = DOMAIN v \cup {k} /\ View(r) = View(v)
      /\ View(v) \in Data
  BY ReadingOne, ViewType
<1>2. /\ w = [r EXCEPT ![k] = obj] /\ DOMAIN w = DOMAIN r
      /\ w = [j \in DOMAIN w |-> w[j]]
      /\ DOMAIN r \subseteq Key
  <2>1. r = [j \in DOMAIN r |-> r[j]] /\ DOMAIN r \subseteq Key
    BY <1>1, CopiesType
  <2>2. w = [r EXCEPT ![k] = obj]
    BY DEF WriteData
  <2> HIDE DEF w, r
  <2> QED BY <2>1, <2>2
<1>3. d \in Data
  <2>1. obj \in SomeObject
    BY WholeObjects
  <2> QED BY <1>1, <2>1 DEF Data, Put
<1>4. \A j \in DOMAIN w : w[j] = d[j]
  <2>1. \A j \in DOMAIN r : r[j] = View(v)[j]
    BY <1>1, ViewType
  <2> HIDE DEF w, r
  <2> QED BY <1>1, <1>2, <2>1 DEF Data, Put
<1>5. \A j \in Key \ DOMAIN w : d[j] = View(v)[j]
  BY <1>1, <1>2 DEF Data, Put
<1> HIDE DEF w, r, d
<1>6. w \in Copies /\ View(w) = d
  BY <1>1, <1>2, <1>3, <1>4, <1>5, Changing
<1> QED BY <1>1, <1>2, <1>6 DEF w, d
LEMMA AddingSeats ==
    ASSUME m_data \in Data, NEW v \in Copies, NEW k \in Item, NEW n \in Seats \ {0},
           AddSeats(v, k, n)[k].count + AddSeats(v, k, n)[k].reserved <= MaxSeats
    PROVE  \E obj \in SomeItem :
              /\ Whole(k, obj)
              /\ Total(obj) = Total(View(v)[k]) + n
              /\ obj.reserved = IF View(v)[k] = Null THEN 0 ELSE View(v)[k].reserved
              /\ AddSeats(v, k, n) \in Copies
              /\ DOMAIN AddSeats(v, k, n) = DOMAIN v \cup {k}
              /\ View(AddSeats(v, k, n)) = Put(View(v), k, obj)
<1> DEFINE old == View(v)[k]
           obj == IF old = Null THEN [count |-> n, reserved |-> 0]
                  ELSE [old EXCEPT !.count = @ + n]
           w == AddSeats(v, k, n)
<1>1. k \in Key /\ Whole(k, old) /\ (old # Null => old \in SomeItem)
  BY ViewType, WholeObjects, NullIsNoObject DEF Data
<1>2. w = WriteData(v, k, obj)
  BY <1>1, ReadingOne DEF AddSeats
<1>3. w[k] = obj
  <2>1. DOMAIN ReadData(v, k) = DOMAIN v \cup {k}
    BY <1>1, ReadingOne
  <2>2. w = [ReadData(v, k) EXCEPT ![k] = obj]
    BY <1>2 DEF WriteData
  <2> HIDE DEF w, obj
  <2> QED BY <2>1, <2>2
<1>4. /\ obj \in SomeItem /\ obj # Null
      /\ obj.reserved = IF old = Null THEN 0 ELSE old.reserved
      /\ Total(obj) = Total(old) + n
  <2>1. n \in Nat /\ n > 0
    BY BoundsAssumption DEF Seats
  <2>2. CASE old = Null
    <3>1. obj = [count |-> n, reserved |-> 0] /\ obj \in SomeItem
      BY <2>1, <2>2 DEF SomeItem
    <3> HIDE DEF obj, old
    <3> QED BY <2>1, <2>2, <3>1, NullIsNoObject DEF Total
  <2>3. CASE old # Null
    <3>1. old \in SomeItem
      BY <1>1, <2>3
    <3>2. obj = [old EXCEPT !.count = @ + n]
      BY <2>3
    <3> HIDE DEF obj, old
    <3>3. /\ obj \in SomeItem
          /\ obj.count = old.count + n /\ obj.reserved = old.reserved
      BY <2>1, <3>1, <3>2 DEF SomeItem
    <3>4. old.count \in Int /\ old.reserved \in Int
      BY <3>1 DEF SomeItem
    <3> QED BY <2>1, <2>3, <3>3, <3>4, NullIsNoObject DEF Total
  <2> QED BY <2>2, <2>3
<1>5. Whole(k, obj)
  <2>1. Total(old) \in Seats
    BY <1>1, WholeObjects
  <2>2. Total(obj) = obj.count + obj.reserved /\ Total(obj) <= MaxSeats
    <3> HIDE DEF obj, w
    <3> QED BY <1>3, <1>4 DEF Total, w
  <2> HIDE DEF obj, old
  <2>3. Total(obj) \in Seats
    BY <1>4, <2>1, <2>2, BoundsAssumption DEF Seats
  <2> QED BY <1>4, <2>2, <2>3 DEF Whole
<1> HIDE DEF obj
<1>6. /\ w \in Copies
      /\ DOMAIN w = DOMAIN v \cup {k}
      /\ View(w) = Put(View(v), k, obj)
  BY <1>1, <1>2, <1>5, Writing
<1> QED BY <1>4, <1>5, <1>6

LEMMA DeletingItem ==
    ASSUME m_data \in Data, NEW v \in Copies, NEW k \in Item
    PROVE  /\ DeleteItem(v, k) \in Copies
           /\ DOMAIN DeleteItem(v, k) = DOMAIN v \cup {k}
           /\ View(DeleteItem(v, k)) = IF CanDelete(v, k)
                                       THEN Put(View(v), k, Null) ELSE View(v)
           /\ CanDelete(v, k) => /\ View(v)[k] # Null
                                 /\ View(v)[k].reserved = 0
                                 /\ ReadData(v, k)[k].count = Total(View(v)[k])
<1>1. k \in Key /\ Whole(k, Null) /\ ReadData(v, k)[k] = View(v)[k]
  BY ReadingOne, NullIsNoObject, WholeObjects
<1>2. View(v)[k] # Null => View(v)[k] \in SomeItem
  BY <1>1, ViewType, WholeObjects DEF Data
<1>3. ASSUME CanDelete(v, k)
      PROVE  /\ View(v)[k] # Null
             /\ View(v)[k].reserved = 0
             /\ ReadData(v, k)[k].count = Total(View(v)[k])
  <2>1. View(v)[k] # Null /\ View(v)[k].reserved = 0
    BY <1>1, <1>3 DEF CanDelete
  <2>2. View(v)[k].count \in Nat
    BY <1>2, <2>1 DEF SomeItem
  <2> QED BY <1>1, <2>1, <2>2 DEF Total
<1> DEFINE w == DeleteItem(v, k)
<1>4. CASE CanDelete(v, k)
  <2>1. w = WriteData(v, k, Null)
    BY <1>4 DEF DeleteItem
  <2> HIDE DEF w
  <2>2. /\ w \in Copies /\ DOMAIN w = DOMAIN v \cup {k}
        /\ View(w) = Put(View(v), k, Null)
    BY <1>1, <2>1, Writing
  <2> QED BY <1>3, <1>4, <2>2 DEF w
<1>5. CASE ~CanDelete(v, k)
  <2>1. w = ReadData(v, k)
    BY <1>5 DEF DeleteItem
  <2>2. w \in Copies /\ DOMAIN w = DOMAIN v \cup {k} /\ View(w) = View(v)
    BY <1>1, <2>1, ReadingOne
  <2> QED BY <1>5, <2>2
<1> QED BY <1>4, <1>5

(* e is d after customer c has reserved a seat of item k.                   *)
Booking(d, e, c, k) ==
    /\ d[c] # Null /\ d[k] # Null
    /\ d[k].count > 0
    /\ e[c] = [d[c] EXCEPT ![k] = d[c][k] + 1]
    /\ e[k] = [count |-> d[k].count - 1, reserved |-> d[k].reserved + 1]
    /\ \A j \in Key \ {c, k} : e[j] = d[j]

LEMMA BookingIsWhole ==
    ASSUME NEW d \in Data, NEW e, DOMAIN e = Key, e = [j \in Key |-> e[j]],
           NEW c \in Customer, NEW k \in Item, Booking(d, e, c, k)
    PROVE  e \in Data
<1>1. d[c] \in SomeCustomer /\ d[k] \in SomeItem /\ Total(d[k]) \in Seats
      /\ Total(d[k]) = d[k].count + d[k].reserved
  BY NullIsNoObject, WholeObjects DEF Data, Booking
<1>2. e[c] \in SomeCustomer
  BY <1>1 DEF Booking, SomeCustomer
<1>3. e[k] \in SomeItem /\ e[k].count + e[k].reserved = Total(d[k])
  <2>1. d[k].count \in Nat /\ d[k].reserved \in Int /\ d[k].count > 0
    BY <1>1 DEF SomeItem, Booking
  <2>2. d[k].count - 1 \in Nat /\ d[k].reserved + 1 \in Int
    BY <2>1
  <2>3. e[k] = [count |-> d[k].count - 1, reserved |-> d[k].reserved + 1]
    BY DEF Booking
  <2>4. e[k].count = d[k].count - 1 /\ e[k].reserved = d[k].reserved + 1
    BY <2>3
  <2> QED BY <1>1, <2>1, <2>2, <2>3, <2>4 DEF SomeItem
<1>4. \A j \in Key : Whole(j, e[j])
  BY <1>1, <1>2, <1>3, NullIsNoObject DEF Whole, Booking, Data
<1>5. e \in [Key -> SomeObject]
  BY <1>4, WholeObjects
<1> QED BY <1>4, <1>5 DEF Data

LEMMA Reserving ==
    ASSUME m_data \in Data, NEW v \in Copies, NEW c \in Customer, NEW k \in Item
    PROVE  /\ ReserveItem(v, c, k) \in Copies
           /\ DOMAIN v \subseteq DOMAIN ReserveItem(v, c, k)
           /\ IF View(v)[c] # Null /\ View(v)[k] # Null /\ View(v)[k].count > 0
              THEN Booking(View(v), View(ReserveItem(v, c, k)), c, k)
              ELSE View(ReserveItem(v, c, k)) = View(v)
<1> DEFINE w == ReserveItem(v, c, k)
           r == ReadAll(v, {c, k})
           d == View(v)
<1>1. c \in Key /\ k \in Key /\ c # k /\ {c, k} \in SUBSET Key
  BY NullIsNoObject
<1>2. /\ r \in Copies /\ DOMAIN r = DOMAIN v \cup {c, k} /\ View(r) = d
      /\ \A j \in DOMAIN r : r[j] = d[j]
  BY <1>1, Reading
<1>3. d \in Data
  BY ViewType
<1>4. Available(v, k) <=> d[k] # Null /\ d[k].count > 0
  BY <1>1, ReadingOne DEF Available
<1>5. CASE ~(d[c] # Null /\ d[k] # Null /\ d[k].count > 0)
  <2>1. w = ReadData(v, c) \/ w = r
    BY <1>2, <1>4, <1>5 DEF ReserveItem
  <2>2. LET u == ReadData(v, c)
        IN  u \in Copies /\ DOMAIN v \subseteq DOMAIN u /\ View(u) = d
    BY <1>1, ReadingOne
  <2> HIDE DEF w, r, d
  <2>3. w \in Copies /\ DOMAIN v \subseteq DOMAIN w /\ View(w) = d
    BY <1>2, <2>1, <2>2
  <2> QED BY <1>5, <2>3 DEF w, d
<1>6. CASE d[c] # Null /\ d[k] # Null /\ d[k].count > 0
  <2>1. w = [r EXCEPT ![c][k] = @ + 1,
                      ![k] = [count |-> @.count - 1, reserved |-> @.reserved + 1]]
    BY <1>2, <1>4, <1>6 DEF ReserveItem
  <2>0. c \in DOMAIN r /\ r[c] = d[c]
    BY <1>1, <1>2
  <2>2. DOMAIN r \subseteq Key /\ r = [j \in DOMAIN r |-> r[j]]
    BY <1>2, CopiesType
  <2> HIDE DEF w, r, d
  <2>3. /\ DOMAIN w = DOMAIN r /\ w = [j \in DOMAIN w |-> w[j]]
        /\ w[c] = [r[c] EXCEPT ![k] = r[c][k] + 1]
        /\ w[k] = [count |-> r[k].count - 1, reserved |-> r[k].reserved + 1]
        /\ \A j \in DOMAIN w \ {c, k} : w[j] = r[j]
    <3>1. r = [j \in DOMAIN r |-> r[j]] /\ c \in DOMAIN r /\ k \in DOMAIN r /\ c # k
      BY <1>1, <1>2, <2>2
    <3>2. DOMAIN w = DOMAIN r
      BY <2>1
    <3>3. w = [j \in DOMAIN w |-> w[j]]
      BY <2>1, <3>1
    <3>4. w[c] = [r[c] EXCEPT ![k] = r[c][k] + 1]
      <4>1. r[c] \in [Item -> Nat]
        BY <1>1, <1>2, <1>3, <1>6, <2>0, WholeObjects DEF Data, SomeCustomer, d
      <4>2. w[c] \in [Item -> Nat]
        BY <2>1, <3>1, <4>1
      <4>3. \A x \in Item : w[c][x] = IF x = k THEN r[c][k] + 1 ELSE r[c][x]
        BY <2>1, <3>1, <4>1
      <4> QED BY <4>1, <4>2, <4>3
    <3>5. w[k] = [count |-> r[k].count - 1, reserved |-> r[k].reserved + 1]
      BY <2>1, <3>1
    <3>6. \A j \in DOMAIN w \ {c, k} : w[j] = r[j]
      BY <2>1, <3>1
    <3> QED BY <3>2, <3>3, <3>4, <3>5, <3>6
  <2> DEFINE e == [j \in Key |-> IF j \in DOMAIN w THEN w[j] ELSE d[j]]
  <2>4. Booking(d, e, c, k)
    BY <1>1, <1>2, <1>6, <2>3 DEF Booking
  <2>5. e \in Data
    BY <1>3, <2>4, BookingIsWhole
  <2>6. w \in Copies /\ View(w) = e
    <3>1. /\ DOMAIN v \subseteq DOMAIN w /\ DOMAIN w \subseteq Key
          /\ \A j \in DOMAIN w : w[j] = e[j]
          /\ \A j \in Key \ DOMAIN w : e[j] = View(v)[j]
      BY <1>2, <2>2, <2>3 DEF d
    <3> HIDE DEF e
    <3> QED BY <2>3, <2>5, <3>1, Changing
  <2> HIDE DEF e
  <2>7. w \in Copies /\ DOMAIN v \subseteq DOMAIN w /\ Booking(d, View(w), c, k)
    BY <1>2, <2>3, <2>4, <2>6
  <2> QED BY <1>6, <2>7 DEF w, d
<1> QED BY <1>5, <1>6

LEMMA CreatingCustomer ==
    ASSUME m_data \in Data, NEW v \in Copies, NEW c \in Customer
    PROVE  /\ NewCustomer(v, c) \in Copies
           /\ DOMAIN NewCustomer(v, c) = DOMAIN v \cup {c}
           /\ View(NewCustomer(v, c)) = IF View(v)[c] = Null
                                        THEN Put(View(v), c, NoReservations)
                                        ELSE View(v)
<1> DEFINE w == NewCustomer(v, c)
<1>1. c \in Key /\ Whole(c, NoReservations)
  BY NullIsNoObject DEF Whole
<1>2. ReadData(v, c)[c] = View(v)[c]
  BY <1>1, ReadingOne
<1>3. CASE View(v)[c] = Null
  <2>1. w = WriteData(v, c, NoReservations)
    BY <1>2, <1>3 DEF NewCustomer
  <2> HIDE DEF w
  <2>2. /\ w \in Copies /\ DOMAIN w = DOMAIN v \cup {c}
        /\ View(w) = Put(View(v), c, NoReservations)
    BY <1>1, <2>1, Writing
  <2> QED BY <1>3, <2>2 DEF w
<1>4. CASE View(v)[c] # Null
  <2>1. w = ReadData(v, c)
    BY <1>2, <1>4 DEF NewCustomer
  <2> HIDE DEF w
  <2>2. w \in Copies /\ DOMAIN w = DOMAIN v \cup {c} /\ View(w) = View(v)
    BY <1>1, <2>1, ReadingOne
  <2> QED BY <1>4, <2>2 DEF w
<1> QED BY <1>3, <1>4

(* e is d after the items of D have got back what c has reserved of them.   *)
Returned(d, e, c, D) ==
    /\ \A j \in D : e[j] = [count |-> d[j].count + d[c][j],
                            reserved |-> d[j].reserved - d[c][j]]
    /\ \A j \in Key \ D : e[j] = d[j]

LEMMA GivingBack ==
    ASSUME m_data \in Data, NEW v \in Copies, NEW c \in Customer, View(v)[c] # Null,
           NEW D \in SUBSET Item, \A j \in D : View(v)[j] # Null
    PROVE  /\ GiveBack(v, c, D) \in Copies
           /\ DOMAIN v \subseteq DOMAIN GiveBack(v, c, D)
           /\ Returned(View(v), View(GiveBack(v, c, D)), c, D)
<1> DEFINE r == ReadAll(v, D \cup {c})
           u == GiveBack(v, c, D)
           d == View(v)
           e == [j \in Key |-> IF j \in D THEN [count |-> d[j].count + d[c][j],
                                                reserved |-> d[j].reserved - d[c][j]]
                               ELSE d[j]]
<1>1. D \cup {c} \in SUBSET Key
  BY NullIsNoObject
<1>2. /\ DOMAIN r = DOMAIN v \cup D \cup {c}
      /\ \A j \in DOMAIN r : r[j] = d[j]
      /\ DOMAIN r \subseteq Key
  <2>1. /\ DOMAIN r = DOMAIN v \cup (D \cup {c})
        /\ \A j \in DOMAIN v \cup (D \cup {c}) : r[j] = d[j]
    BY <1>1, Reading
  <2>2. DOMAIN v \subseteq Key
    BY CopiesType
  <2> HIDE DEF r, d
  <2> QED BY <1>1, <2>1, <2>2
<1>3. d \in Data
  BY ViewType
<1>4. u = [j \in DOMAIN r |->
             IF j \in D THEN [count |-> r[j].count + r[c][j],
                              reserved |-> r[j].reserved - r[c][j]]
             ELSE r[j]]
  BY DEF GiveBack
<1> HIDE DEF r, u, d
<1>5. e \in Data
  <2>1. d[c] \in SomeCustomer
    BY <1>1, <1>3, NullIsNoObject, WholeObjects DEF Data, d
  <2>2. ASSUME NEW j \in D
        PROVE  /\ [count |-> d[j].count + d[c][j],
                   reserved |-> d[j].reserved - d[c][j]] \in SomeItem
               /\ (d[j].count + d[c][j]) + (d[j].reserved - d[c][j]) \in Seats
    <3>1. d[j] \in SomeItem /\ Total(d[j]) = d[j].count + d[j].reserved
          /\ Total(d[j]) \in Seats
      BY <1>1, <1>3, WholeObjects DEF Data, d
    <3>2. d[c][j] \in Nat /\ d[j].count \in Nat /\ d[j].reserved \in Int
      BY <2>1, <3>1 DEF SomeCustomer, SomeItem
    <3>3. (d[j].count + d[c][j]) + (d[j].reserved - d[c][j])
          = d[j].count + d[j].reserved
      BY <3>2
    <3> QED BY <3>1, <3>2, <3>3 DEF SomeItem
  <2>3. \A j \in Key : Whole(j, e[j])
    <3>1. ASSUME NEW j \in D PROVE Whole(j, e[j])
      <4>1. e[j] = [count |-> d[j].count + d[c][j],
                    reserved |-> d[j].reserved - d[c][j]]
        BY <1>1, <3>1
      <4> HIDE DEF e
      <4> QED BY <2>2, <4>1 DEF Whole
    <3>2. ASSUME NEW j \in Key \ D PROVE Whole(j, e[j])
      BY <1>3, <3>2 DEF Data
    <3> QED BY <3>1, <3>2
  <2>4. e \in [Key -> SomeObject]
    BY <2>3, WholeObjects
  <2> QED BY <2>3, <2>4 DEF Data
<1>6. u \in Copies /\ View(u) = e
  <2>1. /\ DOMAIN u = DOMAIN r /\ u = [j \in DOMAIN u |-> u[j]]
        /\ DOMAIN v \subseteq DOMAIN u /\ DOMAIN u \subseteq Key
    BY <1>2, <1>4
  <2>2. \A j \in DOMAIN u : u[j] = e[j]
    BY <1>2, <1>4
  <2>3. \A j \in Key \ DOMAIN u : e[j] = View(v)[j]
    BY <1>2, <2>1 DEF d
  <2> HIDE DEF e
  <2> QED BY <1>5, <2>1, <2>2, <2>3, Changing
<1>7. DOMAIN v \subseteq DOMAIN u
  BY <1>2, <1>4
<1>8. Returned(d, e, c, D)
  BY <1>1 DEF Returned
<1> HIDE DEF e
<1> QED BY <1>6, <1>7, <1>8 DEF u, d

(* The results of deleteCustomer: nothing, all is given back and the        *)
(* customer is gone, or a part is, before an item is missed.                *)
Removal(d, w, c) ==
    \E e \in Data :
       LET K == Reserved(d[c]) IN
       /\ d[c] # Null
       /\ \A j \in K : d[j] # Null
       /\ Returned(d, e, c, K)
       /\ View(w) = Put(e, c, Null)

Interrupted(d, w, c) ==
    \E D \in SUBSET Reserved(d[c]) :
       /\ d[c] # Null
       /\ \E g \in Reserved(d[c]) : d[g] = Null
       /\ \A j \in D : d[j] # Null
       /\ Returned(d, View(w), c, D)

LEMMA RemovingCustomer ==
    ASSUME m_data \in Data, NEW v \in Copies, NEW c \in Customer,
           NEW w \in DeleteCustomer(v, c)
    PROVE  /\ w \in Copies
           /\ DOMAIN v \subseteq DOMAIN w
           /\ View(w) = View(v) \/ Removal(View(v), w, c) \/ Interrupted(View(v), w, c)
<1> DEFINE r == ReadData(v, c)
           d == View(v)
           K == Reserved(r[c])
           gone == {k \in K : ReadData(v, k)[k] = Null}
<1>1. c \in Key /\ Whole(c, Null)
  BY NullIsNoObject, WholeObjects
<1>2. r \in Copies /\ DOMAIN v \subseteq DOMAIN r /\ View(r) = d /\ r[c] = d[c]
  BY <1>1, ReadingOne
<1>3. K \subseteq Item /\ Item \subseteq Key
  BY DEF Reserved, Key
<1>4. \A k \in K : (k \in gone) <=> d[k] = Null
  BY <1>3, ReadingOne
<1>5. CASE r[c] = Null
  <2>1. w = r
    BY <1>5 DEF DeleteCustomer
  <2> QED BY <1>2, <2>1
<1>6. CASE r[c] # Null /\ gone = {}
  <2>1. w = WriteData(GiveBack(v, c, K), c, Null)
    BY <1>6 DEF DeleteCustomer
  <2> DEFINE u == GiveBack(v, c, K)
  <2>2. u \in Copies /\ DOMAIN v \subseteq DOMAIN u /\ Returned(d, View(u), c, K)
    <3>1. \A j \in K : d[j] # Null
      BY <1>4, <1>6
    <3> HIDE DEF K, r, gone
    <3> QED BY <1>2, <1>3, <1>6, <3>1, GivingBack
  <2>3. w \in Copies /\ DOMAIN w = DOMAIN u \cup {c} /\ View(w) = Put(View(u), c, Null)
    <3> HIDE DEF u, K
    <3> QED BY <1>1, <2>1, <2>2, Writing DEF u
  <2>4. View(u) \in Data
    <3> HIDE DEF u
    <3> QED BY <2>2, ViewType
  <2>5. K = Reserved(d[c]) /\ d[c] # Null /\ \A j \in K : d[j] # Null
    BY <1>2, <1>4, <1>6
  <2>6. Removal(d, w, c)
    <3> HIDE DEF u, K, d, r
    <3> QED BY <2>2, <2>3, <2>4, <2>5 DEF Removal
  <2> HIDE DEF u
  <2> QED BY <2>2, <2>3, <2>6
<1>7. CASE r[c] # Null /\ gone # {}
  <2>1. PICK D \in SUBSET (K \ gone), g \in gone : w = ReadData(GiveBack(v, c, D), g)
    BY <1>7 DEF DeleteCustomer
  <2> DEFINE u == GiveBack(v, c, D)
  <2>2. u \in Copies /\ DOMAIN v \subseteq DOMAIN u /\ Returned(d, View(u), c, D)
    <3>1. D \in SUBSET Item /\ \A j \in D : d[j] # Null
      BY <1>3, <1>4
    <3> HIDE DEF K, r, gone
    <3> QED BY <1>2, <1>7, <3>1, GivingBack
  <2>3. w \in Copies /\ DOMAIN w = DOMAIN u \cup {g} /\ View(w) = View(u)
    <3>1. g \in Key
      BY <1>3
    <3> HIDE DEF u, K, gone
    <3> QED BY <2>1, <2>2, <3>1, ReadingOne DEF u
  <2>4. K = Reserved(d[c]) /\ d[c] # Null /\ d[g] = Null /\ g \in K
    BY <1>2, <1>4, <1>7
  <2>5. \A j \in D : j \in K /\ d[j] # Null
    BY <1>4
  <2>6. Interrupted(d, w, c)
    <3> HIDE DEF u, K, d, r, gone
    <3> QED BY <2>2, <2>3, <2>4, <2>5 DEF Interrupted
  <2> HIDE DEF u
  <2> QED BY <2>2, <2>3, <2>6
<1> QED BY <1>5, <1>6, <1>7

-----------------------------------------------------------------------------
(* bundle: a run of reservations, one for each flight in turn.              *)

AllAvailable(v, ks) == \A i \in DOMAIN ks : Available(v, ks[i])

IsRun(run, v, c, ks) ==
    /\ run[0] = ReadAll(v, BundleLocks(v, ks))
    /\ \A i \in DOMAIN ks : run[i] = ReserveItem(run[i - 1], c, ks[i])

IsReserving(v, c, ks, h) ==
    h = [T \in SUBSET DOMAIN ks |->
            IF T = {} THEN ReadAll(v, BundleLocks(v, ks))
            ELSE ReserveItem(h[T \ {Max(T)}], c, ks[Max(T)])]

LEMMA BundleIsFold ==
    ASSUME NEW v, NEW c, NEW ks
    PROVE  Bundle(v, c, ks) = IF AllAvailable(v, ks)
                              THEN (CHOOSE h : IsReserving(v, c, ks, h))[DOMAIN ks]
                              ELSE ReadAll(v, BundleLocks(v, ks))
BY DEF Bundle, FoldLeft, MapThenFoldSet, IsReserving, AllAvailable

LEMMA BundleIsRun ==
    ASSUME m_data \in Data, NEW v \in Copies, NEW c \in Customer,
           NEW n \in Nat, NEW ks \in [1 .. n -> Item], AllAvailable(v, ks)
    PROVE  \E run \in [0 .. n -> Copies] :
              IsRun(run, v, c, ks) /\ Bundle(v, c, ks) = run[n]
<1> DEFINE r == ReadAll(v, BundleLocks(v, ks))
           op == [p \in Copies \X Item |-> ReserveItem(p[1], c, p[2])]
<1>1. r \in Copies
  <2>1. BundleLocks(v, ks) \in SUBSET Key
    BY DEF BundleLocks, Key
  <2> QED BY <2>1, Reading
<1>2. op \in [Copies \X Item -> Copies]
  BY Reserving
<1>3. PICK iter \in [SUBSET (1 .. n) -> Copies] : IsLeftFold(ks, r, op, iter)
  <2> HIDE DEF r, op
  <2> QED BY <1>1, <1>2, LeftFoldsExist
<1>3a. LeftFoldSteps(n, ks, r, op, iter)
  <2>1. DOMAIN ks = 1 .. n
    OBVIOUS
  <2> HIDE DEF r, op
  <2> QED BY <1>3, <2>1, LeftFoldsStep
<1>4. \A w \in Copies, k \in Item : op[w, k] = ReserveItem(w, c, k)
  OBVIOUS
<1> HIDE DEF op
<1>5. \A T \in SUBSET (1 .. n) : T # {} => Max(T) \in 1 .. n /\ Max(T) \in T
  BY MaxInSet
<1>6. IsReserving(v, c, ks, iter)
  <2>1. \A T \in SUBSET (1 .. n) : T # {} =>
           op[iter[T \ {Max(T)}], ks[Max(T)]]
           = ReserveItem(iter[T \ {Max(T)}], c, ks[Max(T)])
    BY <1>4, <1>5
  <2> QED BY <1>3, <2>1 DEF IsLeftFold, IsReserving
<1>7. ASSUME NEW h, IsReserving(v, c, ks, h) PROVE h = iter
  <2> DEFINE Good == {T \in SUBSET (1 .. n) : h[T] = iter[T]}
  <2>1. ASSUME NEW T \in SUBSET (1 .. n), \A U \in (SUBSET T) \ {T} : U \in Good
        PROVE  T \in Good
    <3>1. CASE T = {}
      BY <1>6, <1>7, <3>1 DEF IsReserving
    <3>2. CASE T # {}
      <4>1. T \ {Max(T)} \in (SUBSET T) \ {T}
        BY <1>5, <3>2
      <4>2. h[T \ {Max(T)}] = iter[T \ {Max(T)}]
        BY <2>1, <4>1
      <4> QED BY <1>6, <1>7, <3>2, <4>2 DEF IsReserving
    <3> QED BY <3>1, <3>2
  <2>2. \A T \in SUBSET (1 .. n) : T \in Good
    <3>1. IsFiniteSet(1 .. n)
      BY FS_Interval
    <3> HIDE DEF Good
    <3> QED BY <2>1, <3>1, SubsetInduction
  <2> QED BY <1>6, <1>7, <2>2 DEF IsReserving
<1>8. Bundle(v, c, ks) = iter[1 .. n]
  <2>1. (CHOOSE h : IsReserving(v, c, ks, h)) = iter
    BY <1>6, <1>7
  <2> QED BY <2>1, BundleIsFold
<1> DEFINE run == [i \in 0 .. n |-> iter[1 .. i]]
<1>9. run \in [0 .. n -> Copies] /\ run[n] = iter[1 .. n]
  <2>1. \A i \in 0 .. n : 1 .. i \in SUBSET (1 .. n)
    OBVIOUS
  <2> QED BY <2>1
<1>10. IsRun(run, v, c, ks)
  <2>1. run[0] = r
    <3>1. 1 .. 0 = {} /\ 0 \in 0 .. n
      OBVIOUS
    <3> QED BY <1>3a, <3>1 DEF LeftFoldSteps
  <2>2. ASSUME NEW i \in 1 .. n PROVE run[i] = ReserveItem(run[i - 1], c, ks[i])
    <3>1. i \in 0 .. n /\ i - 1 \in 0 .. n /\ 1 .. i - 1 \in SUBSET (1 .. n)
      OBVIOUS
    <3>2. iter[1 .. i] = ReserveItem(iter[1 .. i - 1], c, ks[i])
      BY <1>3a, <1>4, <3>1 DEF LeftFoldSteps
    <3> QED BY <3>1, <3>2
  <2> HIDE DEF run
  <2> QED BY <2>1, <2>2 DEF IsRun
<1> HIDE DEF run
<1> QED BY <1>8, <1>9, <1>10

-----------------------------------------------------------------------------
(* Items and customers agree in the data d: for every item, the sum of what *)
(* the customers have reserved is what the item counts as reserved.         *)

ReservedBy(d, k) == [c \in Customer |-> IF d[c] = Null THEN 0 ELSE d[c][k]]
CountOf(obj) == IF obj = Null THEN 0 ELSE obj.reserved
Matches(d) == \A k \in Item : SumOver(ReservedBy(d, k), Customer) = CountOf(d[k])

LEMMA ReservedByType ==
    ASSUME NEW d \in Data, NEW k \in Item
    PROVE  ReservedBy(d, k) \in [Customer -> Nat]
BY NullIsNoObject, WholeObjects DEF ReservedBy, Data, SomeCustomer

LEMMA ReservationsMatchIsMatches ==
    ASSUME IsFiniteSet(Customer), m_data \in Data
    PROVE  ReservationsMatch <=> Matches(m_data)
<1> DEFINE IsSumOf(k, h) ==
              h = [T \in SUBSET Customer |->
                     IF T = {} THEN 0
                     ELSE (IF m_data[CHOOSE x \in T : TRUE] = Null THEN 0
                           ELSE m_data[CHOOSE x \in T : TRUE][k])
                          + h[T \ {CHOOSE x \in T : TRUE}]]
           SumAt(k) == MapThenSumSet(LAMBDA c : IF m_data[c] = Null THEN 0
                                                ELSE m_data[c][k], Customer)
<1>1. \A k : SumAt(k) = (CHOOSE h : IsSumOf(k, h))[Customer]
  BY DEF MapThenSumSet, MapThenFoldSet
<1>2. ASSUME NEW k \in Item PROVE SumAt(k) = SumOver(ReservedBy(m_data, k), Customer)
  <2> DEFINE f == ReservedBy(m_data, k)
  <2>1. f \in [Customer -> Int]
    BY ReservedByType
  <2>2. ASSUME NEW h PROVE IsSumOf(k, h) <=> IsSum(f, Customer, h)
    <3>1. \A T \in SUBSET Customer : T # {} =>
             f[CHOOSE x \in T : TRUE] = IF m_data[CHOOSE x \in T : TRUE] = Null THEN 0
                                        ELSE m_data[CHOOSE x \in T : TRUE][k]
      BY DEF ReservedBy
    <3> HIDE DEF f
    <3> QED BY <3>1 DEF IsSum
  <2>3. PICK g \in [SUBSET Customer -> Int] :
           IsSum(f, Customer, g) /\ SumOver(f, Customer) = g[Customer]
    <3> HIDE DEF f
    <3> QED BY <2>1, SumsExist
  <2>4. \A h : IsSumOf(k, h) <=> h = g
    <3> HIDE DEF f, IsSumOf
    <3> QED BY <2>2, <2>3, SumsUnique
  <2>5. (CHOOSE h : IsSumOf(k, h)) = g
    <3> HIDE DEF f, IsSumOf
    <3> QED BY <2>4
  <2> HIDE DEF f, IsSumOf, SumAt
  <2> QED BY <1>1, <2>3, <2>5 DEF f
<1>3. ReservationsMatch <=> \A k \in Item : SumAt(k) = CountOf(m_data[k])
  BY DEF ReservationsMatch, CountOf
<1> HIDE DEF SumAt
<1> QED BY <1>2, <1>3 DEF Matches

LEMMA MatchItem ==
    ASSUME IsFiniteSet(Customer), NEW d \in Data, Matches(d),
           NEW k \in Item, NEW obj, Whole(k, obj), CountOf(obj) = CountOf(d[k])
    PROVE  Matches(Put(d, k, obj))
<1>1. \A j \in Item : ReservedBy(Put(d, k, obj), j) = ReservedBy(d, j)
  BY NullIsNoObject DEF ReservedBy, Put, Data
<1>2. \A j \in Item : CountOf(Put(d, k, obj)[j]) = CountOf(d[j])
  BY NullIsNoObject DEF Put, Data
<1> QED BY <1>1, <1>2 DEF Matches

LEMMA MatchNewCustomer ==
    ASSUME IsFiniteSet(Customer), NEW d \in Data, Matches(d),
           NEW c \in Customer, d[c] = Null
    PROVE  Matches(Put(d, c, NoReservations))
<1>1. \A j \in Item : ReservedBy(Put(d, c, NoReservations), j) = ReservedBy(d, j)
  BY NullIsNoObject DEF ReservedBy, Put, Data, NoReservations
<1>2. \A j \in Item : Put(d, c, NoReservations)[j] = d[j]
  BY NullIsNoObject DEF Put, Data
<1> QED BY <1>1, <1>2 DEF Matches

LEMMA MatchBooking ==
    ASSUME IsFiniteSet(Customer), NEW d \in Data, Matches(d), NEW e \in Data,
           NEW c \in Customer, NEW k \in Item, Booking(d, e, c, k)
    PROVE  Matches(e)
<1> SUFFICES ASSUME NEW j \in Item
             PROVE  SumOver(ReservedBy(e, j), Customer) = CountOf(e[j])
  BY DEF Matches
<1>1. d[c] \in SomeCustomer /\ d[k] \in SomeItem /\ c # k /\ c \in Key /\ k \in Key
  BY NullIsNoObject, WholeObjects DEF Data, Booking
<1>2. e[c] \in SomeCustomer /\ e[c] # Null
      /\ e[c][j] = d[c][j] + IF j = k THEN 1 ELSE 0
  <2>1. e[c] = [d[c] EXCEPT ![k] = d[c][k] + 1]
    BY DEF Booking
  <2>2. e[c] \in SomeCustomer
    BY <1>1, <2>1 DEF SomeCustomer
  <2>3. d[c][j] \in Nat
    BY <1>1 DEF SomeCustomer
  <2> QED BY <1>1, <2>1, <2>2, <2>3, NullIsNoObject DEF SomeCustomer
<1>3. /\ ReservedBy(d, j) \in [Customer -> Int]
      /\ ReservedBy(e, j) \in [Customer -> Int]
  BY ReservedByType
<1>4. \A x \in Customer \ {c} : ReservedBy(e, j)[x] = ReservedBy(d, j)[x]
  BY NullIsNoObject DEF ReservedBy, Booking
<1>5. SumOver(ReservedBy(e, j), Customer)
      = SumOver(ReservedBy(d, j), Customer) + ReservedBy(e, j)[c] - ReservedBy(d, j)[c]
  BY <1>3, <1>4, SumOfChange
<1>6. /\ ReservedBy(e, j)[c] = e[c][j] /\ ReservedBy(d, j)[c] = d[c][j]
      /\ d[c][j] \in Nat
  BY <1>1, <1>2, NullIsNoObject DEF ReservedBy, SomeCustomer
<1>7. CountOf(e[j]) = CountOf(d[j]) + IF j = k THEN 1 ELSE 0
  <2>1. CASE j = k
    <3>1. e[j] = [count |-> d[k].count - 1, reserved |-> d[k].reserved + 1]
      BY <2>1 DEF Booking
    <3>2. e[j].reserved = d[k].reserved + 1 /\ e[j] # Null
      <4>1. e[j] \in [count : Int, reserved : Int]
        BY <1>1, <3>1 DEF SomeItem
      <4> QED BY <3>1, <4>1, NullAssumption
    <3> QED BY <1>1, <2>1, <3>2, NullIsNoObject DEF CountOf
  <2>2. CASE j # k
    <3>1. e[j] = d[j] /\ Whole(j, d[j])
      BY <1>1, <2>2, NullIsNoObject DEF Booking, Data
    <3>2. CountOf(d[j]) \in Int
      BY <3>1, WholeObjects DEF CountOf, SomeItem
    <3> QED BY <2>2, <3>1, <3>2
  <2> QED BY <2>1, <2>2
<1>8. SumOver(ReservedBy(d, j), Customer) = CountOf(d[j])
  BY DEF Matches
<1>9. SumOver(ReservedBy(d, j), Customer) \in Int
  BY <1>3, SumType
<1> QED BY <1>2, <1>5, <1>6, <1>7, <1>8, <1>9

LEMMA MatchRemoval ==
    ASSUME IsFiniteSet(Customer), m_data \in Data, NEW d \in Data, Matches(d),
           NEW c \in Customer, NEW w, Removal(d, w, c), View(w) \in Data
    PROVE  Matches(View(w))
<1> DEFINE K == Reserved(d[c])
<1>1. PICK e \in Data : /\ d[c] # Null
                        /\ \A j \in K : d[j] # Null
                        /\ Returned(d, e, c, K)
                        /\ View(w) = Put(e, c, Null)
  BY DEF Removal
<1>2. d[c] \in SomeCustomer /\ c \in Key /\ K \subseteq Item
  BY <1>1, NullIsNoObject, WholeObjects DEF Data, Reserved
<1> DEFINE f == View(w)
<1>3. /\ f[c] = Null
      /\ \A x \in Key \ {c} : f[x] = e[x]
  <2>1. e = [x \in Key |-> e[x]]
    BY DEF Data
  <2> QED BY <1>1, <1>2, <2>1 DEF Put
<1> HIDE DEF f
<1> SUFFICES ASSUME NEW j \in Item
             PROVE  SumOver(ReservedBy(f, j), Customer) = CountOf(f[j])
  BY DEF Matches, f
<1>4. /\ ReservedBy(d, j) \in [Customer -> Int]
      /\ ReservedBy(f, j) \in [Customer -> Int]
  BY ReservedByType DEF f
<1>5. \A x \in Customer \ {c} : ReservedBy(f, j)[x] = ReservedBy(d, j)[x]
  <2>1. \A x \in Customer \ {c} : f[x] = d[x]
    BY <1>1, <1>2, <1>3, NullIsNoObject DEF Returned
  <2> QED BY <2>1 DEF ReservedBy
<1>6. SumOver(ReservedBy(f, j), Customer)
      = SumOver(ReservedBy(d, j), Customer) + ReservedBy(f, j)[c] - ReservedBy(d, j)[c]
  BY <1>4, <1>5, SumOfChange
<1>7. /\ ReservedBy(f, j)[c] = 0 /\ ReservedBy(d, j)[c] = d[c][j]
      /\ d[c][j] \in Nat
  BY <1>1, <1>2, <1>3 DEF ReservedBy, SomeCustomer
<1>8. CountOf(f[j]) = CountOf(d[j]) - d[c][j] /\ CountOf(d[j]) \in Int
  <2>1. f[j] = e[j] /\ j \in Key
    BY <1>3, NullIsNoObject
  <2>2. Whole(j, d[j])
    BY <2>1 DEF Data
  <2>3. CountOf(d[j]) \in Int
    BY <2>2, WholeObjects DEF CountOf, SomeItem
  <2>4. CASE j \in K
    <3>1. d[j] # Null /\ d[j] \in SomeItem
      BY <1>1, <2>2, <2>4, WholeObjects
    <3>2. e[j] = [count |-> d[j].count + d[c][j], reserved |-> d[j].reserved - d[c][j]]
      BY <1>1, <2>4 DEF Returned
    <3>3. e[j] # Null /\ e[j].reserved = d[j].reserved - d[c][j]
      <4>1. d[j].count \in Nat /\ d[j].reserved \in Int
        BY <3>1 DEF SomeItem
      <4>2. e[j] \in [count : Int, reserved : Int]
        BY <1>7, <3>2, <4>1
      <4> QED BY <3>2, <4>2, NullAssumption
    <3> QED BY <2>1, <2>3, <3>1, <3>3 DEF CountOf
  <2>5. CASE j \notin K
    <3>1. e[j] = d[j]
      BY <1>1, <2>1, <2>5 DEF Returned
    <3>2. d[c][j] = 0
      BY <1>7, <2>5 DEF Reserved
    <3> QED BY <2>1, <2>3, <3>1, <3>2
  <2> QED BY <2>4, <2>5
<1>9. SumOver(ReservedBy(d, j), Customer) = CountOf(d[j])
  BY DEF Matches
<1> QED BY <1>6, <1>7, <1>8, <1>9

(* No reserved item is missed in data that match.                           *)
LEMMA MatchUninterrupted ==
    ASSUME IsFiniteSet(Customer), NEW d \in Data, Matches(d),
           NEW c \in Customer, NEW w, Interrupted(d, w, c)
    PROVE  FALSE
<1>1. PICK g \in Reserved(d[c]) : d[g] = Null /\ d[c] # Null
  BY DEF Interrupted
<1>2. g \in Item /\ d[c][g] > 0
  BY <1>1 DEF Reserved
<1>3. ReservedBy(d, g) \in [Customer -> Nat]
  BY <1>2, ReservedByType
<1>4. ReservedBy(d, g)[c] <= SumOver(ReservedBy(d, g), Customer)
  BY <1>3, SumOfNats
<1>5. SumOver(ReservedBy(d, g), Customer) = 0
  BY <1>1, <1>2 DEF Matches, CountOf
<1>6. ReservedBy(d, g)[c] = d[c][g] /\ ReservedBy(d, g)[c] \in Nat
  BY <1>1, <1>3 DEF ReservedBy
<1> QED BY <1>2, <1>4, <1>5, <1>6

-----------------------------------------------------------------------------
(* What every method does with the data d that its transaction sees: the    *)
(* seats of an item change only by what add and delete note in delta.       *)

SameTotals(d, e) == \A k \in Item : Total(e[k]) = Total(d[k])
Kept(d, e) == IsFiniteSet(Customer) /\ Matches(d) => Matches(e)

LEMMA BookingKeeps ==
    ASSUME NEW d \in Data, NEW e \in Data, NEW c \in Customer, NEW k \in Item,
           Booking(d, e, c, k)
    PROVE  SameTotals(d, e) /\ Kept(d, e)
<1>1. Kept(d, e)
  BY MatchBooking DEF Kept
<1>2. ASSUME NEW j \in Item PROVE Total(e[j]) = Total(d[j])
  <2>1. CASE j = k
    <3>1. d[k] \in SomeItem /\ d[k] # Null
      BY NullIsNoObject, WholeObjects DEF Data, Booking
    <3>2. d[k].count \in Nat /\ d[k].reserved \in Int
      BY <3>1 DEF SomeItem
    <3>3. e[k] = [count |-> d[k].count - 1, reserved |-> d[k].reserved + 1]
      BY DEF Booking
    <3>4. e[k] \in [count : Int, reserved : Int]
      BY <3>2, <3>3
    <3>5. /\ e[k] # Null /\ e[k].count = d[k].count - 1
          /\ e[k].reserved = d[k].reserved + 1
      BY <3>3, <3>4, NullAssumption
    <3> QED BY <2>1, <3>1, <3>2, <3>5 DEF Total
  <2>2. CASE j # k
    BY <2>2, NullIsNoObject DEF Booking
  <2> QED BY <2>1, <2>2
<1> QED BY <1>1, <1>2 DEF SameTotals

LEMMA ReturningKeepsTotals ==
    ASSUME NEW d \in Data, NEW e \in Data, NEW c \in Customer, d[c] # Null,
           NEW D \in SUBSET Item, \A j \in D : d[j] # Null, Returned(d, e, c, D)
    PROVE  SameTotals(d, e)
<1>1. ASSUME NEW j \in Item PROVE Total(e[j]) = Total(d[j])
  <2>1. CASE j \in D
    <3>1. d[j] \in SomeItem /\ d[j] # Null /\ d[c] \in SomeCustomer
      BY <2>1, NullIsNoObject, WholeObjects DEF Data
    <3>2. d[j].count \in Nat /\ d[j].reserved \in Int /\ d[c][j] \in Nat
      BY <3>1 DEF SomeItem, SomeCustomer
    <3>3. e[j] = [count |-> d[j].count + d[c][j], reserved |-> d[j].reserved - d[c][j]]
      BY <2>1 DEF Returned
    <3>4. e[j] \in [count : Int, reserved : Int]
      BY <3>2, <3>3
    <3>5. /\ e[j] # Null /\ e[j].count = d[j].count + d[c][j]
          /\ e[j].reserved = d[j].reserved - d[c][j]
      BY <3>3, <3>4, NullAssumption
    <3> QED BY <3>1, <3>2, <3>5 DEF Total
  <2>2. CASE j \notin D
    BY <2>2, NullIsNoObject DEF Returned
  <2> QED BY <2>1, <2>2
<1> QED BY <1>1 DEF SameTotals

LEMMA RemovalKeeps ==
    ASSUME m_data \in Data, NEW d \in Data, NEW c \in Customer, NEW w \in Copies,
           View(w) = d \/ Removal(d, w, c) \/ Interrupted(d, w, c)
    PROVE  SameTotals(d, View(w)) /\ Kept(d, View(w))
<1>1. View(w) \in Data
  BY ViewType
<1>2. CASE View(w) = d
  BY <1>2 DEF SameTotals, Kept
<1>3. CASE Removal(d, w, c)
  <2>1. Kept(d, View(w))
    BY <1>1, <1>3, MatchRemoval DEF Kept
  <2>2. PICK e \in Data : /\ d[c] # Null
                          /\ \A j \in Reserved(d[c]) : d[j] # Null
                          /\ Returned(d, e, c, Reserved(d[c]))
                          /\ View(w) = Put(e, c, Null)
    BY <1>3 DEF Removal
  <2>3. SameTotals(d, e)
    BY <2>2, ReturningKeepsTotals DEF Reserved
  <2>4. \A k \in Item : View(w)[k] = e[k]
    BY <2>2, NullIsNoObject DEF Put, Data
  <2> QED BY <2>1, <2>3, <2>4 DEF SameTotals
<1>4. CASE Interrupted(d, w, c)
  <2>1. Kept(d, View(w))
    BY <1>4, MatchUninterrupted DEF Kept
  <2>2. PICK D \in SUBSET Reserved(d[c]) :
           /\ d[c] # Null /\ \A j \in D : d[j] # Null
           /\ Returned(d, View(w), c, D)
    BY <1>4 DEF Interrupted
  <2>3. D \in SUBSET Item
    BY DEF Reserved
  <2>4. SameTotals(d, View(w))
    BY <1>1, <2>2, <2>3, ReturningKeepsTotals
  <2> QED BY <2>1, <2>4
<1> QED BY <1>2, <1>3, <1>4

LEMMA ReservingKeeps ==
    ASSUME m_data \in Data, NEW v \in Copies, NEW c \in Customer, NEW k \in Item
    PROVE  /\ SameTotals(View(v), View(ReserveItem(v, c, k)))
           /\ Kept(View(v), View(ReserveItem(v, c, k)))
<1> DEFINE d == View(v)
           e == View(ReserveItem(v, c, k))
<1>1. d \in Data /\ e \in Data /\ (e = d \/ Booking(d, e, c, k))
  BY Reserving, ViewType
<1> HIDE DEF d, e
<1>2. SameTotals(d, e) /\ Kept(d, e)
  BY <1>1, BookingKeeps DEF SameTotals, Kept
<1> QED BY <1>2 DEF d, e

LEMMA BundleKeeps ==
    ASSUME m_data \in Data, NEW v \in Copies, NEW c \in Customer,
           NEW n \in Nat, NEW ks \in [1 .. n -> Item]
    PROVE  /\ Bundle(v, c, ks) \in Copies
           /\ DOMAIN v \subseteq DOMAIN Bundle(v, c, ks)
           /\ SameTotals(View(v), View(Bundle(v, c, ks)))
           /\ Kept(View(v), View(Bundle(v, c, ks)))
<1> DEFINE r == ReadAll(v, BundleLocks(v, ks))
           Fine(w) == /\ w \in Copies /\ DOMAIN v \subseteq DOMAIN w
                      /\ SameTotals(View(v), View(w)) /\ Kept(View(v), View(w))
<1>1. Fine(r)
  <2>1. BundleLocks(v, ks) \in SUBSET Key
    BY DEF BundleLocks, Key
  <2>2. r \in Copies /\ DOMAIN v \subseteq DOMAIN r /\ View(r) = View(v)
    BY <2>1, Reading
  <2> HIDE DEF r
  <2> QED BY <2>2 DEF SameTotals, Kept
<1>2. CASE AllAvailable(v, ks)
  <2>1. PICK run \in [0 .. n -> Copies] :
           IsRun(run, v, c, ks) /\ Bundle(v, c, ks) = run[n]
    BY <1>2, BundleIsRun
  <2> DEFINE Good == {i \in Nat : i \in 0 .. n => Fine(run[i])}
  <2>2. 0 \in Good
    BY <1>1, <2>1 DEF IsRun
  <2>3. ASSUME NEW i \in Nat, i \in Good PROVE i + 1 \in Good
    <3>1. SUFFICES ASSUME i + 1 \in 0 .. n PROVE Fine(run[i + 1])
      OBVIOUS
    <3>2. i \in 0 .. n /\ i + 1 \in 1 .. n /\ (i + 1) - 1 = i
      BY <3>1
    <3>3. Fine(run[i])
      BY <2>3, <3>2
    <3>4. run[i + 1] = ReserveItem(run[i], c, ks[i + 1]) /\ ks[i + 1] \in Item
      BY <2>1, <3>2 DEF IsRun
    <3> DEFINE u == run[i]
               w == ReserveItem(u, c, ks[i + 1])
    <3>5. /\ w \in Copies /\ DOMAIN u \subseteq DOMAIN w
          /\ SameTotals(View(u), View(w)) /\ Kept(View(u), View(w))
      <4>1. u \in Copies
        BY <3>3
      <4> HIDE DEF u
      <4> QED BY <3>4, <4>1, Reserving, ReservingKeeps
    <3> HIDE DEF w
    <3>6. Fine(w)
      BY <3>3, <3>5 DEF SameTotals, Kept
    <3> QED BY <3>4, <3>6 DEF w
  <2>4. n \in Good
    <3> HIDE DEF Good
    <3> QED BY <2>2, <2>3, NatSetInduction
  <2> QED BY <2>1, <2>4
<1>3. CASE ~AllAvailable(v, ks)
  <2>1. Bundle(v, c, ks) = r
    BY <1>3, BundleIsFold
  <2> QED BY <1>1, <2>1
<1> QED BY <1>2, <1>3

-----------------------------------------------------------------------------
(* The inductive invariant.                                                 *)

Objects == m_data \in Data /\ copies \in [Session -> Copies]
Histories == delta \in [Session -> [Item -> Int]]

LocksExclude == \A g, h \in held : g.key = h.key /\ g.session # h.session =>
                                      g.type = "READ" /\ h.type = "READ"

(* What a transaction has copied and nobody has raced on, it has locked, or *)
(* it counts as bare; with a READ lock only it has what is committed.       *)
LockedOrBare ==
    \A s \in Session : \A k \in DOMAIN copies[s] \ raced :
        \/ k \in bare[s]
        \/ LockFor(s, k, "WRITE") \in held
        \/ LockFor(s, k, "READ") \in held /\ copies[s][k] = m_data[k]

(* The seats of an item, as the committed transactions and each live one    *)
(* see them.                                                                *)
SeatsOfAll ==
    \A k \in Item \ raced :
        /\ Total(m_data[k]) = added[k]
        /\ \A s \in Session : Total(Over(copies[s], m_data)[k]) = added[k] + delta[s][k]

Inv == TypeOK /\ Objects /\ Histories /\ LocksExclude /\ LockedOrBare /\ SeatsOfAll

(* Nobody sees items and customers that disagree.                           *)
AllMatch == raced = {} => /\ Matches(m_data)
                          /\ \A s \in Session : Matches(Over(copies[s], m_data))

LEMMA TightObjects ==
    ASSUME NEW k \in Key, NEW obj, Whole(k, obj)
    PROVE  IsObject(k, obj) <=>
              \/ obj = Null
              \/ k \in Item /\ obj.reserved >= -MaxSeats
              \/ k \in Customer /\ obj \in CustomerObject
<1>1. CASE obj = Null
  BY <1>1 DEF IsObject
<1>2. CASE obj # Null /\ k \in Item
  <2>1. obj \in SomeItem /\ obj.count + obj.reserved \in Seats
    BY <1>2 DEF Whole
  <2>2. /\ obj.count \in Nat /\ obj.reserved \in Int /\ MaxSeats \in Nat
        /\ obj.count + obj.reserved <= MaxSeats
        /\ obj = [count |-> obj.count, reserved |-> obj.reserved]
    BY <2>1, BoundsAssumption DEF SomeItem, Seats
  <2>3. obj \in ItemObject <=> obj.reserved >= -MaxSeats
    <3>1. ASSUME obj.reserved >= -MaxSeats
          PROVE  obj.count \in 0 .. 2 * MaxSeats /\ obj.reserved \in -MaxSeats .. MaxSeats
      BY <2>2, <3>1
    <3>2. ASSUME obj \in ItemObject PROVE obj.reserved >= -MaxSeats
      BY <2>2, <3>2 DEF ItemObject
    <3> QED BY <2>2, <3>1, <3>2 DEF ItemObject
  <2> QED BY <1>2, <2>3, NullIsNoObject DEF IsObject, Object
<1>3. CASE obj # Null /\ k \notin Item
  BY <1>3 DEF IsObject, Object, Key
<1> QED BY <1>1, <1>2, <1>3

LEMMA BoundedObjects ==
    ASSUME NEW w \in Copies, Bounded(w)
    PROVE  \A k \in DOMAIN w : IsObject(k, w[k])
<1> SUFFICES ASSUME NEW k \in DOMAIN w PROVE IsObject(k, w[k])
  OBVIOUS
<1>1. k \in Key /\ Whole(k, w[k])
  BY CopiesType
<1>2. CASE k \in Item
  BY <1>1, <1>2, TightObjects DEF Bounded, IsObject
<1>3. CASE k \in Customer
  BY <1>3 DEF Bounded
<1> QED BY <1>1, <1>2, <1>3 DEF Key

(* Session s has called a method: its copies become w, with the locks L.    *)
Called(s, w, L) ==
    /\ w \in Copies
    /\ DOMAIN copies[s] \subseteq DOMAIN w
    /\ \A k \in DOMAIN w : IsObject(k, w[k])
    /\ \A l \in L : l.session = s /\ l.key \in Key
    /\ \/ \A l \in L : l = LockFor(s, l.key, "WRITE")
       \/ /\ \A l \in L : l = LockFor(s, l.key, "READ")
          /\ View(w) = View(copies[s])
    /\ \E method : Operate(s, method, L, w)

Noted(s, d, e) ==
    /\ delta' \in [Session -> [Item -> Int]]
    /\ \A t \in Session, k \in Item :
          delta'[t][k] = IF t = s THEN delta[t][k] + Total(e[k]) - Total(d[k])
                         ELSE delta[t][k]

LEMMA TotalType ==
    ASSUME NEW d \in Data, NEW k \in Item
    PROVE  Total(d[k]) \in Int /\ Total(d[k]) \in Seats
BY NullIsNoObject, WholeObjects, BoundsAssumption DEF Data, Seats

LEMMA NothingNoted ==
    ASSUME Histories, NEW s \in Session, NEW d \in Data, NEW e,
           SameTotals(d, e), UNCHANGED delta
    PROVE  Noted(s, d, e)
<1>1. \A k \in Item : Total(e[k]) = Total(d[k]) /\ Total(d[k]) \in Int
  BY TotalType DEF SameTotals
<1> QED BY <1>1 DEF Noted, Histories

LEMMA WriteLocks ==
    ASSUME NEW s, NEW k \in Key
    PROVE  \A l \in Write(s, k) : /\ l.session = s /\ l.key \in Key
                                  /\ l = LockFor(s, l.key, "WRITE")
BY DEF Write, LockFor

(* The data that are objects before are so after a change to one key.       *)
LEMMA ObjectsAfterPut ==
    ASSUME m_data \in Data, NEW v \in Copies, NEW w \in Copies, NEW k \in Key, NEW obj,
           View(w) = Put(View(v), k, obj), IsObject(k, obj),
           \A j \in Key : IsObject(j, View(v)[j])
    PROVE  \A j \in DOMAIN w : IsObject(j, w[j])
<1>1. \A j \in DOMAIN w : j \in Key /\ w[j] = View(w)[j]
  BY CopiesType, ViewType
<1>2. \A j \in Key : View(w)[j] = IF j = k THEN obj ELSE View(v)[j]
  BY DEF Put, View, Over
<1> QED BY <1>1, <1>2

LEMMA ViewObjects ==
    ASSUME Inv, NEW s \in Session
    PROVE  /\ m_data \in Data /\ copies[s] \in Copies
           /\ View(copies[s]) \in Data
           /\ \A k \in Key : IsObject(k, View(copies[s])[k])
<1>1. m_data \in Data /\ copies[s] \in Copies
  BY DEF Inv, Objects
<1>2. \A k \in Key : IsObject(k, View(copies[s])[k])
  BY DEF Inv, TypeOK, View, Over
<1> QED BY <1>1, <1>2, ViewType

-----------------------------------------------------------------------------
(* Every method is such a call.                                             *)

Call(s) == \E w, L : /\ Called(s, w, L)
                     /\ Noted(s, View(copies[s]), View(w))
                     /\ Kept(View(copies[s]), View(w))

LEMMA AddStep ==
    ASSUME Inv, NEW s \in Session, Add(s)
    PROVE  Call(s)
<1> DEFINE v == copies[s]
           d == View(v)
<1>1. PICK k \in Item, n \in Seats \ {0} :
         /\ AddSeats(v, k, n)[k].count + AddSeats(v, k, n)[k].reserved <= MaxSeats
         /\ Operate(s, "add", Write(s, k), AddSeats(v, k, n))
         /\ delta' = [delta EXCEPT ![s][k] = @ + n]
  BY DEF Add
<1> DEFINE w == AddSeats(v, k, n)
           L == Write(s, k)
<1>2. /\ m_data \in Data /\ v \in Copies /\ d \in Data
      /\ \A j \in Key : IsObject(j, d[j])
  BY ViewObjects
<1>3. PICK obj \in SomeItem :
         /\ Whole(k, obj)
         /\ Total(obj) = Total(d[k]) + n
         /\ obj.reserved = IF d[k] = Null THEN 0 ELSE d[k].reserved
         /\ w \in Copies /\ DOMAIN w = DOMAIN v \cup {k}
         /\ View(w) = Put(d, k, obj)
  <2> HIDE DEF v
  <2> QED BY <1>1, <1>2, AddingSeats
<1> HIDE DEF v, w, L
<1>4. k \in Key /\ obj # Null
  BY NullIsNoObject
<1>5. IsObject(k, obj)
  <2>1. obj.reserved >= -MaxSeats
    <3>1. Whole(k, d[k]) /\ IsObject(k, d[k])
      BY <1>2, <1>4 DEF Data
    <3>2. d[k] # Null => d[k].reserved >= -MaxSeats
      BY <1>4, <3>1, NullIsNoObject, TightObjects
    <3> QED BY <1>3, <3>2, BoundsAssumption
  <2> QED BY <1>3, <1>4, <2>1, TightObjects
<1>6. \A j \in DOMAIN w : IsObject(j, w[j])
  BY <1>2, <1>3, <1>4, <1>5, ObjectsAfterPut DEF d
<1>7. Called(s, w, L)
  BY <1>1, <1>3, <1>4, <1>6, WriteLocks DEF Called, v, w, L
<1>8. Kept(d, View(w))
  <2>1. CountOf(obj) = CountOf(d[k])
    BY <1>3, <1>4 DEF CountOf
  <2> HIDE DEF d
  <2> QED BY <1>2, <1>3, <2>1, MatchItem DEF Kept
<1>9. Noted(s, d, View(w))
  <2>1. \A j \in Item : Total(View(w)[j]) = Total(d[j]) + IF j = k THEN n ELSE 0
    <3>1. \A j \in Item : View(w)[j] = IF j = k THEN obj ELSE d[j]
      BY <1>2, <1>3, <1>4, NullIsNoObject DEF Put, Data
    <3>2. \A j \in Item : Total(d[j]) \in Int
      BY <1>2, TotalType
    <3> HIDE DEF d
    <3> QED BY <1>3, <3>1, <3>2
  <2>2. \A j \in Item : Total(d[j]) \in Int
    BY <1>2, TotalType
  <2>3. delta \in [Session -> [Item -> Int]] /\ n \in Int
    BY BoundsAssumption DEF Inv, Histories, Seats
  <2>4. delta' \in [Session -> [Item -> Int]]
    BY <1>1, <2>3
  <2>5. \A t \in Session, j \in Item :
           delta'[t][j] = delta[t][j] + IF t = s /\ j = k THEN n ELSE 0
    BY <1>1, <2>3
  <2> HIDE DEF d
  <2> QED BY <2>1, <2>2, <2>3, <2>4, <2>5 DEF Noted
<1> QED BY <1>7, <1>8, <1>9 DEF Call, v

LEMMA DeleteStep ==
    ASSUME Inv, NEW s \in Session, Delete(s)
    PROVE  Call(s)
<1> DEFINE v == copies[s]
           d == View(v)
<1>1. PICK k \in Item :
         /\ Operate(s, "delete", Write(s, k), DeleteItem(v, k))
         /\ delta' = IF CanDelete(v, k)
                     THEN [delta EXCEPT ![s][k] = @ - ReadData(v, k)[k].count]
                     ELSE delta
  BY DEF Delete
<1> DEFINE w == DeleteItem(v, k)
           L == Write(s, k)
<1>2. /\ m_data \in Data /\ v \in Copies /\ d \in Data
      /\ \A j \in Key : IsObject(j, d[j])
  BY ViewObjects
<1>3. /\ w \in Copies /\ DOMAIN w = DOMAIN v \cup {k}
      /\ View(w) = IF CanDelete(v, k) THEN Put(d, k, Null) ELSE d
      /\ CanDelete(v, k) => /\ d[k] # Null /\ d[k].reserved = 0
                            /\ ReadData(v, k)[k].count = Total(d[k])
  BY <1>2, DeletingItem
<1>4. k \in Key /\ IsObject(k, Null) /\ Whole(k, Null)
  BY NullIsNoObject DEF IsObject, Whole
<1> HIDE DEF v, w, L
<1>5. \A j \in DOMAIN w : IsObject(j, w[j])
  <2>1. CASE CanDelete(v, k)
    BY <1>2, <1>3, <1>4, <2>1, ObjectsAfterPut DEF d
  <2>2. CASE ~CanDelete(v, k)
    <3>1. \A j \in DOMAIN w : j \in Key /\ w[j] = View(w)[j]
      BY <1>2, <1>3, CopiesType, ViewType
    <3> QED BY <1>2, <1>3, <2>2, <3>1
  <2> QED BY <2>1, <2>2
<1>6. Called(s, w, L)
  BY <1>1, <1>3, <1>4, <1>5, WriteLocks DEF Called, v, w, L
<1>7. Kept(d, View(w))
  <2>1. CASE CanDelete(v, k)
    <3>1. CountOf(Null) = CountOf(d[k])
      BY <1>3, <2>1 DEF CountOf
    <3> HIDE DEF d
    <3> QED BY <1>2, <1>3, <1>4, <2>1, <3>1, MatchItem DEF Kept
  <2>2. CASE ~CanDelete(v, k)
    BY <1>3, <2>2 DEF Kept
  <2> QED BY <2>1, <2>2
<1>8. Noted(s, d, View(w))
  <2>1. CASE CanDelete(v, k)
    <3>1. \A j \in Item : Total(View(w)[j]) = IF j = k THEN 0 ELSE Total(d[j])
      <4>1. \A j \in Item : View(w)[j] = IF j = k THEN Null ELSE d[j]
        BY <1>2, <1>3, <1>4, <2>1, NullIsNoObject DEF Put, Data
      <4>2. Total(Null) = 0
        BY DEF Total
      <4> HIDE DEF d
      <4> QED BY <4>1, <4>2
    <3>2. \A j \in Item : Total(d[j]) \in Int
      BY <1>2, TotalType
    <3>3. delta \in [Session -> [Item -> Int]]
      BY DEF Inv, Histories
    <3>4. delta' = [delta EXCEPT ![s][k] = @ - Total(d[k])]
      BY <1>1, <1>3, <2>1
    <3> HIDE DEF d
    <3>5. delta' \in [Session -> [Item -> Int]]
      BY <3>2, <3>3, <3>4
    <3>6. \A t \in Session, j \in Item :
             delta'[t][j] = delta[t][j] - IF t = s /\ j = k THEN Total(d[k]) ELSE 0
      BY <3>2, <3>3, <3>4
    <3> QED BY <3>1, <3>2, <3>3, <3>5, <3>6 DEF Noted
  <2>2. CASE ~CanDelete(v, k)
    <3>1. SameTotals(d, View(w)) /\ UNCHANGED delta
      BY <1>1, <1>3, <2>2 DEF SameTotals
    <3> HIDE DEF d
    <3> QED BY <1>2, <3>1, NothingNoted DEF Inv
  <2> QED BY <2>1, <2>2
<1> QED BY <1>6, <1>7, <1>8 DEF Call, v

(* The other methods move no seats.                                         *)
LEMMA MovingStep ==
    ASSUME Inv, NEW s \in Session, NEW w, NEW L, Called(s, w, L), UNCHANGED delta,
           SameTotals(View(copies[s]), View(w)), Kept(View(copies[s]), View(w))
    PROVE  Call(s)
<1>1. View(copies[s]) \in Data /\ Histories
  BY ViewObjects DEF Inv
<1> QED BY <1>1, NothingNoted DEF Call

LEMMA QueryStep ==
    ASSUME Inv, NEW s \in Session, Query(s)
    PROVE  Call(s)
<1> DEFINE v == copies[s]
<1>1. PICK k \in Item :
         Operate(s, "query", {LockFor(s, k, "READ")}, ReadData(v, k))
         /\ UNCHANGED delta
  BY DEF Query
<1> DEFINE w == ReadData(v, k)
           L == {LockFor(s, k, "READ")}
<1>2. /\ m_data \in Data /\ v \in Copies
      /\ \A j \in Key : IsObject(j, View(v)[j])
  BY ViewObjects
<1>3. k \in Key
  BY NullIsNoObject
<1>4. w \in Copies /\ DOMAIN w = DOMAIN v \cup {k} /\ View(w) = View(v)
  BY <1>2, <1>3, ReadingOne
<1> HIDE DEF v, w
<1>5. \A j \in DOMAIN w : IsObject(j, w[j])
  <2>1. \A j \in DOMAIN w : j \in Key /\ w[j] = View(w)[j]
    BY <1>2, <1>4, CopiesType, ViewType
  <2> QED BY <1>2, <1>4, <2>1
<1>6. \A l \in L : /\ l.session = s /\ l.key \in Key
                   /\ l = LockFor(s, l.key, "READ")
  BY <1>3 DEF LockFor
<1> HIDE DEF L
<1>7. Called(s, w, L)
  BY <1>1, <1>4, <1>5, <1>6 DEF Called, v, w, L
<1>8. SameTotals(View(v), View(w)) /\ Kept(View(v), View(w))
  BY <1>4 DEF SameTotals, Kept
<1> QED BY <1>1, <1>7, <1>8, MovingStep DEF v

LEMMA ReserveStep ==
    ASSUME Inv, NEW s \in Session, Reserve(s)
    PROVE  Call(s)
<1> DEFINE v == copies[s]
<1>1. PICK k \in Item, c \in CustomersOf[s] :
         /\ Bounded(ReserveItem(v, c, k))
         /\ Operate(s, "reserve", Write(s, k), ReserveItem(v, c, k))
         /\ UNCHANGED delta
  BY DEF Reserve
<1> DEFINE w == ReserveItem(v, c, k)
           L == Write(s, k)
<1>2. m_data \in Data /\ v \in Copies
  BY ViewObjects
<1>3. k \in Key /\ c \in Customer
  BY NullIsNoObject, CustomersAssumption
<1>4. w \in Copies /\ DOMAIN v \subseteq DOMAIN w
  BY <1>2, <1>3, Reserving
<1>5. SameTotals(View(v), View(w)) /\ Kept(View(v), View(w))
  BY <1>2, <1>3, ReservingKeeps
<1> HIDE DEF v, w, L
<1>6. \A j \in DOMAIN w : IsObject(j, w[j])
  BY <1>1, <1>4, BoundedObjects DEF w
<1>7. Called(s, w, L)
  BY <1>1, <1>3, <1>4, <1>6, WriteLocks DEF Called, v, w, L
<1> QED BY <1>1, <1>5, <1>7, MovingStep DEF v

LEMMA BundleStep ==
    ASSUME Inv, NEW s \in Session, NEW c \in CustomersOf[s], NEW ks \in Flights,
           ReserveBundle(s, c, ks)
    PROVE  Call(s)
<1> DEFINE v == copies[s]
           w == Bundle(v, c, ks)
           L == UNION {Write(s, k) : k \in BundleLocks(v, ks)}
<1>1. Bounded(w) /\ Operate(s, "bundle", L, w) /\ UNCHANGED delta
  BY DEF ReserveBundle
<1>2. m_data \in Data /\ v \in Copies
  BY ViewObjects
<1>3. PICK n \in Nat : ks \in [1 .. n -> Item]
  BY DEF Flights
<1>4. c \in Customer
  BY CustomersAssumption
<1>5. /\ w \in Copies /\ DOMAIN v \subseteq DOMAIN w
      /\ SameTotals(View(v), View(w)) /\ Kept(View(v), View(w))
  BY <1>2, <1>3, <1>4, BundleKeeps
<1> HIDE DEF v, w
<1>6. \A l \in L : /\ l.session = s /\ l.key \in Key
                   /\ l = LockFor(s, l.key, "WRITE")
  <2>1. BundleLocks(v, ks) \subseteq Key
    BY <1>3 DEF BundleLocks, Key
  <2>2. ASSUME NEW k \in BundleLocks(v, ks), NEW l \in Write(s, k)
        PROVE  l.session = s /\ l.key \in Key /\ l = LockFor(s, l.key, "WRITE")
    BY <2>1, WriteLocks
  <2> QED BY <2>2
<1> HIDE DEF L
<1>7. \A j \in DOMAIN w : IsObject(j, w[j])
  BY <1>1, <1>5, BoundedObjects
<1>8. Called(s, w, L)
  BY <1>1, <1>5, <1>6, <1>7 DEF Called, v
<1> QED BY <1>1, <1>5, <1>8, MovingStep DEF v

LEMMA CreateCustomerStep ==
    ASSUME Inv, NEW s \in Session, CreateCustomer(s)
    PROVE  Call(s)
<1> DEFINE v == copies[s]
           d == View(v)
<1>1. PICK c \in CustomersOf[s] :
         /\ Operate(s, "newCustomer", Write(s, c), NewCustomer(v, c))
         /\ UNCHANGED delta
  BY DEF CreateCustomer
<1> DEFINE w == NewCustomer(v, c)
           L == Write(s, c)
<1>2. /\ m_data \in Data /\ v \in Copies /\ d \in Data
      /\ \A j \in Key : IsObject(j, d[j])
  BY ViewObjects
<1>3. c \in Customer /\ c \in Key /\ c \notin Item
  BY NullIsNoObject, CustomersAssumption
<1>4. /\ w \in Copies /\ DOMAIN w = DOMAIN v \cup {c}
      /\ View(w) = IF d[c] = Null THEN Put(d, c, NoReservations) ELSE d
  BY <1>2, <1>3, CreatingCustomer
<1> HIDE DEF v, w, L
<1>5. \A j \in DOMAIN w : IsObject(j, w[j])
  <2>1. CASE d[c] = Null
    <3>1. IsObject(c, NoReservations)
      BY <1>3, BoundsAssumption
         DEF IsObject, Object, CustomerObject, NoReservations, Seats
    <3> QED BY <1>2, <1>3, <1>4, <2>1, <3>1, ObjectsAfterPut DEF d
  <2>2. CASE d[c] # Null
    <3>1. \A j \in DOMAIN w : j \in Key /\ w[j] = View(w)[j]
      BY <1>2, <1>4, CopiesType, ViewType
    <3> QED BY <1>2, <1>4, <2>2, <3>1
  <2> QED BY <2>1, <2>2
<1>6. Called(s, w, L)
  BY <1>1, <1>3, <1>4, <1>5, WriteLocks DEF Called, v, w, L
<1> HIDE DEF d
<1>7. Kept(d, View(w))
  BY <1>2, <1>3, <1>4, MatchNewCustomer DEF Kept
<1>8. SameTotals(d, View(w))
  <2>1. \A j \in Item : View(w)[j] = d[j]
    BY <1>2, <1>3, <1>4, NullIsNoObject DEF Put, Data
  <2> QED BY <2>1 DEF SameTotals
<1> QED BY <1>1, <1>6, <1>7, <1>8, MovingStep DEF v, d

LEMMA RemoveCustomerStep ==
    ASSUME Inv, NEW s \in Session, RemoveCustomer(s)
    PROVE  Call(s)
<1> DEFINE v == copies[s]
<1>0. PICK c \in CustomersOf[s] :
         /\ \E w \in DeleteCustomer(v, c) :
               Bounded(w) /\ Operate(s, "deleteCustomer", Write(s, c), w)
         /\ UNCHANGED delta
  BY DEF RemoveCustomer
<1>1. PICK w \in DeleteCustomer(v, c) :
         /\ Bounded(w)
         /\ Operate(s, "deleteCustomer", Write(s, c), w)
         /\ UNCHANGED delta
  BY <1>0
<1> DEFINE L == Write(s, c)
<1>2. m_data \in Data /\ v \in Copies
  BY ViewObjects
<1>3. c \in Customer /\ c \in Key
  BY NullIsNoObject, CustomersAssumption
<1>4. /\ w \in Copies /\ DOMAIN v \subseteq DOMAIN w
      /\ View(w) = View(v) \/ Removal(View(v), w, c) \/ Interrupted(View(v), w, c)
  BY <1>2, <1>3, RemovingCustomer
<1>5. SameTotals(View(v), View(w)) /\ Kept(View(v), View(w))
  BY <1>2, <1>3, <1>4, ViewType, RemovalKeeps
<1> HIDE DEF v, L
<1>6. \A j \in DOMAIN w : IsObject(j, w[j])
  BY <1>1, <1>4, BoundedObjects
<1>7. Called(s, w, L)
  BY <1>1, <1>3, <1>4, <1>6, WriteLocks DEF Called, v, L
<1> QED BY <1>1, <1>5, <1>7, MovingStep DEF v

LEMMA QueryCustomerInfoStep ==
    ASSUME Inv, NEW s \in Session, QueryCustomerInfo(s)
    PROVE  Call(s)
<1> DEFINE v == copies[s]
<1>1. PICK c \in CustomersOf[s] :
         /\ Operate(s, "queryCustomerInfo", Write(s, c), ReadData(v, c))
         /\ UNCHANGED delta
  BY DEF QueryCustomerInfo
<1> DEFINE w == ReadData(v, c)
           L == Write(s, c)
<1>2. /\ m_data \in Data /\ v \in Copies
      /\ \A j \in Key : IsObject(j, View(v)[j])
  BY ViewObjects
<1>3. c \in Key
  BY NullIsNoObject, CustomersAssumption
<1>4. w \in Copies /\ DOMAIN w = DOMAIN v \cup {c} /\ View(w) = View(v)
  BY <1>2, <1>3, ReadingOne
<1> HIDE DEF v, w, L
<1>5. \A j \in DOMAIN w : IsObject(j, w[j])
  <2>1. \A j \in DOMAIN w : j \in Key /\ w[j] = View(w)[j]
    BY <1>2, <1>4, CopiesType, ViewType
  <2> QED BY <1>2, <1>4, <2>1
<1>6. Called(s, w, L)
  BY <1>1, <1>3, <1>4, <1>5, WriteLocks DEF Called, v, w, L
<1>7. SameTotals(View(v), View(w)) /\ Kept(View(v), View(w))
  BY <1>4 DEF SameTotals, Kept
<1> QED BY <1>1, <1>6, <1>7, MovingStep DEF v

-----------------------------------------------------------------------------
(* A call preserves the invariant.                                          *)

LEMMA CallStep ==
    ASSUME Inv, NEW s \in Session, Call(s)
    PROVE  /\ Inv'
           /\ IsFiniteSet(Customer) /\ AllMatch => AllMatch'
<1>1. PICK w, L : /\ Called(s, w, L)
                  /\ Noted(s, View(copies[s]), View(w))
                  /\ Kept(View(copies[s]), View(w))
  BY DEF Call
<1>2. PICK method : Operate(s, method, L, w)
  BY <1>1 DEF Called
<1> DEFINE v == copies[s]
           Bare(k) == /\ k \notin {l.key : l \in L}
                      /\ LockFor(s, k, "WRITE") \notin held
                      /\ ~HasCopy(s, k) \/ w[k] # v[k]
<1>3. /\ m_data' = m_data /\ added' = added /\ raced' = raced
      /\ held' = held \cup L
      /\ \A l \in L : Free(l)
      /\ copies' = [copies EXCEPT ![s] = w]
      /\ bare' = [bare EXCEPT ![s] = @ \cup {k \in DOMAIN w : Bare(k)}]
  BY <1>2 DEF Operate
<1>4. /\ m_data \in Data /\ v \in Copies /\ w \in Copies
      /\ DOMAIN v \subseteq DOMAIN w /\ DOMAIN w \subseteq Key
      /\ copies \in [Session -> Copies]
      /\ bare \in [Session -> SUBSET Key]
  BY <1>1, ViewObjects, CopiesType DEF Called, Inv, Objects, TypeOK
<1>5. copies' \in [Session -> Copies] /\ copies'[s] = w
      /\ \A t \in Session \ {s} : copies'[t] = copies[t]
  <2> HIDE DEF v
  <2> QED BY <1>3, <1>4
<1>6. bare' \in [Session -> SUBSET Key]
      /\ bare'[s] = bare[s] \cup {k \in DOMAIN w : Bare(k)}
      /\ \A t \in Session \ {s} : bare'[t] = bare[t]
  <2> HIDE DEF Bare
  <2> QED BY <1>3, <1>4
<1> HIDE DEF v, Bare
<1>7. TypeOK'
  <2>1. \A k \in Key : IsObject(k, m_data[k])'
    BY <1>3 DEF Inv, TypeOK, IsObject
  <2>2. ASSUME NEW t \in Session
        PROVE  /\ DOMAIN copies'[t] \subseteq Key
               /\ \A k \in DOMAIN copies'[t] : IsObject(k, copies'[t][k])
    BY <1>1, <1>4, <1>5 DEF Inv, TypeOK, Called
  <2>3. L \subseteq [session : Session, key : Key, type : {"READ", "WRITE"}]
    BY <1>1 DEF Called, LockFor
  <2>4. held' \subseteq [session : Session, key : Key, type : {"READ", "WRITE"}]
    BY <1>3, <2>3 DEF Inv, TypeOK
  <2>5. added' \in [Item -> Seats] /\ raced' \subseteq Key
    BY <1>3 DEF Inv, TypeOK
  <2> QED BY <1>6, <2>1, <2>2, <2>4, <2>5 DEF TypeOK, IsObject
<1>8. Objects'
  BY <1>3, <1>4, <1>5 DEF Objects, Data, Copies
<1>9. Histories'
  BY <1>1 DEF Histories, Noted
<1>10. LocksExclude'
  <2> SUFFICES ASSUME NEW g \in held', NEW h \in held', g.key = h.key,
                      g.session # h.session
               PROVE  g.type = "READ" /\ h.type = "READ"
    BY DEF LocksExclude
  <2>1. CASE g \in held /\ h \in held
    BY <2>1 DEF Inv, LocksExclude
  <2>2. CASE g \in L /\ h \in held
    BY <1>3, <2>2 DEF Free
  <2>3. CASE g \in held /\ h \in L
    BY <1>3, <2>3 DEF Free
  <2>4. CASE g \in L /\ h \in L
    BY <1>1, <2>4 DEF Called
  <2> QED BY <1>3, <2>1, <2>2, <2>3, <2>4
<1>11. LockedOrBare'
  <2> SUFFICES ASSUME NEW t \in Session, NEW k \in DOMAIN copies'[t] \ raced
               PROVE  \/ k \in bare'[t]
                      \/ LockFor(t, k, "WRITE") \in held'
                      \/ LockFor(t, k, "READ") \in held' /\ copies'[t][k] = m_data[k]
    BY <1>3 DEF LockedOrBare, LockFor
  <2>1. CASE t # s
    <3>1. copies'[t] = copies[t] /\ bare'[t] = bare[t]
      BY <1>5, <1>6, <2>1
    <3> QED BY <1>3, <3>1 DEF Inv, LockedOrBare
  <2>2. CASE t = s
    <3>1. k \in DOMAIN w /\ k \in Key /\ copies'[t][k] = w[k]
      BY <1>4, <1>5, <2>2
    <3>2. CASE LockFor(s, k, "WRITE") \in held
      BY <1>3, <2>2, <3>2
    <3>3. CASE Bare(k)
      BY <1>6, <2>2, <3>1, <3>3
    <3>4. CASE k \in {l.key : l \in L}
      <4>1. PICK l \in L : l.key = k
        BY <3>4
      <4>2. CASE l = LockFor(s, k, "WRITE")
        BY <1>3, <2>2, <4>1, <4>2
      <4>3. CASE l = LockFor(s, k, "READ") /\ View(w) = View(v)
        <5>1. w[k] = View(v)[k]
          BY <1>4, <3>1, <4>3, ViewType
        <5>2. CASE k \in DOMAIN v
          <6>1. w[k] = v[k]
            BY <1>4, <5>1, <5>2, ViewType
          <6> QED BY <1>3, <1>6, <2>2, <3>1, <5>2, <6>1 DEF Inv, LockedOrBare, v
        <5>3. CASE k \notin DOMAIN v
          <6>1. w[k] = m_data[k]
            BY <1>4, <3>1, <5>1, <5>3, ViewType
          <6> QED BY <1>3, <2>2, <3>1, <4>1, <4>3, <6>1
        <5> QED BY <5>2, <5>3
      <4> QED BY <1>1, <4>1, <4>2, <4>3 DEF Called, v
    <3>5. CASE HasCopy(s, k) /\ w[k] = v[k]
      BY <1>3, <1>6, <2>2, <3>1, <3>5 DEF Inv, LockedOrBare, HasCopy, v
    <3> QED BY <3>2, <3>3, <3>4, <3>5 DEF Bare
  <2> QED BY <2>1, <2>2
<1>12. SeatsOfAll'
  <2> SUFFICES ASSUME NEW k \in Item \ raced
               PROVE  /\ Total(m_data[k]) = added[k]
                      /\ \A t \in Session :
                            Total(Over(copies'[t], m_data)[k]) = added[k] + delta'[t][k]
    BY <1>3 DEF SeatsOfAll, Total, Over
  <2>1. /\ Total(m_data[k]) = added[k]
        /\ \A t \in Session : Total(Over(copies[t], m_data)[k]) = added[k] + delta[t][k]
    BY DEF Inv, SeatsOfAll
  <2>2. ASSUME NEW t \in Session
        PROVE  Total(Over(copies'[t], m_data)[k]) = added[k] + delta'[t][k]
    <3>1. CASE t # s
      BY <1>1, <1>5, <2>1, <3>1 DEF Noted
    <3>2. CASE t = s
      <4>1. Over(copies'[t], m_data) = View(w) /\ Over(copies[s], m_data) = View(v)
        BY <1>5, <3>2 DEF View, v
      <4>2. delta'[t][k] = delta[s][k] + Total(View(w)[k]) - Total(View(v)[k])
        BY <1>1, <3>2 DEF Noted, v
      <4>3. Total(View(v)[k]) = added[k] + delta[s][k]
        BY <2>1, <4>1
      <4>4. /\ Total(View(w)[k]) \in Int
            /\ delta[s][k] \in Int /\ added[k] \in Int
        <5>1. View(w) \in Data
          BY <1>4, ViewType
        <5> QED BY <5>1, TotalType, BoundsAssumption
               DEF Inv, Histories, TypeOK, Seats
      <4> QED BY <4>1, <4>2, <4>3, <4>4
    <3> QED BY <3>1, <3>2
  <2> QED BY <2>1, <2>2
<1>13. ASSUME IsFiniteSet(Customer), AllMatch, raced' = {}
       PROVE  Matches(m_data') /\ \A t \in Session : Matches(Over(copies'[t], m_data'))
  <2>1. /\ Matches(m_data)
        /\ \A t \in Session : Matches(Over(copies[t], m_data))
    BY <1>3, <1>13 DEF AllMatch
  <2>2. Matches(View(w))
    BY <1>1, <1>13, <2>1 DEF Kept, View
  <2>3. ASSUME NEW t \in Session PROVE Matches(Over(copies'[t], m_data))
    BY <1>5, <2>1, <2>2 DEF View
  <2> QED BY <1>3, <2>1, <2>3
<1>14. IsFiniteSet(Customer) /\ AllMatch => AllMatch'
  BY <1>13 DEF AllMatch
<1> QED BY <1>7, <1>8, <1>9, <1>10, <1>11, <1>12, <1>14 DEF Inv

-----------------------------------------------------------------------------
(* The end of a transaction.                                                *)

LEMMA NothingCopied ==
    /\ NoCopies \in Copies
    /\ DOMAIN NoCopies = {}
    /\ \A d \in Data : Over(NoCopies, d) = d
<1>1. DOMAIN NoCopies = {} /\ NoCopies = [k \in DOMAIN NoCopies |-> NoCopies[k]]
  BY DEF NoCopies
<1>2. NoCopies \in Copies
  BY <1>1, CopiesType
<1>3. ASSUME NEW d \in Data PROVE Over(NoCopies, d) = d
  BY <1>1 DEF Over, Data
<1> QED BY <1>1, <1>2, <1>3

LEMMA Finished ==
    ASSUME Inv, NEW s \in Session, Finish(s)
    PROVE  /\ copies' \in [Session -> Copies]
           /\ copies'[s] = NoCopies
           /\ \A t \in Session \ {s} : copies'[t] = copies[t]
           /\ bare' \in [Session -> SUBSET Key]
           /\ bare'[s] = {}
           /\ \A t \in Session \ {s} : bare'[t] = bare[t]
           /\ Histories'
           /\ \A k \in Item : delta'[s][k] = 0
           /\ \A t \in Session \ {s} : delta'[t] = delta[t]
           /\ LocksExclude'
           /\ held' \subseteq [session : Session, key : Key, type : {"READ", "WRITE"}]
           /\ \A t \in Session \ {s} : \A k, type :
                 LockFor(t, k, type) \in held => LockFor(t, k, type) \in held'
           /\ \A t \in Session : /\ DOMAIN copies'[t] \subseteq Key
                                 /\ \A k \in DOMAIN copies'[t] :
                                       IsObject(k, copies'[t][k])
<1>1. /\ copies' = [copies EXCEPT ![s] = NoCopies]
      /\ bare' = [bare EXCEPT ![s] = {}]
      /\ delta' = [delta EXCEPT ![s] = NoSeats]
      /\ held' = {h \in held : h.session # s}
  BY DEF Finish
<1>2. /\ copies \in [Session -> Copies]
      /\ bare \in [Session -> SUBSET Key]
      /\ delta \in [Session -> [Item -> Int]]
      /\ held \subseteq [session : Session, key : Key, type : {"READ", "WRITE"}]
  BY DEF Inv, Objects, TypeOK, Histories
<1>3. /\ copies' \in [Session -> Copies]
      /\ copies'[s] = NoCopies
      /\ \A t \in Session \ {s} : copies'[t] = copies[t]
  BY <1>1, <1>2, NothingCopied
<1>4. /\ bare' \in [Session -> SUBSET Key]
      /\ bare'[s] = {}
      /\ \A t \in Session \ {s} : bare'[t] = bare[t]
  BY <1>1, <1>2
<1>5. /\ Histories'
      /\ \A k \in Item : delta'[s][k] = 0
      /\ \A t \in Session \ {s} : delta'[t] = delta[t]
  <2>1. NoSeats \in [Item -> Int] /\ \A k \in Item : NoSeats[k] = 0
    BY DEF NoSeats
  <2> QED BY <1>1, <1>2, <2>1 DEF Histories
<1>6. /\ LocksExclude'
      /\ held' \subseteq [session : Session, key : Key, type : {"READ", "WRITE"}]
      /\ \A t \in Session \ {s} : \A k, type :
            LockFor(t, k, type) \in held => LockFor(t, k, type) \in held'
  BY <1>1, <1>2 DEF Inv, LocksExclude, LockFor
<1>7. ASSUME NEW t \in Session
      PROVE  /\ DOMAIN copies'[t] \subseteq Key
             /\ \A k \in DOMAIN copies'[t] : IsObject(k, copies'[t][k])
  BY <1>3, NothingCopied DEF Inv, TypeOK
<1> QED BY <1>3, <1>4, <1>5, <1>6, <1>7

(* What s's commit changes and nobody races on, nobody else has a copy of.  *)
LEMMA CommitDisturbsNobody ==
    ASSUME Inv, NEW s \in Session, NEW t \in Session \ {s},
           NEW k \in DOMAIN copies[t], k \notin raced, k \notin Overtaken(s)
    PROVE  View(copies[s])[k] = m_data[k]
<1> SUFFICES ASSUME View(copies[s])[k] # m_data[k] PROVE FALSE
  OBVIOUS
<1>1. m_data \in Data /\ copies[s] \in Copies /\ k \in Key
  BY ViewObjects DEF Inv, TypeOK
<1>2. k \in DOMAIN copies[s] /\ copies[s][k] # m_data[k]
  BY <1>1, ViewType
<1>3. ReadData(copies[s], k)[k] # m_data[k]
  BY <1>1, ReadingOne
<1>4. k \notin bare[s] /\ k \notin bare[t]
  BY <1>1, <1>3 DEF Overtaken, HasCopy
<1>5. LockFor(s, k, "WRITE") \in held
  BY <1>2, <1>4 DEF Inv, LockedOrBare
<1>6. LockFor(t, k, "WRITE") \in held \/ LockFor(t, k, "READ") \in held
  BY <1>4 DEF Inv, LockedOrBare
<1>7. PICK h \in held : h.session = t /\ h.key = k
  BY <1>6 DEF LockFor
<1>8. PICK g \in held : g.session = s /\ g.key = k /\ g.type = "WRITE"
  BY <1>5 DEF LockFor
<1> QED BY <1>7, <1>8 DEF Inv, LocksExclude

(* If two transactions see matching data and one commits without disturbing *)
(* the other, the other sees matching data again.                           *)
LEMMA MatchMerged ==
    ASSUME IsFiniteSet(Customer), NEW m \in Data, NEW f \in Data, NEW g \in Data,
           NEW h \in Data, Matches(m), Matches(f), Matches(g),
           \A k \in Key : \/ h[k] = f[k] /\ m[k] = g[k]
                          \/ h[k] = g[k] /\ m[k] = f[k]
    PROVE  Matches(h)
<1> SUFFICES ASSUME NEW k \in Item
             PROVE  SumOver(ReservedBy(h, k), Customer) = CountOf(h[k])
  BY DEF Matches
<1>1. /\ ReservedBy(m, k) \in [Customer -> Int]
      /\ ReservedBy(f, k) \in [Customer -> Int]
      /\ ReservedBy(g, k) \in [Customer -> Int]
      /\ ReservedBy(h, k) \in [Customer -> Int]
  BY ReservedByType
<1>2. ASSUME NEW c \in Customer
      PROVE  ReservedBy(m, k)[c] + ReservedBy(h, k)[c]
             = ReservedBy(f, k)[c] + ReservedBy(g, k)[c]
  <2>1. \/ ReservedBy(h, k)[c] = ReservedBy(f, k)[c]
           /\ ReservedBy(m, k)[c] = ReservedBy(g, k)[c]
        \/ ReservedBy(h, k)[c] = ReservedBy(g, k)[c]
           /\ ReservedBy(m, k)[c] = ReservedBy(f, k)[c]
    BY NullIsNoObject DEF ReservedBy
  <2>2. /\ ReservedBy(m, k)[c] \in Int /\ ReservedBy(f, k)[c] \in Int
        /\ ReservedBy(g, k)[c] \in Int /\ ReservedBy(h, k)[c] \in Int
    BY <1>1
  <2> QED BY <2>1, <2>2
<1> DEFINE sumM == SumOver(ReservedBy(m, k), Customer)
           sumF == SumOver(ReservedBy(f, k), Customer)
           sumG == SumOver(ReservedBy(g, k), Customer)
           sumH == SumOver(ReservedBy(h, k), Customer)
<1>3. sumM + sumH = sumF + sumG
  BY <1>1, <1>2, SumLinear
<1>4. sumM = CountOf(m[k]) /\ sumF = CountOf(f[k]) /\ sumG = CountOf(g[k])
  BY DEF Matches
<1>5. sumM \in Int /\ sumF \in Int /\ sumG \in Int /\ sumH \in Int
  BY <1>1, SumType
<1>6. k \in Key
  BY NullIsNoObject
<1> HIDE DEF sumM, sumF, sumG, sumH
<1>7. CASE h[k] = f[k] /\ m[k] = g[k]
  <2>1. sumM = sumG
    BY <1>4, <1>7
  <2>2. sumH = sumF
    BY <1>3, <1>5, <2>1
  <2> QED BY <1>4, <1>7, <2>2 DEF sumH
<1>8. CASE h[k] = g[k] /\ m[k] = f[k]
  <2>1. sumM = sumF
    BY <1>4, <1>8
  <2>2. sumH = sumG
    BY <1>3, <1>5, <2>1
  <2> QED BY <1>4, <1>8, <2>2 DEF sumH
<1> QED BY <1>6, <1>7, <1>8

LEMMA CommitStep ==
    ASSUME Inv, NEW s \in Session, Commit(s)
    PROVE  /\ Inv'
           /\ IsFiniteSet(Customer) /\ AllMatch => AllMatch'
<1> DEFINE v == copies[s]
           d == View(v)
<1>1. /\ m_data \in Data /\ v \in Copies /\ d \in Data
      /\ \A k \in Key : IsObject(k, d[k])
  BY ViewObjects
<1>2. m_data' = d
  <2>1. m_data' = [k \in Key |-> ReadData(v, k)[k]]
    BY DEF Commit
  <2>2. \A k \in Key : ReadData(v, k)[k] = d[k]
    BY <1>1, ReadingOne
  <2> HIDE DEF v
  <2> QED BY <1>1, <2>1, <2>2 DEF Data
<1>3. /\ raced' = raced \cup Overtaken(s)
      /\ added' = [k \in Item |-> IF k \in raced' THEN 0 ELSE added[k] + delta[s][k]]
      /\ Finish(s)
  BY DEF Commit
<1>4. /\ copies' \in [Session -> Copies]
      /\ copies'[s] = NoCopies
      /\ \A t \in Session \ {s} : copies'[t] = copies[t]
      /\ bare' \in [Session -> SUBSET Key]
      /\ \A t \in Session \ {s} : bare'[t] = bare[t]
      /\ Histories'
      /\ \A k \in Item : delta'[s][k] = 0
      /\ \A t \in Session \ {s} : delta'[t] = delta[t]
      /\ LocksExclude'
      /\ held' \subseteq [session : Session, key : Key, type : {"READ", "WRITE"}]
      /\ \A t \in Session \ {s} : \A k, type :
            LockFor(t, k, type) \in held => LockFor(t, k, type) \in held'
      /\ \A t \in Session : /\ DOMAIN copies'[t] \subseteq Key
                            /\ \A k \in DOMAIN copies'[t] : IsObject(k, copies'[t][k])
  BY <1>3, Finished
<1>5. \A t \in Session \ {s} : \A k \in DOMAIN copies[t] \ raced' : d[k] = m_data[k]
  BY <1>3, CommitDisturbsNobody
<1>6. ASSUME NEW k \in Item \ raced
      PROVE  /\ added[k] \in Int /\ \A t \in Session : delta[t][k] \in Int
             /\ Total(m_data[k]) = added[k]
             /\ Total(d[k]) = added[k] + delta[s][k]
             /\ Total(d[k]) \in Seats
             /\ \A t \in Session :
                   Total(Over(copies[t], m_data)[k]) = added[k] + delta[t][k]
  <2>1. added[k] \in Int /\ \A t \in Session : delta[t][k] \in Int
    BY BoundsAssumption DEF Inv, TypeOK, Histories, Seats
  <2>2. Total(d[k]) \in Seats
    BY <1>1, TotalType
  <2> QED BY <2>1, <2>2 DEF Inv, SeatsOfAll, View
<1>7. \A k \in Item \ raced' : k \in Item \ raced /\ added'[k] = added[k] + delta[s][k]
  BY <1>3
<1> HIDE DEF v, d
<1>8. TypeOK'
  <2>1. \A k \in Key : IsObject(k, m_data'[k])
    BY <1>1, <1>2
  <2>2. added' \in [Item -> Seats]
    <3>1. 0 \in Seats
      BY BoundsAssumption DEF Seats
    <3>2. \A k \in Item : added'[k] \in Seats
      BY <1>3, <1>6, <1>7, <3>1
    <3> QED BY <1>3, <3>2
  <2>3. raced' \subseteq Key
    BY <1>3 DEF Inv, TypeOK, Overtaken
  <2> QED BY <1>4, <2>1, <2>2, <2>3 DEF TypeOK, IsObject
<1>9. Objects'
  BY <1>1, <1>2, <1>4 DEF Objects, Data, Copies
<1>10. LockedOrBare'
  <2> SUFFICES ASSUME NEW t \in Session, NEW k \in DOMAIN copies'[t] \ raced'
               PROVE  \/ k \in bare'[t]
                      \/ LockFor(t, k, "WRITE") \in held'
                      \/ LockFor(t, k, "READ") \in held' /\ copies'[t][k] = m_data'[k]
    BY DEF LockedOrBare, LockFor
  <2>1. t # s /\ copies'[t] = copies[t] /\ bare'[t] = bare[t]
    BY <1>4, NothingCopied
  <2>2. m_data'[k] = m_data[k]
    BY <1>2, <1>5, <2>1
  <2>3. k \notin raced
    BY <1>3
  <2>4. \/ k \in bare[t]
        \/ LockFor(t, k, "WRITE") \in held
        \/ LockFor(t, k, "READ") \in held /\ copies[t][k] = m_data[k]
    BY <2>1, <2>3 DEF Inv, LockedOrBare
  <2> QED BY <1>4, <2>1, <2>2, <2>4
<1>11. SeatsOfAll'
  <2> SUFFICES ASSUME NEW k \in Item \ raced'
               PROVE  /\ Total(d[k]) = added'[k]
                      /\ \A t \in Session :
                            Total(Over(copies'[t], d)[k]) = added'[k] + delta'[t][k]
    BY <1>2 DEF SeatsOfAll, Total, Over
  <2>1. /\ k \in Item \ raced /\ k \in Key
        /\ added'[k] = added[k] + delta[s][k]
    BY <1>7, NullIsNoObject
  <2>2. Total(d[k]) = added'[k]
    BY <1>6, <2>1
  <2>3. ASSUME NEW t \in Session
        PROVE  Total(Over(copies'[t], d)[k]) = added'[k] + delta'[t][k]
    <3>1. CASE t = s
      <4>1. Over(copies'[t], d) = d /\ delta'[t][k] = 0
        BY <1>1, <1>4, <3>1, NothingCopied
      <4>2. added'[k] \in Int
        BY <1>6, <2>1
      <4> QED BY <2>2, <4>1, <4>2
    <3>2. CASE t # s
      <4>1. copies'[t] = copies[t] /\ delta'[t][k] = delta[t][k]
        BY <1>4, <3>2
      <4>2. /\ Total(Over(copies[t], m_data)[k]) = added[k] + delta[t][k]
            /\ Total(m_data[k]) = added[k]
            /\ added[k] \in Int /\ delta[t][k] \in Int /\ delta[s][k] \in Int
        BY <1>6, <2>1
      <4>3. CASE k \in DOMAIN copies[t]
        <5>1. Over(copies[t], d)[k] = Over(copies[t], m_data)[k]
          BY <2>1, <4>3 DEF Over
        <5>2. d[k] = m_data[k]
          BY <1>5, <3>2, <4>3
        <5>3. delta[s][k] = 0
          BY <2>1, <2>2, <4>2, <5>2
        <5> QED BY <2>1, <4>1, <4>2, <5>1, <5>3
      <4>4. CASE k \notin DOMAIN copies[t]
        <5>1. Over(copies[t], d)[k] = d[k] /\ Over(copies[t], m_data)[k] = m_data[k]
          BY <2>1, <4>4 DEF Over
        <5>2. delta[t][k] = 0
          BY <4>2, <5>1
        <5> QED BY <2>1, <2>2, <4>1, <4>2, <5>1, <5>2
      <4> QED BY <4>3, <4>4
    <3> QED BY <3>1, <3>2
  <2> QED BY <2>2, <2>3
<1>12. ASSUME IsFiniteSet(Customer), AllMatch, raced' = {}
       PROVE  Matches(m_data') /\ \A t \in Session : Matches(Over(copies'[t], m_data'))
  <2>1. /\ Matches(m_data)
        /\ \A t \in Session : Matches(Over(copies[t], m_data))
    BY <1>3, <1>12 DEF AllMatch
  <2>2. Matches(d)
    BY <2>1 DEF View, d, v
  <2>3. ASSUME NEW t \in Session PROVE Matches(Over(copies'[t], d))
    <3>1. CASE t = s
      BY <1>1, <1>4, <2>2, <3>1, NothingCopied
    <3>2. CASE t # s
      <4> DEFINE f == Over(copies[t], m_data)
                 h == Over(copies[t], d)
      <4>1. copies'[t] = copies[t] /\ copies[t] \in Copies
        BY <1>4, <3>2 DEF Inv, Objects
      <4>2. f \in Data
        BY <1>1, <4>1, ViewType DEF View
      <4>3. h \in Data
        <5>1. \A k \in Key : Whole(k, h[k])
          BY <1>1, <4>1, CopiesType DEF Over, Data
        <5>2. h \in [Key -> SomeObject]
          BY <5>1, WholeObjects DEF Over
        <5> QED BY <5>1, <5>2 DEF Data
      <4>4. \A k \in Key : \/ h[k] = f[k] /\ m_data[k] = d[k]
                           \/ h[k] = d[k] /\ m_data[k] = f[k]
        BY <1>5, <1>12, <3>2 DEF Over
      <4>5. Matches(f)
        BY <2>1
      <4> HIDE DEF f, h
      <4>6. Matches(h)
        BY <1>1, <1>12, <2>1, <2>2, <4>2, <4>3, <4>4, <4>5, MatchMerged
      <4> QED BY <4>1, <4>6 DEF h
    <3> QED BY <3>1, <3>2
  <2> QED BY <1>2, <2>2, <2>3
<1>13. IsFiniteSet(Customer) /\ AllMatch => AllMatch'
  BY <1>12 DEF AllMatch
<1> QED BY <1>4, <1>8, <1>9, <1>10, <1>11, <1>13 DEF Inv

LEMMA AbortStep ==
    ASSUME Inv, NEW s \in Session, Abort(s)
    PROVE  /\ Inv'
           /\ IsFiniteSet(Customer) /\ AllMatch => AllMatch'
<1>1. Finish(s) /\ UNCHANGED <<m_data, added, raced>>
  BY DEF Abort
<1>2. /\ copies' \in [Session -> Copies]
      /\ copies'[s] = NoCopies
      /\ \A t \in Session \ {s} : copies'[t] = copies[t]
      /\ bare' \in [Session -> SUBSET Key]
      /\ \A t \in Session \ {s} : bare'[t] = bare[t]
      /\ Histories'
      /\ \A k \in Item : delta'[s][k] = 0
      /\ \A t \in Session \ {s} : delta'[t] = delta[t]
      /\ LocksExclude'
      /\ held' \subseteq [session : Session, key : Key, type : {"READ", "WRITE"}]
      /\ \A t \in Session \ {s} : \A k, type :
            LockFor(t, k, type) \in held => LockFor(t, k, type) \in held'
      /\ \A t \in Session : /\ DOMAIN copies'[t] \subseteq Key
                            /\ \A k \in DOMAIN copies'[t] : IsObject(k, copies'[t][k])
  BY <1>1, Finished
<1>3. m_data \in Data /\ Over(NoCopies, m_data) = m_data
  BY NothingCopied DEF Inv, Objects
<1>4. TypeOK'
  <2>1. \A k \in Key : IsObject(k, m_data'[k])
    BY <1>1 DEF Inv, TypeOK
  <2>2. added' \in [Item -> Seats] /\ raced' \subseteq Key
    BY <1>1 DEF Inv, TypeOK
  <2> QED BY <1>2, <2>1, <2>2 DEF TypeOK, IsObject
<1>5. Objects'
  BY <1>1, <1>2, <1>3 DEF Objects, Data, Copies
<1>6. LockedOrBare'
  <2> SUFFICES ASSUME NEW t \in Session, NEW k \in DOMAIN copies'[t] \ raced
               PROVE  \/ k \in bare'[t]
                      \/ LockFor(t, k, "WRITE") \in held'
                      \/ LockFor(t, k, "READ") \in held' /\ copies'[t][k] = m_data[k]
    BY <1>1 DEF LockedOrBare, LockFor
  <2>1. t # s /\ copies'[t] = copies[t] /\ bare'[t] = bare[t]
    BY <1>2, NothingCopied
  <2>2. \/ k \in bare[t]
        \/ LockFor(t, k, "WRITE") \in held
        \/ LockFor(t, k, "READ") \in held /\ copies[t][k] = m_data[k]
    BY <2>1 DEF Inv, LockedOrBare
  <2> QED BY <1>2, <2>1, <2>2
<1>7. SeatsOfAll'
  <2> SUFFICES ASSUME NEW k \in Item \ raced
               PROVE  /\ Total(m_data[k]) = added[k]
                      /\ \A t \in Session :
                            Total(Over(copies'[t], m_data)[k]) = added[k] + delta'[t][k]
    BY <1>1 DEF SeatsOfAll, Total, Over
  <2>1. /\ Total(m_data[k]) = added[k] /\ added[k] \in Int
        /\ \A t \in Session : Total(Over(copies[t], m_data)[k]) = added[k] + delta[t][k]
    BY BoundsAssumption DEF Inv, SeatsOfAll, TypeOK, Seats
  <2>2. ASSUME NEW t \in Session
        PROVE  Total(Over(copies'[t], m_data)[k]) = added[k] + delta'[t][k]
    <3>1. CASE t = s
      BY <1>2, <1>3, <2>1, <3>1
    <3>2. CASE t # s
      BY <1>2, <2>1, <3>2
    <3> QED BY <3>1, <3>2
  <2> QED BY <2>1, <2>2
<1>8. ASSUME AllMatch, raced' = {}
      PROVE  Matches(m_data') /\ \A t \in Session : Matches(Over(copies'[t], m_data'))
  <2>1. /\ Matches(m_data)
        /\ \A t \in Session : Matches(Over(copies[t], m_data))
    BY <1>1, <1>8 DEF AllMatch
  <2>2. ASSUME NEW t \in Session PROVE Matches(Over(copies'[t], m_data))
    <3>1. CASE t = s
      BY <1>2, <1>3, <2>1, <3>1
    <3>2. CASE t # s
      BY <1>2, <2>1, <3>2
    <3> QED BY <3>1, <3>2
  <2> QED BY <1>1, <2>1, <2>2
<1>9. AllMatch => AllMatch'
  BY <1>8 DEF AllMatch
<1> QED BY <1>2, <1>4, <1>5, <1>6, <1>7, <1>9 DEF Inv

-----------------------------------------------------------------------------
(* The theorems.                                                            *)

LEMMA InitInv ==
    ASSUME Init
    PROVE  Inv /\ (IsFiniteSet(Customer) => AllMatch)
<1>1. m_data = [k \in Key |-> Null] /\ m_data \in Data
  BY WholeObjects DEF Init, Data, SomeObject
<1>2. \A s \in Session : copies[s] = NoCopies /\ Over(copies[s], m_data) = m_data
  BY <1>1, NothingCopied DEF Init
<1>3. Objects
  BY <1>1, NothingCopied DEF Init, Objects
<1>4. 0 \in Seats
  BY BoundsAssumption DEF Seats
<1>5. TypeOK
  <2>1. \A k \in Key : IsObject(k, m_data[k])
    BY <1>1 DEF IsObject
  <2> QED BY <1>2, <1>4, <2>1, NothingCopied DEF Init, TypeOK, NoSeats
<1>6. Histories /\ LocksExclude
  BY DEF Init, Histories, LocksExclude, NoSeats
<1>7. LockedOrBare
  BY <1>2, NothingCopied DEF LockedOrBare
<1>8. SeatsOfAll
  BY <1>1, <1>2, NullIsNoObject DEF Init, SeatsOfAll, NoSeats, Total
<1>9. ASSUME IsFiniteSet(Customer) PROVE Matches(m_data)
  <2> SUFFICES ASSUME NEW k \in Item
               PROVE  SumOver(ReservedBy(m_data, k), Customer) = CountOf(m_data[k])
    BY DEF Matches
  <2>1. ReservedBy(m_data, k) \in [Customer -> Int]
    BY <1>1, ReservedByType
  <2>2. \A c \in Customer : ReservedBy(m_data, k)[c] = 0
    BY <1>1, NullIsNoObject DEF ReservedBy
  <2>3. CountOf(m_data[k]) = 0
    BY <1>1, NullIsNoObject DEF CountOf
  <2> QED BY <1>9, <2>1, <2>2, <2>3, SumOfZeros
<1> QED BY <1>2, <1>3, <1>5, <1>6, <1>7, <1>8, <1>9 DEF Inv, AllMatch

LEMMA NextInv ==
    ASSUME Inv, [Next]_vars
    PROVE  /\ Inv'
           /\ IsFiniteSet(Customer) /\ AllMatch => AllMatch'
<1>1. ASSUME NEW s \in Session,
             \/ Add(s) \/ Delete(s) \/ Query(s) \/ Reserve(s)
             \/ \E c \in CustomersOf[s], ks \in Flights : ReserveBundle(s, c, ks)
             \/ CreateCustomer(s) \/ RemoveCustomer(s) \/ QueryCustomerInfo(s)
             \/ Commit(s) \/ Abort(s)
      PROVE  Inv' /\ (IsFiniteSet(Customer) /\ AllMatch => AllMatch')
  <2>1. CASE Add(s)
    BY <2>1, AddStep, CallStep
  <2>2. CASE Delete(s)
    BY <2>2, DeleteStep, CallStep
  <2>3. CASE Query(s)
    BY <2>3, QueryStep, CallStep
  <2>4. CASE Reserve(s)
    BY <2>4, ReserveStep, CallStep
  <2>5. CASE \E c \in CustomersOf[s], ks \in Flights : ReserveBundle(s, c, ks)
    BY <2>5, BundleStep, CallStep
  <2>6. CASE CreateCustomer(s)
    BY <2>6, CreateCustomerStep, CallStep
  <2>7. CASE RemoveCustomer(s)
    BY <2>7, RemoveCustomerStep, CallStep
  <2>8. CASE QueryCustomerInfo(s)
    BY <2>8, QueryCustomerInfoStep, CallStep
  <2>9. CASE Commit(s)
    BY <2>9, CommitStep
  <2>10. CASE Abort(s)
    BY <2>10, AbortStep
  <2> QED BY <1>1, <2>1, <2>2, <2>3, <2>4, <2>5, <2>6, <2>7, <2>8, <2>9, <2>10
<1>2. CASE UNCHANGED vars
  <2>1. /\ m_data' = m_data /\ copies' = copies /\ held' = held /\ added' = added
        /\ delta' = delta /\ bare' = bare /\ raced' = raced
    BY <1>2 DEF vars, history
  <2>2. Inv'
    BY <2>1 DEF Inv, TypeOK, IsObject, Objects, Data, Copies, Histories, LocksExclude,
                LockedOrBare, LockFor, SeatsOfAll, Total, Over
  <2>3. AllMatch => AllMatch'
    BY <2>1 DEF AllMatch
  <2> QED BY <2>2, <2>3
<1> QED BY <1>1, <1>2 DEF Next

(* Whatever the clients call, in whatever order, m_data and the copies of   *)
(* the live transactions hold objects, within the bounds, or nothing.       *)
THEOREM TypeCorrect == Spec => []TypeOK
<1>1. Init => Inv
  BY InitInv
<1>2. Inv /\ [Next]_vars => Inv'
  BY NextInv
<1>3. Inv => TypeOK
  BY DEF Inv
<1> QED BY <1>1, <1>2, <1>3, PTL DEF Spec

(* No item ever has more or fewer seats, free and reserved, than committed  *)
(* calls of addFlight and its like have given it and deleteFlight and its   *)
(* like have taken, unless deleteCustomer has raced on it: locks on items,  *)
(* which reservations and their likes take, are enough for that.            *)
THEOREM SeatsNeverLost == Spec => []SeatsAddUp
<1>1. Init => Inv
  BY InitInv
<1>2. Inv /\ [Next]_vars => Inv'
  BY NextInv
<1>3. ASSUME Inv PROVE SeatsAddUp
  BY <1>3 DEF Inv, SeatsOfAll, SeatsAddUp, Total
<1> QED BY <1>1, <1>2, <1>3, PTL DEF Spec

(* With finitely many customers, what an item counts as reserved is at all  *)
(* times what the customers have reserved of it, as long as no commit has   *)
(* overtaken a transaction that works without a lock.                       *)
THEOREM ReservationsAgree ==
    ASSUME IsFiniteSet(Customer)
    PROVE  Spec => []ReservationsMatchUnlessRaced
<1> DEFINE Both == Inv /\ AllMatch
<1>1. Init => Both
  BY InitInv
<1>2. Both /\ [Next]_vars => Both'
  BY NextInv
<1>3. ASSUME Both PROVE ReservationsMatchUnlessRaced
  BY <1>3, ReservationsMatchIsMatches
     DEF Inv, Objects, AllMatch, ReservationsMatchUnlessRaced
<1> HIDE DEF Both
<1> QED BY <1>1, <1>2, <1>3, PTL DEF Spec

-----------------------------------------------------------------------------
(* Bundles.  When i flights of the bundle ks are reserved, all different,   *)
(* customer c has one more seat of each, and the items to come are as they  *)
(* were when bundle asked for their seats.                                  *)

(* How often the first i flights of ks, all different, name k.             *)
Named(ks, i, k) == IF \E h \in 1 .. i : ks[h] = k THEN 1 ELSE 0

ReservedSoFar(d, e, c, ks, i) ==
    /\ e \in Data
    /\ e[c] # Null
    /\ \A k \in Item : e[c][k] = d[c][k] + Named(ks, i, k)
    /\ \A h \in DOMAIN ks : h > i => e[ks[h]] = d[ks[h]]

LEMMA ReservedOneMore ==
    ASSUME NEW n \in Nat, NEW ks \in [1 .. n -> Item], IsInjective(ks),
           NEW i \in 0 .. n - 1, NEW c \in Customer, NEW d \in Data, d[c] # Null,
           NEW e, ReservedSoFar(d, e, c, ks, i),
           NEW f \in Data, Booking(e, f, c, ks[i + 1])
    PROVE  ReservedSoFar(d, f, c, ks, i + 1)
<1> DEFINE k == ks[i + 1]
<1>1. i + 1 \in 1 .. n /\ k \in Item /\ c # k
  BY NullIsNoObject
<1>2. d[c] \in SomeCustomer /\ e[c] \in SomeCustomer
  BY NullIsNoObject, WholeObjects DEF Data, ReservedSoFar
<1>3. f[c] = [e[c] EXCEPT ![k] = e[c][k] + 1]
  BY DEF Booking
<1> HIDE DEF k
<1>4. f[c] # Null /\ \A j \in Item : f[c][j] = e[c][j] + IF j = k THEN 1 ELSE 0
  <2>1. f[c] \in SomeCustomer
    BY <1>1, <1>2, <1>3 DEF SomeCustomer
  <2>2. \A j \in Item : e[c][j] \in Nat
    BY <1>2 DEF SomeCustomer
  <2>3. \A j \in Item : f[c][j] = IF j = k THEN e[c][j] + 1 ELSE e[c][j]
    BY <1>1, <1>2, <1>3 DEF SomeCustomer
  <2> QED BY <2>1, <2>2, <2>3, NullIsNoObject
<1>5. \A h \in DOMAIN ks : ks[h] = k => h = i + 1
  BY <1>1 DEF IsInjective, k
<1>6. ASSUME NEW j \in Item
      PROVE  f[c][j] = d[c][j] + Named(ks, i + 1, j)
  <2>1. e[c][j] = d[c][j] + Named(ks, i, j) /\ d[c][j] \in Nat
    BY <1>2 DEF ReservedSoFar, SomeCustomer
  <2>2. CASE j = k
    <3>1. ~ \E h \in 1 .. i : ks[h] = j
      BY <1>5, <2>2
    <3>2. \E h \in 1 .. i + 1 : ks[h] = j
      BY <1>1, <2>2 DEF k
    <3> QED BY <1>4, <2>1, <2>2, <3>1, <3>2 DEF Named
  <2>3. CASE j # k
    <3>1. (\E h \in 1 .. i + 1 : ks[h] = j) <=> \E h \in 1 .. i : ks[h] = j
      <4>1. \A h \in 1 .. i + 1 : h \in 1 .. i \/ h = i + 1
        OBVIOUS
      <4>2. 1 .. i \subseteq 1 .. i + 1
        OBVIOUS
      <4> QED BY <2>3, <4>1, <4>2 DEF k
    <3> QED BY <1>4, <2>1, <2>3, <3>1 DEF Named
  <2> QED BY <2>2, <2>3
<1>7. ASSUME NEW h \in DOMAIN ks, h > i + 1 PROVE f[ks[h]] = d[ks[h]]
  <2>1. e[ks[h]] = d[ks[h]]
    BY <1>7 DEF ReservedSoFar
  <2>2. ks[h] \in Item /\ ks[h] # k
    BY <1>5, <1>7
  <2>3. ks[h] \in Key \ {c, k}
    BY <2>2, NullIsNoObject
  <2> QED BY <2>1, <2>3 DEF Booking, k
<1> QED BY <1>4, <1>6, <1>7 DEF ReservedSoFar

LEMMA BookedInView ==
    ASSUME m_data \in Data, NEW v \in Copies, NEW c \in Customer
    PROVE  \A k : Booked(v, c, k) = IF View(v)[c] = Null THEN 0 ELSE View(v)[c][k]
BY NullIsNoObject, ReadingOne DEF Booked

LEMMA TimesNamed ==
    ASSUME NEW n \in Nat, NEW ks \in [1 .. n -> Item], IsInjective(ks), NEW k
    PROVE  Cardinality({i \in DOMAIN ks : ks[i] = k}) = Named(ks, n, k)
<1>1. {i \in DOMAIN ks : ks[i] = k} = {i \in 1 .. n : ks[i] = k}
  OBVIOUS
<1>2. CASE \E h \in 1 .. n : ks[h] = k
  <2>1. PICK h \in 1 .. n : ks[h] = k
    BY <1>2
  <2>2. {i \in 1 .. n : ks[i] = k} = {h}
    BY <2>1 DEF IsInjective
  <2> QED BY <1>1, <1>2, <2>2, FS_Singleton DEF Named
<1>3. CASE ~ \E h \in 1 .. n : ks[h] = k
  <2>1. {i \in 1 .. n : ks[i] = k} = {}
    BY <1>3
  <2> QED BY <1>1, <1>3, <2>1, FS_EmptySet DEF Named
<1> QED BY <1>2, <1>3

LEMMA BundleIsAtomic ==
    ASSUME m_data \in Data, NEW v \in Copies, NEW c \in Customer,
           NEW n \in Nat, NEW ks \in [1 .. n -> Item], IsInjective(ks)
    PROVE  AllOrNone(v, Bundle(v, c, ks), c, ks)
<1> DEFINE r == ReadAll(v, BundleLocks(v, ks))
           w == Bundle(v, c, ks)
           d == View(v)
<1>1. r \in Copies /\ View(r) = d
  <2>1. BundleLocks(v, ks) \in SUBSET Key
    BY DEF BundleLocks, Key
  <2> QED BY <2>1, Reading
<1>2. w \in Copies
  BY BundleKeeps
<1>3. d \in Data
  BY ViewType
<1>4. ASSUME View(w) = d
      PROVE  AllOrNone(v, w, c, ks)
  <2>1. ASSUME NEW k \in Item PROVE Booked(w, c, k) - Booked(v, c, k) = 0
    <3>1. Booked(w, c, k) = Booked(v, c, k)
      BY <1>2, <1>4, BookedInView
    <3>2. Booked(v, c, k) \in Int
      <4>1. Booked(v, c, k) = IF d[c] = Null THEN 0 ELSE d[c][k]
        BY BookedInView
      <4>2. d[c] = Null \/ d[c] \in SomeCustomer
        BY <1>3, NullIsNoObject, WholeObjects DEF Data
      <4> QED BY <4>1, <4>2 DEF SomeCustomer
    <3> QED BY <3>1, <3>2
  <2> QED BY <2>1 DEF AllOrNone
<1>5. CASE ~AllAvailable(v, ks)
  <2>1. w = r
    BY <1>5, BundleIsFold
  <2> QED BY <1>1, <1>4, <2>1
<1>6. CASE AllAvailable(v, ks)
  <2>1. PICK run \in [0 .. n -> Copies] : IsRun(run, v, c, ks) /\ w = run[n]
    BY <1>6, BundleIsRun
  <2> HIDE DEF r, w, d
  <2>2. run[0] = r
    BY <2>1 DEF IsRun, r
  <2>3. ASSUME NEW i \in Nat, i + 1 \in 0 .. n
        PROVE  /\ i \in 0 .. n - 1 /\ i \in 0 .. n /\ i + 1 \in 1 .. n
               /\ run[i] \in Copies /\ ks[i + 1] \in Item
               /\ run[i + 1] = ReserveItem(run[i], c, ks[i + 1])
    <3>1. i \in 0 .. n - 1 /\ i \in 0 .. n /\ i + 1 \in 1 .. n /\ (i + 1) - 1 = i
      BY <2>3
    <3>2. run[i + 1] = ReserveItem(run[(i + 1) - 1], c, ks[i + 1])
      BY <2>1, <3>1 DEF IsRun
    <3> QED BY <3>1, <3>2
  <2>4. CASE d[c] = Null
    <3> DEFINE Good == {i \in Nat : i \in 0 .. n => View(run[i]) = d}
    <3>1. 0 \in Good
      BY <1>1, <2>2
    <3>2. ASSUME NEW i \in Nat, i \in Good PROVE i + 1 \in Good
      <4> SUFFICES ASSUME i + 1 \in 0 .. n PROVE View(run[i + 1]) = d
        OBVIOUS
      <4>1. View(run[i]) = d
        BY <2>3, <3>2
      <4> QED BY <2>3, <2>4, <4>1, Reserving
    <3>3. n \in Good
      <4> HIDE DEF Good
      <4> QED BY <3>1, <3>2, NatSetInduction
    <3>4. View(w) = d
      BY <2>1, <3>3
    <3> QED BY <1>4, <3>4 DEF w
  <2>5. CASE d[c] # Null
    <3>1. \A h \in DOMAIN ks : /\ ks[h] \in Key /\ d[ks[h]] # Null
                               /\ d[ks[h]].count > 0
      <4>1. \A h \in DOMAIN ks : ReadData(v, ks[h])[ks[h]] = d[ks[h]]
        BY NullIsNoObject, ReadingOne DEF d
      <4> QED BY <1>6, <4>1, NullIsNoObject DEF AllAvailable, Available
    <3> DEFINE Good == {i \in Nat : i \in 0 .. n =>
                                       ReservedSoFar(d, View(run[i]), c, ks, i)}
    <3>2. 0 \in Good
      <4>1. \A k \in Item : d[c][k] \in Nat
        BY <1>3, <2>5, NullIsNoObject, WholeObjects DEF Data, SomeCustomer
      <4>2. \A k \in Item : d[c][k] = d[c][k] + Named(ks, 0, k)
        BY <4>1 DEF Named
      <4>3. ReservedSoFar(d, d, c, ks, 0)
        BY <1>3, <2>5, <4>2 DEF ReservedSoFar
      <4> QED BY <1>1, <2>2, <4>3
    <3>3. ASSUME NEW i \in Nat, i \in Good PROVE i + 1 \in Good
      <4> SUFFICES ASSUME i + 1 \in 0 .. n
                   PROVE  ReservedSoFar(d, View(run[i + 1]), c, ks, i + 1)
        OBVIOUS
      <4> DEFINE e == View(run[i])
                 f == View(run[i + 1])
                 k == ks[i + 1]
      <4>1. ReservedSoFar(d, e, c, ks, i)
        BY <2>3, <3>3
      <4>2. e[c] # Null /\ e[k] # Null /\ e[k].count > 0
        <5>1. e[c] # Null
          BY <4>1 DEF ReservedSoFar
        <5>2. i + 1 \in DOMAIN ks /\ i + 1 > i
          BY <2>3
        <5>3. e[k] = d[k]
          BY <4>1, <5>2 DEF ReservedSoFar
        <5> QED BY <3>1, <5>1, <5>2, <5>3
      <4>3. Booking(e, f, c, k)
        BY <2>3, <4>2, Reserving
      <4>4. f \in Data
        BY <2>1, ViewType
      <4> HIDE DEF e, f
      <4>5. ReservedSoFar(d, f, c, ks, i + 1)
        BY <1>3, <2>3, <2>5, <4>1, <4>3, <4>4, ReservedOneMore
      <4> QED BY <4>5 DEF f
    <3>4. ReservedSoFar(d, View(w), c, ks, n)
      <4>1. n \in Good
        <5> HIDE DEF Good
        <5> QED BY <3>2, <3>3, NatSetInduction
      <4> QED BY <2>1, <4>1
    <3>5. ASSUME NEW k \in Item
          PROVE  Booked(w, c, k) - Booked(v, c, k)
                 = Quantify(DOMAIN ks, LAMBDA i : ks[i] = k)
      <4>1. Booked(w, c, k) = View(w)[c][k] /\ Booked(v, c, k) = d[c][k]
        BY <1>2, <2>5, <3>4, BookedInView DEF ReservedSoFar, d
      <4>2. d[c][k] \in Nat
        BY <1>3, <2>5, NullIsNoObject, WholeObjects DEF Data, SomeCustomer
      <4>3. View(w)[c][k] = d[c][k] + Named(ks, n, k)
        BY <3>4 DEF ReservedSoFar
      <4>4. Named(ks, n, k) \in Int
        BY DEF Named
      <4>5. Booked(w, c, k) - Booked(v, c, k) = Named(ks, n, k)
        BY <4>1, <4>2, <4>3, <4>4
      <4>6. Cardinality({i \in DOMAIN ks : ks[i] = k}) = Named(ks, n, k)
        BY TimesNamed
      <4> QED BY <4>5, <4>6 DEF Quantify
    <3> QED BY <3>5 DEF AllOrNone, w
  <2> QED BY <2>4, <2>5
<1> QED BY <1>5, <1>6

(* Whatever a transaction has done before, a bundle of any number of        *)
(* different flights reserves each of them once for the customer, or none.  *)
THEOREM BundlesAreAtomic == Spec => []BundleOfDifferentIsAtomic
<1>1. Init => Inv
  BY InitInv
<1>2. Inv /\ [Next]_vars => Inv'
  BY NextInv
<1>3. ASSUME Inv PROVE BundleOfDifferentIsAtomic
  <2> SUFFICES ASSUME NEW s \in Session, NEW ks \in Flights, IsInjective(ks),
                      NEW c \in CustomersOf[s]
               PROVE  AllOrNone(copies[s], Bundle(copies[s], c, ks), c, ks)
    BY DEF BundleOfDifferentIsAtomic
  <2>1. PICK n \in Nat : ks \in [1 .. n -> Item]
    BY DEF Flights
  <2>2. m_data \in Data /\ copies[s] \in Copies /\ c \in Customer
    BY <1>3, ViewObjects, CustomersAssumption
  <2> QED BY <2>1, <2>2, BundleIsAtomic
<1> QED BY <1>1, <1>2, <1>3, PTL DEF Spec
==============================================================================
