--------------------------- MODULE TemplateProofs ---------------------------
(* Theorems about Template for any items, customers and bounds, and for     *)
(* bundles of any length.  The calls are those that Middleware.java has.    *)
EXTENDS Template, SequenceTheorems, FoldTheorems, FiniteSetTheorems, TLAPS

(* The methods of Template/Middleware.java.  A bundle of nothing asks no    *)
(* server for anything.                                                     *)
CallsOfMiddleware ==
    Methods \subseteq
        {Add(k) : k \in Item} \cup {Delete(k) : k \in Item}
        \cup {NewCustomer(c) : c \in Customer}
        \cup {NewCustomerId(c) : c \in Customer}
        \cup {DeleteCustomer(c) : c \in Customer}
        \cup UNION {{Bundle(c, ks) : ks \in Seq(Item) \ {<<>>}} : c \in Customer}

-----------------------------------------------------------------------------
(* Commands and the calls made of them.                                     *)

OnItems == {"add", "delete"}
OnCustomers == {"newCustomer", "makeUpCustomer", "deleteCustomer"}

ItemCommands == [name : OnItems, server : Server, customer : {Null},
                 item : Item, must : BOOLEAN]
CustomerCommands == [name : OnCustomers, server : Server, customer : Customer,
                     item : {Null}, must : BOOLEAN]
Reservations == [name : {"reserve"}, server : Server, customer : Customer,
                 item : Item, must : BOOLEAN]
Commands == ItemCommands \cup CustomerCommands \cup Reservations

(* Only the first command of a call adds seats.                             *)
AddsFirst(cs) == \A i \in DOMAIN cs : cs[i].name = "add" => i = 1

CallSequences == {cs \in Seq(Commands) : AddsFirst(cs)}

LEMMA MethodType ==
    ASSUME CallsOfMiddleware, NEW m \in Methods
    PROVE  m \in CallSequences /\ m # <<>>
<1> USE ServerAssumption DEF Command, Commands, OnItems, OnCustomers, Server
<1>1. ASSUME NEW k \in Item, m = Add(k) \/ m = Delete(k)
      PROVE  m \in CallSequences /\ m # <<>>
  <2>1. PICK n \in OnItems : m = <<Command(n, ServerOf[k], Null, k, FALSE)>>
    BY <1>1 DEF Add, Delete, OnItem
  <2>2. Command(n, ServerOf[k], Null, k, FALSE) \in Commands
    BY DEF ItemCommands
  <2> QED BY <2>1, <2>2 DEF CallSequences, AddsFirst
<1>2. ASSUME NEW c \in Customer,
             m = NewCustomer(c) \/ m = DeleteCustomer(c) \/ m = NewCustomerId(c)
      PROVE  m \in CallSequences /\ m # <<>>
  <2>1. PICK a \in CustomerCommands, b \in CustomerCommands,
             d \in CustomerCommands : m = <<a, b, d>>
    BY <1>2 DEF NewCustomer, DeleteCustomer, NewCustomerId, ToAll,
                CustomerCommands
  <2>2. \A x \in CustomerCommands : x.name # "add"
    BY DEF CustomerCommands
  <2>3. m \in Seq(Commands) /\ DOMAIN m = 1 .. 3 /\ m # <<>>
    BY <2>1
  <2>4. m[1] = a /\ m[2] = b /\ m[3] = d
    BY <2>1
  <2>5. \A i \in DOMAIN m : m[i].name # "add"
    BY <2>2, <2>3, <2>4
  <2> QED BY <2>3, <2>5 DEF CallSequences, AddsFirst
<1>3. ASSUME NEW c \in Customer, NEW ks \in Seq(Item) \ {<<>>}, m = Bundle(c, ks)
      PROVE  m \in CallSequences /\ m # <<>>
  <2>1. /\ Len(ks) \in Nat \ {0}
        /\ DOMAIN ks = 1 .. Len(ks)
        /\ \A i \in 1 .. Len(ks) : ks[i] \in Item
    BY EmptySeq, LenProperties, ElementOfSeq
  <2>2. \A i \in 1 .. Len(ks) :
           Command("reserve", ServerOf[ks[i]], c, ks[i], FALSE) \in Reservations
    BY <2>1 DEF Reservations
  <2>3. /\ m \in [1 .. Len(ks) -> Reservations]
        /\ DOMAIN m = 1 .. Len(ks)
    BY <1>3, <2>1, <2>2 DEF Bundle
  <2>4. m \in Seq(Commands)
    <3>1. m \in [1 .. Len(ks) -> Commands]
      BY <2>3
    <3> QED BY <2>1, <3>1, SeqDef
  <2>5. \A i \in DOMAIN m : m[i].name # "add"
    BY <2>3 DEF Reservations
  <2>6. m # <<>>
    BY <2>1, <2>3, 1 \in DOMAIN m
  <2> QED BY <2>4, <2>5, <2>6 DEF CallSequences, AddsFirst
<1> QED BY <1>1, <1>2, <1>3 DEF CallsOfMiddleware

LEMMA HeadAndTail ==
    ASSUME NEW cs \in CallSequences, cs # <<>>
    PROVE  /\ Head(cs) \in Commands
           /\ Tail(cs) \in CallSequences
           /\ Tail(cs) # <<>> => Head(Tail(cs)).name # "add"
<1>1. cs \in Seq(Commands)
  BY DEF CallSequences
<1>2. /\ Head(cs) \in Commands
      /\ Tail(cs) \in Seq(Commands)
      /\ Len(Tail(cs)) = Len(cs) - 1
      /\ \A i \in 1 .. Len(Tail(cs)) : Tail(cs)[i] = cs[i + 1]
  BY <1>1, HeadTailProperties
<1>3. /\ Len(cs) \in Nat /\ DOMAIN cs = 1 .. Len(cs)
      /\ DOMAIN Tail(cs) = 1 .. Len(Tail(cs))
  BY <1>1, <1>2, LenProperties
<1>4. \A i \in DOMAIN Tail(cs) : Tail(cs)[i].name # "add"
  <2> SUFFICES ASSUME NEW i \in DOMAIN Tail(cs) PROVE Tail(cs)[i].name # "add"
    OBVIOUS
  <2>1. i + 1 \in DOMAIN cs /\ i + 1 # 1
    BY <1>2, <1>3
  <2>2. cs[i + 1].name # "add"
    BY <2>1 DEF CallSequences, AddsFirst
  <2> QED BY <1>2, <1>3, <2>2
<1>5. ASSUME Tail(cs) # <<>> PROVE Head(Tail(cs)).name # "add"
  <2>1. 1 \in DOMAIN Tail(cs)
    BY <1>2, <1>3, <1>5, EmptySeq
  <2>2. Head(Tail(cs)) = Tail(cs)[1]
    BY <1>2, <1>5
  <2> QED BY <1>4, <2>1, <2>2
<1> QED BY <1>2, <1>4, <1>5 DEF CallSequences, AddsFirst

-----------------------------------------------------------------------------
(* What a thread has at the place where it is.                              *)

NeedsCustomer(t) ==
    /\ pc[t] \in {"readItem", "writeCustomer", "writeItem"}
    /\ command(t).name \in {"reserve", "deleteCustomer"}

NeedsSeat(t) ==
    /\ pc[t] \in {"writeCustomer", "writeItem"}
    /\ command(t).name = "reserve"

NeedsItem(t) ==
    NeedsSeat(t) \/ (pc[t] = "writeItem" /\ command(t).name = "deleteCustomer")

NeedsKey(t) == \/ item[t] # Null
               \/ pc[t] = "writeItem"
               \/ pc[t] = "remove" /\ command(t).name = "delete"

Adds(t) == pc[t] = "writeItem" /\ command(t).name = "add"

Place(t) == /\ (pc[t] = "idle") = (todo[t] = <<>>)
            /\ NeedsCustomer(t) => customer[t] # Null
            /\ NeedsItem(t) => item[t] # Null
            /\ NeedsSeat(t) => item[t].count > 0
            /\ NeedsKey(t) => key[t] \in Item
            /\ Adds(t) => key[t] = command(t).item

Locals == /\ todo \in [Client -> CallSequences]
          /\ pc \in [Client -> Label]
          /\ customer \in [Client -> CustomerObject \cup {Null}]
          /\ item \in [Client -> ItemObject \cup {Null}]
          /\ key \in [Client -> Item \cup {Null}]
          /\ left \in [Client -> SUBSET Item]
          /\ \A t \in Client : Place(t)

Object == ItemObject \cup CustomerObject \cup {Null}

Memory == /\ m_data \in [Server -> [Key -> Object]]
          /\ \A s \in Server :
                /\ \A k \in Item : m_data[s][k] \in ItemObject \cup {Null}
                /\ \A c \in Customer : m_data[s][c] \in CustomerObject \cup {Null}

Histories == /\ added \in [Item -> Nat]
             /\ raced \subseteq Server \X Key
             /\ split \subseteq Customer

Types == Memory /\ Locals /\ Histories

(* Adding(k): who has yet to add the seat of k he was asked for.  No object *)
(* of k, stored or cloned, has more seats than have been asked for without  *)
(* these.  SeatsBounded alone is not inductive: a clone is written back.    *)
Adding(k) == {t \in Client : /\ todo[t] # <<>>
                             /\ command(t).name = "add"
                             /\ command(t).item = k}

Room(k) == added[k] - Cardinality(Adding(k))

Total(obj) == IF obj = Null THEN 0 ELSE obj.count + obj.reserved

SeatsFit == \A k \in Item :
               /\ Room(k) >= 0
               /\ \A s \in Server : Total(m_data[s][k]) <= Room(k)
               /\ \A t \in Client : key[t] = k => Total(item[t]) <= Room(k)

Inv == Types /\ SeatsFit

-----------------------------------------------------------------------------
(* The types.                                                               *)

(* A step of t leaves the place of the others alone.                        *)
LEMMA LocalsStep ==
    ASSUME Locals, NEW t \in Client,
           todo' \in [Client -> CallSequences],
           pc' \in [Client -> Label],
           customer' \in [Client -> CustomerObject \cup {Null}],
           item' \in [Client -> ItemObject \cup {Null}],
           key' \in [Client -> Item \cup {Null}],
           left' \in [Client -> SUBSET Item],
           \A u \in Client \ {t} :
              /\ todo'[u] = todo[u] /\ pc'[u] = pc[u]
              /\ customer'[u] = customer[u]
              /\ item'[u] = item[u] /\ key'[u] = key[u],
           Place(t)'
    PROVE  Locals'
<1>1. ASSUME NEW u \in Client \ {t} PROVE Place(u)'
  <2>1. Place(u)
    BY DEF Locals
  <2> QED BY <2>1 DEF Place, NeedsCustomer, NeedsSeat, NeedsItem, NeedsKey, Adds,
                      command
<1> QED BY <1>1 DEF Locals

LEMMA AnswerLocals ==
    ASSUME Locals, NEW t \in Client, todo[t] # <<>>, NEW b \in BOOLEAN,
           Answer(t, b)
    PROVE  Locals'
<1> DEFINE rest == IF command(t).must /\ ~b THEN <<>> ELSE Tail(todo[t])
<1>1. rest \in CallSequences
  BY HeadAndTail DEF Locals, CallSequences, AddsFirst
<1>2. /\ todo' = [todo EXCEPT ![t] = rest]
      /\ pc' = [pc EXCEPT ![t] = IF rest = <<>> THEN "idle" ELSE "begin"]
      /\ customer' = [customer EXCEPT ![t] = Null]
      /\ item' = [item EXCEPT ![t] = Null]
      /\ key' = [key EXCEPT ![t] = Null]
      /\ left' = [left EXCEPT ![t] = {}]
  BY DEF Answer, Goto
<1> HIDE DEF rest
<1>3. Place(t)'
  BY <1>2 DEF Locals, Label, Place, NeedsCustomer, NeedsSeat, NeedsItem, NeedsKey, Adds
<1> QED BY <1>1, <1>2, <1>3, LocalsStep DEF Locals, Label

LEMMA ThrowLocals ==
    ASSUME Locals, NEW t \in Client, Throw(t) PROVE Locals'
<1>1. <<>> \in CallSequences
  BY DEF CallSequences, AddsFirst
<1>2. Place(t)'
  BY DEF Throw, Goto, Locals, Label, Place, NeedsCustomer, NeedsSeat, NeedsItem,
         NeedsKey, Adds
<1> QED BY <1>1, <1>2, LocalsStep DEF Throw, Goto, Locals, Label

LEMMA InvokeLocals ==
    ASSUME CallsOfMiddleware, Locals, NEW t \in Client, Invoke(t)
    PROVE  Locals'
<1>1. PICK m \in Methods : todo' = [todo EXCEPT ![t] = m]
  BY DEF Invoke
<1>2. m \in CallSequences /\ m # <<>>
  BY MethodType
<1>3. Place(t) /\ pc[t] = "idle" /\ pc' = [pc EXCEPT ![t] = "begin"]
      /\ UNCHANGED <<customer, item, key, left>>
  BY DEF Invoke, Goto, Locals, locals
<1>4. Place(t)'
  BY <1>1, <1>2, <1>3
     DEF Locals, Label, Place, NeedsCustomer, NeedsSeat, NeedsItem, NeedsKey, Adds
<1> QED BY <1>1, <1>2, <1>3, <1>4, LocalsStep DEF Locals, Label

LEMMA BeginItemLocals ==
    ASSUME Memory, Locals, NEW t \in Client, BeginItem(t) PROVE Locals'
<1>1. todo[t] # <<>> /\ command(t).name \in {"add", "delete"}
  BY DEF BeginItem, Runs
<1>2. CASE Answer(t, FALSE)
  BY <1>1, <1>2, AnswerLocals
<1>3. CASE ~Answer(t, FALSE)
  <2>1. command(t) \in ItemCommands
    BY <1>1, HeadAndTail DEF Locals, command, Commands, CustomerCommands,
                             Reservations, OnCustomers
  <2> DEFINE k == command(t).item
             obj == m_data[server(t)][k]
  <2>2. k \in Item /\ obj \in ItemObject \cup {Null}
    BY <2>1 DEF ItemCommands, Memory, server
  <2>3. /\ item' = [item EXCEPT ![t] = obj]
        /\ key' = [key EXCEPT ![t] = k]
        /\ pc' = [pc EXCEPT ![t] = IF command(t).name = "add"
                                   THEN "writeItem" ELSE "remove"]
        /\ UNCHANGED <<todo, customer, left>>
    BY <1>3 DEF BeginItem, Goto
  <2>4. k = command(t).item
    OBVIOUS
  <2> HIDE DEF k, obj
  <2>5. Place(t)'
    BY <1>1, <2>2, <2>3, <2>4
       DEF Locals, Label, Place, NeedsCustomer, NeedsSeat, NeedsItem, NeedsKey, Adds,
           command
  <2> QED BY <2>2, <2>3, <2>5, LocalsStep DEF Locals, Label
<1> QED BY <1>2, <1>3

LEMMA BeginCustomerLocals ==
    ASSUME Memory, Locals, NEW t \in Client, BeginCustomer(t) PROVE Locals'
<1>1. /\ todo[t] # <<>> /\ pc[t] = "begin"
      /\ command(t).name \in {"reserve", "newCustomer", "deleteCustomer"}
  BY DEF BeginCustomer, Runs
<1>2. CASE Answer(t, FALSE)
  BY <1>1, <1>2, AnswerLocals
<1>3. CASE ~Answer(t, FALSE)
  <2>1. command(t) \in CustomerCommands \cup Reservations
    BY <1>1, HeadAndTail DEF Locals, command, Commands, ItemCommands, OnItems
  <2> DEFINE name == command(t).name
             obj == m_data[server(t)][command(t).customer]
             given == IF name = "deleteCustomer" THEN {k \in Item : obj[k] > 0}
                      ELSE {}
  <2>2. obj \in CustomerObject \cup {Null}
    BY <2>1 DEF CustomerCommands, Reservations, Memory, server
  <2>3. /\ (obj = Null) = (name = "newCustomer")
        /\ customer' = [customer EXCEPT ![t] = obj]
        /\ left' = [left EXCEPT ![t] = given]
        /\ UNCHANGED <<todo, item, key>>
    BY <1>3 DEF BeginCustomer
  <2>4. PICK l \in {"readItem", "writeCustomer", "remove"} :
           /\ pc' = [pc EXCEPT ![t] = l]
           /\ l = "writeCustomer" => name = "newCustomer"
           /\ l = "remove" => name = "deleteCustomer"
    <3>1. CASE name = "reserve"
      BY <1>3, <3>1 DEF BeginCustomer, Goto
    <3>2. CASE name = "newCustomer"
      BY <1>3, <3>2 DEF BeginCustomer, Goto
    <3>3. CASE name = "deleteCustomer"
      BY <1>3, <3>3 DEF BeginCustomer, Goto
    <3> QED BY <1>1, <3>1, <3>2, <3>3
  <2>5. given \subseteq Item
    OBVIOUS
  <2>6. name = command(t).name
    OBVIOUS
  <2> HIDE DEF name, obj, given
  <2>7. Place(t)
    BY DEF Locals
  <2>8. Place(t)'
    BY <1>1, <2>2, <2>3, <2>4, <2>6, <2>7
       DEF Locals, Label, Place, NeedsCustomer, NeedsSeat, NeedsItem, NeedsKey, Adds,
           command
  <2> QED BY <2>2, <2>3, <2>4, <2>5, <2>8, LocalsStep DEF Locals, Label
<1> QED BY <1>2, <1>3

LEMMA WriteCustomerLocals ==
    ASSUME Locals, NEW t \in Client, WriteCustomer(t) PROVE Locals'
<1>1. pc[t] = "writeCustomer" /\ Place(t) /\ todo[t] # <<>>
  BY DEF WriteCustomer, Locals, Place
<1>2. CASE Answer(t, TRUE)
  BY <1>1, <1>2, AnswerLocals
<1>3. CASE ~Answer(t, TRUE)
  <2>1. /\ command(t).name = "reserve"
        /\ pc' = [pc EXCEPT ![t] = "writeItem"]
        /\ UNCHANGED <<todo, customer, item, key, left>>
    BY <1>3 DEF WriteCustomer, Goto, locals
  <2>2. Place(t)'
    BY <1>1, <2>1
       DEF Locals, Label, Place, NeedsCustomer, NeedsSeat, NeedsItem, NeedsKey, Adds,
           command
  <2> QED BY <2>1, <2>2, LocalsStep DEF Locals, Label
<1> QED BY <1>2, <1>3

LEMMA ReadReservedLocals ==
    ASSUME Memory, Locals, NEW t \in Client, ReadReserved(t) PROVE Locals'
<1>1. /\ pc[t] = "readItem" /\ Place(t) /\ todo[t] # <<>>
      /\ command(t).name = "reserve"
  BY DEF ReadReserved, Runs, Locals
<1>2. CASE Answer(t, FALSE)
  BY <1>1, <1>2, AnswerLocals
<1>3. CASE ~Answer(t, FALSE)
  <2>1. command(t) \in Reservations
    BY <1>1, HeadAndTail DEF Locals, command, Commands, CustomerCommands,
                             ItemCommands, OnItems, OnCustomers
  <2> DEFINE k == command(t).item
             obj == m_data[server(t)][k]
  <2>2. k \in Item /\ obj \in ItemObject \cup {Null}
    BY <2>1 DEF Reservations, Memory, server
  <2>3. /\ obj # Null /\ obj.count > 0
        /\ item' = [item EXCEPT ![t] = obj]
        /\ key' = [key EXCEPT ![t] = k]
        /\ pc' = [pc EXCEPT ![t] = "writeCustomer"]
        /\ UNCHANGED <<todo, customer, left>>
    BY <1>3 DEF ReadReserved, Available, Goto
  <2> HIDE DEF k, obj
  <2>4. Place(t)'
    BY <1>1, <2>2, <2>3
       DEF Locals, Label, Place, NeedsCustomer, NeedsSeat, NeedsItem, NeedsKey, Adds,
           command
  <2> QED BY <2>2, <2>3, <2>4, LocalsStep DEF Locals, Label
<1> QED BY <1>2, <1>3

LEMMA ReadGivenBackLocals ==
    ASSUME Memory, Locals, NEW t \in Client, ReadGivenBack(t) PROVE Locals'
<1>1. /\ pc[t] = "readItem" /\ Place(t) /\ todo[t] # <<>>
      /\ command(t).name = "deleteCustomer"
  BY DEF ReadGivenBack, Runs, Locals
<1>2. CASE Throw(t)
  BY <1>2, ThrowLocals
<1>3. CASE ~Throw(t)
  <2>1. PICK k \in left[t] :
           LET obj == m_data[server(t)][k] IN
           /\ obj # Null
           /\ item' = [item EXCEPT ![t] = obj]
           /\ key' = [key EXCEPT ![t] = k]
           /\ left' = [left EXCEPT ![t] = @ \ {k}]
           /\ pc' = [pc EXCEPT ![t] = "writeItem"]
           /\ UNCHANGED <<todo, customer>>
    BY <1>3 DEF ReadGivenBack, Goto
  <2> DEFINE obj == m_data[server(t)][k]
  <2>2. server(t) \in Server
    BY <1>1, HeadAndTail DEF Locals, command, server, Commands, Reservations,
                             CustomerCommands, ItemCommands
  <2>3. k \in Item /\ obj \in ItemObject \cup {Null}
    BY <2>2 DEF Locals, Memory
  <2>4. /\ obj # Null
        /\ item' = [item EXCEPT ![t] = obj]
        /\ key' = [key EXCEPT ![t] = k]
        /\ left' = [left EXCEPT ![t] = @ \ {k}]
        /\ pc' = [pc EXCEPT ![t] = "writeItem"]
        /\ UNCHANGED <<todo, customer>>
    BY <2>1
  <2> HIDE DEF obj
  <2>5. Place(t)'
    BY <1>1, <2>3, <2>4
       DEF Locals, Label, Place, NeedsCustomer, NeedsSeat, NeedsItem, NeedsKey, Adds,
           command
  <2> QED BY <2>3, <2>4, <2>5, LocalsStep DEF Locals, Label
<1> QED BY <1>2, <1>3

LEMMA WriteGivenBackLocals ==
    ASSUME Locals, NEW t \in Client, WriteGivenBack(t) PROVE Locals'
<1>1. /\ pc[t] = "writeItem" /\ Place(t) /\ todo[t] # <<>>
      /\ command(t).name = "deleteCustomer"
  BY DEF WriteGivenBack, Runs, Locals
<1>2. /\ item' = [item EXCEPT ![t] = Null]
      /\ key' = [key EXCEPT ![t] = Null]
      /\ pc' = [pc EXCEPT ![t] = IF left[t] = {} THEN "remove" ELSE "readItem"]
      /\ UNCHANGED <<todo, customer, left>>
  BY DEF WriteGivenBack, Goto
<1>3. Place(t)'
  BY <1>1, <1>2
     DEF Locals, Label, Place, NeedsCustomer, NeedsSeat, NeedsItem, NeedsKey, Adds,
         command
<1> QED BY <1>2, <1>3, LocalsStep DEF Locals, Label

LEMMA LocalsNext ==
    ASSUME CallsOfMiddleware, Memory, Locals, NEW t \in Client,
           Invoke(t) \/ Unreachable(t) \/ Step(t)
    PROVE  Locals'
<1>1. CASE Invoke(t)
  BY <1>1, InvokeLocals
<1>2. CASE Unreachable(t)
  BY <1>2, ThrowLocals DEF Unreachable
<1>3. CASE \/ WriteAdded(t) \/ RemoveItem(t) \/ MakeUpCustomer(t)
           \/ WriteReserved(t) \/ RemoveCustomer(t)
  <2>1. todo[t] # <<>> /\ Answer(t, TRUE)
    BY <1>3 DEF WriteAdded, RemoveItem, MakeUpCustomer, WriteReserved,
                RemoveCustomer, Runs
  <2> QED BY <2>1, AnswerLocals
<1> QED BY <1>1, <1>2, <1>3, BeginItemLocals, BeginCustomerLocals,
           WriteCustomerLocals, ReadReservedLocals, ReadGivenBackLocals,
           WriteGivenBackLocals DEF Step

(* What a step writes: an object of a customer, or one of the thread's item *)
(* that has no more seats than its clone had, but for the one that is added.*)
LEMMA WriteStep ==
    ASSUME Memory, Locals, NEW t \in Client,
           Invoke(t) \/ Unreachable(t) \/ Step(t)
    PROVE  \/ UNCHANGED m_data
           \/ \E s \in Server, c \in Customer, obj \in CustomerObject \cup {Null} :
                 Put(s, c, obj)
           \/ \E s \in Server, obj \in ItemObject \cup {Null} :
                 /\ key[t] \in Item
                 /\ Put(s, key[t], obj)
                 /\ \/ obj = Null
                    \/ Total(obj) = Total(item[t])
                    \/ WriteAdded(t) /\ Total(obj) = Total(item[t]) + 1
<1>0. Place(t)
  BY DEF Locals
<1>1. ASSUME todo[t] # <<>> PROVE command(t) \in Commands /\ server(t) \in Server
  BY <1>1, HeadAndTail DEF Locals, command, server, Commands, Reservations,
                           CustomerCommands, ItemCommands
<1>2. CASE \/ Invoke(t) \/ Unreachable(t) \/ BeginItem(t) \/ BeginCustomer(t)
           \/ ReadReserved(t) \/ ReadGivenBack(t)
  BY <1>2 DEF Invoke, Unreachable, BeginItem, BeginCustomer, ReadReserved,
              ReadGivenBack
<1>3. CASE WriteAdded(t)
  <2>1. /\ todo[t] # <<>> /\ key[t] \in Item
        /\ item[t] \in ItemObject \cup {Null}
    BY <1>0, <1>3 DEF WriteAdded, Runs, Place, NeedsKey, Adds, Locals
  <2>2. CASE item[t] = Null
    <3>1. Put(server(t), key[t], [count |-> 1, reserved |-> 0])
      BY <1>3, <2>2 DEF WriteAdded
    <3>2. /\ [count |-> 1, reserved |-> 0] \in ItemObject
          /\ \/ [count |-> 1, reserved |-> 0] = Null
             \/ Total([count |-> 1, reserved |-> 0]) = Total(item[t]) + 1
      BY <2>2 DEF ItemObject, Total
    <3> QED BY <1>1, <1>3, <2>1, <3>1, <3>2
  <2>3. CASE item[t] # Null
    <3> DEFINE obj == [item[t] EXCEPT !.count = @ + 1]
    <3>1. Put(server(t), key[t], obj)
      BY <1>3, <2>3 DEF WriteAdded
    <3>2. /\ obj \in ItemObject
          /\ obj = Null \/ Total(obj) = Total(item[t]) + 1
      BY <2>1, <2>3 DEF ItemObject, Total
    <3> HIDE DEF obj
    <3> QED BY <1>1, <1>3, <2>1, <3>1, <3>2
  <2> QED BY <2>2, <2>3
<1>4. CASE RemoveItem(t)
  <2>1. todo[t] # <<>> /\ key[t] \in Item /\ Put(server(t), key[t], Null)
    BY <1>0, <1>4 DEF RemoveItem, Runs, Place, NeedsKey
  <2> QED BY <1>1, <2>1
<1>5. CASE MakeUpCustomer(t)
  <2>1. /\ todo[t] # <<>> /\ command(t).name \in OnCustomers
        /\ Put("Flight", command(t).customer, [k \in Item |-> 0])
    BY <1>5 DEF MakeUpCustomer, Runs, OnCustomers
  <2>2. command(t).customer \in Customer
    BY <1>1, <2>1 DEF Commands, CustomerCommands, ItemCommands, Reservations,
                      OnCustomers, OnItems
  <2>3. "Flight" \in Server /\ [k \in Item |-> 0] \in CustomerObject
    BY DEF Server, CustomerObject
  <2> QED BY <2>1, <2>2, <2>3
<1>6. CASE WriteCustomer(t)
  <2>1. todo[t] # <<>> /\ pc[t] = "writeCustomer"
    BY <1>0, <1>6 DEF WriteCustomer, Place
  <2>2. CASE command(t).name = "newCustomer"
    <3>1. Put(server(t), command(t).customer, [k \in Item |-> 0])
      BY <1>6, <2>2 DEF WriteCustomer
    <3>2. command(t).customer \in Customer
      BY <1>1, <2>1, <2>2 DEF Commands, CustomerCommands, ItemCommands,
                              Reservations, OnItems
    <3>3. [k \in Item |-> 0] \in CustomerObject
      BY DEF CustomerObject
    <3> QED BY <1>1, <2>1, <3>1, <3>2, <3>3
  <2>3. CASE command(t).name = "reserve"
    <3> DEFINE obj == [customer[t] EXCEPT ![command(t).item] = @ + 1]
    <3>1. Put(server(t), command(t).customer, obj)
      BY <1>6, <2>3 DEF WriteCustomer
    <3>2. command(t).customer \in Customer /\ command(t).item \in Item
      BY <1>1, <2>1, <2>3 DEF Commands, CustomerCommands, ItemCommands,
                              Reservations, OnItems, OnCustomers
    <3>3. customer[t] \in CustomerObject
      BY <1>0, <2>1, <2>3 DEF Place, NeedsCustomer, Locals
    <3>4. obj \in CustomerObject
      BY <3>2, <3>3 DEF CustomerObject
    <3> HIDE DEF obj
    <3> QED BY <1>1, <2>1, <3>1, <3>2, <3>4
  <2> QED BY <1>6, <2>2, <2>3 DEF WriteCustomer
<1>7. CASE WriteReserved(t)
  <2> DEFINE obj == [count |-> item[t].count - 1, reserved |-> item[t].reserved + 1]
  <2>1. todo[t] # <<>> /\ Put(server(t), key[t], obj)
    BY <1>7 DEF WriteReserved, Runs
  <2>2. /\ item[t] \in ItemObject /\ item[t] # Null
        /\ item[t].count > 0 /\ key[t] \in Item
    BY <1>0, <1>7 DEF WriteReserved, Runs, Place, NeedsSeat, NeedsItem, NeedsKey, Adds,
                      Locals
  <2>3. obj \in ItemObject /\ (obj = Null \/ Total(obj) = Total(item[t]))
    BY <2>2 DEF ItemObject, Total
  <2> HIDE DEF obj
  <2> QED BY <1>1, <2>1, <2>2, <2>3
<1>8. CASE WriteGivenBack(t)
  <2> DEFINE n == customer[t][key[t]]
             obj == GiveBack(item[t], n)
  <2>1. todo[t] # <<>> /\ Put(server(t), key[t], obj)
    BY <1>8 DEF WriteGivenBack, Runs
  <2>2. /\ item[t] \in ItemObject /\ item[t] # Null /\ key[t] \in Item
        /\ customer[t] \in CustomerObject
    BY <1>0, <1>8 DEF WriteGivenBack, Runs, Place, NeedsCustomer, NeedsItem,
                      NeedsKey, Adds, Locals
  <2>3. n \in Nat
    BY <2>2 DEF CustomerObject
  <2> HIDE DEF n
  <2>4. obj \in ItemObject /\ (obj = Null \/ Total(obj) = Total(item[t]))
    BY <2>2, <2>3 DEF ItemObject, Total, GiveBack
  <2> HIDE DEF obj
  <2> QED BY <1>1, <2>1, <2>2, <2>4
<1>9. CASE RemoveCustomer(t)
  <2>1. /\ todo[t] # <<>> /\ command(t).name = "deleteCustomer"
        /\ Put(server(t), command(t).customer, Null)
    BY <1>9 DEF RemoveCustomer, Runs
  <2>2. command(t).customer \in Customer
    BY <1>1, <2>1 DEF Commands, CustomerCommands, ItemCommands, Reservations,
                      OnItems
  <2> QED BY <1>1, <2>1, <2>2
<1> QED BY <1>2, <1>3, <1>4, <1>5, <1>6, <1>7, <1>8, <1>9 DEF Step

LEMMA PutValue ==
    ASSUME Memory, NEW s \in Server, NEW k \in Key, NEW obj \in Object,
           Put(s, k, obj)
    PROVE  /\ m_data' \in [Server -> [Key -> Object]]
           /\ \A r \in Server, j \in Key :
                 m_data'[r][j] = IF r = s /\ j = k THEN obj ELSE m_data[r][j]
<1> DEFINE row == [m_data[s] EXCEPT ![k] = obj]
<1>1. m_data' = [m_data EXCEPT ![s] = row]
  BY DEF Put
<1>2. row \in [Key -> Object] /\ \A j \in Key : row[j] = IF j = k THEN obj
                                                      ELSE m_data[s][j]
  BY DEF Memory
<1> HIDE DEF row
<1> QED BY <1>1, <1>2 DEF Memory

LEMMA MemoryNext ==
    ASSUME Memory, Locals, NEW t \in Client,
           Invoke(t) \/ Unreachable(t) \/ Step(t)
    PROVE  Memory'
<1>1. ASSUME NEW s \in Server, NEW c \in Customer,
             NEW obj \in CustomerObject \cup {Null}, Put(s, c, obj)
      PROVE  Memory'
  <2>1. c \in Key /\ c \notin Item /\ obj \in Object
    BY KeyAssumption DEF Key, Object
  <2>2. \A r \in Server, j \in Key :
           m_data'[r][j] = IF r = s /\ j = c THEN obj ELSE m_data[r][j]
    BY <1>1, <2>1, PutValue
  <2>3. m_data' \in [Server -> [Key -> Object]]
    BY <1>1, <2>1, PutValue
  <2>4. \A r \in Server : \A j \in Item : m_data'[r][j] \in ItemObject \cup {Null}
    BY <2>1, <2>2 DEF Memory, Key
  <2>5. \A r \in Server : \A d \in Customer :
           m_data'[r][d] \in CustomerObject \cup {Null}
    BY <2>1, <2>2 DEF Memory, Key
  <2> QED BY <2>3, <2>4, <2>5 DEF Memory
<1>2. ASSUME NEW s \in Server, NEW k \in Item,
             NEW obj \in ItemObject \cup {Null}, Put(s, k, obj)
      PROVE  Memory'
  <2>1. k \in Key /\ k \notin Customer /\ obj \in Object
    BY KeyAssumption DEF Key, Object
  <2>2. \A r \in Server, j \in Key :
           m_data'[r][j] = IF r = s /\ j = k THEN obj ELSE m_data[r][j]
    BY <1>2, <2>1, PutValue
  <2>3. m_data' \in [Server -> [Key -> Object]]
    BY <1>2, <2>1, PutValue
  <2>4. \A r \in Server : \A j \in Item : m_data'[r][j] \in ItemObject \cup {Null}
    BY <2>1, <2>2 DEF Memory, Key
  <2>5. \A r \in Server : \A d \in Customer :
           m_data'[r][d] \in CustomerObject \cup {Null}
    BY <2>1, <2>2 DEF Memory, Key
  <2> QED BY <2>3, <2>4, <2>5 DEF Memory
<1>3. CASE UNCHANGED m_data
  BY <1>3 DEF Memory
<1> QED BY <1>1, <1>2, <1>3, WriteStep

LEMMA HistoriesNext ==
    ASSUME Histories, Locals, Locals', NEW t \in Client,
           Invoke(t) \/ Unreachable(t) \/ Step(t), Races(t)
    PROVE  Histories'
<1>1. added' \in [Item -> Nat]
  <2>1. CASE Invoke(t)
    <3>1. PICK m \in Methods :
             added' = [k \in Item |->
                          IF m[1].name = "add" /\ m[1].item = k
                          THEN added[k] + 1 ELSE added[k]]
      BY <2>1 DEF Invoke
    <3> QED BY <3>1 DEF Histories
  <2>2. CASE UNCHANGED added
    BY <2>2 DEF Histories
  <2> QED BY <2>1, <2>2 DEF Unreachable, Step, BeginItem, WriteAdded, RemoveItem,
        BeginCustomer, MakeUpCustomer, WriteCustomer, ReadReserved, WriteReserved,
        ReadGivenBack, WriteGivenBack, RemoveCustomer
<1>2. split' \subseteq Customer
  <2>1. CASE Invoke(t)
    <3>1. PICK m \in Methods : \E busy : split' = split \cup (Settles(m) \cap busy)
      BY <2>1 DEF Invoke
    <3>2. Settles(m) \subseteq Customer
      BY DEF Settles
    <3> QED BY <3>1, <3>2 DEF Histories
  <2>2. CASE Throw(t)
    BY <2>2 DEF Throw, Histories
  <2>3. CASE UNCHANGED split
    BY <2>3 DEF Histories
  <2> QED BY <2>1, <2>2, <2>3
       DEF Unreachable, Step, BeginItem, WriteAdded, RemoveItem,
        BeginCustomer, MakeUpCustomer, WriteCustomer, ReadReserved, WriteReserved,
        ReadGivenBack, WriteGivenBack, RemoveCustomer
<1>3. raced' \subseteq Server \X Key
  <2>1. Overwritten(t) \subseteq Server \X Key
    BY DEF Overwritten, Server, Key
  <2>2. Uses(t) \subseteq Server \X Key
    <3>1. CASE pc[t] \in {"idle", "begin"}
      BY <3>1 DEF Uses
    <3>2. CASE pc[t] \notin {"idle", "begin"}
      <4>1. todo[t] # <<>>
        BY <3>2 DEF Locals, Place
      <4>2. server(t) \in Server
        BY <4>1, HeadAndTail DEF Locals, command, server, Commands, Reservations,
                                 CustomerCommands, ItemCommands
      <4> QED BY <4>2 DEF Uses
    <3> QED BY <3>1, <3>2
  <2>3. Uses(t)' \subseteq Server \X Key
    <3>1. CASE pc'[t] \in {"idle", "begin"}
      BY <3>1 DEF Uses
    <3>2. CASE pc'[t] \notin {"idle", "begin"}
      <4>1. todo'[t] # <<>>
        BY <3>2 DEF Locals, Place
      <4>2. server(t)' \in Server
        BY <4>1, HeadAndTail DEF Locals, command, server, Commands, Reservations,
                                 CustomerCommands, ItemCommands
      <4> QED BY <4>2 DEF Uses
    <3> QED BY <3>1, <3>2
  <2> QED BY <2>1, <2>2, <2>3 DEF Races, Histories
<1> QED BY <1>1, <1>2, <1>3 DEF Histories

LEMMA TypesInit == Init => Types
<1> SUFFICES ASSUME Init PROVE Types
  OBVIOUS
<1>1. <<>> \in CallSequences
  BY DEF CallSequences, AddsFirst
<1>2. Locals
  BY <1>1 DEF Init, Locals, Label, Place, NeedsCustomer, NeedsItem, NeedsSeat,
              NeedsKey, Adds
<1>3. Memory
  BY DEF Init, Memory, Object, Key
<1>4. Histories
  BY DEF Init, Histories
<1> QED BY <1>2, <1>3, <1>4 DEF Types

LEMMA TypesNext ==
    ASSUME CallsOfMiddleware, Types, [Next]_vars PROVE Types'
<1>1. ASSUME NEW t \in Client, Invoke(t) \/ Unreachable(t) \/ Step(t), Races(t)
      PROVE  Types'
  BY <1>1, LocalsNext, MemoryNext, HistoriesNext DEF Types
<1>2. CASE UNCHANGED vars
  <2>1. UNCHANGED <<m_data, todo, pc, customer, item, key, left, added, raced, split>>
    BY <1>2 DEF vars, locals
  <2>2. \A t \in Client : Place(t)' <=> Place(t)
    BY <2>1 DEF Place, NeedsCustomer, NeedsItem, NeedsSeat, NeedsKey, Adds, command
  <2> QED BY <2>1, <2>2 DEF Types, Memory, Locals, Histories
<1> QED BY <1>1, <1>2 DEF Next

LEMMA TypesImplyTypeOK == Types => TypeOK
BY DEF Types, Memory, Locals, Histories, Place, TypeOK

(* Whatever calls are interleaved and broken off: objects stay objects of   *)
(* their kind, no item has a negative number of seats, and a thread has a   *)
(* command exactly when it is not idle.                                     *)
THEOREM TypeCorrect == ASSUME CallsOfMiddleware PROVE Spec => []TypeOK
<1>1. Types /\ [Next]_vars => Types'
  BY TypesNext, CallsOfMiddleware
<1> QED BY <1>1, TypesInit, TypesImplyTypeOK, PTL DEF Spec

-----------------------------------------------------------------------------
(* The seats.                                                               *)

(* What a step does to the commands: a call is made, a command is done or   *)
(* its call broken off, or none of these.                                   *)
LEMMA TodoStep ==
    ASSUME Locals, NEW t \in Client, Invoke(t) \/ Unreachable(t) \/ Step(t)
    PROVE  \/ UNCHANGED <<todo, added>> /\ ~WriteAdded(t)
           \/ /\ todo[t] = <<>> /\ ~WriteAdded(t)
              /\ \E m \in Methods :
                    /\ todo' = [todo EXCEPT ![t] = m]
                    /\ added' = [k \in Item |->
                                   IF m[1].name = "add" /\ m[1].item = k
                                   THEN added[k] + 1 ELSE added[k]]
           \/ /\ todo[t] # <<>>
              /\ \/ todo' = [todo EXCEPT ![t] = <<>>] /\ ~WriteAdded(t)
                 \/ todo' = [todo EXCEPT ![t] = Tail(todo[t])]
              /\ UNCHANGED added
<1>0. Place(t)
  BY DEF Locals
<1>1. CASE Invoke(t)
  <2>1. todo[t] = <<>> /\ ~WriteAdded(t)
    BY <1>0, <1>1 DEF Invoke, WriteAdded, Runs, Place
  <2> QED BY <1>1, <2>1 DEF Invoke
<1>2. CASE Unreachable(t) \/ ReadGivenBack(t)
  <2>1. todo[t] # <<>> /\ ~WriteAdded(t) /\ UNCHANGED added
    BY <1>0, <1>2 DEF Unreachable, ReadGivenBack, WriteAdded, Runs, Place
  <2> QED BY <1>2, <2>1 DEF Unreachable, ReadGivenBack, Throw
<1>3. ASSUME NEW b \in BOOLEAN, Answer(t, b), todo[t] # <<>>, UNCHANGED added,
             WriteAdded(t) => b
      PROVE  /\ \/ todo' = [todo EXCEPT ![t] = <<>>] /\ ~WriteAdded(t)
                \/ todo' = [todo EXCEPT ![t] = Tail(todo[t])]
             /\ UNCHANGED added
  BY <1>3 DEF Answer
<1>4. CASE WriteAdded(t)
  BY <1>3, <1>4 DEF WriteAdded, Runs
<1>5. CASE \/ RemoveItem(t) \/ MakeUpCustomer(t) \/ WriteReserved(t)
           \/ RemoveCustomer(t)
  <2>1. ~WriteAdded(t) /\ todo[t] # <<>> /\ Answer(t, TRUE) /\ UNCHANGED added
    BY <1>5 DEF RemoveItem, MakeUpCustomer, WriteReserved, RemoveCustomer,
                WriteAdded, Runs
  <2> QED BY <1>3, <2>1
<1>6. CASE \/ BeginItem(t) \/ BeginCustomer(t) \/ WriteCustomer(t)
           \/ ReadReserved(t)
  <2>1. /\ ~WriteAdded(t) /\ todo[t] # <<>> /\ UNCHANGED added
        /\ UNCHANGED todo \/ \E b \in BOOLEAN : Answer(t, b)
    BY <1>0, <1>6 DEF BeginItem, BeginCustomer, WriteCustomer, ReadReserved,
                      WriteAdded, Runs, Place
  <2> QED BY <1>3, <2>1
<1>7. CASE WriteGivenBack(t)
  BY <1>7 DEF WriteGivenBack, WriteAdded, Runs
<1> QED BY <1>1, <1>2, <1>4, <1>5, <1>6, <1>7 DEF Step

LEMMA AddingFinite ==
    ASSUME IsFiniteSet(Client), NEW k
    PROVE  IsFiniteSet(Adding(k)) /\ Cardinality(Adding(k)) \in Nat
<1>1. Adding(k) \subseteq Client
  BY DEF Adding
<1> QED BY <1>1, FS_Subset, FS_CardinalityType

(* The room for the seats of an item never shrinks, and grows when a seat   *)
(* is added.                                                                *)
LEMMA RoomStep ==
    ASSUME CallsOfMiddleware, IsFiniteSet(Client), Types, NEW t \in Client,
           Invoke(t) \/ Unreachable(t) \/ Step(t), NEW k \in Item
    PROVE  /\ Room(k) \in Int /\ Room(k)' \in Int
           /\ Room(k) <= Room(k)'
           /\ WriteAdded(t) /\ key[t] = k => Room(k)' = Room(k) + 1
<1> DEFINE A == Adding(k)
<1>0. /\ IsFiniteSet(A) /\ Cardinality(A) \in Nat
      /\ added[k] \in Nat
      /\ todo \in [Client -> CallSequences]
      /\ Place(t)
  BY AddingFinite DEF Types, Locals, Histories
<1>1. CASE UNCHANGED <<todo, added>> /\ ~WriteAdded(t)
  <2>1. Adding(k)' = A
    BY <1>1 DEF Adding, command
  <2> HIDE DEF A
  <2>2. Room(k) = added[k] - Cardinality(A) /\ Room(k)' = Room(k)
    BY <1>1, <2>1 DEF Room, A
  <2> QED BY <1>0, <1>1, <2>2
<1>2. ASSUME todo[t] = <<>>, ~WriteAdded(t), NEW m \in Methods,
             todo' = [todo EXCEPT ![t] = m],
             added' = [j \in Item |-> IF m[1].name = "add" /\ m[1].item = j
                                      THEN added[j] + 1 ELSE added[j]]
      PROVE  Room(k) \in Int /\ Room(k)' = Room(k)
  <2>1. m \in Seq(Commands) /\ m # <<>> /\ Head(m) = m[1]
    BY MethodType DEF CallSequences
  <2>2. t \notin A
    BY <1>2 DEF Adding
  <2>3. CASE m[1].name = "add" /\ m[1].item = k
    <3>1. Adding(k)' = A \cup {t}
      BY <1>0, <1>2, <2>1, <2>3 DEF Adding, command
    <3>2. added'[k] = added[k] + 1
      BY <1>2, <2>3
    <3> HIDE DEF A
    <3>3. Cardinality(A \cup {t}) = Cardinality(A) + 1
      BY <1>0, <2>2, FS_AddElement
    <3> QED BY <1>0, <3>1, <3>2, <3>3 DEF Room, A
  <2>4. CASE ~(m[1].name = "add" /\ m[1].item = k)
    <3>1. Adding(k)' = A
      BY <1>0, <1>2, <2>1, <2>2, <2>4 DEF Adding, command
    <3>2. added'[k] = added[k]
      BY <1>2, <2>4
    <3> HIDE DEF A
    <3> QED BY <1>0, <3>1, <3>2 DEF Room, A
  <2> QED BY <2>3, <2>4
<1>3. ASSUME todo[t] # <<>>,
             \/ todo' = [todo EXCEPT ![t] = <<>>] /\ ~WriteAdded(t)
             \/ todo' = [todo EXCEPT ![t] = Tail(todo[t])],
             UNCHANGED added
      PROVE  /\ Room(k) \in Int /\ Room(k)' \in Int
             /\ Room(k) <= Room(k)'
             /\ WriteAdded(t) /\ key[t] = k => Room(k)' = Room(k) + 1
  <2>1. todo'[t] # <<>> => Head(todo'[t]).name # "add"
    BY <1>0, <1>3, HeadAndTail
  <2>2. \A u \in Client \ {t} : todo'[u] = todo[u]
    BY <1>0, <1>3
  <2>3. Adding(k)' = A \ {t}
    BY <2>1, <2>2 DEF Adding, command
  <2>4. ASSUME WriteAdded(t), key[t] = k PROVE t \in A
    BY <1>0, <2>4 DEF WriteAdded, Runs, Place, Adds, Adding
  <2> HIDE DEF A
  <2>5. Cardinality(A \ {t}) = IF t \in A THEN Cardinality(A) - 1 ELSE Cardinality(A)
    BY <1>0, FS_RemoveElement
  <2>6. /\ Room(k) = added[k] - Cardinality(A)
        /\ Room(k)' = added[k] - Cardinality(A \ {t})
    BY <1>3, <2>3 DEF Room, A
  <2> QED BY <1>0, <2>4, <2>5, <2>6
<1>4. Room(k) \in Int
  BY <1>0 DEF Room
<1> QED BY <1>1, <1>2, <1>3, <1>4, TodoStep DEF Types

(* A clone is dropped, kept, or made of what is stored.                     *)
LEMMA CloneStep ==
    ASSUME Memory, Locals, NEW t \in Client,
           Invoke(t) \/ Unreachable(t) \/ Step(t)
    PROVE  /\ \A u \in Client \ {t} : item'[u] = item[u] /\ key'[u] = key[u]
           /\ \/ item'[t] = Null
              \/ item'[t] = item[t] /\ key'[t] = key[t]
              \/ \E s \in Server : item'[t] = m_data[s][key'[t]]
<1> USE DEF Locals
<1>1. ASSUME todo[t] # <<>> PROVE server(t) \in Server
  BY <1>1, HeadAndTail DEF command, server, Commands, Reservations,
                           CustomerCommands, ItemCommands
<1>2. ASSUME NEW b, Answer(t, b) \/ Throw(t)
      PROVE  /\ item' = [item EXCEPT ![t] = Null]
             /\ key' = [key EXCEPT ![t] = Null]
  BY <1>2 DEF Answer, Throw
<1>3. CASE Invoke(t)
  BY <1>3 DEF Invoke, locals
<1>4. CASE Unreachable(t)
  BY <1>2, <1>4 DEF Unreachable
<1>5. CASE BeginItem(t)
  BY <1>1, <1>2, <1>5 DEF BeginItem, Runs
<1>6. CASE ReadReserved(t)
  BY <1>1, <1>2, <1>6 DEF ReadReserved, Runs
<1>7. CASE ReadGivenBack(t)
  BY <1>1, <1>2, <1>7 DEF ReadGivenBack, Runs
<1>8. CASE WriteGivenBack(t)
  BY <1>8 DEF WriteGivenBack
<1>9. CASE \/ WriteAdded(t) \/ RemoveItem(t) \/ MakeUpCustomer(t)
           \/ WriteReserved(t) \/ RemoveCustomer(t)
  BY <1>2, <1>9 DEF WriteAdded, RemoveItem, MakeUpCustomer, WriteReserved,
                    RemoveCustomer
<1>10. CASE BeginCustomer(t) \/ WriteCustomer(t)
  BY <1>2, <1>10 DEF BeginCustomer, WriteCustomer, locals
<1> QED BY <1>3, <1>4, <1>5, <1>6, <1>7, <1>8, <1>9, <1>10 DEF Step

LEMMA TotalType ==
    ASSUME NEW obj \in ItemObject \cup {Null} PROVE Total(obj) \in Int
BY DEF Total, ItemObject

LEMMA SeatsInit == ASSUME Init PROVE SeatsFit
<1>1. \A k \in Item : Adding(k) = {}
  BY DEF Init, Adding
<1>2. ASSUME NEW k \in Item PROVE Room(k) = 0
  <2>1. Cardinality(Adding(k)) = 0
    BY <1>1, FS_EmptySet
  <2>2. added[k] = 0
    BY DEF Init
  <2> QED BY <2>1, <2>2 DEF Room
<1> QED BY <1>2 DEF Init, SeatsFit, Total, Key

LEMMA SeatsNext ==
    ASSUME CallsOfMiddleware, IsFiniteSet(Client), Inv, [Next]_vars
    PROVE  SeatsFit'
<1> SUFFICES ASSUME NEW k \in Item
             PROVE  /\ Room(k)' >= 0
                    /\ \A s \in Server : Total(m_data'[s][k]) <= Room(k)'
                    /\ \A t \in Client : key'[t] = k => Total(item'[t]) <= Room(k)'
  BY DEF SeatsFit, Total
<1>0. /\ Memory /\ Locals /\ Types
      /\ Room(k) >= 0
      /\ \A s \in Server : Total(m_data[s][k]) <= Room(k)
      /\ \A t \in Client : key[t] = k => Total(item[t]) <= Room(k)
  BY DEF Inv, Types, SeatsFit
<1>1. ASSUME NEW t \in Client, Invoke(t) \/ Unreachable(t) \/ Step(t)
      PROVE  /\ Room(k)' >= 0
             /\ \A s \in Server : Total(m_data'[s][k]) <= Room(k)'
             /\ \A u \in Client : key'[u] = k => Total(item'[u]) <= Room(k)'
  <2>1. /\ Room(k) \in Int /\ Room(k)' \in Int
        /\ Room(k) <= Room(k)'
        /\ WriteAdded(t) /\ key[t] = k => Room(k)' = Room(k) + 1
    BY <1>0, <1>1, RoomStep
  <2>2. ASSUME NEW obj \in ItemObject \cup {Null}, Total(obj) <= Room(k)
        PROVE  Total(obj) <= Room(k)'
    BY <2>1, <2>2, TotalType
  <2>3. ASSUME NEW r \in Server PROVE Total(m_data'[r][k]) <= Room(k)'
    <3>1. /\ m_data[r][k] \in ItemObject \cup {Null}
          /\ Total(m_data[r][k]) <= Room(k)'
      BY <1>0, <2>2 DEF Memory
    <3>2. CASE UNCHANGED m_data
      BY <3>1, <3>2
    <3>3. ASSUME NEW s \in Server, NEW c \in Customer,
                 NEW obj \in CustomerObject \cup {Null}, Put(s, c, obj)
          PROVE  m_data'[r][k] = m_data[r][k]
      <4>1. c \in Key /\ k \in Key /\ c # k /\ obj \in Object
        BY KeyAssumption DEF Key, Object
      <4> QED BY <1>0, <3>3, <4>1, PutValue
    <3>4. ASSUME NEW s \in Server, NEW obj \in ItemObject \cup {Null},
                 key[t] \in Item, Put(s, key[t], obj),
                 \/ obj = Null
                 \/ Total(obj) = Total(item[t])
                 \/ WriteAdded(t) /\ Total(obj) = Total(item[t]) + 1
          PROVE  Total(m_data'[r][k]) <= Room(k)'
      <4>1. key[t] \in Key /\ k \in Key /\ obj \in Object
        BY <3>4 DEF Key, Object
      <4>2. m_data'[r][k] = IF r = s /\ k = key[t] THEN obj ELSE m_data[r][k]
        BY <1>0, <3>4, <4>1, PutValue
      <4>3. CASE r = s /\ k = key[t]
        <5>1. item[t] \in ItemObject \cup {Null} /\ Total(item[t]) <= Room(k)
          BY <1>0, <4>3 DEF Locals
        <5>2. Total(item[t]) \in Int /\ (obj = Null => Total(obj) = 0)
          BY <5>1, TotalType DEF Total
        <5>3. Total(obj) <= Room(k)'
          BY <1>0, <2>1, <3>4, <4>3, <5>1, <5>2
        <5> QED BY <4>2, <4>3, <5>3
      <4>4. CASE ~(r = s /\ k = key[t])
        BY <3>1, <4>2, <4>4
      <4> QED BY <4>3, <4>4
    <3> QED BY <1>0, <1>1, <3>1, <3>2, <3>3, <3>4, WriteStep
  <2>4. ASSUME NEW u \in Client, key'[u] = k PROVE Total(item'[u]) <= Room(k)'
    <3>1. CASE item'[u] = item[u] /\ key'[u] = key[u]
      BY <1>0, <2>2, <2>4, <3>1 DEF Locals
    <3>2. CASE item'[u] = Null
      BY <1>0, <2>1, <3>2 DEF Total
    <3>3. ASSUME NEW s \in Server, item'[u] = m_data[s][k]
          PROVE  Total(item'[u]) <= Room(k)'
      BY <1>0, <2>2, <3>3 DEF Memory
    <3> QED BY <1>0, <1>1, <2>4, <3>1, <3>2, <3>3, CloneStep
  <2> QED BY <1>0, <2>1, <2>3, <2>4
<1>2. CASE UNCHANGED vars
  <2>1. UNCHANGED <<m_data, todo, item, key, added>>
    BY <1>2 DEF vars, locals
  <2>2. Room(k)' = Room(k)
    BY <2>1 DEF Room, Adding, command
  <2> QED BY <1>0, <2>1, <2>2
<1> QED BY <1>1, <1>2 DEF Next

LEMMA SeatsFitImplySeatsBounded ==
    ASSUME IsFiniteSet(Client), Inv PROVE SeatsBounded
<1> SUFFICES ASSUME NEW s \in Server, NEW k \in Item, m_data[s][k] # Null
             PROVE  m_data[s][k].count + m_data[s][k].reserved <= added[k]
  BY DEF SeatsBounded
<1>1. Total(m_data[s][k]) <= added[k] - Cardinality(Adding(k))
  BY DEF Inv, SeatsFit, Room
<1>2. /\ Cardinality(Adding(k)) \in Nat /\ added[k] \in Nat
      /\ m_data[s][k] \in ItemObject
  BY AddingFinite DEF Inv, Types, Histories, Memory
<1>3. Total(m_data[s][k]) = m_data[s][k].count + m_data[s][k].reserved
  BY DEF Total
<1> QED BY <1>1, <1>2, <1>3 DEF ItemObject

(* Without transactions updates are lost, but whatever is interleaved or    *)
(* broken off, an item never has more seats, free and reserved together,    *)
(* than clients have asked to add: for any number of clients, items and     *)
(* customers.                                                               *)
THEOREM NoSeatsFromNothing ==
    ASSUME CallsOfMiddleware, IsFiniteSet(Client)
    PROVE  Spec => []SeatsBounded
<1>1. Init => Inv
  BY TypesInit, SeatsInit DEF Inv
<1>2. Inv /\ [Next]_vars => Inv'
  BY TypesNext, SeatsNext, CallsOfMiddleware, IsFiniteSet(Client) DEF Inv
<1>3. Inv => SeatsBounded
  BY SeatsFitImplySeatsBounded, IsFiniteSet(Client)
<1> QED BY <1>1, <1>2, <1>3, PTL DEF Spec

-----------------------------------------------------------------------------
(* Clones.  A clone that nobody has raced on is what is stored, but for     *)
(* what its thread has written itself.                                      *)

Works(t) == pc[t] \notin {"idle", "begin"}
On(t, s, c) == Works(t) /\ server(t) = s /\ command(t).customer = c

Book(s, c, k) == IF m_data[s][c] = Null THEN 0 ELSE m_data[s][c][k]
Plus(obj, k) == [obj EXCEPT ![k] = @ + 1]

CloneOf(t) ==
    LET s == server(t)
        c == command(t).customer
    IN  Works(t) /\ c \in Customer /\ <<s, c>> \notin raced =>
          CASE command(t).name = "newCustomer" -> \A k \in Item : Book(s, c, k) = 0
            [] command(t).name = "reserve" /\ pc[t] = "writeItem" ->
                  m_data[s][c] = Plus(customer[t], command(t).item)
            [] OTHER -> m_data[s][c] = customer[t]

ItemCloneOf(t) ==
    Works(t) /\ key[t] # Null /\ <<server(t), key[t]>> \notin raced =>
        item[t] = m_data[server(t)][key[t]]

(* Where a thread is in its command.                                        *)
Working(t) ==
    /\ todo[t] # <<>>
    /\ command(t).name # "makeUpCustomer"
    /\ command(t).name = "add" => pc[t] = "writeItem"
    /\ command(t).name = "delete" =>
          pc[t] = "remove" /\ item[t] # Null /\ item[t].reserved = 0
    /\ command(t).name = "newCustomer" => pc[t] = "writeCustomer"
    /\ command(t).name = "reserve" =>
          pc[t] # "remove" /\ (pc[t] # "readItem" => key[t] = command(t).item)
    /\ command(t).name = "deleteCustomer" =>
          /\ pc[t] # "writeCustomer"
          /\ customer[t] # Null
          /\ \A k \in left[t] : customer[t][k] > 0
          /\ pc[t] = "writeItem" => /\ key[t] \in Item \ left[t]
                                    /\ customer[t][key[t]] > 0
          /\ pc[t] # "writeItem" => key[t] = Null
          /\ pc[t] = "remove" => left[t] = {}

Progress(t) == IF Works(t) THEN Working(t) ELSE key[t] = Null

Clones == \A t \in Client : CloneOf(t) /\ ItemCloneOf(t)

LEMMA OthersStay ==
    ASSUME Locals, NEW t \in Client, Invoke(t) \/ Unreachable(t) \/ Step(t),
           NEW u \in Client \ {t}
    PROVE  /\ todo'[u] = todo[u] /\ pc'[u] = pc[u] /\ customer'[u] = customer[u]
           /\ item'[u] = item[u] /\ key'[u] = key[u] /\ left'[u] = left[u]
<1> USE DEF Locals, Goto
<1>1. ASSUME NEW b, Answer(t, b) \/ Throw(t)
      PROVE  /\ todo'[u] = todo[u] /\ pc'[u] = pc[u] /\ customer'[u] = customer[u]
             /\ item'[u] = item[u] /\ key'[u] = key[u] /\ left'[u] = left[u]
  BY <1>1 DEF Answer, Throw
<1>2. CASE Invoke(t)
  BY <1>2 DEF Invoke, locals
<1>3. CASE \/ Unreachable(t) \/ WriteAdded(t) \/ RemoveItem(t) \/ MakeUpCustomer(t)
           \/ WriteReserved(t) \/ RemoveCustomer(t)
  BY <1>1, <1>3 DEF Unreachable, WriteAdded, RemoveItem, MakeUpCustomer,
                    WriteReserved, RemoveCustomer
<1>4. CASE BeginItem(t)
  BY <1>1, <1>4 DEF BeginItem
<1>5. CASE BeginCustomer(t)
  BY <1>1, <1>5 DEF BeginCustomer
<1>6. CASE WriteCustomer(t)
  BY <1>1, <1>6 DEF WriteCustomer, locals
<1>7. CASE ReadReserved(t)
  BY <1>1, <1>7 DEF ReadReserved
<1>8. CASE ReadGivenBack(t)
  BY <1>1, <1>8 DEF ReadGivenBack
<1>9. CASE WriteGivenBack(t)
  BY <1>9 DEF WriteGivenBack
<1> QED BY <1>2, <1>3, <1>4, <1>5, <1>6, <1>7, <1>8, <1>9 DEF Step

(* A step leaves the thread between two commands, or goes on in its command. *)
LEMMA StepEnds ==
    ASSUME Locals, NEW t \in Client, Invoke(t) \/ Unreachable(t) \/ Step(t)
    PROVE  \/ ~Works(t)'
           \/ /\ UNCHANGED <<todo, split>> /\ ~Invoke(t) /\ ~Unreachable(t)
              /\ todo[t] # <<>>
              /\ \/ BeginItem(t) \/ BeginCustomer(t)
                 \/ WriteCustomer(t) /\ command(t).name = "reserve"
                 \/ ReadReserved(t) \/ ReadGivenBack(t) \/ WriteGivenBack(t)
              /\ \A b : ~Answer(t, b)
              /\ ~Throw(t)
<1> USE DEF Locals, Goto, Works
<1>0. Place(t)
  OBVIOUS
<1>1. ASSUME NEW b, Answer(t, b) \/ Throw(t)
      PROVE  ~Works(t)'
  BY <1>1 DEF Answer, Throw
<1>2. CASE Invoke(t)
  BY <1>2 DEF Invoke, locals
<1>3. CASE \/ Unreachable(t) \/ WriteAdded(t) \/ RemoveItem(t) \/ MakeUpCustomer(t)
           \/ WriteReserved(t) \/ RemoveCustomer(t)
  BY <1>1, <1>3 DEF Unreachable, WriteAdded, RemoveItem, MakeUpCustomer,
                    WriteReserved, RemoveCustomer
<1>4. ASSUME Works(t)', ~Invoke(t), ~Unreachable(t)
      PROVE  /\ UNCHANGED <<todo, split>> /\ todo[t] # <<>>
             /\ \/ BeginItem(t) \/ BeginCustomer(t)
                \/ WriteCustomer(t) /\ command(t).name = "reserve"
                \/ ReadReserved(t) \/ ReadGivenBack(t) \/ WriteGivenBack(t)
  <2>1. CASE BeginItem(t)
    BY <1>1, <1>4, <2>1 DEF BeginItem, Runs
  <2>2. CASE BeginCustomer(t)
    BY <1>1, <1>4, <2>2 DEF BeginCustomer, Runs
  <2>3. CASE WriteCustomer(t)
    BY <1>0, <1>1, <1>4, <2>3 DEF WriteCustomer, Place
  <2>4. CASE ReadReserved(t)
    BY <1>1, <1>4, <2>4 DEF ReadReserved, Runs
  <2>5. CASE ReadGivenBack(t)
    BY <1>1, <1>4, <2>5 DEF ReadGivenBack, Runs
  <2>6. CASE WriteGivenBack(t)
    BY <1>1, <1>4, <2>6 DEF WriteGivenBack, Runs
  <2> QED BY <1>3, <1>4, <2>1, <2>2, <2>3, <2>4, <2>5, <2>6 DEF Step
<1> QED BY <1>1, <1>2, <1>3, <1>4

LEMMA CommandType ==
    ASSUME Locals, NEW t \in Client, todo[t] # <<>>
    PROVE  /\ server(t) \in Server
           /\ command(t).name \in OnItems =>
                 command(t).item \in Item /\ command(t).customer = Null
           /\ command(t).name \in OnCustomers =>
                 command(t).item = Null /\ command(t).customer \in Customer
           /\ command(t).name = "reserve" =>
                 command(t).item \in Item /\ command(t).customer \in Customer
           /\ command(t).name \in OnItems \cup OnCustomers \cup {"reserve"}
<1>1. command(t) \in Commands
  BY HeadAndTail DEF Locals, command
<1> QED BY <1>1 DEF server, Commands, ItemCommands, CustomerCommands, Reservations,
                     OnItems, OnCustomers

LEMMA WorkingNext ==
    ASSUME Memory, Locals, NEW t \in Client, Progress(t),
           Invoke(t) \/ Unreachable(t) \/ Step(t), Works(t)'
    PROVE  Working(t)'
<1>1. /\ UNCHANGED <<todo, split>> /\ todo[t] # <<>>
      /\ \A b : ~Answer(t, b)
      /\ ~Throw(t)
      /\ \/ BeginItem(t) \/ BeginCustomer(t)
         \/ WriteCustomer(t) /\ command(t).name = "reserve"
         \/ ReadReserved(t) \/ ReadGivenBack(t) \/ WriteGivenBack(t)
  BY StepEnds
<1>2. Place(t) /\ command(t)' = command(t) /\ server(t)' = server(t)
  BY <1>1 DEF Locals, command, server
<1> USE DEF Locals, Goto, Works, Working, Progress
<1>3. CASE BeginItem(t)
  <2>1. /\ command(t).name = "add" \/ CanDelete(m_data[server(t)][command(t).item])
        /\ item'[t] = m_data[server(t)][command(t).item]
        /\ pc'[t] = IF command(t).name = "add" THEN "writeItem" ELSE "remove"
        /\ command(t).name \in {"add", "delete"}
    BY <1>1, <1>3 DEF BeginItem, Runs
  <2> QED BY <1>1, <1>2, <2>1 DEF CanDelete
<1>4. CASE BeginCustomer(t)
  <2> DEFINE obj == m_data[server(t)][command(t).customer]
             name == command(t).name
             given == IF name = "deleteCustomer" THEN {k \in Item : obj[k] > 0}
                      ELSE {}
  <2>1. /\ name \in {"reserve", "newCustomer", "deleteCustomer"}
        /\ (obj = Null) = (name = "newCustomer")
        /\ customer'[t] = obj
        /\ left' = [left EXCEPT ![t] = given]
        /\ pc[t] = "begin"
        /\ UNCHANGED <<item, key>>
    BY <1>1, <1>4 DEF BeginCustomer, Runs
  <2>2. left'[t] = given
    BY <2>1
  <2>3. pc'[t] = CASE name = "reserve" -> "readItem"
                   [] name = "newCustomer" -> "writeCustomer"
                   [] OTHER -> IF given = {} THEN "remove" ELSE "readItem"
    BY <1>1, <1>4, <2>2 DEF BeginCustomer, Runs
  <2>4. key'[t] = Null
    BY <1>2, <2>1
  <2>5. name = "deleteCustomer" =>
           pc'[t] = (IF given = {} THEN "remove" ELSE "readItem")
    BY <2>3
  <2>6. name = command(t).name
    OBVIOUS
  <2>7. name = "deleteCustomer" => \A k \in given : obj[k] > 0
    OBVIOUS
  <2> HIDE DEF obj, name, given
  <2> QED BY <1>1, <1>2, <2>1, <2>2, <2>3, <2>4, <2>5, <2>6, <2>7
<1>5. CASE WriteCustomer(t) /\ command(t).name = "reserve"
  BY <1>1, <1>2, <1>5 DEF WriteCustomer, locals
<1>6. CASE ReadReserved(t)
  BY <1>1, <1>2, <1>6 DEF ReadReserved, Runs
<1>7. CASE ReadGivenBack(t)
  <2>1. /\ \E k \in left[t] : /\ key' = [key EXCEPT ![t] = k]
                              /\ left' = [left EXCEPT ![t] = @ \ {k}]
        /\ UNCHANGED customer
        /\ pc'[t] = "writeItem"
        /\ pc[t] = "readItem" /\ command(t).name = "deleteCustomer"
    BY <1>1, <1>7 DEF ReadGivenBack, Runs
  <2> QED BY <1>1, <1>2, <2>1
<1>8. CASE WriteGivenBack(t)
  BY <1>1, <1>2, <1>8 DEF WriteGivenBack, Runs
<1> QED BY <1>1, <1>3, <1>4, <1>5, <1>6, <1>7, <1>8

LEMMA ProgressNext ==
    ASSUME Memory, Locals, \A u \in Client : Progress(u), NEW t \in Client,
           Invoke(t) \/ Unreachable(t) \/ Step(t)
    PROVE  \A u \in Client : Progress(u)'
<1>1. ASSUME NEW u \in Client \ {t} PROVE Progress(u)'
  <2>1. /\ todo'[u] = todo[u] /\ pc'[u] = pc[u] /\ customer'[u] = customer[u]
        /\ item'[u] = item[u] /\ key'[u] = key[u] /\ left'[u] = left[u]
    BY OthersStay
  <2>2. Progress(u)
    OBVIOUS
  <2> QED BY <2>1, <2>2 DEF Progress, Works, Working, command
<1>2. CASE Works(t)'
  BY <1>1, <1>2, WorkingNext DEF Progress
<1>3. ASSUME ~Works(t)' PROVE key'[t] = Null
  <2> USE DEF Locals, Goto, Works
  <2>0. pc'[t] \in {"idle", "begin"} /\ Progress(t)
    BY <1>3
  <2>1. CASE \/ Unreachable(t) \/ WriteAdded(t) \/ RemoveItem(t) \/ MakeUpCustomer(t)
             \/ WriteReserved(t) \/ RemoveCustomer(t)
    BY <2>1 DEF Unreachable, WriteAdded, RemoveItem, MakeUpCustomer,
                WriteReserved, RemoveCustomer, Answer, Throw
  <2>2. CASE Invoke(t)
    BY <2>0, <2>2 DEF Invoke, locals, Progress
  <2>3. CASE BeginItem(t)
    BY <2>0, <2>3 DEF BeginItem, Answer
  <2>4. CASE BeginCustomer(t)
    <3>1. CASE Answer(t, FALSE)
      BY <3>1 DEF Answer
    <3>2. CASE ~Answer(t, FALSE)
      <4>1. PICK l \in {"readItem", "writeCustomer", "remove"} :
               pc' = [pc EXCEPT ![t] = l]
        <5>1. command(t).name \in {"reserve", "newCustomer", "deleteCustomer"}
          BY <2>4 DEF BeginCustomer, Runs
        <5>2. CASE command(t).name = "reserve"
          BY <2>4, <3>2, <5>2 DEF BeginCustomer
        <5>3. CASE command(t).name = "newCustomer"
          BY <2>4, <3>2, <5>3 DEF BeginCustomer
        <5>4. CASE command(t).name = "deleteCustomer"
          BY <2>4, <3>2, <5>4 DEF BeginCustomer
        <5> QED BY <5>1, <5>2, <5>3, <5>4
      <4> QED BY <2>0, <4>1
    <3> QED BY <3>1, <3>2
  <2>5. CASE WriteCustomer(t)
    BY <2>0, <2>5 DEF WriteCustomer, Answer
  <2>6. CASE ReadReserved(t)
    BY <2>0, <2>6 DEF ReadReserved, Answer
  <2>7. CASE ReadGivenBack(t)
    BY <2>0, <2>7 DEF ReadGivenBack, Throw
  <2>8. CASE WriteGivenBack(t)
    BY <2>0, <2>8 DEF WriteGivenBack
  <2> QED BY <2>1, <2>2, <2>3, <2>4, <2>5, <2>6, <2>7, <2>8 DEF Step
<1>4. Progress(t)'
  BY <1>2, <1>3, WorkingNext DEF Progress
<1> QED BY <1>1, <1>4

(* An object that t does not use is not written by t, unless t makes it up. *)
MakesUp(t, r, j) == MakeUpCustomer(t) /\ r = "Flight" /\ j = command(t).customer

LEMMA UsesObject ==
    ASSUME NEW t \in Client, NEW r, NEW j \in Key
    PROVE  <<r, j>> \in Uses(t) <=>
              Works(t) /\ r = server(t) /\ j \in {command(t).customer, key[t]}
BY DEF Uses, Works

LEMMA Untouched ==
    ASSUME Memory, Locals, NEW t \in Client,
           Invoke(t) \/ Unreachable(t) \/ Step(t),
           NEW r \in Server, NEW j \in Key,
           <<r, j>> \notin Uses(t), ~MakesUp(t, r, j)
    PROVE  m_data'[r][j] = m_data[r][j]
<1>1. CASE UNCHANGED m_data
  BY <1>1
<1>2. ASSUME NEW s \in Server, NEW k \in Key, NEW obj \in Object, Put(s, k, obj),
             ~(s = r /\ k = j)
      PROVE  m_data'[r][j] = m_data[r][j]
  BY <1>2, PutValue
<1>3. ~(Works(t) /\ r = server(t) /\ j \in {command(t).customer, key[t]})
  BY UsesObject
<1>4. ASSUME Works(t), NEW k \in {command(t).customer, key[t]}, k \in Key,
             NEW obj \in Object, Put(server(t), k, obj)
      PROVE  m_data'[r][j] = m_data[r][j]
  <2>1. todo[t] # <<>>
    BY <1>4 DEF Works, Locals, Place
  <2>2. server(t) \in Server
    BY <2>1, CommandType
  <2> QED BY <1>2, <1>3, <1>4, <2>2
<1>5. /\ CustomerObject \cup ItemObject \cup {Null} \subseteq Object
      /\ Item \cup Customer \subseteq Key
  BY DEF Object, Key
<1>6. [k \in Item |-> 0] \in CustomerObject /\ "Flight" \in Server
  BY DEF CustomerObject, Server
<1>7. todo[t] # <<>> => /\ command(t).name \in OnCustomers => command(t).customer \in Customer
                        /\ command(t).name = "reserve" => /\ command(t).item \in Item
                                                          /\ command(t).customer \in Customer
  BY CommandType
<1>8. Place(t)
  BY DEF Locals
<1>9. CASE \/ Invoke(t) \/ Unreachable(t) \/ BeginItem(t) \/ BeginCustomer(t)
           \/ ReadReserved(t) \/ ReadGivenBack(t)
  BY <1>1, <1>9 DEF Invoke, Unreachable, BeginItem, BeginCustomer, ReadReserved,
                    ReadGivenBack
<1>10. CASE WriteAdded(t)
  <2> DEFINE obj == IF item[t] = Null THEN [count |-> 1, reserved |-> 0]
                    ELSE [item[t] EXCEPT !.count = @ + 1]
  <2>1. Works(t) /\ key[t] \in Item /\ Put(server(t), key[t], obj)
    BY <1>8, <1>10 DEF WriteAdded, Runs, Works, Place, NeedsKey
  <2>2. item[t] \in ItemObject \cup {Null}
    BY DEF Locals
  <2>3. obj \in ItemObject
    <3>1. CASE item[t] = Null
      BY <3>1 DEF ItemObject
    <3>2. CASE item[t] # Null
      BY <2>2, <3>2 DEF ItemObject
    <3> QED BY <3>1, <3>2
  <2> HIDE DEF obj
  <2> QED BY <1>4, <1>5, <2>1, <2>3
<1>11. CASE RemoveItem(t)
  <2>1. Works(t) /\ key[t] \in Item /\ Put(server(t), key[t], Null)
    BY <1>8, <1>11 DEF RemoveItem, Runs, Works, Place, NeedsKey
  <2> QED BY <1>4, <1>5, <2>1
<1>12. CASE MakeUpCustomer(t)
  <2>1. /\ todo[t] # <<>> /\ command(t).name \in OnCustomers
        /\ Put("Flight", command(t).customer, [k \in Item |-> 0])
    BY <1>12 DEF MakeUpCustomer, Runs, OnCustomers
  <2> QED BY <1>2, <1>5, <1>6, <1>7, <1>12, <2>1 DEF MakesUp
<1>13. CASE WriteCustomer(t)
  <2>1. Works(t) /\ todo[t] # <<>>
    BY <1>8, <1>13 DEF WriteCustomer, Works, Place
  <2>2. CASE command(t).name = "newCustomer"
    <3>1. Put(server(t), command(t).customer, [k \in Item |-> 0])
      BY <1>13, <2>2 DEF WriteCustomer
    <3> QED BY <1>4, <1>5, <1>6, <1>7, <2>1, <2>2, <3>1 DEF OnCustomers
  <2>3. CASE command(t).name = "reserve"
    <3> DEFINE obj == Plus(customer[t], command(t).item)
    <3>1. Put(server(t), command(t).customer, obj)
      BY <1>13, <2>3 DEF WriteCustomer, Plus
    <3>2. customer[t] \in CustomerObject
      BY <1>8, <1>13, <2>1, <2>3 DEF Place, NeedsCustomer, Locals, WriteCustomer
    <3>3. obj \in CustomerObject
      BY <1>7, <2>1, <2>3, <3>2 DEF CustomerObject, Plus
    <3> HIDE DEF obj
    <3> QED BY <1>4, <1>5, <1>7, <2>1, <2>3, <3>1, <3>3
  <2> QED BY <1>13, <2>2, <2>3 DEF WriteCustomer
<1>14. CASE WriteReserved(t)
  <2> DEFINE obj == [count |-> item[t].count - 1, reserved |-> item[t].reserved + 1]
  <2>1. /\ Works(t) /\ Put(server(t), key[t], obj)
        /\ item[t] \in ItemObject /\ item[t].count > 0 /\ key[t] \in Item
    BY <1>8, <1>14 DEF WriteReserved, Runs, Works, Place, NeedsKey, NeedsItem,
                       NeedsSeat, Locals
  <2>2. obj \in ItemObject
    BY <2>1 DEF ItemObject
  <2> HIDE DEF obj
  <2> QED BY <1>4, <1>5, <2>1, <2>2
<1>15. CASE WriteGivenBack(t)
  <2> DEFINE n == customer[t][key[t]]
             obj == GiveBack(item[t], n)
  <2>1. /\ Works(t) /\ Put(server(t), key[t], obj)
        /\ item[t] \in ItemObject /\ key[t] \in Item
        /\ customer[t] \in CustomerObject
    BY <1>8, <1>15 DEF WriteGivenBack, Runs, Works, Place, NeedsKey, NeedsItem,
                       NeedsCustomer, Locals
  <2>2. n \in Nat
    BY <2>1 DEF CustomerObject
  <2> HIDE DEF n
  <2>3. obj \in ItemObject
    BY <2>1, <2>2 DEF ItemObject, GiveBack
  <2> HIDE DEF obj
  <2> QED BY <1>4, <1>5, <2>1, <2>3
<1>16. CASE RemoveCustomer(t)
  <2>1. /\ Works(t) /\ todo[t] # <<>> /\ command(t).name \in OnCustomers
        /\ Put(server(t), command(t).customer, Null)
    BY <1>16 DEF RemoveCustomer, Runs, Works, OnCustomers
  <2> QED BY <1>4, <1>5, <1>7, <2>1
<1> QED BY <1>9, <1>10, <1>11, <1>12, <1>13, <1>14, <1>15, <1>16 DEF Step

LEMMA ObjectsAreNotNull == Null \notin ItemObject /\ Null \notin CustomerObject /\ Null \notin Key
BY NullAssumption DEF ItemObject, CustomerObject

LEMMA RacesGrow ==
    ASSUME NEW t \in Client, Races(t)
    PROVE  /\ raced \subseteq raced'
           /\ \A u \in Client \ {t} : \A o \in Uses(u) :
                 o \in Uses(t) \cup Uses(t)' => o \in raced'
           /\ \A c \in Customer : /\ MakeUpCustomer(t) /\ command(t).customer = c
                                  /\ <<"Flight", c>> \notin raced'
                                  => m_data["Flight"][c] = Null
BY DEF Races, Overwritten, MakeUpCustomer

(* An object that another thread uses stays, unless there is a race; or it  *)
(* is missing and made up.                                                  *)
LEMMA UsedStays ==
    ASSUME Memory, Locals, NEW t \in Client,
           Invoke(t) \/ Unreachable(t) \/ Step(t), Races(t),
           NEW u \in Client \ {t}, NEW r \in Server, NEW j \in Key,
           <<r, j>> \in Uses(u), <<r, j>> \notin raced'
    PROVE  \/ m_data'[r][j] = m_data[r][j]
           \/ /\ j \in Customer
              /\ m_data[r][j] = Null
              /\ m_data'[r][j] = [k \in Item |-> 0]
<1>1. <<r, j>> \notin Uses(t)
  BY RacesGrow
<1>2. CASE ~MakesUp(t, r, j)
  BY <1>1, <1>2, Untouched
<1>3. CASE MakesUp(t, r, j)
  <2>1. /\ todo[t] # <<>> /\ command(t).name \in OnCustomers
        /\ Put(r, j, [k \in Item |-> 0])
    BY <1>3 DEF MakesUp, MakeUpCustomer, Runs, OnCustomers
  <2>2. j \in Customer
    BY <1>3, <2>1, CommandType DEF MakesUp
  <2>3. m_data[r][j] = Null
    BY <1>3, <2>2, RacesGrow DEF MakesUp
  <2>4. [k \in Item |-> 0] \in Object
    BY DEF Object, CustomerObject
  <2>5. m_data'[r][j] = [k \in Item |-> 0]
    BY <2>1, <2>4, PutValue
  <2> QED BY <2>2, <2>3, <2>5
<1> QED BY <1>2, <1>3

LEMMA PlusType ==
    ASSUME NEW obj \in CustomerObject, NEW k \in Item
    PROVE  /\ Plus(obj, k) \in CustomerObject
           /\ \A j \in Item : Plus(obj, k)[j] = IF j = k THEN obj[j] + 1 ELSE obj[j]
BY DEF Plus, CustomerObject

LEMMA ClonesOfOthers ==
    ASSUME Memory, Locals, NEW t \in Client,
           Invoke(t) \/ Unreachable(t) \/ Step(t), Races(t),
           NEW u \in Client \ {t}, Progress(u), CloneOf(u), ItemCloneOf(u)
    PROVE  CloneOf(u)' /\ ItemCloneOf(u)'
<1> DEFINE s == server(u)
           c == command(u).customer
           name == command(u).name
<1>1. /\ todo'[u] = todo[u] /\ pc'[u] = pc[u] /\ customer'[u] = customer[u]
      /\ item'[u] = item[u] /\ key'[u] = key[u]
  BY OthersStay
<1>2. /\ (Works(u)' <=> Works(u)) /\ command(u)' = command(u) /\ server(u)' = s
  BY <1>1 DEF Works, command, server
<1>3. raced \subseteq raced'
  BY RacesGrow
<1>4. Works(u) => s \in Server /\ todo[u] # <<>>
  <2>1. Works(u) => todo[u] # <<>>
    BY DEF Progress, Working
  <2> QED BY <2>1, CommandType
<1>5. ASSUME Works(u), key[u] # Null, <<s, key[u]>> \notin raced'
      PROVE  item[u] = m_data'[s][key[u]]
  <2>1. key[u] \in Item /\ key[u] \in Key /\ key[u] \notin Customer
    BY <1>5, KeyAssumption DEF Locals, Key
  <2>2. item[u] = m_data[s][key[u]]
    BY <1>3, <1>5 DEF ItemCloneOf
  <2>3. <<s, key[u]>> \in Uses(u)
    BY <1>5, <2>1, UsesObject
  <2> HIDE DEF s
  <2> QED BY <1>4, <1>5, <2>1, <2>2, <2>3, UsedStays
<1>6. ASSUME Works(u), c \in Customer, <<s, c>> \notin raced'
      PROVE  CASE name = "newCustomer" -> \A k \in Item : Book(s, c, k)' = 0
               [] name = "reserve" /\ pc[u] = "writeItem" ->
                    m_data'[s][c] = Plus(customer[u], command(u).item)
               [] OTHER -> m_data'[s][c] = customer[u]
  <2>0. /\ name \in OnItems \cup OnCustomers \cup {"reserve"}
        /\ name \in OnItems => c = Null
        /\ name = "reserve" => command(u).item \in Item
    BY <1>4, <1>6, CommandType
  <2>1. name \in {"newCustomer", "reserve", "deleteCustomer"}
    BY <1>6, <2>0, ObjectsAreNotNull DEF Progress, Working, OnCustomers, OnItems, Key
  <2>2. c \in Key
    BY <1>6 DEF Key
  <2>3. <<s, c>> \in Uses(u)
    BY <1>6, <2>2, UsesObject
  <2>4. \/ m_data'[s][c] = m_data[s][c]
        \/ m_data[s][c] = Null /\ m_data'[s][c] = [k \in Item |-> 0]
    <3> HIDE DEF s, c
    <3> QED BY <1>4, <1>6, <2>2, <2>3, UsedStays
  <2>5. CASE name = "newCustomer"
    <3>1. \A k \in Item : Book(s, c, k) = 0
      BY <1>3, <1>6, <2>5 DEF CloneOf
    <3>2. \A k \in Item : Book(s, c, k)' = 0
      <4> HIDE DEF s, c
      <4>1. \A k \in Item : [j \in Item |-> 0][k] = 0
        OBVIOUS
      <4> QED BY <1>2, <2>4, <3>1, <4>1 DEF Book, s, c
    <3> QED BY <2>5, <3>2
  <2>6. CASE name \in {"reserve", "deleteCustomer"}
    <3>1. customer[u] \in CustomerObject
      <4>1. customer[u] # Null
        BY <1>6, <2>6 DEF Progress, Working, Locals, Place, NeedsCustomer, Works, Label
      <4> QED BY <4>1 DEF Locals
    <3>2. CASE name = "reserve" /\ pc[u] = "writeItem"
      <4>1. m_data[s][c] = Plus(customer[u], command(u).item)
        BY <1>3, <1>6, <3>2 DEF CloneOf
      <4>2. m_data[s][c] # Null
        BY <2>0, <3>1, <3>2, <4>1, PlusType, ObjectsAreNotNull
      <4> QED BY <2>4, <3>2, <4>1, <4>2
    <3>3. CASE ~(name = "reserve" /\ pc[u] = "writeItem")
      <4>1. m_data[s][c] = customer[u]
        BY <1>3, <1>6, <2>6, <3>3 DEF CloneOf
      <4>2. m_data[s][c] # Null
        BY <3>1, <4>1, ObjectsAreNotNull
      <4> QED BY <2>4, <2>6, <3>3, <4>1, <4>2
    <3> QED BY <3>2, <3>3
  <2> QED BY <2>1, <2>5, <2>6
<1>7. ItemCloneOf(u)'
  BY <1>1, <1>2, <1>5 DEF ItemCloneOf
<1>8. CloneOf(u)'
  BY <1>1, <1>2, <1>6 DEF CloneOf
<1> QED BY <1>7, <1>8

LEMMA ClonesOfOwn ==
    ASSUME Memory, Locals, NEW t \in Client,
           Invoke(t) \/ Unreachable(t) \/ Step(t), Races(t),
           Progress(t), CloneOf(t), ItemCloneOf(t), Works(t)'
    PROVE  CloneOf(t)' /\ ItemCloneOf(t)'
<1> DEFINE s == server(t)
           c == command(t).customer
           name == command(t).name
<1>1. /\ UNCHANGED <<todo, split>> /\ todo[t] # <<>>
      /\ \A b : ~Answer(t, b)
      /\ ~Throw(t)
      /\ \/ BeginItem(t) \/ BeginCustomer(t)
         \/ WriteCustomer(t) /\ name = "reserve"
         \/ ReadReserved(t) \/ ReadGivenBack(t) \/ WriteGivenBack(t)
  BY StepEnds
<1>2. Place(t) /\ command(t)' = command(t) /\ server(t)' = s
  BY <1>1 DEF Locals, command, server
<1>3. raced \subseteq raced'
  BY RacesGrow
<1>4. /\ s \in Server
      /\ name \in OnItems => command(t).item \in Item /\ c = Null
      /\ name = "reserve" => command(t).item \in Item /\ c \in Customer
  BY <1>1, CommandType
<1>5. Null \notin Customer /\ \A k \in Item : k \notin Customer /\ k # Null
  BY ObjectsAreNotNull, KeyAssumption DEF Key
<1> DEFINE Own == IF name = "reserve" /\ pc'[t] = "writeItem"
                  THEN m_data'[s][c] = Plus(customer'[t], command(t).item)
                  ELSE m_data'[s][c] = customer'[t]
<1>6. ASSUME c \in Customer /\ <<s, c>> \notin raced' =>
                IF name = "newCustomer" THEN \A k \in Item : Book(s, c, k)' = 0
                ELSE Own
      PROVE  CloneOf(t)'
  <2>1. ASSUME NEW k PROVE Book(server(t), command(t).customer, k)' = Book(s, c, k)'
    BY <1>2
  <2>2. CASE name = "newCustomer"
    BY <1>2, <1>6, <2>1, <2>2 DEF CloneOf
  <2>3. CASE name # "newCustomer"
    BY <1>2, <1>6, <2>3 DEF CloneOf
  <2> QED BY <2>2, <2>3
<1>7. ASSUME /\ c \in Customer /\ <<s, c>> \notin raced => m_data[s][c] = customer[t]
             /\ c \in Customer => m_data'[s][c] = m_data[s][c]
             /\ customer'[t] = customer[t]
             /\ name = "reserve" => pc'[t] # "writeItem"
             /\ name # "newCustomer"
      PROVE  CloneOf(t)'
  BY <1>3, <1>6, <1>7
<1>8. ASSUME key'[t] # Null /\ <<s, key'[t]>> \notin raced' =>
                item'[t] = m_data'[s][key'[t]]
      PROVE  ItemCloneOf(t)'
  BY <1>2, <1>8 DEF ItemCloneOf
<1> USE DEF Locals, Goto, Works
<1>9. CASE BeginItem(t)
  <2>1. /\ item'[t] = m_data[s][command(t).item]
        /\ key'[t] = command(t).item
        /\ UNCHANGED m_data
        /\ name \in OnItems
    BY <1>1, <1>9 DEF BeginItem, Runs, OnItems
  <2> QED BY <1>4, <1>5, <1>6, <1>8, <2>1
<1>10. CASE BeginCustomer(t)
  <2>1. /\ name \in {"reserve", "newCustomer", "deleteCustomer"}
        /\ (m_data[s][c] = Null) = (name = "newCustomer")
        /\ customer'[t] = m_data[s][c]
        /\ UNCHANGED <<m_data, key>>
        /\ pc[t] = "begin"
    BY <1>1, <1>10 DEF BeginCustomer, Runs
  <2>2. key'[t] = Null
    BY <2>1 DEF Progress
  <2>3. pc'[t] # "writeItem"
    <3>1. CASE name = "reserve"
      BY <1>1, <1>10, <3>1 DEF BeginCustomer
    <3>2. CASE name = "newCustomer"
      BY <1>1, <1>10, <3>2 DEF BeginCustomer
    <3>3. CASE name = "deleteCustomer"
      BY <1>1, <1>10, <3>3 DEF BeginCustomer
    <3> QED BY <2>1, <3>1, <3>2, <3>3
  <2>4. CASE name = "newCustomer"
    <3>1. m_data'[s][c] = Null
      BY <2>1, <2>4
    <3>2. \A k \in Item : Book(s, c, k)' = 0
      BY <1>2, <3>1 DEF Book
    <3> QED BY <1>6, <1>8, <2>2, <2>4, <3>2
  <2>5. CASE name # "newCustomer"
    BY <1>6, <1>8, <2>1, <2>2, <2>3, <2>5
  <2> QED BY <2>4, <2>5
<1>11. CASE WriteCustomer(t) /\ name = "reserve"
  <2>1. /\ pc[t] = "writeCustomer" /\ pc'[t] = "writeItem"
        /\ Put(s, c, Plus(customer[t], command(t).item))
        /\ UNCHANGED <<customer, item, key>>
    BY <1>1, <1>11 DEF WriteCustomer, Plus, locals
  <2>2. customer[t] \in CustomerObject
    BY <1>2, <1>11, <2>1 DEF Place, NeedsCustomer
  <2>3. Plus(customer[t], command(t).item) \in Object /\ c \in Key
    BY <1>4, <1>11, <2>2, PlusType DEF Object, Key
  <2>4. \A j \in Key : m_data'[s][j] = IF j = c THEN Plus(customer[t], command(t).item)
                                       ELSE m_data[s][j]
    <3> HIDE DEF s, c
    <3> QED BY <1>4, <2>1, <2>3, PutValue
  <2>5. CloneOf(t)'
    BY <1>6, <1>11, <2>1, <2>3, <2>4
  <2>6. key[t] # Null => key[t] \in Key /\ key[t] # c
    BY <1>4, <1>5, <1>11 DEF Key
  <2>7. ItemCloneOf(t)'
    BY <1>3, <1>8, <2>1, <2>4, <2>6 DEF ItemCloneOf
  <2> QED BY <2>5, <2>7
<1>12. CASE ReadReserved(t)
  <2>1. /\ pc[t] = "readItem" /\ pc'[t] = "writeCustomer" /\ name = "reserve"
        /\ item'[t] = m_data[s][command(t).item]
        /\ key'[t] = command(t).item
        /\ UNCHANGED <<m_data, customer>>
    BY <1>1, <1>12 DEF ReadReserved, Runs
  <2>2. c \in Customer /\ <<s, c>> \notin raced => m_data[s][c] = customer[t]
    BY <2>1 DEF CloneOf
  <2> QED BY <1>7, <1>8, <2>1, <2>2
<1>13. CASE ReadGivenBack(t)
  <2>1. /\ pc[t] = "readItem" /\ name = "deleteCustomer"
        /\ \E k \in left[t] : item'[t] = m_data[s][k] /\ key'[t] = k
        /\ UNCHANGED <<m_data, customer>>
    BY <1>1, <1>13 DEF ReadGivenBack, Runs
  <2>2. c \in Customer /\ <<s, c>> \notin raced => m_data[s][c] = customer[t]
    BY <2>1 DEF CloneOf
  <2> QED BY <1>7, <1>8, <2>1, <2>2
<1>14. CASE WriteGivenBack(t)
  <2> DEFINE n == customer[t][key[t]]
             obj == GiveBack(item[t], n)
  <2>1. /\ pc[t] = "writeItem" /\ name = "deleteCustomer"
        /\ Put(s, key[t], obj)
        /\ key'[t] = Null
        /\ UNCHANGED customer
    BY <1>1, <1>14 DEF WriteGivenBack, Runs
  <2>2. c \in Customer /\ <<s, c>> \notin raced => m_data[s][c] = customer[t]
    BY <2>1 DEF CloneOf
  <2>3. item[t] \in ItemObject /\ key[t] \in Item /\ customer[t] \in CustomerObject
    BY <1>2, <2>1 DEF Place, NeedsKey, NeedsItem, NeedsCustomer
  <2>4. n \in Nat
    BY <2>3 DEF CustomerObject
  <2> HIDE DEF n
  <2>5. obj \in ItemObject
    BY <2>3, <2>4 DEF ItemObject, GiveBack
  <2> HIDE DEF obj
  <2>6. obj \in Object /\ key[t] \in Key
    BY <2>3, <2>5 DEF Object, Key
  <2>7. \A j \in Key : j # key[t] => m_data'[s][j] = m_data[s][j]
    <3> HIDE DEF s
    <3> QED BY <1>4, <2>1, <2>6, PutValue
  <2>8. c \in Customer => m_data'[s][c] = m_data[s][c]
    BY <1>5, <2>3, <2>7 DEF Key
  <2> QED BY <1>7, <1>8, <2>1, <2>2, <2>8
<1> QED BY <1>1, <1>9, <1>10, <1>11, <1>12, <1>13, <1>14

LEMMA ClonesNext ==
    ASSUME Memory, Locals, \A u \in Client : Progress(u), Clones,
           NEW t \in Client, Invoke(t) \/ Unreachable(t) \/ Step(t), Races(t)
    PROVE  Clones'
<1>1. ASSUME NEW u \in Client \ {t} PROVE CloneOf(u)' /\ ItemCloneOf(u)'
  BY ClonesOfOthers DEF Clones
<1>2. CASE Works(t)'
  BY <1>1, <1>2, ClonesOfOwn DEF Clones
<1>3. CASE ~Works(t)'
  <2>1. CloneOf(t)' /\ ItemCloneOf(t)'
    BY <1>3 DEF CloneOf, ItemCloneOf
  <2> QED BY <1>1, <2>1 DEF Clones
<1> QED BY <1>2, <1>3

-----------------------------------------------------------------------------
(* Reservations.                                                            *)

CountOf(obj) == IF obj = Null THEN 0 ELSE obj.reserved

GivenBack(t, k) == /\ command(t).name = "deleteCustomer"
                   /\ customer[t][k] > 0 /\ k \notin left[t] /\ key[t] # k
HalfReserved(t, k) == /\ command(t).name = "reserve" /\ pc[t] = "writeItem"
                      /\ command(t).item = k

(* Stands(s, k)[c]: what item k counts for c: what is booked, without what  *)
(* is being deleted and given back already, or written to the customer only.*)
Stands(s, k) ==
    [c \in Customer |->
        IF \E t \in Client : On(t, s, c) /\ GivenBack(t, k) THEN 0
        ELSE IF \E t \in Client : On(t, s, c) /\ HalfReserved(t, k)
        THEN Book(s, c, k) - 1
        ELSE Book(s, c, k)]

Sums(s, k) == SumOver(Stands(s, k), Customer) = CountOf(m_data[s][k])

SumsMatch == \A s \in Server : Unraced(s) => \A k \in Item : Sums(s, k)

LEMMA BookType ==
    ASSUME Memory, NEW s \in Server, NEW c \in Customer, NEW k \in Item
    PROVE  Book(s, c, k) \in Nat
<1>1. m_data[s][c] \in CustomerObject \cup {Null}
  BY DEF Memory
<1> QED BY <1>1 DEF Book, CustomerObject

LEMMA StandsType ==
    ASSUME NEW s \in Server, NEW k \in Item
    PROVE  /\ Memory => Stands(s, k) \in [Customer -> Int]
           /\ Memory' => Stands(s, k)' \in [Customer -> Int]
<1>1. ASSUME Memory PROVE Stands(s, k) \in [Customer -> Int]
  <2>1. \A c \in Customer : Book(s, c, k) \in Int /\ Book(s, c, k) - 1 \in Int
    BY <1>1, BookType
  <2> QED BY <2>1 DEF Stands
<1>2. ASSUME Memory' PROVE Stands(s, k)' \in [Customer -> Int]
  <2>1. \A c \in Customer : m_data'[s][c] \in CustomerObject \cup {Null}
    BY <1>2 DEF Memory
  <2>2. \A c \in Customer : Book(s, c, k)' \in Int /\ Book(s, c, k)' - 1 \in Int
    BY <2>1 DEF Book, CustomerObject
  <2> QED BY <2>2 DEF Stands
<1> QED BY <1>1, <1>2

LEMMA CountOfType ==
    ASSUME NEW obj \in ItemObject \cup {Null} PROVE CountOf(obj) \in Int
BY DEF CountOf, ItemObject

(* What stands for one customer and what the item counts change alike.      *)
LEMMA SumsChange ==
    ASSUME IsFiniteSet(Customer), Memory, Memory',
           NEW s \in Server, NEW k \in Item, Sums(s, k),
           NEW c \in Customer,
           \A d \in Customer \ {c} : Stands(s, k)'[d] = Stands(s, k)[d],
           Stands(s, k)'[c] - Stands(s, k)[c]
              = CountOf(m_data[s][k])' - CountOf(m_data[s][k])
    PROVE  Sums(s, k)'
<1> DEFINE f == Stands(s, k)
           g == Stands(s, k)'
           m == CountOf(m_data[s][k])
           n == CountOf(m_data[s][k])'
<1>1. f \in [Customer -> Int] /\ g \in [Customer -> Int]
  BY StandsType
<1>2. m \in Int /\ n \in Int
  BY CountOfType DEF Memory
<1>3. SumOver(f, Customer) = m /\ g[c] - f[c] = n - m
      /\ \A d \in Customer \ {c} : g[d] = f[d]
  BY DEF Sums
<1>4. SumOver(g, Customer) = n
  <2> HIDE DEF f, g, m, n
  <2>1. SumOver(g, Customer) = SumOver(f, Customer) + g[c] - f[c]
    BY <1>1, <1>3, SumOfChange
  <2>2. f[c] \in Int /\ g[c] \in Int
    BY <1>1
  <2> QED BY <1>2, <1>3, <2>1, <2>2
<1>5. n = CountOf(m_data'[s][k])
  BY DEF CountOf
<1> HIDE DEF f, n
<1> QED BY <1>4, <1>5 DEF Sums, g

(* A customer on whom nobody but t works at s.                              *)
Alone(t, s, c) == \A u \in Client \ {t} : ~On(u, s, c)

Own(t, s, c, k) == IF On(t, s, c) /\ GivenBack(t, k) THEN 0
                   ELSE IF On(t, s, c) /\ HalfReserved(t, k) THEN Book(s, c, k) - 1
                   ELSE Book(s, c, k)

LEMMA StandsAlone ==
    ASSUME NEW t \in Client, NEW s, NEW c \in Customer, NEW k
    PROVE  /\ Alone(t, s, c) => Stands(s, k)[c] = Own(t, s, c, k)
           /\ Alone(t, s, c)' => Stands(s, k)'[c] = Own(t, s, c, k)'
<1>1. Alone(t, s, c) => Stands(s, k)[c] = Own(t, s, c, k)
  BY DEF Stands, Alone, Own
<1>2. Alone(t, s, c)' => Stands(s, k)'[c] = Own(t, s, c, k)'
  BY DEF Stands, Alone, Own
<1> QED BY <1>1, <1>2

LEMMA AloneIfUsed ==
    ASSUME NEW t \in Client, Races(t), NEW s, NEW c \in Customer,
           <<s, c>> \notin raced',
           <<s, c>> \in Uses(t) \/ <<s, c>> \in Uses(t)'
    PROVE  Alone(t, s, c)
<1>1. SUFFICES ASSUME NEW u \in Client \ {t}, On(u, s, c) PROVE FALSE
  BY DEF Alone
<1>2. <<s, c>> \in Uses(u)
  BY <1>1, UsesObject DEF On, Key
<1> QED BY <1>2, RacesGrow

LEMMA OnStays ==
    ASSUME Locals, NEW t \in Client, Invoke(t) \/ Unreachable(t) \/ Step(t),
           NEW u \in Client \ {t}, NEW s, NEW c, NEW k
    PROVE  /\ On(u, s, c)' <=> On(u, s, c)
           /\ GivenBack(u, k)' <=> GivenBack(u, k)
           /\ HalfReserved(u, k)' <=> HalfReserved(u, k)
<1>1. /\ todo'[u] = todo[u] /\ pc'[u] = pc[u] /\ customer'[u] = customer[u]
      /\ item'[u] = item[u] /\ key'[u] = key[u] /\ left'[u] = left[u]
  BY OthersStay
<1> QED BY <1>1 DEF On, Works, server, command, GivenBack, HalfReserved

(* What stands for a customer whom t is not working on stays.               *)
LEMMA StandsStay ==
    ASSUME Locals, NEW t \in Client, Invoke(t) \/ Unreachable(t) \/ Step(t),
           NEW s, NEW c \in Customer, NEW k,
           ~On(t, s, c), ~On(t, s, c)', Book(s, c, k)' = Book(s, c, k)
    PROVE  Stands(s, k)'[c] = Stands(s, k)[c]
<1>2. (\E u \in Client : On(u, s, c) /\ GivenBack(u, k))'
      <=> \E u \in Client : On(u, s, c) /\ GivenBack(u, k)
  BY OnStays
<1>3. (\E u \in Client : On(u, s, c) /\ HalfReserved(u, k))'
      <=> \E u \in Client : On(u, s, c) /\ HalfReserved(u, k)
  BY OnStays
<1> QED BY <1>2, <1>3 DEF Stands

StepOf(t) == /\ Memory /\ Locals /\ Memory'
             /\ \A u \in Client : Progress(u)
             /\ Clones
             /\ Invoke(t) \/ Unreachable(t) \/ Step(t)
             /\ Races(t)

LEMMA StandsElsewhere ==
    ASSUME NEW t \in Client, StepOf(t),
           NEW r \in Server, NEW d \in Customer, NEW k \in Item,
           <<r, d>> \notin raced',
           \/ r # server(t)
           \/ d # command(t).customer
           \/ ~Works(t) /\ ~Works(t)'
    PROVE  Stands(r, k)'[d] = Stands(r, k)[d]
<1>1. Locals /\ Memory /\ (Invoke(t) \/ Unreachable(t) \/ Step(t)) /\ Races(t)
  BY DEF StepOf
<1>2. ~On(t, r, d)
  BY DEF On
<1>3. ~On(t, r, d)'
  <2>1. CASE ~Works(t)'
    BY <2>1 DEF On
  <2>2. CASE Works(t)'
    <3>1. UNCHANGED todo
      BY <1>1, <2>2, StepEnds
    <3> QED BY <2>2, <3>1 DEF On, server, command
  <2> QED BY <2>1, <2>2
<1>4. d \in Key /\ d \notin Item /\ d # Null
  BY KeyAssumption, ObjectsAreNotNull DEF Key
<1>5. <<r, d>> \notin Uses(t)
  <2>1. key[t] \in Item \cup {Null}
    BY <1>1 DEF Locals
  <2> QED BY <1>4, <2>1, UsesObject
<1>6. Book(r, d, k)' = Book(r, d, k)
  <2>1. CASE ~MakesUp(t, r, d)
    BY <1>1, <1>4, <1>5, <2>1, Untouched DEF Book
  <2>2. CASE MakesUp(t, r, d)
    <3>1. m_data[r][d] = Null
      BY <1>1, <2>2, RacesGrow DEF MakesUp
    <3>2. Put(r, d, [j \in Item |-> 0])
      BY <2>2 DEF MakesUp, MakeUpCustomer
    <3>3. [j \in Item |-> 0] \in Object
      BY DEF Object, CustomerObject
    <3>4. m_data'[r][d] = [j \in Item |-> 0]
      BY <1>1, <1>4, <3>2, <3>3, PutValue
    <3> QED BY <3>1, <3>4 DEF Book
  <2> QED BY <2>1, <2>2
<1> QED BY <1>1, <1>2, <1>3, <1>6, StandsStay

LEMMA SumsStay ==
    ASSUME NEW s, NEW k \in Item, Sums(s, k),
           \A c \in Customer : Stands(s, k)'[c] = Stands(s, k)[c],
           CountOf(m_data[s][k])' = CountOf(m_data[s][k])
    PROVE  Sums(s, k)'
<1>1. Stands(s, k)' = Stands(s, k)
  BY DEF Stands
<1>2. CountOf(m_data'[s][k]) = CountOf(m_data[s][k])
  BY DEF CountOf
<1> QED BY <1>1, <1>2 DEF Sums

(* Items at other servers, and those that t does not use, stay.             *)
LEMMA ItemsElsewhere ==
    ASSUME NEW t \in Client, StepOf(t), NEW r \in Server, NEW k \in Item,
           ~Works(t) \/ r # server(t) \/ k # key[t]
    PROVE  m_data'[r][k] = m_data[r][k]
<1>1. Locals /\ Memory /\ (Invoke(t) \/ Unreachable(t) \/ Step(t))
  BY DEF StepOf
<1>2. k \in Key /\ k \notin Customer /\ k # Null
  BY KeyAssumption, ObjectsAreNotNull DEF Key
<1>3. ~MakesUp(t, r, k)
  <2>1. MakeUpCustomer(t) => command(t).customer \in Customer
    BY <1>1, CommandType DEF MakeUpCustomer, Runs, OnCustomers
  <2> QED BY <1>2, <2>1 DEF MakesUp
<1>4. <<r, k>> \notin Uses(t)
  <2>1. Works(t) => command(t).customer \in Customer \cup {Null}
    <3>1. Works(t) => todo[t] # <<>>
      BY DEF StepOf, Progress, Working
    <3> QED BY <1>1, <3>1, CommandType
  <2> QED BY <1>2, <2>1, UsesObject
<1> QED BY <1>1, <1>2, <1>3, <1>4, Untouched

LEMMA SumsElsewhere ==
    ASSUME NEW t \in Client, StepOf(t), NEW r \in Server, NEW k \in Item,
           Unraced(r)', Sums(r, k),
           r # server(t) \/ (~Works(t) /\ ~Works(t)')
    PROVE  Sums(r, k)'
<1>1. \A d \in Customer : <<r, d>> \notin raced'
  BY DEF Unraced, Key
<1>2. \A d \in Customer : Stands(r, k)'[d] = Stands(r, k)[d]
  BY <1>1, StandsElsewhere
<1>3. m_data'[r][k] = m_data[r][k]
  BY ItemsElsewhere
<1> QED BY <1>2, <1>3, SumsStay DEF CountOf

LEMMA SumsOfItemCommand ==
    ASSUME NEW t \in Client, StepOf(t), NEW k \in Item,
           todo[t] # <<>>, command(t).name \in OnItems,
           NEW s \in Server, s = server(t), Unraced(s), Unraced(s)', Sums(s, k)
    PROVE  Sums(s, k)'
<1>1. /\ Locals /\ Memory /\ (Invoke(t) \/ Unreachable(t) \/ Step(t))
      /\ Place(t) /\ Progress(t) /\ ItemCloneOf(t)
  BY DEF StepOf, Clones, Locals
<1>2. command(t).customer = Null
  BY <1>1, CommandType
<1>3. \A d \in Customer : <<s, d>> \notin raced'
  BY DEF Unraced, Key
<1>4. \A d \in Customer : Stands(s, k)'[d] = Stands(s, k)[d]
  BY <1>2, <1>3, StandsElsewhere, ObjectsAreNotNull DEF Key
<1>5. m_data[s][k] \in ItemObject \cup {Null}
  BY <1>1 DEF Memory
<1>6. SUFFICES ASSUME Works(t), k = key[t] PROVE CountOf(m_data'[s][k]) = CountOf(m_data[s][k])
  <2>1. CASE Works(t) /\ k = key[t]
    BY <1>4, <1>6, <2>1, SumsStay DEF CountOf
  <2>2. CASE ~(Works(t) /\ k = key[t])
    <3>1. m_data'[s][k] = m_data[s][k]
      BY <2>2, ItemsElsewhere
    <3> QED BY <1>4, <3>1, SumsStay DEF CountOf
  <2> QED BY <2>1, <2>2
<1>7. Working(t) /\ key[t] # Null /\ k \in Key
  BY <1>1, <1>6, ObjectsAreNotNull DEF Progress, Key
<1>8. item[t] = m_data[s][k]
  BY <1>1, <1>6, <1>7 DEF ItemCloneOf, Unraced
<1>9. WriteAdded(t) \/ RemoveItem(t)
  <2>1. pc[t] \in {"writeItem", "remove"} /\ command(t).name \in {"add", "delete"}
    BY <1>7 DEF Working, OnItems
  <2> QED BY <1>1, <1>6, <2>1
          DEF Works, Invoke, Unreachable, Step, BeginItem, BeginCustomer,
              MakeUpCustomer, WriteCustomer, ReadReserved, WriteReserved,
              ReadGivenBack, WriteGivenBack, RemoveCustomer, Runs
<1>10. CASE WriteAdded(t)
  <2> DEFINE obj == IF item[t] = Null THEN [count |-> 1, reserved |-> 0]
                    ELSE [item[t] EXCEPT !.count = @ + 1]
  <2>1. Put(s, k, obj)
    BY <1>6, <1>10 DEF WriteAdded
  <2>2. obj \in ItemObject /\ CountOf(obj) = CountOf(item[t])
    <3>1. CASE item[t] = Null
      BY <3>1, ObjectsAreNotNull DEF ItemObject, CountOf
    <3>2. CASE item[t] # Null
      <4> DEFINE plus == [item[t] EXCEPT !.count = @ + 1]
      <4>1. item[t] \in ItemObject
        BY <1>5, <1>8, <3>2
      <4>2. plus \in ItemObject /\ plus.reserved = item[t].reserved
        BY <4>1 DEF ItemObject
      <4>3. obj = plus
        BY <3>2
      <4> HIDE DEF plus, obj
      <4> QED BY <3>2, <4>2, <4>3, ObjectsAreNotNull DEF CountOf
    <3> QED BY <3>1, <3>2
  <2> HIDE DEF obj
  <2>3. m_data'[s][k] = obj
    BY <1>1, <1>7, <2>1, <2>2, PutValue DEF Object
  <2> QED BY <1>8, <2>2, <2>3
<1>11. CASE RemoveItem(t)
  <2>1. Put(s, k, Null) /\ command(t).name = "delete"
    BY <1>6, <1>11 DEF RemoveItem, Runs
  <2>2. m_data'[s][k] = Null
    BY <1>1, <1>7, <2>1, PutValue DEF Object
  <2>3. item[t].reserved = 0
    BY <1>7, <2>1 DEF Working
  <2> QED BY <1>8, <2>2, <2>3 DEF CountOf
<1> QED BY <1>9, <1>10, <1>11

(* A command on a customer: what stands for it and what its item counts     *)
(* have to change alike.                                                    *)
LEMMA SumsOfCustomer ==
    ASSUME IsFiniteSet(Customer), NEW t \in Client, StepOf(t), NEW k \in Item,
           NEW c \in Customer, c = command(t).customer,
           NEW s \in Server, s = server(t), Unraced(s)', Sums(s, k),
           Works(t) \/ (UNCHANGED todo /\ Works(t)'),
           Own(t, s, c, k)' - Own(t, s, c, k)
              = CountOf(m_data[s][k])' - CountOf(m_data[s][k])
    PROVE  Sums(s, k)'
<1>1. Locals /\ Memory /\ Memory' /\ (Invoke(t) \/ Unreachable(t) \/ Step(t)) /\ Races(t)
  BY DEF StepOf
<1>2. \A d \in Customer : <<s, d>> \notin raced'
  BY DEF Unraced, Key
<1>3. \A d \in Customer \ {c} : Stands(s, k)'[d] = Stands(s, k)[d]
  BY <1>2, StandsElsewhere
<1>4. <<s, c>> \in Uses(t) \/ <<s, c>> \in Uses(t)'
  BY DEF Uses, Works, server, command, Key
<1>5. Alone(t, s, c)
  BY <1>1, <1>2, <1>4, AloneIfUsed
<1>6. Alone(t, s, c)'
  BY <1>1, <1>5, OnStays DEF Alone
<1>7. Stands(s, k)[c] = Own(t, s, c, k) /\ Stands(s, k)'[c] = Own(t, s, c, k)'
  BY <1>5, <1>6, StandsAlone
<1>8. Stands(s, k)'[c] - Stands(s, k)[c] = CountOf(m_data[s][k])' - CountOf(m_data[s][k])
  BY <1>7
<1> QED BY <1>1, <1>3, <1>8, SumsChange

(* A step of a command on customer c at s, where nothing is raced on.       *)
CustomerStep(t, s, c) ==
    /\ StepOf(t) /\ todo[t] # <<>>
    /\ s = server(t) /\ c = command(t).customer
    /\ Unraced(s) /\ Unraced(s)'

Balanced(t, s, c, k) ==
    Own(t, s, c, k)' - Own(t, s, c, k)
       = CountOf(m_data'[s][k]) - CountOf(m_data[s][k])

LEMMA BalancedValues ==
    ASSUME NEW t \in Client, NEW s \in Server, NEW c \in Customer, NEW k \in Item,
           NEW own, Own(t, s, c, k) = own, NEW own2, Own(t, s, c, k)' = own2,
           own2 - own = CountOf(m_data'[s][k]) - CountOf(m_data[s][k])
    PROVE  Balanced(t, s, c, k)
BY DEF Balanced

LEMMA CustomerStepFacts ==
    ASSUME NEW t \in Client, NEW s \in Server, NEW c \in Customer,
           CustomerStep(t, s, c)
    PROVE  /\ Locals /\ Memory /\ Memory' /\ (Invoke(t) \/ Unreachable(t) \/ Step(t))
           /\ Place(t) /\ Progress(t)
           /\ command(t).name \in OnCustomers \cup {"reserve"}
           /\ command(t).name = "reserve" => command(t).item \in Item
           /\ c \in Key /\ \A k \in Item : k # c /\ k # Null /\ k \in Key
           /\ On(t, s, c) <=> Works(t)
           /\ UNCHANGED todo => (On(t, s, c)' <=> Works(t)')
           /\ ~Works(t)' => ~On(t, s, c)'
           /\ Works(t) /\ command(t).name = "newCustomer" =>
                 \A k \in Item : Book(s, c, k) = 0
           /\ Works(t) /\ command(t).name # "newCustomer" =>
                 m_data[s][c] = IF command(t).name = "reserve" /\ pc[t] = "writeItem"
                                THEN Plus(customer[t], command(t).item)
                                ELSE customer[t]
           /\ Works(t) /\ command(t).name \in {"reserve", "deleteCustomer"} =>
                 customer[t] \in CustomerObject
           /\ Works(t) /\ key[t] # Null => item[t] = m_data[s][key[t]]
<1>1. /\ Locals /\ Memory /\ Memory' /\ (Invoke(t) \/ Unreachable(t) \/ Step(t))
      /\ Place(t) /\ Progress(t) /\ todo[t] # <<>>
      /\ s = server(t) /\ c = command(t).customer
  BY DEF CustomerStep, StepOf, Locals
<1>2. /\ c \in Key /\ \A k \in Item : k # c /\ k # Null /\ k \in Key
      /\ c # Null
  BY KeyAssumption, ObjectsAreNotNull DEF Key
<1>3. /\ command(t).name \in OnCustomers \cup {"reserve"}
      /\ command(t).name = "reserve" => command(t).item \in Item
  BY <1>1, <1>2, CommandType
<1>4. /\ On(t, s, c) <=> Works(t)
      /\ UNCHANGED todo => (On(t, s, c)' <=> Works(t)')
      /\ ~Works(t)' => ~On(t, s, c)'
  BY <1>1 DEF On, server, command
<1>5. CloneOf(t) /\ ItemCloneOf(t) /\ <<s, c>> \notin raced
  BY <1>2 DEF CustomerStep, StepOf, Clones, Unraced
<1>6. /\ Works(t) /\ command(t).name = "newCustomer" =>
            \A k \in Item : Book(s, c, k) = 0
      /\ Works(t) /\ command(t).name # "newCustomer" =>
            m_data[s][c] = IF command(t).name = "reserve" /\ pc[t] = "writeItem"
                           THEN Plus(customer[t], command(t).item)
                           ELSE customer[t]
  BY <1>1, <1>5 DEF CloneOf
<1>7. Works(t) /\ command(t).name \in {"reserve", "deleteCustomer"} =>
         customer[t] \in CustomerObject
  <2> SUFFICES ASSUME Works(t), command(t).name \in {"reserve", "deleteCustomer"}
               PROVE  customer[t] \in CustomerObject
    OBVIOUS
  <2>1. customer[t] # Null
    BY <1>1 DEF Progress, Working, Place, NeedsCustomer, Works, Locals, Label
  <2> QED BY <1>1, <2>1 DEF Locals
<1>8. Works(t) /\ key[t] # Null => item[t] = m_data[s][key[t]]
  <2>1. key[t] # Null => key[t] \in Key
    BY <1>1, <1>2 DEF Locals
  <2> QED BY <1>1, <1>5, <2>1 DEF ItemCloneOf, CustomerStep, Unraced
<1> QED BY <1>1, <1>2, <1>3, <1>4, <1>6, <1>7, <1>8

LEMMA BeginCustomerBalanced ==
    ASSUME NEW t \in Client, NEW s \in Server, NEW c \in Customer, NEW k \in Item,
           CustomerStep(t, s, c), BeginCustomer(t), UNCHANGED todo, Works(t)'
    PROVE  Balanced(t, s, c, k)
<1> DEFINE name == command(t).name
           obj == m_data[s][c]
<1>1. /\ \A b : ~Answer(t, b)
      /\ s = server(t) /\ c = command(t).customer
  BY StepEnds DEF CustomerStep, StepOf
<1>2. /\ pc[t] = "begin" /\ UNCHANGED <<m_data, todo>>
      /\ name \in {"reserve", "newCustomer", "deleteCustomer"}
      /\ customer' = [customer EXCEPT ![t] = obj]
      /\ left' = [left EXCEPT ![t] =
                    IF name = "deleteCustomer" THEN {j \in Item : obj[j] > 0} ELSE {}]
  BY <1>1 DEF BeginCustomer, Runs
<1>3. customer'[t] = obj /\ (name = "deleteCustomer" => left'[t] = {j \in Item : obj[j] > 0})
  BY <1>2, CustomerStepFacts DEF Locals
<1>4. pc'[t] # "writeItem"
  <2>1. Goto(t, CASE name = "reserve" -> "readItem"
                  [] name = "newCustomer" -> "writeCustomer"
                  [] OTHER -> IF left'[t] = {} THEN "remove" ELSE "readItem")
    BY <1>1 DEF BeginCustomer
  <2>2. CASE name = "reserve"
    BY <2>1, <2>2, CustomerStepFacts DEF Locals, Goto
  <2>3. CASE name = "newCustomer"
    BY <2>1, <2>3, CustomerStepFacts DEF Locals, Goto
  <2>4. CASE name = "deleteCustomer"
    BY <2>1, <2>4, CustomerStepFacts DEF Locals, Goto
  <2> QED BY <1>2, <2>2, <2>3, <2>4
<1>5. ~GivenBack(t, k)' /\ ~HalfReserved(t, k)'
  BY <1>2, <1>3, <1>4 DEF GivenBack, HalfReserved, command
<1>6. ~On(t, s, c)
  BY <1>2, CustomerStepFacts DEF Works
<1>7. Own(t, s, c, k)' = Book(s, c, k) /\ Own(t, s, c, k) = Book(s, c, k)
  BY <1>2, <1>5, <1>6 DEF Own, Book
<1>8. Book(s, c, k) \in Nat /\ CountOf(m_data[s][k]) \in Int
      /\ m_data[s][k] \in ItemObject \cup {Null}
  BY BookType, CountOfType, CustomerStepFacts DEF Memory
<1> QED BY <1>2, <1>7, <1>8 DEF Balanced

LEMMA NewCustomerBalanced ==
    ASSUME NEW t \in Client, NEW s \in Server, NEW c \in Customer, NEW k \in Item,
           CustomerStep(t, s, c), WriteCustomer(t), command(t).name = "newCustomer"
    PROVE  Balanced(t, s, c, k)
<1>1. /\ s = server(t) /\ c = command(t).customer /\ pc[t] = "writeCustomer"
      /\ Put(s, c, [j \in Item |-> 0]) /\ Answer(t, TRUE)
  BY DEF CustomerStep, WriteCustomer
<1>2. Works(t) /\ ~Works(t)'
  BY <1>1, CustomerStepFacts DEF Works, Answer, Goto, Locals
<1>3. [j \in Item |-> 0] \in Object
  BY DEF Object, CustomerObject
<1>4. m_data'[s][c] = [j \in Item |-> 0] /\ m_data'[s][k] = m_data[s][k]
  BY <1>1, <1>3, CustomerStepFacts, PutValue
<1>5. Book(s, c, k) = 0 /\ Book(s, c, k)' = 0
  BY <1>2, <1>4, CustomerStepFacts DEF Book
<1>6. Own(t, s, c, k) = 0 /\ Own(t, s, c, k)' = 0
  BY <1>2, <1>5, CustomerStepFacts DEF Own, GivenBack, HalfReserved
<1>7. CountOf(m_data[s][k]) \in Int
  BY CountOfType, CustomerStepFacts DEF Memory
<1> QED BY <1>4, <1>6, <1>7 DEF Balanced

LEMMA WriteReservingBalanced ==
    ASSUME NEW t \in Client, NEW s \in Server, NEW c \in Customer, NEW k \in Item,
           CustomerStep(t, s, c), WriteCustomer(t), command(t).name = "reserve"
    PROVE  Balanced(t, s, c, k)
<1> DEFINE j == command(t).item
           obj == Plus(customer[t], j)
<1>1. /\ s = server(t) /\ c = command(t).customer /\ pc[t] = "writeCustomer"
      /\ Put(s, c, obj) /\ Goto(t, "writeItem") /\ UNCHANGED <<todo, locals>>
  BY DEF CustomerStep, WriteCustomer, Plus
<1>2. Works(t) /\ Works(t)' /\ pc'[t] = "writeItem" /\ command(t)' = command(t)
  BY <1>1, CustomerStepFacts DEF Works, Goto, Locals, command
<1>3. customer[t] \in CustomerObject /\ j \in Item
  BY <1>2, CustomerStepFacts
<1>4. /\ obj \in CustomerObject
      /\ obj[k] = IF k = j THEN customer[t][k] + 1 ELSE customer[t][k]
  BY <1>3, PlusType
<1>5. m_data[s][c] = customer[t]
  BY <1>1, <1>2, CustomerStepFacts
<1>6. customer[t][k] \in Nat
  BY <1>3 DEF CustomerObject
<1> HIDE DEF obj
<1>7. m_data'[s][c] = obj /\ m_data'[s][k] = m_data[s][k]
  BY <1>1, <1>4, CustomerStepFacts, PutValue DEF Object
<1>8. Book(s, c, k) = customer[t][k] /\ Book(s, c, k)' = obj[k]
  BY <1>3, <1>4, <1>5, <1>7, ObjectsAreNotNull DEF Book
<1>9. Own(t, s, c, k) = customer[t][k]
  BY <1>1, <1>8 DEF Own, GivenBack, HalfReserved
<1>10. Own(t, s, c, k)' = customer[t][k]
  <2>1. ~GivenBack(t, k)' /\ (HalfReserved(t, k)' <=> k = j) /\ On(t, s, c)'
    BY <1>1, <1>2, CustomerStepFacts DEF GivenBack, HalfReserved
  <2>2. Own(t, s, c, k)' = IF k = j THEN obj[k] - 1 ELSE obj[k]
    BY <1>8, <2>1 DEF Own
  <2> QED BY <1>4, <1>6, <2>2
<1>11. CountOf(m_data[s][k]) \in Int
  BY CountOfType, CustomerStepFacts DEF Memory
<1> QED BY <1>6, <1>7, <1>9, <1>10, <1>11 DEF Balanced

LEMMA ReadReservedBalanced ==
    ASSUME NEW t \in Client, NEW s \in Server, NEW c \in Customer, NEW k \in Item,
           CustomerStep(t, s, c), ReadReserved(t)
    PROVE  Balanced(t, s, c, k)
<1>1. /\ pc[t] = "readItem" /\ command(t).name = "reserve" /\ UNCHANGED m_data
      /\ pc'[t] # "writeItem"
      /\ UNCHANGED todo \/ ~Works(t)'
  <2>1. pc[t] = "readItem" /\ command(t).name = "reserve" /\ UNCHANGED m_data
    BY DEF ReadReserved, Runs
  <2>2. CASE Answer(t, FALSE)
    BY <2>1, <2>2, CustomerStepFacts DEF Answer, Goto, Locals, Works
  <2>3. CASE ~Answer(t, FALSE)
    BY <2>1, <2>3, CustomerStepFacts DEF ReadReserved, Goto, Locals
  <2> QED BY <2>1, <2>2, <2>3
<1>2. Own(t, s, c, k) = Book(s, c, k)
  BY <1>1 DEF Own, GivenBack, HalfReserved
<1>3. Own(t, s, c, k)' = Book(s, c, k)
  <2>1. Book(s, c, k)' = Book(s, c, k)
    BY <1>1 DEF Book
  <2>2. CASE UNCHANGED todo
    BY <1>1, <2>1, <2>2 DEF Own, GivenBack, HalfReserved, command
  <2>3. CASE ~Works(t)'
    BY <2>1, <2>3, CustomerStepFacts DEF Own
  <2> QED BY <1>1, <2>2, <2>3
<1>4. Book(s, c, k) \in Nat /\ CountOf(m_data[s][k]) \in Int
  BY BookType, CountOfType, CustomerStepFacts DEF Memory
<1> QED BY <1>1, <1>2, <1>3, <1>4 DEF Balanced

LEMMA WriteReservedBalanced ==
    ASSUME NEW t \in Client, NEW s \in Server, NEW c \in Customer, NEW k \in Item,
           CustomerStep(t, s, c), WriteReserved(t)
    PROVE  Balanced(t, s, c, k)
<1> DEFINE j == command(t).item
           obj == [count |-> item[t].count - 1, reserved |-> item[t].reserved + 1]
<1>1. /\ s = server(t) /\ c = command(t).customer /\ pc[t] = "writeItem"
      /\ command(t).name = "reserve"
      /\ Put(s, key[t], obj) /\ Answer(t, TRUE)
  BY DEF CustomerStep, WriteReserved, Runs
<1>2. Works(t) /\ ~Works(t)'
  BY <1>1, CustomerStepFacts DEF Works, Answer, Goto, Locals
<1>3. key[t] = j /\ j \in Item /\ j # Null
  BY <1>1, <1>2, CustomerStepFacts DEF Progress, Working
<1>4. item[t] \in ItemObject /\ item[t] # Null /\ item[t].count > 0
  BY <1>1, CustomerStepFacts DEF Place, NeedsItem, NeedsSeat, Locals
<1>5. item[t] = m_data[s][j]
  BY <1>2, <1>3, CustomerStepFacts
<1>6. obj \in ItemObject /\ obj # Null /\ obj.reserved = item[t].reserved + 1
  BY <1>4, ObjectsAreNotNull DEF ItemObject
<1> HIDE DEF obj
<1>7. /\ m_data'[s][k] = IF k = j THEN obj ELSE m_data[s][k]
      /\ m_data'[s][c] = m_data[s][c]
  BY <1>1, <1>3, <1>6, CustomerStepFacts, PutValue DEF Object
<1>8. /\ Own(t, s, c, k)' = Book(s, c, k)
      /\ Own(t, s, c, k) = IF k = j THEN Book(s, c, k) - 1 ELSE Book(s, c, k)
  <2>1. Book(s, c, k)' = Book(s, c, k)
    BY <1>7 DEF Book
  <2>2. Own(t, s, c, k)' = Book(s, c, k)
    BY <1>2, <2>1, CustomerStepFacts DEF Own
  <2> QED BY <1>1, <1>2, <2>2, CustomerStepFacts DEF Own, GivenBack, HalfReserved
<1>9. Book(s, c, k) \in Nat /\ CountOf(m_data[s][k]) \in Int
  BY BookType, CountOfType, CustomerStepFacts DEF Memory
<1>10. /\ k = j => CountOf(m_data'[s][k]) = CountOf(m_data[s][k]) + 1
       /\ k # j => CountOf(m_data'[s][k]) = CountOf(m_data[s][k])
  BY <1>4, <1>5, <1>6, <1>7 DEF CountOf
<1> QED BY <1>8, <1>9, <1>10 DEF Balanced

LEMMA ReadGivenBackBalanced ==
    ASSUME NEW t \in Client, NEW s \in Server, NEW c \in Customer, NEW k \in Item,
           CustomerStep(t, s, c), ReadGivenBack(t), ~Throw(t)
    PROVE  Balanced(t, s, c, k)
<1>1. PICK j \in left[t] :
         /\ key' = [key EXCEPT ![t] = j]
         /\ left' = [left EXCEPT ![t] = @ \ {j}]
         /\ Goto(t, "writeItem")
         /\ UNCHANGED <<todo, customer>>
  BY DEF ReadGivenBack
<1>2. /\ s = server(t) /\ c = command(t).customer /\ pc[t] = "readItem"
      /\ command(t).name = "deleteCustomer" /\ UNCHANGED m_data
  BY DEF CustomerStep, ReadGivenBack, Runs
<1>3. /\ Works(t) /\ Works(t)' /\ command(t)' = command(t)
      /\ key'[t] = j /\ left'[t] = left[t] \ {j} /\ customer'[t] = customer[t]
  BY <1>1, <1>2, CustomerStepFacts DEF Works, Goto, Locals, command
<1>4. key[t] = Null /\ k # Null
  BY <1>2, <1>3, CustomerStepFacts DEF Progress, Working
<1>5. GivenBack(t, k)' <=> GivenBack(t, k)
  BY <1>1, <1>3, <1>4 DEF GivenBack
<1>6. ~HalfReserved(t, k) /\ ~HalfReserved(t, k)'
  BY <1>2, <1>3 DEF HalfReserved
<1>7. On(t, s, c) /\ On(t, s, c)'
  BY <1>1, <1>3, CustomerStepFacts
<1>8. Own(t, s, c, k)' = Own(t, s, c, k) /\ Own(t, s, c, k) \in Int
  BY <1>2, <1>5, <1>6, <1>7, BookType, CustomerStepFacts DEF Own, Book
<1>9. CountOf(m_data[s][k]) \in Int
  BY CountOfType, CustomerStepFacts DEF Memory
<1> QED BY <1>2, <1>8, <1>9 DEF Balanced

LEMMA WriteGivenBackBalanced ==
    ASSUME NEW t \in Client, NEW s \in Server, NEW c \in Customer, NEW k \in Item,
           CustomerStep(t, s, c), WriteGivenBack(t)
    PROVE  Balanced(t, s, c, k)
<1> DEFINE j == key[t]
           n == customer[t][j]
           obj == GiveBack(item[t], n)
<1>1. /\ s = server(t) /\ c = command(t).customer /\ pc[t] = "writeItem"
      /\ command(t).name = "deleteCustomer"
      /\ Put(s, j, obj)
      /\ key' = [key EXCEPT ![t] = Null]
      /\ Goto(t, IF left[t] = {} THEN "remove" ELSE "readItem")
      /\ UNCHANGED <<todo, customer, left>>
  BY DEF CustomerStep, WriteGivenBack, Runs
<1>2. /\ Works(t) /\ Works(t)' /\ command(t)' = command(t)
      /\ key'[t] = Null /\ pc'[t] # "writeItem"
  BY <1>1, CustomerStepFacts DEF Works, Goto, Locals, command
<1>3. j \in Item \ left[t] /\ n > 0
  BY <1>1, <1>2, CustomerStepFacts DEF Progress, Working
<1>4. item[t] \in ItemObject /\ item[t] # Null
  BY <1>1, CustomerStepFacts DEF Place, NeedsItem, Locals
<1>5. item[t] = m_data[s][j]
  BY <1>2, <1>3, CustomerStepFacts
<1>6. customer[t] \in CustomerObject /\ m_data[s][c] = customer[t]
  BY <1>1, <1>2, CustomerStepFacts
<1>7. n \in Nat /\ customer[t][k] \in Nat
  BY <1>3, <1>6 DEF CustomerObject
<1>8. obj \in ItemObject /\ obj # Null /\ obj.reserved = item[t].reserved - n
  <2> HIDE DEF n
  <2> QED BY <1>4, <1>7, ObjectsAreNotNull DEF ItemObject, GiveBack
<1> HIDE DEF obj
<1>9. /\ m_data'[s][k] = IF k = j THEN obj ELSE m_data[s][k]
      /\ m_data'[s][c] = m_data[s][c]
  BY <1>1, <1>3, <1>8, CustomerStepFacts, PutValue DEF Object
<1>10. Book(s, c, k) = customer[t][k] /\ Book(s, c, k)' = customer[t][k]
  BY <1>6, <1>9, ObjectsAreNotNull DEF Book
<1>11. On(t, s, c) /\ On(t, s, c)' /\ ~HalfReserved(t, k) /\ ~HalfReserved(t, k)'
  BY <1>1, <1>2, CustomerStepFacts DEF HalfReserved
<1>12. CASE k = j
  <2>1. ~GivenBack(t, k) /\ GivenBack(t, k)'
    BY <1>1, <1>2, <1>3, <1>12, CustomerStepFacts DEF GivenBack
  <2>2. Own(t, s, c, k) = n /\ Own(t, s, c, k)' = 0
    BY <1>10, <1>11, <1>12, <2>1 DEF Own
  <2>3. CountOf(m_data'[s][k]) = CountOf(m_data[s][k]) - n
    BY <1>4, <1>5, <1>8, <1>9, <1>12 DEF CountOf
  <2>4. CountOf(m_data[s][k]) \in Int
    BY CountOfType, CustomerStepFacts DEF Memory
  <2> HIDE DEF n
  <2> QED BY <1>7, <2>2, <2>3, <2>4 DEF Balanced
<1>13. CASE k # j
  <2>1. GivenBack(t, k)' <=> GivenBack(t, k)
    BY <1>1, <1>2, <1>13, CustomerStepFacts DEF GivenBack
  <2>2. Own(t, s, c, k)' = Own(t, s, c, k) /\ Own(t, s, c, k) \in Int
    BY <1>7, <1>10, <1>11, <2>1 DEF Own
  <2>3. m_data'[s][k] = m_data[s][k] /\ CountOf(m_data[s][k]) \in Int
    BY <1>9, <1>13, CountOfType, CustomerStepFacts DEF Memory
  <2> QED BY <2>2, <2>3 DEF Balanced
<1> QED BY <1>12, <1>13

LEMMA RemoveCustomerBalanced ==
    ASSUME NEW t \in Client, NEW s \in Server, NEW c \in Customer, NEW k \in Item,
           CustomerStep(t, s, c), RemoveCustomer(t)
    PROVE  Balanced(t, s, c, k)
<1>1. /\ s = server(t) /\ c = command(t).customer /\ pc[t] = "remove"
      /\ command(t).name = "deleteCustomer"
      /\ Put(s, c, Null) /\ Answer(t, TRUE)
  BY DEF CustomerStep, RemoveCustomer, Runs
<1>2. Works(t) /\ ~Works(t)'
  BY <1>1, CustomerStepFacts DEF Works, Answer, Goto, Locals
<1>3. left[t] = {} /\ key[t] = Null
  BY <1>1, <1>2, CustomerStepFacts DEF Progress, Working
<1>4. customer[t] \in CustomerObject /\ m_data[s][c] = customer[t]
  BY <1>1, <1>2, CustomerStepFacts
<1>5. m_data'[s][c] = Null /\ m_data'[s][k] = m_data[s][k]
  BY <1>1, CustomerStepFacts, PutValue DEF Object
<1>6. customer[t][k] \in Nat /\ Book(s, c, k) = customer[t][k]
  BY <1>4, ObjectsAreNotNull DEF Book, CustomerObject
<1>7. Own(t, s, c, k) = 0
  <2>1. On(t, s, c) /\ (GivenBack(t, k) <=> customer[t][k] > 0) /\ ~HalfReserved(t, k)
    BY <1>1, <1>2, <1>3, CustomerStepFacts DEF GivenBack, HalfReserved
  <2> QED BY <1>6, <2>1 DEF Own
<1>8. Own(t, s, c, k)' = 0
  BY <1>2, <1>5, CustomerStepFacts DEF Own, Book
<1>9. CountOf(m_data[s][k]) \in Int
  BY CountOfType, CustomerStepFacts DEF Memory
<1> QED BY <1>5, <1>7, <1>8, <1>9 DEF Balanced

LEMMA StandsNotNegative ==
    ASSUME Memory, Locals, \A u \in Client : Progress(u), Clones,
           NEW s \in Server, Unraced(s), NEW k \in Item
    PROVE  Stands(s, k) \in [Customer -> Nat]
<1>1. ASSUME NEW c \in Customer PROVE Stands(s, k)[c] \in Nat
  <2>1. Book(s, c, k) \in Nat
    BY BookType
  <2>2. ASSUME NEW u \in Client, On(u, s, c), HalfReserved(u, k)
        PROVE  Book(s, c, k) > 0
    <3>1. /\ Place(u) /\ Progress(u) /\ CloneOf(u) /\ <<s, c>> \notin raced
      BY DEF Locals, Clones, Unraced, Key
    <3>2. customer[u] \in CustomerObject
      BY <2>2, <3>1 DEF HalfReserved, Place, NeedsCustomer, Locals
    <3>3. m_data[s][c] = Plus(customer[u], k)
      BY <2>2, <3>1 DEF On, HalfReserved, CloneOf
    <3>4. /\ Plus(customer[u], k) \in CustomerObject
          /\ Plus(customer[u], k)[k] = customer[u][k] + 1
      BY <3>2, PlusType
    <3>5. customer[u][k] \in Nat
      BY <3>2 DEF CustomerObject
    <3> QED BY <3>3, <3>4, <3>5, ObjectsAreNotNull DEF Book
  <2> QED BY <2>1, <2>2 DEF Stands
<1>2. Stands(s, k) = [c \in Customer |-> Stands(s, k)[c]]
  BY DEF Stands
<1> QED BY <1>1, <1>2

(* Where nothing is raced on, what is reserved is there to be given back.   *)
LEMMA ReservedIsThere ==
    ASSUME IsFiniteSet(Customer), NEW t \in Client, NEW s \in Server,
           NEW c \in Customer, CustomerStep(t, s, c), ReadGivenBack(t),
           \A k \in Item : Sums(s, k)
    PROVE  ~Throw(t)
<1>1. /\ pc[t] = "readItem" /\ command(t).name = "deleteCustomer"
      /\ s = server(t) /\ c = command(t).customer
  BY DEF ReadGivenBack, Runs, CustomerStep
<1>2. Works(t)
  BY <1>1 DEF Works
<1>3. SUFFICES ASSUME NEW k \in left[t], m_data[s][k] = Null PROVE FALSE
  <2>1. Throw(t) => pc'[t] = "idle"
    BY CustomerStepFacts DEF Throw, Goto, Locals
  <2>2. Goto(t, "writeItem") => pc'[t] = "writeItem"
    BY CustomerStepFacts DEF Goto, Locals
  <2> QED BY <1>1, <1>3, <2>1, <2>2 DEF ReadGivenBack
<1>4. k \in Item
  BY CustomerStepFacts DEF Locals
<1>5. customer[t][k] > 0
  BY <1>1, <1>2, CustomerStepFacts DEF Progress, Working
<1>6. customer[t] \in CustomerObject /\ m_data[s][c] = customer[t]
  BY <1>1, <1>2, CustomerStepFacts
<1>7. Book(s, c, k) = customer[t][k]
  BY <1>6, ObjectsAreNotNull DEF Book
<1>8. Own(t, s, c, k) = customer[t][k]
  BY <1>1, <1>7 DEF Own, GivenBack, HalfReserved
<1>9. Alone(t, s, c)
  <2>1. <<s, c>> \in Uses(t) /\ <<s, c>> \notin raced' /\ Races(t)
    BY <1>1, <1>2, UsesObject DEF CustomerStep, StepOf, Unraced, Key
  <2> QED BY <2>1, AloneIfUsed
<1>10. Stands(s, k)[c] = customer[t][k]
  BY <1>8, <1>9, StandsAlone
<1>11. Stands(s, k) \in [Customer -> Nat]
  BY <1>4, StandsNotNegative DEF CustomerStep, StepOf
<1>12. SumOver(Stands(s, k), Customer) = 0
  BY <1>3, <1>4 DEF Sums, CountOf
<1> DEFINE f == Stands(s, k)
<1>13. f[c] <= SumOver(f, Customer)
  <2>1. f \in [Customer -> Nat]
    BY <1>11
  <2> HIDE DEF f
  <2> QED BY <2>1, SumOfNats
<1>14. customer[t][k] \in Nat
  BY <1>4, <1>6 DEF CustomerObject
<1> QED BY <1>5, <1>10, <1>12, <1>13, <1>14

LEMMA CustomerStepBalanced ==
    ASSUME IsFiniteSet(Customer), NEW t \in Client, NEW s \in Server,
           NEW c \in Customer, NEW k \in Item, CustomerStep(t, s, c),
           \A j \in Item : Sums(s, j),
           Works(t) \/ (UNCHANGED todo /\ Works(t)')
    PROVE  Balanced(t, s, c, k)
<1>1. command(t).name \in OnCustomers \cup {"reserve"}
  BY CustomerStepFacts
<1>2. ASSUME pc[t] \in {"idle", "begin"}
      PROVE  UNCHANGED todo /\ Works(t)' /\ BeginCustomer(t)
  <2>1. UNCHANGED todo /\ Works(t)'
    BY <1>2 DEF Works
  <2>2. \/ BeginItem(t) \/ BeginCustomer(t)
        \/ WriteCustomer(t) \/ ReadReserved(t) \/ ReadGivenBack(t) \/ WriteGivenBack(t)
    BY <2>1, CustomerStepFacts, StepEnds
  <2>3. BeginCustomer(t)
    BY <1>1, <1>2, <2>2 DEF BeginItem, WriteCustomer, ReadReserved, ReadGivenBack,
                            WriteGivenBack, Runs, OnCustomers
  <2> QED BY <2>1, <2>3
<1>3. CASE pc[t] \in {"idle", "begin"}
  BY <1>2, <1>3, BeginCustomerBalanced
<1>4. CASE pc[t] \notin {"idle", "begin"}
  <2>1. \/ WriteCustomer(t) \/ ReadReserved(t) \/ WriteReserved(t)
        \/ ReadGivenBack(t) \/ WriteGivenBack(t) \/ RemoveCustomer(t)
    BY <1>1, <1>4, CustomerStepFacts
       DEF Step, Invoke, Unreachable, BeginItem, WriteAdded, RemoveItem,
           BeginCustomer, MakeUpCustomer, Runs, OnCustomers
  <2>2. CASE WriteCustomer(t)
    BY <2>2, NewCustomerBalanced, WriteReservingBalanced DEF WriteCustomer
  <2>3. CASE ReadGivenBack(t)
    BY <2>3, ReservedIsThere, ReadGivenBackBalanced
  <2> QED BY <2>1, <2>2, <2>3, ReadReservedBalanced, WriteReservedBalanced,
             WriteGivenBackBalanced, RemoveCustomerBalanced
<1> QED BY <1>3, <1>4

LEMMA SumsNext ==
    ASSUME IsFiniteSet(Customer), NEW t \in Client, StepOf(t), SumsMatch
    PROVE  SumsMatch'
<1> SUFFICES ASSUME NEW s \in Server, Unraced(s)', NEW k \in Item PROVE Sums(s, k)'
  BY DEF SumsMatch
<1>1. /\ Locals /\ Memory /\ (Invoke(t) \/ Unreachable(t) \/ Step(t))
      /\ Progress(t) /\ Races(t)
  BY DEF StepOf
<1>2. Unraced(s)
  BY <1>1, RacesGrow DEF Unraced
<1>3. \A j \in Item : Sums(s, j)
  BY <1>2 DEF SumsMatch
<1>4. CASE s # server(t) \/ (~Works(t) /\ ~Works(t)')
  BY <1>3, <1>4, SumsElsewhere
<1>5. CASE s = server(t) /\ (Works(t) \/ Works(t)')
  <2>1. todo[t] # <<>> /\ (Works(t) \/ (UNCHANGED todo /\ Works(t)'))
    <3>1. CASE Works(t)
      BY <1>1, <3>1 DEF Progress, Working
    <3>2. CASE Works(t)'
      BY <1>1, <3>2, StepEnds
    <3> QED BY <1>5, <3>1, <3>2
  <2>2. CASE command(t).name \in OnItems
    BY <1>2, <1>3, <1>5, <2>1, <2>2, SumsOfItemCommand
  <2>3. CASE command(t).name \notin OnItems
    <3>1. command(t).customer \in Customer
      BY <1>1, <2>1, <2>3, CommandType
    <3>2. PICK c \in Customer : c = command(t).customer
      BY <3>1
    <3>3. CustomerStep(t, s, c)
      BY <1>2, <1>5, <2>1, <3>2 DEF CustomerStep
    <3>4. Balanced(t, s, c, k)
      BY <1>3, <2>1, <3>3, CustomerStepBalanced
    <3>5. Own(t, s, c, k)' - Own(t, s, c, k)
             = CountOf(m_data[s][k])' - CountOf(m_data[s][k])
      BY <3>4 DEF Balanced, CountOf
    <3> QED BY <1>3, <1>5, <2>1, <3>2, <3>5, SumsOfCustomer
  <2> QED BY <2>2, <2>3
<1> QED BY <1>4, <1>5

(* All together.  ReservationsMatch alone is not inductive: it speaks only  *)
(* of servers at rest.                                                      *)
WellBehaved == Types /\ (\A t \in Client : Progress(t)) /\ Clones

Consistent == WellBehaved /\ SumsMatch

LEMMA WellBehavedInit == ASSUME Init PROVE WellBehaved
<1>1. Types
  BY TypesInit
<1>2. \A t \in Client : ~Works(t) /\ key[t] = Null
  BY DEF Init, Works
<1> QED BY <1>1, <1>2 DEF WellBehaved, Clones, CloneOf, ItemCloneOf, Progress

LEMMA WellBehavedNext ==
    ASSUME CallsOfMiddleware, WellBehaved, [Next]_vars PROVE WellBehaved'
<1>1. Types'
  BY TypesNext DEF WellBehaved
<1>2. ASSUME NEW t \in Client, Invoke(t) \/ Unreachable(t) \/ Step(t), Races(t)
      PROVE  WellBehaved'
  <2>1. \A u \in Client : Progress(u)'
    BY <1>2, ProgressNext DEF WellBehaved, Types
  <2>2. Clones'
    BY <1>2, ClonesNext DEF WellBehaved, Types
  <2> QED BY <1>1, <2>1, <2>2 DEF WellBehaved
<1>3. CASE UNCHANGED vars
  <2>1. UNCHANGED <<m_data, todo, pc, customer, item, key, left, raced>>
    BY <1>3 DEF vars, locals
  <2>2. ASSUME NEW t \in Client PROVE Progress(t)'
    <3>1. Progress(t)
      BY DEF WellBehaved
    <3> QED BY <2>1, <3>1 DEF Progress, Working, Works, command
  <2>3. ASSUME NEW t \in Client PROVE CloneOf(t)' /\ ItemCloneOf(t)'
    <3>1. CloneOf(t) /\ ItemCloneOf(t)
      BY DEF WellBehaved, Clones
    <3>2. CloneOf(t)'
      BY <2>1, <3>1 DEF CloneOf, Works, command, server, Book
    <3> QED BY <2>1, <3>1, <3>2 DEF ItemCloneOf, Works, command, server
  <2> QED BY <1>1, <2>2, <2>3 DEF WellBehaved, Clones
<1> QED BY <1>2, <1>3 DEF Next

LEMMA WellBehavedStep ==
    ASSUME CallsOfMiddleware, WellBehaved, NEW t \in Client,
           Invoke(t) \/ Unreachable(t) \/ Step(t), Races(t)
    PROVE  StepOf(t)
<1>1. Types'
  BY TypesNext DEF WellBehaved, Next
<1> QED BY <1>1 DEF WellBehaved, Types, StepOf

LEMMA ConsistentInit == ASSUME IsFiniteSet(Customer), Init PROVE Consistent
<1>1. WellBehaved
  BY WellBehavedInit
<1>2. \A t \in Client : ~Works(t)
  BY DEF Init, Works
<1>3. ASSUME NEW s \in Server, NEW k \in Item PROVE Sums(s, k)
  <2>1. Stands(s, k) \in [Customer -> Int]
    BY <1>1, StandsType DEF WellBehaved, Types
  <2>2. \A c \in Customer : Book(s, c, k) = 0
    BY DEF Init, Book, Key
  <2>3. \A c \in Customer : Stands(s, k)[c] = 0
    BY <1>2, <2>2 DEF Stands, On
  <2>4. CountOf(m_data[s][k]) = 0
    BY DEF Init, Key, CountOf
  <2> DEFINE f == Stands(s, k)
  <2>5. SumOver(f, Customer) = 0
    <3>1. f \in [Customer -> Int] /\ \A c \in Customer : f[c] = 0
      BY <2>1, <2>3
    <3> HIDE DEF f
    <3> QED BY <3>1, SumOfZeros
  <2> QED BY <2>4, <2>5 DEF Sums
<1> QED BY <1>1, <1>3 DEF Consistent, SumsMatch

LEMMA ConsistentNext ==
    ASSUME CallsOfMiddleware, IsFiniteSet(Customer), Consistent, [Next]_vars
    PROVE  Consistent'
<1>1. WellBehaved'
  BY WellBehavedNext DEF Consistent
<1>2. ASSUME NEW t \in Client, Invoke(t) \/ Unreachable(t) \/ Step(t), Races(t)
      PROVE  SumsMatch'
  BY <1>2, WellBehavedStep, SumsNext DEF Consistent
<1>3. CASE UNCHANGED vars
  <2>1. UNCHANGED <<m_data, todo, pc, customer, item, key, left, raced>>
    BY <1>3 DEF vars, locals
  <2>2. ASSUME NEW s \in Server, Unraced(s)', NEW k \in Item PROVE Sums(s, k)'
    <3>1. Sums(s, k)
      BY <2>1, <2>2 DEF Consistent, SumsMatch, Unraced
    <3>2. \A c \in Customer : Stands(s, k)'[c] = Stands(s, k)[c]
      <4> TAKE c \in Customer
      <4>1. Book(s, c, k)' = Book(s, c, k)
        BY <2>1 DEF Book
      <4>2. \A u \in Client : /\ On(u, s, c)' <=> On(u, s, c)
                              /\ GivenBack(u, k)' <=> GivenBack(u, k)
                              /\ HalfReserved(u, k)' <=> HalfReserved(u, k)
        BY <2>1 DEF On, Works, server, command, GivenBack, HalfReserved
      <4> QED BY <4>1, <4>2 DEF Stands
    <3> QED BY <2>1, <3>1, <3>2, SumsStay DEF CountOf
  <2> QED BY <1>1, <2>2 DEF Consistent, SumsMatch
<1> QED BY <1>1, <1>2, <1>3 DEF Next, Consistent

(* Booked is the sum of what stands when nobody works.                      *)
LEMMA BookedIsSum ==
    ASSUME IsFiniteSet(Customer), Memory, NEW s \in Server, NEW k \in Item, Quiet(s)
    PROVE  Booked(s, k) = SumOver(Stands(s, k), Customer)
<1> DEFINE f == Stands(s, k)
           IsSumOf(h) ==
              h = [T \in SUBSET Customer |->
                     IF T = {} THEN 0
                     ELSE (IF m_data[s][CHOOSE x \in T : TRUE] = Null THEN 0
                           ELSE m_data[s][CHOOSE x \in T : TRUE][k])
                          + h[T \ {CHOOSE x \in T : TRUE}]]
<1>1. Booked(s, k) = (CHOOSE h : IsSumOf(h))[Customer]
  BY DEF Booked, MapThenSumSet, MapThenFoldSet
<1>2. f \in [Customer -> Int]
  BY StandsType
<1>3. \A t \in Client : \A c : ~On(t, s, c)
  BY DEF Quiet, On, Works
<1>4. \A c \in Customer : f[c] = Book(s, c, k)
  BY <1>3 DEF Stands
<1>5. ASSUME NEW h PROVE IsSumOf(h) <=> IsSum(f, Customer, h)
  <2>1. \A T \in SUBSET Customer : T # {} =>
           f[CHOOSE x \in T : TRUE] = IF m_data[s][CHOOSE x \in T : TRUE] = Null THEN 0
                                      ELSE m_data[s][CHOOSE x \in T : TRUE][k]
    <3> HIDE DEF f
    <3> QED BY <1>4 DEF Book
  <2> HIDE DEF f
  <2> QED BY <2>1 DEF IsSum
<1>6. PICK g \in [SUBSET Customer -> Int] :
         IsSum(f, Customer, g) /\ SumOver(f, Customer) = g[Customer]
  <2> HIDE DEF f
  <2> QED BY <1>2, SumsExist
<1>7. \A h : IsSumOf(h) <=> h = g
  <2> HIDE DEF f, IsSumOf
  <2> QED BY <1>5, <1>6, SumsUnique
<1>8. (CHOOSE h : IsSumOf(h)) = g
  <2> HIDE DEF f, IsSumOf
  <2> QED BY <1>7
<1> HIDE DEF f, IsSumOf
<1>9. Booked(s, k) = SumOver(f, Customer)
  BY <1>1, <1>6, <1>8
<1> QED BY <1>9 DEF f

(* Without transactions, whatever commands are interleaved and wherever     *)
(* calls break off: at a server where no two commands have met on an object *)
(* each item counts just what the customers have reserved of it, once the   *)
(* commands there are done.                                                 *)
THEOREM ReservationsAgree ==
    ASSUME CallsOfMiddleware, IsFiniteSet(Customer)
    PROVE  Spec => []ReservationsMatch
<1>1. Init => Consistent
  BY ConsistentInit, IsFiniteSet(Customer)
<1>2. Consistent /\ [Next]_vars => Consistent'
  BY ConsistentNext, CallsOfMiddleware, IsFiniteSet(Customer)
<1>3. ASSUME Consistent PROVE ReservationsMatch
  <2> SUFFICES ASSUME NEW s \in Server, Quiet(s), Unraced(s), NEW k \in Item
               PROVE  Booked(s, k) = IF m_data[s][k] = Null THEN 0
                                     ELSE m_data[s][k].reserved
    BY DEF ReservationsMatch
  <2>1. Booked(s, k) = SumOver(Stands(s, k), Customer)
    BY <1>3, BookedIsSum, IsFiniteSet(Customer) DEF Consistent, WellBehaved, Types
  <2>2. Sums(s, k)
    BY <1>3 DEF Consistent, SumsMatch
  <2> QED BY <2>1, <2>2 DEF Sums, CountOf
<1> QED BY <1>1, <1>2, <1>3, PTL DEF Spec

-----------------------------------------------------------------------------
(* Customers at all servers or at none.                                     *)

(* What remains of a call that creates or deletes customer c.               *)
Remains(cs, c) ==
    \/ cs \in {NewCustomer(c), NewCustomerId(c), DeleteCustomer(c)}
    \/ \E name \in {"newCustomer", "deleteCustomer"}, must \in BOOLEAN :
          /\ must => name = "newCustomer"
          /\ \/ cs = <<Command(name, "Car", c, Null, must),
                       Command(name, "Room", c, Null, must)>>
             \/ cs = <<Command(name, "Room", c, Null, must)>>

After(s) == CASE s = "Flight" -> "Car" [] s = "Car" -> "Room"

(* The commands of the call go from server to server and have one purpose;  *)
(* only one that follows upon making up an identifier insists on success.   *)
RemainsWell(cs, c) ==
    LET h == Head(cs)
        n == Head(Tail(cs))
    IN  /\ cs # <<>>
        /\ h.customer = c
        /\ h.server \in Server
        /\ h.name \in OnCustomers
        /\ h.name = "makeUpCustomer" => h.server = "Flight"
        /\ h.must => h.name = "newCustomer"
        /\ Tail(cs) = <<>> <=> h.server = "Room"
        /\ Tail(cs) # <<>> =>
              /\ Remains(Tail(cs), c)
              /\ n.server = After(h.server)
              /\ n.name = "deleteCustomer" <=> h.name = "deleteCustomer"
              /\ n.must => h.must \/ h.name = "makeUpCustomer"

LEMMA RemainsIsWell ==
    ASSUME NEW cs, NEW c \in Customer, Remains(cs, c) PROVE RemainsWell(cs, c)
<1> USE DEF OnCustomers, Server, After, Command
<1>1. CASE \E name \in {"newCustomer", "deleteCustomer"}, must \in BOOLEAN :
              /\ must => name = "newCustomer"
              /\ cs = <<Command(name, "Room", c, Null, must)>>
  <2>1. PICK name \in {"newCustomer", "deleteCustomer"}, must \in BOOLEAN :
           /\ must => name = "newCustomer"
           /\ cs = <<Command(name, "Room", c, Null, must)>>
    BY <1>1
  <2> DEFINE x == Command(name, "Room", c, Null, must)
  <2>2. /\ x.customer = c /\ x.server = "Room" /\ x.name = name /\ x.must = must
    OBVIOUS
  <2> HIDE DEF x
  <2>3. cs = <<x>>
    BY <2>1 DEF x
  <2>4. cs # <<>> /\ Head(cs) = x /\ Tail(cs) = <<>>
    BY <2>3
  <2> QED BY <2>1, <2>2, <2>4 DEF RemainsWell
<1>2. CASE \E name \in {"newCustomer", "deleteCustomer"}, must \in BOOLEAN :
              /\ must => name = "newCustomer"
              /\ cs = <<Command(name, "Car", c, Null, must),
                        Command(name, "Room", c, Null, must)>>
  <2>1. PICK name \in {"newCustomer", "deleteCustomer"}, must \in BOOLEAN :
           /\ must => name = "newCustomer"
           /\ cs = <<Command(name, "Car", c, Null, must),
                     Command(name, "Room", c, Null, must)>>
    BY <1>2
  <2> DEFINE x == Command(name, "Car", c, Null, must)
             y == Command(name, "Room", c, Null, must)
  <2>2. /\ x.customer = c /\ x.server = "Car" /\ x.name = name /\ x.must = must
        /\ y.server = "Room" /\ y.name = name /\ y.must = must
    OBVIOUS
  <2>3. Remains(<<y>>, c)
    BY <2>1 DEF Remains
  <2> HIDE DEF x, y
  <2>4. cs = <<x, y>>
    BY <2>1 DEF x, y
  <2>5. cs # <<>> /\ Head(cs) = x /\ Tail(cs) = <<y>> /\ <<y>> # <<>> /\ Head(<<y>>) = y
    BY <2>4
  <2> QED BY <2>1, <2>2, <2>3, <2>5 DEF RemainsWell
<1>3. CASE cs \in {NewCustomer(c), NewCustomerId(c), DeleteCustomer(c)}
  <2>1. PICK first \in {"newCustomer", "deleteCustomer", "makeUpCustomer"},
             name \in {"newCustomer", "deleteCustomer"}, must \in BOOLEAN :
           /\ must <=> first = "makeUpCustomer"
           /\ name = "deleteCustomer" <=> first = "deleteCustomer"
           /\ cs = <<Command(first, "Flight", c, Null, FALSE),
                     Command(name, "Car", c, Null, must),
                     Command(name, "Room", c, Null, must)>>
    BY <1>3 DEF NewCustomer, NewCustomerId, DeleteCustomer, ToAll
  <2> DEFINE x == Command(first, "Flight", c, Null, FALSE)
             y == Command(name, "Car", c, Null, must)
             z == Command(name, "Room", c, Null, must)
  <2>2. /\ x.customer = c /\ x.server = "Flight" /\ x.name = first /\ x.must = FALSE
        /\ y.server = "Car" /\ y.name = name /\ y.must = must
    OBVIOUS
  <2>3. Remains(<<y, z>>, c)
    BY <2>1 DEF Remains
  <2> HIDE DEF x, y, z
  <2>4. cs = <<x, y, z>>
    BY <2>1 DEF x, y, z
  <2>5. cs # <<>> /\ Head(cs) = x /\ Tail(cs) = <<y, z>> /\ <<y, z>> # <<>>
        /\ Head(<<y, z>>) = y
    BY <2>4
  <2> QED BY <2>1, <2>2, <2>3, <2>5 DEF RemainsWell
<1> QED BY <1>1, <1>2, <1>3 DEF Remains

LEMMA SettlesOfRest ==
    /\ Settles(<<>>) = {}
    /\ \A cs \in CallSequences : cs # <<>> =>
          /\ Settles(Tail(cs)) \subseteq Settles(cs)
          /\ Head(cs).name # "reserve" /\ Head(cs).customer \in Customer =>
                Head(cs).customer \in Settles(cs)
<1>1. Settles(<<>>) = {}
  BY DEF Settles
<1>2. ASSUME NEW cs \in CallSequences, cs # <<>>
      PROVE  /\ Settles(Tail(cs)) \subseteq Settles(cs)
             /\ Head(cs).name # "reserve" /\ Head(cs).customer \in Customer =>
                Head(cs).customer \in Settles(cs)
  <2>1. /\ cs \in Seq(Commands) /\ Len(cs) \in Nat \ {0}
        /\ DOMAIN cs = 1 .. Len(cs) /\ Head(cs) = cs[1]
    BY <1>2, LenProperties, EmptySeq DEF CallSequences
  <2>2. /\ Tail(cs) \in Seq(Commands)
        /\ Len(Tail(cs)) = Len(cs) - 1
        /\ \A i \in 1 .. Len(Tail(cs)) : Tail(cs)[i] = cs[i + 1]
    BY <1>2, <2>1, HeadTailProperties
  <2>3. DOMAIN Tail(cs) = 1 .. Len(Tail(cs))
    BY <2>2, LenProperties
  <2>4. \A i \in DOMAIN Tail(cs) : i + 1 \in DOMAIN cs /\ Tail(cs)[i] = cs[i + 1]
    BY <2>1, <2>2, <2>3
  <2>5. Settles(Tail(cs)) \subseteq Settles(cs)
    BY <2>4 DEF Settles
  <2>6. 1 \in DOMAIN cs
    BY <2>1
  <2> QED BY <2>1, <2>5, <2>6 DEF Settles
<1> QED BY <1>1, <1>2

LEMMA MethodsSettle ==
    ASSUME CallsOfMiddleware, NEW m \in Methods, NEW c \in Settles(m)
    PROVE  Remains(m, c) /\ Head(m).server = "Flight" /\ Head(m).must = FALSE
<1> USE DEF Command
<1>1. c \in Customer /\ \E i \in DOMAIN m : m[i].name # "reserve" /\ m[i].customer = c
  BY DEF Settles
<1>2. ASSUME NEW k \in Item, m = Add(k) \/ m = Delete(k) PROVE FALSE
  <2>1. \A i \in DOMAIN m : m[i].customer = Null
    BY <1>2 DEF Add, Delete, OnItem
  <2> QED BY <1>1, <2>1, ObjectsAreNotNull DEF Key
<1>3. ASSUME NEW d \in Customer, NEW ks \in Seq(Item) \ {<<>>}, m = Bundle(d, ks)
      PROVE  FALSE
  <2>1. \A i \in DOMAIN m : m[i].name = "reserve"
    BY <1>3 DEF Bundle
  <2> QED BY <1>1, <2>1
<1>4. ASSUME NEW d \in Customer, m \in {NewCustomer(d), NewCustomerId(d), DeleteCustomer(d)}
      PROVE  Remains(m, c) /\ Head(m).server = "Flight" /\ Head(m).must = FALSE
  <2>1. PICK first \in {"newCustomer", "deleteCustomer", "makeUpCustomer"},
             name \in {"newCustomer", "deleteCustomer"}, must \in BOOLEAN :
           m = <<Command(first, "Flight", d, Null, FALSE),
                 Command(name, "Car", d, Null, must),
                 Command(name, "Room", d, Null, must)>>
    BY <1>4 DEF NewCustomer, NewCustomerId, DeleteCustomer, ToAll
  <2>2. \A i \in DOMAIN m : m[i].customer = d
    <3> DEFINE x == Command(first, "Flight", d, Null, FALSE)
               y == Command(name, "Car", d, Null, must)
               z == Command(name, "Room", d, Null, must)
    <3>1. x.customer = d /\ y.customer = d /\ z.customer = d
      OBVIOUS
    <3> HIDE DEF x, y, z
    <3>2. m = <<x, y, z>>
      BY <2>1 DEF x, y, z
    <3>3. DOMAIN m = {1, 2, 3} /\ m[1] = x /\ m[2] = y /\ m[3] = z
      BY <3>2
    <3> QED BY <3>1, <3>3
  <2>3. c = d
    BY <1>1, <2>2
  <2>4. Head(m) = Command(first, "Flight", d, Null, FALSE)
    BY <2>1
  <2> QED BY <1>4, <2>3, <2>4 DEF Remains
<1> QED BY <1>2, <1>3, <1>4 DEF CallsOfMiddleware

Settler(t, c) == c \in Settles(todo[t])
Ex(s, c) == m_data[s][c] # Null

(* The servers where a call has been that is at s.                          *)
Behind(s) == {r \in Server : \/ s = "Car" /\ r = "Flight"
                             \/ s = "Room" /\ r # "Room"}

Creates(t) == command(t).name # "deleteCustomer"

Structure == \A t \in Client : \A c \in Settles(todo[t]) : Remains(todo[t], c)

(* t is half-way: the customer is, where it has been, what t makes of it,   *)
(* and everywhere else the same; and it is nowhere else if t insists on     *)
(* creating it.                                                             *)
HalfWay(t, c) ==
    /\ \A s \in Behind(server(t)) : Ex(s, c) <=> Creates(t)
    /\ \A s, r \in Server \ Behind(server(t)) : Ex(s, c) <=> Ex(r, c)
    /\ command(t).must => \A s \in Server \ Behind(server(t)) : ~Ex(s, c)

Settled(c) ==
    /\ \A t, u \in Client : Settler(t, c) /\ Settler(u, c) => t = u
    /\ (\A t \in Client : ~Settler(t, c)) =>
          \A s, r \in Server : Ex(s, c) <=> Ex(r, c)
    /\ \A t \in Client : Settler(t, c) => HalfWay(t, c)

Undisturbed(c) == c \notin split /\ \A s \in Server : <<s, c>> \notin raced

Agreed == /\ WellBehaved
          /\ Structure
          /\ \A c \in Customer : Undisturbed(c) => Settled(c)

LEMMA TodoOfOthers ==
    ASSUME Locals, NEW t \in Client, Invoke(t) \/ Unreachable(t) \/ Step(t)
    PROVE  /\ \A u \in Client \ {t} : todo'[u] = todo[u]
           /\ \/ todo'[t] = todo[t]
              \/ todo[t] = <<>> /\ todo'[t] \in Methods
              \/ todo[t] # <<>> /\ todo'[t] \in {<<>>, Tail(todo[t])}
BY TodoStep DEF Locals

LEMMA StructureNext ==
    ASSUME CallsOfMiddleware, Locals, Structure, NEW t \in Client,
           Invoke(t) \/ Unreachable(t) \/ Step(t)
    PROVE  Structure'
<1>1. ASSUME NEW c \in Settles(todo'[t]) PROVE Remains(todo'[t], c)
  <2>1. CASE todo'[t] = todo[t]
    BY <1>1, <2>1 DEF Structure
  <2>2. CASE todo'[t] \in Methods
    BY <1>1, <2>2, MethodsSettle
  <2>3. CASE todo[t] # <<>> /\ todo'[t] \in {<<>>, Tail(todo[t])}
    <3>1. todo'[t] # <<>>
      BY <1>1, SettlesOfRest
    <3>2. c \in Settles(todo[t])
      BY <1>1, <2>3, <3>1, SettlesOfRest DEF Locals
    <3>3. c \in Customer /\ Remains(todo[t], c)
      BY <3>2 DEF Structure, Settles
    <3>4. RemainsWell(todo[t], c)
      BY <3>3, RemainsIsWell
    <3>5. todo'[t] = Tail(todo[t]) /\ Remains(Tail(todo[t]), c)
      BY <2>3, <3>1, <3>4 DEF RemainsWell
    <3> QED BY <3>5
  <2> QED BY <2>1, <2>2, <2>3, TodoOfOthers
<1>2. ASSUME NEW u \in Client \ {t} PROVE todo'[u] = todo[u]
  BY <1>2, TodoOfOthers
<1> QED BY <1>1, <1>2 DEF Structure

LEMMA SplitGrows ==
    ASSUME NEW t \in Client, Invoke(t) \/ Unreachable(t) \/ Step(t)
    PROVE  /\ split \subseteq split'
           /\ Throw(t) => \A c \in Customer : c = command(t).customer => c \in split'
BY DEF Throw, Invoke, Unreachable, Step, BeginItem, WriteAdded, RemoveItem,
       BeginCustomer, MakeUpCustomer, WriteCustomer, ReadReserved, WriteReserved,
       ReadGivenBack, WriteGivenBack, RemoveCustomer

(* Who does not create or delete a customer leaves it where it is, and      *)
(* where it is not.                                                         *)
LEMMA ExistenceStays ==
    ASSUME NEW t \in Client, StepOf(t), NEW c \in Customer, ~Settler(t, c),
           NEW s \in Server, <<s, c>> \notin raced'
    PROVE  Ex(s, c)' <=> Ex(s, c)
<1>1. /\ Memory /\ Locals /\ Memory' /\ Place(t) /\ CloneOf(t)
      /\ (Invoke(t) \/ Unreachable(t) \/ Step(t)) /\ Races(t)
      /\ c \in Key
  BY DEF StepOf, Locals, Clones, Key
<1>2. CASE <<s, c>> \notin Uses(t) /\ ~MakesUp(t, s, c)
  BY <1>1, <1>2, Untouched DEF Ex
<1>3. ASSUME todo[t] # <<>>, command(t).customer = c PROVE command(t).name = "reserve"
  BY <1>1, <1>3, SettlesOfRest DEF Settler, command, Locals
<1>4. CASE MakesUp(t, s, c)
  BY <1>3, <1>4 DEF MakesUp, MakeUpCustomer, Runs
<1>5. CASE <<s, c>> \in Uses(t)
  <2>1. Works(t) /\ s = server(t) /\ c \in {command(t).customer, key[t]}
    BY <1>1, <1>5, UsesObject
  <2>2. key[t] # c
    BY <1>1, KeyAssumption, ObjectsAreNotNull DEF Locals
  <2>3. todo[t] # <<>> /\ command(t).name = "reserve"
    BY <1>1, <1>3, <2>1, <2>2 DEF Works, Place
  <2>4. command(t).item \in Item
    BY <1>1, <2>3, CommandType
  <2>5. CASE WriteReserved(t)
    <3> DEFINE obj == [count |-> item[t].count - 1, reserved |-> item[t].reserved + 1]
    <3>1. /\ Put(s, key[t], obj)
          /\ item[t] \in ItemObject /\ item[t].count > 0 /\ key[t] \in Item
      BY <1>1, <2>1, <2>5 DEF WriteReserved, Runs, Place, NeedsKey, NeedsItem,
                              NeedsSeat, Locals
    <3>2. obj \in Object /\ key[t] \in Key
      BY <3>1 DEF ItemObject, Object, Key
    <3> HIDE DEF obj
    <3> QED BY <1>1, <2>2, <3>1, <3>2, PutValue DEF Ex
  <2>6. CASE WriteCustomer(t)
    <3>1. /\ Put(s, c, Plus(customer[t], command(t).item))
          /\ pc[t] = "writeCustomer" /\ customer[t] \in CustomerObject
      BY <1>1, <2>1, <2>2, <2>3, <2>6
         DEF WriteCustomer, Plus, Place, NeedsCustomer, Locals
    <3>2. Plus(customer[t], command(t).item) \in CustomerObject
      BY <2>4, <3>1, PlusType
    <3>3. m_data'[s][c] = Plus(customer[t], command(t).item)
      BY <1>1, <3>1, <3>2, PutValue DEF Object
    <3>4. <<s, c>> \notin raced
      BY <1>1, RacesGrow
    <3>5. m_data[s][c] = customer[t]
      BY <1>1, <2>1, <2>2, <2>3, <3>1, <3>4 DEF CloneOf
    <3> QED BY <3>1, <3>2, <3>3, <3>5, ObjectsAreNotNull DEF Ex
  <2>7. CASE ~WriteReserved(t) /\ ~WriteCustomer(t)
    <3>1. ReadReserved(t)
      BY <1>1, <2>1, <2>3, <2>7
         DEF Works, Place, Step, Invoke, Unreachable, BeginItem, WriteAdded, RemoveItem,
             BeginCustomer, MakeUpCustomer, ReadGivenBack, WriteGivenBack,
             RemoveCustomer, Runs
    <3> QED BY <3>1 DEF ReadReserved, Ex
  <2> QED BY <2>5, <2>6, <2>7
<1> QED BY <1>2, <1>4, <1>5

(* What t is at when it creates or deletes c.                               *)
Settling(t, c) ==
    /\ todo[t] # <<>>
    /\ command(t).customer = c
    /\ server(t) \in Server
    /\ command(t).name \in OnCustomers
    /\ command(t).name = "makeUpCustomer" => server(t) = "Flight"
    /\ command(t).must => command(t).name = "newCustomer"

LEMMA SettlersSettle ==
    ASSUME Structure, NEW t \in Client, NEW c \in Customer, Settler(t, c)
    PROVE  RemainsWell(todo[t], c) /\ Settling(t, c)
<1>1. RemainsWell(todo[t], c)
  BY RemainsIsWell DEF Structure, Settler
<1> QED BY <1>1 DEF RemainsWell, Settling, command, server

(* A command that creates or deletes a customer touches it at its server    *)
(* alone; and when it has been answered it is there, or is not, as it       *)
(* should be.                                                               *)
LEMMA ExistenceElsewhere ==
    ASSUME NEW t \in Client, StepOf(t), NEW c \in Customer, Settling(t, c),
           NEW s \in Server \ {server(t)}
    PROVE  Ex(s, c)' <=> Ex(s, c)
<1>1. <<s, c>> \notin Uses(t)
  BY UsesObject DEF Key
<1>2. ~MakesUp(t, s, c)
  BY DEF MakesUp, MakeUpCustomer, Runs, Settling
<1> QED BY <1>1, <1>2, Untouched DEF StepOf, Key, Ex

LEMMA SettlerStep ==
    ASSUME NEW t \in Client, StepOf(t), NEW c \in Customer, Settling(t, c),
           c \notin split', <<server(t), c>> \notin raced'
    PROVE  \/ UNCHANGED todo /\ (Ex(server(t), c)' <=> Ex(server(t), c))
           \/ \E b \in BOOLEAN :
                 /\ Answer(t, b)
                 /\ m_data'[server(t)][c] # Null <=> Creates(t)
                 /\ ~b /\ Creates(t) => Ex(server(t), c)
                 /\ command(t).name = "makeUpCustomer" => b /\ ~Ex(server(t), c)
<1> DEFINE s == server(t)
<1>1. /\ Memory /\ Locals /\ Place(t) /\ Races(t)
      /\ (Invoke(t) \/ Unreachable(t) \/ Step(t))
      /\ c \in Key /\ s \in Server
  BY DEF StepOf, Locals, Key, Settling
<1>2. ~Throw(t)
  BY <1>1, SplitGrows DEF Settling
<1>3. \/ BeginCustomer(t) \/ MakeUpCustomer(t) \/ WriteCustomer(t)
      \/ ReadGivenBack(t) \/ WriteGivenBack(t) \/ RemoveCustomer(t)
  BY <1>1, <1>2
     DEF Step, Invoke, Unreachable, BeginItem, WriteAdded, RemoveItem, ReadReserved,
         WriteReserved, Runs, Settling, OnCustomers, Place
<1>4. CASE BeginCustomer(t)
  <2>1. UNCHANGED m_data
    BY <1>4 DEF BeginCustomer
  <2>2. CASE UNCHANGED todo
    BY <2>1, <2>2 DEF Ex, server, command
  <2>3. CASE ~UNCHANGED todo
    <3>1. /\ Answer(t, FALSE) /\ (m_data[s][c] = Null) # (command(t).name = "newCustomer")
          /\ UNCHANGED m_data
          /\ command(t).name \in {"newCustomer", "deleteCustomer"}
      BY <1>4, <2>3 DEF BeginCustomer, Runs, Settling, OnCustomers
    <3> QED BY <3>1 DEF Ex, Creates
  <2> QED BY <2>2, <2>3
<1>5. CASE MakeUpCustomer(t)
  <2>1. /\ command(t).name = "makeUpCustomer" /\ s = "Flight"
        /\ Put(s, c, [k \in Item |-> 0]) /\ Answer(t, TRUE)
    BY <1>5 DEF MakeUpCustomer, Runs, Settling
  <2>2. [k \in Item |-> 0] \in CustomerObject
    BY DEF CustomerObject
  <2>3. m_data'[s][c] # Null
    BY <1>1, <2>1, <2>2, PutValue, ObjectsAreNotNull DEF Object
  <2>4. m_data[s][c] = Null
    BY <1>1, <1>5, <2>1, RacesGrow DEF Settling
  <2> QED BY <2>1, <2>3, <2>4 DEF Creates, Ex
<1>6. CASE WriteCustomer(t)
  <2>1. /\ command(t).name = "newCustomer"
        /\ Put(s, c, [k \in Item |-> 0]) /\ Answer(t, TRUE)
    BY <1>6 DEF WriteCustomer, Settling, OnCustomers
  <2>2. [k \in Item |-> 0] \in CustomerObject
    BY DEF CustomerObject
  <2>3. m_data'[s][c] # Null
    BY <1>1, <2>1, <2>2, PutValue, ObjectsAreNotNull DEF Object
  <2> QED BY <2>1, <2>3 DEF Creates
<1>7. CASE ReadGivenBack(t)
  BY <1>2, <1>7 DEF ReadGivenBack, Ex, server, command
<1>8. CASE WriteGivenBack(t)
  <2> DEFINE n == customer[t][key[t]]
             obj == GiveBack(item[t], n)
  <2>1. /\ Put(s, key[t], obj)
        /\ item[t] \in ItemObject /\ key[t] \in Item
        /\ customer[t] \in CustomerObject
        /\ UNCHANGED todo
    BY <1>1, <1>8 DEF WriteGivenBack, Runs, Place, NeedsKey, NeedsItem,
                      NeedsCustomer, Locals
  <2>2. n \in Nat
    BY <2>1 DEF CustomerObject
  <2> HIDE DEF n
  <2>3. obj \in Object /\ key[t] \in Key /\ key[t] # c
    BY <2>1, <2>2, KeyAssumption DEF ItemObject, GiveBack, Object, Key
  <2> HIDE DEF obj
  <2>4. m_data'[s][c] = m_data[s][c]
    BY <1>1, <2>1, <2>3, PutValue
  <2> QED BY <2>1, <2>4 DEF Ex, server, command
<1>9. CASE RemoveCustomer(t)
  <2>1. /\ command(t).name = "deleteCustomer"
        /\ Put(s, c, Null) /\ Answer(t, TRUE)
    BY <1>9 DEF RemoveCustomer, Runs, Settling
  <2>2. m_data'[s][c] = Null
    BY <1>1, <2>1, PutValue DEF Object
  <2> QED BY <2>1, <2>2 DEF Creates
<1> QED BY <1>3, <1>4, <1>5, <1>6, <1>7, <1>8, <1>9

LEMMA HalfWayStays ==
    ASSUME NEW u \in Client, todo'[u] = todo[u], NEW c,
           \A s \in Server : Ex(s, c)' <=> Ex(s, c)
    PROVE  /\ Settler(u, c)' <=> Settler(u, c)
           /\ HalfWay(u, c) => HalfWay(u, c)'
<1>1. command(u)' = command(u) /\ server(u)' = server(u)
  BY DEF command, server
<1>2. Settler(u, c)' <=> Settler(u, c)
  BY DEF Settler
<1>3. ASSUME HalfWay(u, c) PROVE HalfWay(u, c)'
  <2>1. Behind(server(u))' = Behind(server(u)) /\ Behind(server(u)) \subseteq Server
    BY <1>1 DEF Behind
  <2>2. \A s \in Behind(server(u)) : Ex(s, c)' <=> Creates(u)'
    BY <1>1, <1>3, <2>1 DEF HalfWay, Creates
  <2> QED BY <1>1, <1>3, <2>1, <2>2 DEF HalfWay
<1> QED BY <1>2, <1>3

(* A call of t begins.                                                      *)
LEMMA SettledInvoke ==
    ASSUME CallsOfMiddleware, NEW t \in Client, StepOf(t), Invoke(t),
           NEW c \in Customer, Settled(c), c \notin split'
    PROVE  Settled(c)'
<1>1. Locals /\ Place(t) /\ todo[t] = <<>> /\ UNCHANGED m_data
  BY DEF StepOf, Locals, Place, Invoke
<1>2. \A s \in Server : Ex(s, c)' <=> Ex(s, c)
  BY <1>1 DEF Ex
<1>3. \A u \in Client \ {t} : /\ Settler(u, c)' <=> Settler(u, c)
                              /\ HalfWay(u, c) => HalfWay(u, c)'
  BY <1>2, TodoOfOthers, HalfWayStays DEF StepOf
<1>4. ~Settler(t, c)
  BY <1>1, SettlesOfRest DEF Settler
<1>5. PICK m \in Methods :
         /\ todo' = [todo EXCEPT ![t] = m]
         /\ split' = split \cup (Settles(m) \cap UNION {Settles(todo[u]) : u \in Client})
  BY DEF Invoke
<1>6. todo'[t] = m
  BY <1>1, <1>5 DEF Locals
<1>7. CASE c \in Settles(m)
  <2>1. \A u \in Client : ~Settler(u, c)
    BY <1>5, <1>7 DEF Settler
  <2>2. \A s, r \in Server : Ex(s, c)' <=> Ex(r, c)'
    BY <1>2, <2>1 DEF Settled
  <2>3. Head(m).server = "Flight" /\ Head(m).must = FALSE
    BY <1>7, MethodsSettle
  <2>4. server(t)' = "Flight" /\ command(t)'.must = FALSE
    BY <1>6, <2>3 DEF server, command
  <2>5. Behind(server(t))' = {}
    BY <2>4 DEF Behind
  <2>6. HalfWay(t, c)'
    BY <2>2, <2>4, <2>5 DEF HalfWay
  <2>7. \A u \in Client : Settler(u, c)' => u = t
    BY <1>3, <2>1 DEF Settler
  <2>8. \A u, w \in Client : Settler(u, c)' /\ Settler(w, c)' => u = w
    BY <2>7
  <2> QED BY <2>2, <2>6, <2>7, <2>8 DEF Settled
<1>8. CASE c \notin Settles(m)
  <2>1. ~Settler(t, c)'
    BY <1>6, <1>8 DEF Settler
  <2>2. \A u \in Client : /\ Settler(u, c)' <=> Settler(u, c)
                          /\ Settler(u, c)' /\ HalfWay(u, c) => HalfWay(u, c)'
    <3> TAKE u \in Client
    <3>1. CASE u = t
      BY <1>4, <2>1, <3>1
    <3>2. CASE u # t
      BY <1>3, <3>2
    <3> QED BY <3>1, <3>2
  <2> QED BY <1>2, <2>2 DEF Settled
<1> QED BY <1>7, <1>8

(* The command with which t settles c is answered.                          *)
LEMMA SettledAnswer ==
    ASSUME NEW t \in Client, StepOf(t), ~Invoke(t), Structure,
           NEW c \in Customer, Settled(c), Settler(t, c),
           NEW b \in BOOLEAN, Answer(t, b),
           m_data'[server(t)][c] # Null <=> Creates(t),
           ~b /\ Creates(t) => Ex(server(t), c),
           command(t).name = "makeUpCustomer" => b /\ ~Ex(server(t), c)
    PROVE  Settled(c)'
<1> DEFINE h == Head(todo[t])
           n == Head(Tail(todo[t]))
           s == h.server
<1>1. Locals /\ (Invoke(t) \/ Unreachable(t) \/ Step(t))
  BY DEF StepOf
<1>2. RemainsWell(todo[t], c) /\ Settling(t, c) /\ todo[t] # <<>>
  BY SettlersSettle DEF Settling
<1>3. h = command(t) /\ s = server(t) /\ s \in Server
  BY <1>2 DEF command, server, Settling
<1>4. \A r \in Server \ {s} : Ex(r, c)' <=> Ex(r, c)
  BY <1>2, <1>3, ExistenceElsewhere
<1>5. m_data'[s][c] # Null <=> Creates(t)
  BY <1>3
<1>6. Behind(s) \subseteq Server /\ s \notin Behind(s)
  BY <1>3 DEF Behind, Server
<1>7. HalfWay(t, c)
  BY DEF Settled
<1>8. ~(h.must /\ ~b)
  BY <1>2, <1>3, <1>6, <1>7 DEF HalfWay, Creates, Settling
<1>9. todo'[t] = Tail(todo[t])
  BY <1>1, <1>3, <1>8 DEF Answer, Locals
<1>10. \A u \in Client \ {t} : ~Settler(u, c)'
  BY <1>1, TodoOfOthers DEF Settled, Settler
<1>11. \A r \in Behind(s) \cup {s} : m_data'[r][c] # Null <=> Creates(t)
  <2>1. \A r \in Behind(s) : Ex(r, c) <=> Creates(t)
    BY <1>3, <1>7 DEF HalfWay
  <2> QED BY <1>4, <1>5, <1>6, <2>1 DEF Ex
<1>12. CASE Tail(todo[t]) = <<>>
  <2>1. s = "Room"
    BY <1>2, <1>12 DEF RemainsWell
  <2>2. Behind(s) \cup {s} = Server
    BY <2>1 DEF Behind, Server
  <2>3. \A q, r \in Server : Ex(q, c)' <=> Ex(r, c)'
    BY <1>11, <2>2 DEF Ex
  <2>4. ~Settler(t, c)'
    BY <1>9, <1>12, SettlesOfRest DEF Settler
  <2> QED BY <1>10, <2>3, <2>4 DEF Settled
<1>13. CASE Tail(todo[t]) # <<>>
  <2>1. /\ Remains(Tail(todo[t]), c)
        /\ n.server = After(s) /\ s # "Room"
        /\ n.name = "deleteCustomer" <=> h.name = "deleteCustomer"
        /\ n.must => h.must \/ h.name = "makeUpCustomer"
    BY <1>2, <1>13 DEF RemainsWell
  <2>2. RemainsWell(Tail(todo[t]), c)
    BY <2>1, RemainsIsWell
  <2>3. command(t)' = n /\ server(t)' = n.server
    BY <1>9 DEF command, server
  <2>4. Settler(t, c)'
    <3>1. Tail(todo[t]) \in CallSequences
      BY <1>1, <1>2, HeadAndTail DEF Locals
    <3>2. n.customer = c /\ n.name # "reserve"
      BY <2>2 DEF RemainsWell, OnCustomers
    <3> QED BY <1>9, <1>13, <3>1, <3>2, SettlesOfRest DEF Settler
  <2>5. Behind(n.server) = Behind(s) \cup {s}
    BY <1>3, <2>1 DEF After, Behind, Server
  <2>6. Creates(t)' <=> Creates(t)
    BY <1>3, <2>1, <2>3 DEF Creates
  <2>7. \A r \in Server \ Behind(n.server) : /\ r \in Server \ Behind(s)
                                             /\ Ex(r, c)' <=> Ex(r, c)
    BY <1>4, <2>5
  <2>8. \A q, r \in Server \ Behind(s) : Ex(q, c) <=> Ex(r, c)
    BY <1>3, <1>7 DEF HalfWay
  <2>9. \A q, r \in Server \ Behind(n.server) : Ex(q, c)' <=> Ex(r, c)'
    BY <2>7, <2>8 DEF Ex
  <2>10. ASSUME n.must, NEW r \in Server \ Behind(n.server) PROVE ~Ex(r, c)'
    <3>1. CASE h.must
      BY <1>3, <1>7, <2>7, <3>1 DEF HalfWay, Ex
    <3>2. CASE h.name = "makeUpCustomer"
      <4>1. ~Ex(s, c)
        BY <1>3, <3>2
      <4>2. s \in Server \ Behind(s) /\ r \in Server \ Behind(s)
        BY <1>3, <1>6, <2>7
      <4>3. ~Ex(r, c)
        BY <2>8, <4>1, <4>2 DEF Ex
      <4> QED BY <2>7, <4>3 DEF Ex
    <3> QED BY <2>1, <2>10, <3>1, <3>2
  <2>11. \A r \in Behind(n.server) : Ex(r, c)' <=> Creates(t)'
    BY <1>11, <2>5, <2>6 DEF Ex
  <2>12. HalfWay(t, c)'
    BY <2>3, <2>9, <2>10, <2>11 DEF HalfWay
  <2>13. \A u \in Client : Settler(u, c)' => u = t
    BY <1>10
  <2> QED BY <2>4, <2>12, <2>13 DEF Settled
<1> QED BY <1>12, <1>13

LEMMA SettledNext ==
    ASSUME CallsOfMiddleware, NEW t \in Client, StepOf(t), Structure,
           NEW c \in Customer, Settled(c), Undisturbed(c)'
    PROVE  Settled(c)'
<1>1. /\ Locals /\ (Invoke(t) \/ Unreachable(t) \/ Step(t))
      /\ c \notin split' /\ \A s \in Server : <<s, c>> \notin raced'
  BY DEF StepOf, Undisturbed
<1>2. CASE Invoke(t)
  BY <1>1, <1>2, SettledInvoke
<1>3. ASSUME \A s \in Server : Ex(s, c)' <=> Ex(s, c),
             Settler(t, c) => todo'[t] = todo[t], ~Invoke(t)
      PROVE  Settled(c)'
  <2>1. Settler(t, c)' => todo'[t] = todo[t]
    <3>1. CASE todo[t] # <<>> /\ todo'[t] \in {<<>>, Tail(todo[t])}
      BY <1>1, <1>3, <3>1, SettlesOfRest DEF Settler, Locals
    <3>2. CASE todo[t] = <<>> /\ todo'[t] \in Methods
      <4>1. Place(t)
        BY <1>1 DEF Locals
      <4> QED BY <1>1, <1>3, <3>2, <4>1
              DEF Place, Unreachable, Step, BeginItem, WriteAdded, RemoveItem,
                  BeginCustomer, MakeUpCustomer, WriteCustomer, ReadReserved,
                  WriteReserved, ReadGivenBack, WriteGivenBack, RemoveCustomer, Runs
    <3> QED BY <1>1, <3>1, <3>2, TodoOfOthers
  <2>2. \A u \in Client : /\ Settler(u, c)' => Settler(u, c)
                          /\ Settler(u, c) => Settler(u, c)'
                          /\ Settler(u, c) /\ HalfWay(u, c) => HalfWay(u, c)'
    <3> TAKE u \in Client
    <3>1. CASE todo'[u] = todo[u]
      BY <1>3, <3>1, HalfWayStays
    <3>2. CASE todo'[u] # todo[u]
      BY <1>1, <1>3, <2>1, <3>2, TodoOfOthers
    <3> QED BY <3>1, <3>2
  <2> QED BY <1>3, <2>2 DEF Settled
<1>4. CASE ~Invoke(t) /\ ~Settler(t, c)
  BY <1>1, <1>3, <1>4, ExistenceStays
<1>5. CASE ~Invoke(t) /\ Settler(t, c)
  <2>1. Settling(t, c) /\ server(t) \in Server
    BY <1>5, SettlersSettle DEF Settling
  <2>2. CASE UNCHANGED todo /\ (Ex(server(t), c)' <=> Ex(server(t), c))
    <3>1. server(t)' = server(t)
      BY <2>2 DEF server, command
    <3>2. m_data'[server(t)][c] # Null <=> m_data[server(t)][c] # Null
      BY <2>2, <3>1 DEF Ex
    <3>3. \A s \in Server \ {server(t)} : Ex(s, c)' <=> Ex(s, c)
      BY <2>1, ExistenceElsewhere
    <3>4. \A s \in Server : Ex(s, c)' <=> Ex(s, c)
      BY <3>2, <3>3 DEF Ex
    <3> QED BY <1>3, <1>5, <2>2, <3>4
  <2>3. ASSUME NEW b \in BOOLEAN, Answer(t, b),
               m_data'[server(t)][c] # Null <=> Creates(t),
               ~b /\ Creates(t) => Ex(server(t), c),
               command(t).name = "makeUpCustomer" => b /\ ~Ex(server(t), c)
        PROVE  Settled(c)'
    BY <1>5, <2>3, SettledAnswer
  <2> QED BY <1>1, <2>1, <2>2, <2>3, SettlerStep
<1> QED BY <1>2, <1>4, <1>5

LEMMA AgreedInit == ASSUME Init PROVE Agreed
<1>1. \A t \in Client : Settles(todo[t]) = {}
  BY SettlesOfRest DEF Init
<1>2. \A s \in Server, c \in Customer : m_data[s][c] = Null
  BY DEF Init, Key
<1> QED BY <1>1, <1>2, WellBehavedInit DEF Agreed, Structure, Settled, Settler, Ex

LEMMA AgreedNext ==
    ASSUME CallsOfMiddleware, Agreed, [Next]_vars PROVE Agreed'
<1>1. WellBehaved'
  BY WellBehavedNext DEF Agreed
<1>2. ASSUME NEW t \in Client, Invoke(t) \/ Unreachable(t) \/ Step(t), Races(t)
      PROVE  Agreed'
  <2>1. StepOf(t)
    BY <1>2, WellBehavedStep DEF Agreed
  <2>2. Structure'
    BY <1>2, StructureNext DEF Agreed, WellBehaved, Types
  <2>3. ASSUME NEW c \in Customer, Undisturbed(c)' PROVE Settled(c)'
    <3>1. Undisturbed(c)
      BY <1>2, <2>3, RacesGrow, SplitGrows DEF Undisturbed
    <3> QED BY <2>1, <2>3, <3>1, SettledNext DEF Agreed
  <2> QED BY <1>1, <2>2, <2>3 DEF Agreed
<1>3. CASE UNCHANGED vars
  <2>1. UNCHANGED <<m_data, todo, raced, split>>
    BY <1>3 DEF vars
  <2>2. ASSUME NEW c \in Customer, Undisturbed(c)' PROVE Settled(c)'
    <3>1. Settled(c)
      BY <2>1, <2>2 DEF Undisturbed, Agreed
    <3>2. \A s \in Server : Ex(s, c)' <=> Ex(s, c)
      BY <2>1 DEF Ex
    <3>3. \A u \in Client : /\ Settler(u, c)' <=> Settler(u, c)
                            /\ HalfWay(u, c) => HalfWay(u, c)'
      BY <2>1, <3>2, HalfWayStays
    <3> QED BY <3>1, <3>2, <3>3 DEF Settled
  <2> QED BY <1>1, <2>1, <2>2 DEF Agreed, Structure
<1> QED BY <1>2, <1>3 DEF Next

(* Without transactions, whatever calls are interleaved: a customer nobody  *)
(* works on exists at all servers or at none, unless calls that create or   *)
(* delete it have met or broken off, or commands have raced on it.          *)
THEOREM CustomersExistEverywhere ==
    ASSUME CallsOfMiddleware PROVE Spec => []CustomersAgree
<1>1. Init => Agreed
  BY AgreedInit
<1>2. Agreed /\ [Next]_vars => Agreed'
  BY AgreedNext, CallsOfMiddleware
<1>3. ASSUME Agreed PROVE CustomersAgree
  <2> SUFFICES ASSUME NEW c \in Customer \ split,
                      \A t \in Client : c \notin Settles(todo[t]),
                      raced \cap (Server \X {c}) = {}
               PROVE  \/ \A s \in Server : m_data[s][c] = Null
                      \/ \A s \in Server : m_data[s][c] # Null
    BY DEF CustomersAgree
  <2>1. Undisturbed(c)
    BY DEF Undisturbed
  <2>2. \A s, r \in Server : Ex(s, c) <=> Ex(r, c)
    BY <1>3, <2>1 DEF Agreed, Settled, Settler
  <2> QED BY <2>2 DEF Ex
<1> QED BY <1>1, <1>2, <1>3, PTL DEF Spec
=============================================================================
