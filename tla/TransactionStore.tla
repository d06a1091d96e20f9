--------------------------- MODULE TransactionStore ---------------------------
(***************************************************************************)
(* What the travel system promises of its transactions: each one works on a *)
(* view of its own and takes effect at once, when it commits, as if it had  *)
(* run alone at that moment: whatever it has read is what is stored then.   *)
(* A value is the set of the transactions whose writes it includes.         *)
(***************************************************************************)
CONSTANTS Xid,    \* transactions
          Cell    \* places where a value is stored

VARIABLES status,   \* status[x]: how far x has come
          db,       \* db[c]: the stored value
          view,     \* view[x]: the cells x has used, with what it sees there
          intact    \* has every server answered so far?

vars == <<status, db, view, intact>>

Nothing == [c \in {} |-> {}]

Init == /\ status = [x \in Xid |-> "none"]
        /\ db = [c \in Cell |-> {}]
        /\ view = [x \in Xid |-> Nothing]
        /\ intact = TRUE

Begin(x) == /\ status[x] = "none"
            /\ status' = [status EXCEPT ![x] = "active"]
            /\ UNCHANGED <<db, view, intact>>

Seen(x, c) == IF c \in DOMAIN view[x] THEN view[x][c] ELSE db[c]

(* x reads some cells, and may write them.  A first look shows what is      *)
(* stored, a later one what x saw and wrote before.                         *)
Use(x) == /\ status[x] = "active"
          /\ UNCHANGED <<status, db, intact>>
          /\ DOMAIN view[x] \subseteq DOMAIN view'[x]
          /\ DOMAIN view'[x] \subseteq Cell
          /\ \A c \in DOMAIN view'[x] :
                view'[x][c] \in {Seen(x, c), Seen(x, c) \cup {x}}
          /\ view' = [view EXCEPT ![x] = view'[x]]

End(x, how) == /\ status[x] = "active"
               /\ status' = [status EXCEPT ![x] = how]
               /\ view' = [view EXCEPT ![x] = Nothing]
               /\ UNCHANGED intact

Commit(x) == /\ End(x, "committed")
             /\ \A c \in DOMAIN view[x] : view[x][c] \ {x} = db[c]
             /\ db' = [c \in Cell |-> Seen(x, c)]

Abort(x) == End(x, "aborted") /\ UNCHANGED db

(* Nothing is promised once a server has stopped.                          *)
Fail == ~intact'

Next == \/ Fail
        \/ \E x \in Xid : Begin(x) \/ Use(x) \/ Commit(x) \/ Abort(x)

Spec == Init /\ [][Next]_vars
=============================================================================
