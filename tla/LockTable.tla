------------------------------ MODULE LockTable ------------------------------
(***************************************************************************)
(* How LockManager.java keeps its locks: TPHashTable, a hash table whose    *)
(* slots are vectors, holds every lock twice, as a TransactionLockObject    *)
(* under its transaction and as a DataLockObject under its item.  Both      *)
(* kinds of entries share the slots, and equals, which DataLockObject       *)
(* inherits, does not tell them apart.                                      *)
(* A step is what happens to the table inside lockTable's monitor; waiting  *)
(* is the matter of LockManager.tla.                                        *)
(***************************************************************************)
EXTENDS Integers, Sequences

CONSTANTS Xid,        \* transaction identifiers, positive numbers
          Data,       \* names of lockable items
          hashCode,   \* hashCode[d]: String.hashCode of d
          TABLE_SIZE  \* slots of a table

VARIABLES m_vector,   \* m_vector[h]: slot h, a vector of entries
          vect,       \* UnlockAll's entries yet to be removed
          answer      \* how the last call of Lock ended

vars == <<m_vector, vect, answer>>

Lock == [xid : Xid, data : Data, type : {"READ", "WRITE"}]
TransactionLockObject(l) == [class |-> "TransactionLockObject", lock |-> l]
DataLockObject(l) == [class |-> "DataLockObject", lock |-> l]
Entry == [class : {"TransactionLockObject", "DataLockObject"}, lock : Lock]

key(e) == IF e.class = "DataLockObject" THEN hashCode[e.lock.data] ELSE e.lock.xid
hashSlot(k) == (IF k < 0 THEN -k ELSE k) % TABLE_SIZE

Slot == 0 .. TABLE_SIZE - 1
Answer == {"none", "granted", "redundant", "conflict", "ClassCastException"}

TypeOK == /\ m_vector \in [Slot -> Seq(Entry)]
          /\ vect \subseteq Entry
          /\ answer \in Answer

Init == /\ m_vector = [h \in Slot |-> <<>>]
        /\ vect = {}
        /\ answer = "none"

-----------------------------------------------------------------------------
(* TPHashTable, with v for its slots.                                      *)

(* Where the entries with key k are; elements returns the last one first.   *)
elements(v, k) == {i \in DOMAIN v[hashSlot(k)] : key(v[hashSlot(k)][i]) = k}

(* Entries are equal when xid, name and type are.  get and remove take the  *)
(* first one that is equal to e.                                            *)
Equal(v, e) == {i \in DOMAIN v[hashSlot(key(e))] :
                   v[hashSlot(key(e))][i].lock = e.lock}
IsFirst(i, S) == i \in S /\ \A j \in S : i <= j

RemoveIndex(q, i) == SubSeq(q, 1, i - 1) \o SubSeq(q, i + 1, Len(q))

add(v, e) == [v EXCEPT ![hashSlot(key(e))] = Append(@, e)]
remove(v, e) ==
    IF Equal(v, e) = {} THEN v
    ELSE [v EXCEPT ![hashSlot(key(e))] =
             RemoveIndex(@, CHOOSE i \in DOMAIN @ : IsFirst(i, Equal(v, e)))]

AddLock(v, l) == add(add(v, TransactionLockObject(l)), DataLockObject(l))

-----------------------------------------------------------------------------
(* LockConflict goes through the entries with the item's key, the newest    *)
(* first, and casts each to a DataLockObject.                               *)
Redundant(e, l) == /\ e.lock.xid = l.xid
                   /\ l.type = "READ" \/ e.lock.type = "WRITE"
Conflicts(e, l) == e.lock.xid # l.xid /\ "WRITE" \in {e.lock.type, l.type}
Decides(e, l) == \/ e.class # "DataLockObject"
                 \/ Redundant(e, l)
                 \/ Conflicts(e, l)

Found(l) == elements(m_vector, hashCode[l.data])
At(l, i) == m_vector[hashSlot(hashCode[l.data])][i]
Decisive(l) == {i \in Found(l) : Decides(At(l, i), l)}

Refuse(l) == \E i \in Decisive(l) :
    /\ \A j \in Decisive(l) : j <= i
    /\ answer' = IF At(l, i).class # "DataLockObject" THEN "ClassCastException"
                 ELSE IF Redundant(At(l, i), l) THEN "redundant" ELSE "conflict"
    /\ UNCHANGED m_vector

Converts(l) == \E i \in Found(l) : At(l, i).lock.xid = l.xid

Grant(l) == /\ Decisive(l) = {} /\ ~Converts(l)
            /\ m_vector' = AddLock(m_vector, l)
            /\ answer' = "granted"

(* The READ lock is looked up as a DataLockObject, taken out twice, and     *)
(* replaced by the WRITE lock.                                              *)
Convert(l) ==
    LET read == [l EXCEPT !.type = "READ"]
        equal == Equal(m_vector, DataLockObject(read))
        rest == remove(remove(m_vector, TransactionLockObject(read)),
                       DataLockObject(read))
    IN  /\ Decisive(l) = {} /\ Converts(l)
        /\ IF \A i \in equal : IsFirst(i, equal) => At(l, i).class = "DataLockObject"
           THEN m_vector' = AddLock(rest, l) /\ answer' = "granted"
           ELSE answer' = "ClassCastException" /\ UNCHANGED m_vector

CallLock(l) == /\ vect = {}
               /\ Refuse(l) \/ Grant(l) \/ Convert(l)
               /\ UNCHANGED vect

(* UnlockAll collects the entries with the transaction's key, then takes    *)
(* each out of the table, with the DataLockObject of its lock.              *)
UnlockAll(x) == /\ vect = {}
                /\ vect' = {m_vector[hashSlot(x)][i] : i \in elements(m_vector, x)}
                /\ answer' = "none"
                /\ UNCHANGED m_vector

Unlock == \E e \in vect :
             /\ m_vector' = remove(remove(m_vector, e), DataLockObject(e.lock))
             /\ vect' = vect \ {e}
             /\ UNCHANGED answer

Next == \/ \E l \in Lock : CallLock(l)
        \/ \E x \in Xid : UnlockAll(x)
        \/ Unlock

Spec == Init /\ [][Next]_vars

-----------------------------------------------------------------------------
(* LockManager.java:45 "Return true when there is no lock conflict or throw *)
(* a deadlock exception": Lock ends in one of the ways it is written for.   *)
LockAnswers == answer # "ClassCastException"

(* Every lock is in the table under its transaction and under its item,     *)
(* once each: what LockConflict finds by the item and what UnlockAll finds  *)
(* by the transaction are the same locks.                                   *)
In(e, i) == /\ i \in DOMAIN m_vector[hashSlot(key(e))]
            /\ m_vector[hashSlot(key(e))][i] = e
Has(e) == \E i \in DOMAIN m_vector[hashSlot(key(e))] : In(e, i)

EveryLockTwice ==
    /\ \A l \in Lock : Has(TransactionLockObject(l)) <=> Has(DataLockObject(l))
    /\ \A e \in Entry : \A i, j \in DOMAIN m_vector[hashSlot(key(e))] :
          In(e, i) /\ In(e, j) => i = j
=============================================================================
