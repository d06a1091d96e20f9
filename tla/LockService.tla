---------------------------- MODULE LockService ----------------------------
(***************************************************************************)
(* What a transaction manager may assume of the lock manager: strict       *)
(* two-phase read/write locks taken one at a time by the threads that work  *)
(* for a transaction and given back all at once.  A request is granted in   *)
(* one step, at a moment when nothing conflicts with it, or it is refused.  *)
(* LockManager.tla is the implementation in LockManager.java; it is checked *)
(* and proved against this module.                                          *)
(***************************************************************************)
CONSTANTS Thread,   \* threads of the middleware's JVM that call the service
          Xid,      \* transaction identifiers
          Data      \* names of the items that can be locked

VARIABLES held,     \* the set of locks held
          pending,  \* pending[t]: the request t is waiting for, as a set
          outcome   \* outcome[t]: how the last call of t ended

svars == <<held, pending, outcome>>

Lock == [xid : Xid, data : Data, type : {"READ", "WRITE"}]

(* Two transactions may share an item only to read it.                     *)
Clash(a, b) == /\ a.xid # b.xid
               /\ a.data = b.data
               /\ "WRITE" \in {a.type, b.type}

(* l is at least as strong as the lock asked for in r.                     *)
Covers(l, r) == /\ l.xid = r.xid
                /\ l.data = r.data
                /\ l.type = "WRITE" \/ r.type = "READ"

SInit == /\ held = {}
         /\ pending = [t \in Thread |-> {}]
         /\ outcome = [t \in Thread |-> "none"]

Request(t, l) == /\ pending[t] = {}
                 /\ pending' = [pending EXCEPT ![t] = {l}]
                 /\ outcome' = [outcome EXCEPT ![t] = "none"]
                 /\ UNCHANGED held

Answer(t, l, o) == /\ l \in pending[t]
                   /\ pending' = [pending EXCEPT ![t] = {}]
                   /\ outcome' = [outcome EXCEPT ![t] = o]

(* A new lock replaces the weaker one of the same transaction (conversion). *)
Acquire(t, l) == /\ Answer(t, l, "granted")
                 /\ \A h \in held : ~Clash(h, l)
                 /\ held' = {h \in held : ~Covers(l, h)} \cup {l}

Redundant(t, l) == /\ Answer(t, l, "granted")
                   /\ \E h \in held : Covers(h, l)
                   /\ UNCHANGED held

Refuse(t, l) == /\ Answer(t, l, "refused")
                /\ UNCHANGED held

ReleaseAll(t, x) == /\ pending[t] = {}
                    /\ held' = {h \in held : h.xid # x}
                    /\ outcome' = [outcome EXCEPT ![t] = "none"]
                    /\ UNCHANGED pending

(* The caller has used the answer it was given.                            *)
Forget(t) == /\ pending[t] = {}
             /\ outcome' = [outcome EXCEPT ![t] = "none"]
             /\ UNCHANGED <<held, pending>>

SNext == \E t \in Thread :
            \/ \E l \in Lock : \/ Request(t, l)
                               \/ Acquire(t, l)
                               \/ Redundant(t, l)
                               \/ Refuse(t, l)
            \/ \E x \in Xid : ReleaseAll(t, x)
            \/ Forget(t)

SSpec == SInit /\ [][SNext]_svars
=============================================================================
