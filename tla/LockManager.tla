---------------------------- MODULE LockManager ----------------------------
(***************************************************************************)
(* LockManager.java: the lock, stamp and wait tables of the middleware, the *)
(* request loop Lock/WaitLock with its timeout, and UnlockAll with the scan *)
(* that wakes waiting threads.                                              *)
(*                                                                         *)
(* A step is what a thread does inside one monitor.  The monitors that stay *)
(* locked from one step to the next are part of the state:                  *)
(*   - lockTable's, held by a thread in "unlock" or "scan" (line 117);      *)
(*   - waitTable's, held by a thread in "scan" (line 136);                  *)
(*   - a waiter's own Thread object, held in "timedout" (lines 325-332).    *)
(* stampTable's monitor is never held across a step in which its owner      *)
(* waits for a monitor that does not already close the cycle above.         *)
(*                                                                         *)
(* lockTable is a set: with mutual exclusion the order in which LockConflict*)
(* meets the locks does not show.  waitTable is a sequence, oldest first:   *)
(* TPHashTable.elements returns the newest first, and that order does show. *)
(***************************************************************************)
EXTENDS Integers, Sequences

CONSTANTS Thread,    \* threads of the middleware
          Xid,       \* transaction identifiers
          Data,      \* names of lockable items
          hashCode,  \* hashCode[d]: String.hashCode of d, the key of its locks
          Serves,    \* Serves[t]: transactions that thread t makes calls for
          Timeout    \* DEADLOCK_TIMEOUT, in ticks of the clock

ASSUME HashAssumption == hashCode \in [Data -> Int]
ASSUME ServesAssumption == Serves \in [Thread -> SUBSET Xid]
ASSUME TimeoutAssumption == Timeout \in Nat \ {0}
ASSUME SomeAssumption == Xid # {} /\ Data # {}

VARIABLES lockTable,   \* the locks that are held
          waitTable,   \* the registered waiters, oldest first
          stampTable,  \* stampTable[x]: age of x's TimeObject, or NoStamp
          pc,          \* pc[t]: where thread t is
          req,         \* req[t]: the lock t asks for (in UnlockAll: its xid)
          timestamp,   \* timestamp[t]: age of WaitLock's local timestamp
          scan         \* the unlocker's scan: the item, and whether j = 0

vars == <<lockTable, waitTable, stampTable, pc, req, timestamp, scan>>

Lock == [xid : Xid, data : Data, type : {"READ", "WRITE"}]
WaitLock == [lock : Lock, thread : Thread]

NoStamp == -1
NoRequest == CHOOSE l \in Lock : TRUE   \* the locals of no call
Age == 0 .. Timeout

Returned == {"idle", "granted", "deadlock"}
Locking == {"check", "stamp", "register", "enter", "waiting", "notified",
            "timedout"}
Unlocking == {"unlock", "scan"}

TypeOK == /\ lockTable \subseteq Lock
          /\ waitTable \in Seq(WaitLock)
          /\ stampTable \in [Xid -> Age \cup {NoStamp}]
          /\ pc \in [Thread -> Returned \cup Locking \cup Unlocking]
          /\ req \in [Thread -> Lock]
          /\ timestamp \in [Thread -> Age \cup {NoStamp}]
          /\ scan \in [data : Data, first : BOOLEAN]

Init == /\ lockTable = {}
        /\ waitTable = <<>>
        /\ stampTable = [x \in Xid |-> NoStamp]
        /\ pc = [t \in Thread |-> "idle"]
        /\ req = [t \in Thread |-> NoRequest]
        /\ timestamp = [t \in Thread |-> NoStamp]
        /\ scan = [data |-> CHOOSE d \in Data : TRUE, first |-> TRUE]

-----------------------------------------------------------------------------
(* The tables.                                                             *)

(* TPHashTable.elements compares keys: the hash codes of the names.        *)
SameKey(d, e) == hashCode[d] = hashCode[e]

LockTableFree == \A t \in Thread : pc[t] \notin Unlocking
WaitTableFree == \A t \in Thread : pc[t] # "scan"
ThreadMonitorFree(t) == pc[t] # "timedout"

RemoveIndex(q, i) == SubSeq(q, 1, i - 1) \o SubSeq(q, i + 1, Len(q))

(* Entries are equal when xid, name and type are: the thread is ignored.   *)
IsWaiting(l) == \E i \in DOMAIN waitTable : waitTable[i].lock = l

WithoutWaiter(l) ==
    IF IsWaiting(l)
    THEN RemoveIndex(waitTable, CHOOSE i \in DOMAIN waitTable :
                                    waitTable[i].lock = l)
    ELSE waitTable

(* Fault: a READ lock is taken for a WRITE lock.                           *)
IsRedundantAnyType(r) == \E l \in lockTable : /\ SameKey(l.data, r.data)
                                              /\ l.xid = r.xid

(* LockConflict: the three answers to request r.                           *)
IsRedundant(r) == \E l \in lockTable : /\ SameKey(l.data, r.data)
                                       /\ l.xid = r.xid
                                       /\ r.type = "READ" \/ l.type = "WRITE"

(* Fault: a request for WRITE overlooks the readers.                       *)
ConflictsWithWrites(r) == \E l \in lockTable : /\ SameKey(l.data, r.data)
                                               /\ l.xid # r.xid
                                               /\ l.type = "WRITE"

Conflicts(r) == \E l \in lockTable : /\ SameKey(l.data, r.data)
                                     /\ l.xid # r.xid
                                     /\ "WRITE" \in {r.type, l.type}

-----------------------------------------------------------------------------
(* Lock(xid, data, lockType).                                              *)

Goto(t, label) == pc' = [pc EXCEPT ![t] = label]

Return(t, how) == Goto(t, how) /\ req' = [req EXCEPT ![t] = NoRequest]

CallLock(t) == /\ pc[t] \in Returned
               /\ \E x \in Serves[t], d \in Data, k \in {"READ", "WRITE"} :
                     req' = [req EXCEPT ![t] = [xid |-> x, data |-> d,
                                                type |-> k]]
               /\ Goto(t, "check")
               /\ UNCHANGED <<lockTable, waitTable, stampTable, timestamp, scan>>

Redundant(t) == /\ pc[t] = "check"
                /\ LockTableFree
                /\ IsRedundant(req[t])
                /\ Return(t, "granted")
                /\ UNCHANGED <<lockTable, waitTable, stampTable, timestamp,
                               scan>>

Conflict(t) == /\ pc[t] = "check"
               /\ LockTableFree
               /\ Conflicts(req[t])
               /\ Goto(t, "stamp")
               /\ UNCHANGED <<lockTable, waitTable, stampTable, req,
                              timestamp, scan>>

(* Fault: the READ lock stays beside the WRITE lock.                       *)
GrantBeside(t) == /\ pc[t] = "check"
                  /\ LockTableFree
                  /\ ~IsRedundant(req[t]) /\ ~Conflicts(req[t])
                  /\ stampTable' = [stampTable EXCEPT ![req[t].xid] = NoStamp]
                  /\ waitTable' = WithoutWaiter(req[t])
                  /\ lockTable' = lockTable \cup {req[t]}
                  /\ Return(t, "granted")
                  /\ UNCHANGED <<timestamp, scan>>

(* Fault: the stamp of the wait is left behind.                            *)
GrantKeepsStamp(t) ==
    /\ pc[t] = "check"
    /\ LockTableFree
    /\ ~IsRedundant(req[t]) /\ ~Conflicts(req[t])
    /\ waitTable' = WithoutWaiter(req[t])
    /\ lockTable' = (lockTable \ {[req[t] EXCEPT !.type = "READ"]}) \cup {req[t]}
    /\ Return(t, "granted")
    /\ UNCHANGED <<stampTable, timestamp, scan>>

(* A READ lock of the transaction on the same item is converted.           *)
Grant(t) == /\ pc[t] = "check"
            /\ LockTableFree
            /\ ~IsRedundant(req[t]) /\ ~Conflicts(req[t])
            /\ stampTable' = [stampTable EXCEPT ![req[t].xid] = NoStamp]
            /\ waitTable' = WithoutWaiter(req[t])
            /\ lockTable' = (lockTable \ {[req[t] EXCEPT !.type = "READ"]})
                               \cup {req[t]}
            /\ Return(t, "granted")
            /\ UNCHANGED <<timestamp, scan>>

(* WaitLock, its first monitor: a new stamp, or the age of the old one.    *)
Stamp(t) == LET x == req[t].xid IN
            /\ pc[t] = "stamp"
            /\ stampTable[x] < Timeout
            /\ LET age == IF stampTable[x] = NoStamp THEN 0 ELSE stampTable[x]
               IN  /\ stampTable' = [stampTable EXCEPT ![x] = age]
                   /\ timestamp' = [timestamp EXCEPT ![t] = age]
            /\ Goto(t, "register")
            /\ UNCHANGED <<lockTable, waitTable, req, scan>>

ThrowDeadlock(t) == /\ WaitTableFree
                    /\ stampTable' = [stampTable EXCEPT ![req[t].xid] = NoStamp]
                    /\ waitTable' = WithoutWaiter(req[t])
                    /\ timestamp' = [timestamp EXCEPT ![t] = NoStamp]
                    /\ Return(t, "deadlock")
                    /\ UNCHANGED <<lockTable, scan>>

StampExpired(t) == /\ pc[t] = "stamp"
                   /\ stampTable[req[t].xid] = Timeout
                   /\ ThrowDeadlock(t)

(* Fault: the entry is added without a look whether it is there.           *)
RegisterAgain(t) == /\ pc[t] = "register"
                    /\ WaitTableFree
                    /\ waitTable' = Append(waitTable, [lock |-> req[t], thread |-> t])
                    /\ Goto(t, "enter")
                    /\ UNCHANGED <<lockTable, stampTable, req, timestamp, scan>>

Register(t) == /\ pc[t] = "register"
               /\ WaitTableFree
               /\ waitTable' = IF IsWaiting(req[t])
                               THEN waitTable
                               ELSE Append(waitTable,
                                           [lock |-> req[t], thread |-> t])
               /\ Goto(t, "enter")
               /\ UNCHANGED <<lockTable, stampTable, req, timestamp, scan>>

(* thisThread.wait: a notify that comes before this step is lost.          *)
BeginWait(t) == /\ pc[t] = "enter"
                /\ Goto(t, "waiting")
                /\ UNCHANGED <<lockTable, waitTable, stampTable, req,
                               timestamp, scan>>

(* Object.wait may return without a notify.                                *)
SpuriousWakeup(t) == /\ pc[t] = "waiting"
                     /\ Goto(t, "notified")
                     /\ UNCHANGED <<lockTable, waitTable, stampTable, req,
                                    timestamp, scan>>

(* Fault: wait() without a time limit.                                     *)
TimedOutIfNotified(t) == /\ pc[t] = "notified"
                         /\ timestamp[t] = Timeout
                         /\ Goto(t, "timedout")
                         /\ UNCHANGED <<lockTable, waitTable, stampTable, req,
                                        timestamp, scan>>

(* The wait runs out; the thread is back in its own monitor.               *)
TimedOut(t) == /\ pc[t] \in {"waiting", "notified"}
               /\ timestamp[t] = Timeout
               /\ Goto(t, "timedout")
               /\ UNCHANGED <<lockTable, waitTable, stampTable, req,
                              timestamp, scan>>

Retry(t) == /\ pc[t] = "notified"
            /\ timestamp[t] < Timeout
            /\ timestamp' = [timestamp EXCEPT ![t] = NoStamp]
            /\ Goto(t, "check")
            /\ UNCHANGED <<lockTable, waitTable, stampTable, req, scan>>

CleanupDeadlock(t) == /\ pc[t] = "timedout"
                      /\ ThrowDeadlock(t)

-----------------------------------------------------------------------------
(* UnlockAll(xid).                                                         *)

CallUnlockAll(t) == /\ pc[t] \in Returned
                    /\ LockTableFree
                    /\ \E x \in Serves[t] :
                          req' = [req EXCEPT ![t] = [@ EXCEPT !.xid = x]]
                    /\ Goto(t, "unlock")
                    /\ UNCHANGED <<lockTable, waitTable, stampTable, timestamp,
                                   scan>>

(* Fault: locks are removed whoever has them.                              *)
UnlockAnyones(t) == /\ pc[t] = "unlock"
                    /\ \E l \in lockTable :
                          /\ lockTable' = lockTable \ {l}
                          /\ scan' = [data |-> l.data, first |-> TRUE]
                    /\ Goto(t, "scan")
                    /\ UNCHANGED <<waitTable, stampTable, req, timestamp>>

(* Remove one lock and start to scan the waiters of its item.              *)
Unlock(t) == /\ pc[t] = "unlock"
             /\ \E l \in lockTable :
                   /\ l.xid = req[t].xid
                   /\ lockTable' = lockTable \ {l}
                   /\ scan' = [data |-> l.data, first |-> TRUE]
             /\ Goto(t, "scan")
             /\ UNCHANGED <<waitTable, stampTable, req, timestamp>>

(* Fault: not all the locks are removed.                                   *)
UnlockSome(t) == /\ pc[t] = "unlock"
                 /\ Return(t, "idle")
                 /\ UNCHANGED <<lockTable, waitTable, stampTable, timestamp,
                                scan>>

UnlockDone(t) == /\ pc[t] = "unlock"
                 /\ \A l \in lockTable : l.xid # req[t].xid
                 /\ Return(t, "idle")
                 /\ UNCHANGED <<lockTable, waitTable, stampTable, timestamp,
                                scan>>

(* The waiter the scan looks at: the newest one on the item.               *)
IsNext(i) == /\ i \in DOMAIN waitTable
             /\ SameKey(waitTable[i].lock.data, scan.data)
             /\ \A j \in DOMAIN waitTable :
                   SameKey(waitTable[j].lock.data, scan.data) => j <= i

(* Readers are woken until a writer is met; a writer only in first place   *)
(* and if no other transaction has locked the item.                        *)
MayWake(l) == l.type = "WRITE" =>
                /\ scan.first
                /\ \A h \in lockTable :
                      SameKey(h.data, scan.data) => h.xid = l.xid

Wake(t) == /\ pc[t] = "scan"
           /\ \E i \in DOMAIN waitTable :
                 /\ IsNext(i)
                 /\ MayWake(waitTable[i].lock)
                 /\ ThreadMonitorFree(waitTable[i].thread)
                 /\ waitTable' = RemoveIndex(waitTable, i)
                 /\ pc' = [pc EXCEPT
                       ![waitTable[i].thread] = IF @ = "waiting"
                                                THEN "notified" ELSE @,
                       ![t] = IF waitTable[i].lock.type = "WRITE"
                              THEN "unlock" ELSE "scan"]
           /\ scan' = [scan EXCEPT !.first = FALSE]
           /\ UNCHANGED <<lockTable, stampTable, req, timestamp>>

EndScan(t) == /\ pc[t] = "scan"
              /\ \A i \in DOMAIN waitTable :
                    IsNext(i) => ~MayWake(waitTable[i].lock)
              /\ Goto(t, "unlock")
              /\ scan' = [scan EXCEPT !.first = FALSE]
              /\ UNCHANGED <<lockTable, waitTable, stampTable, req, timestamp>>

-----------------------------------------------------------------------------
(* Fault: the timeout is overlooked and a wait goes on beyond it.          *)
OlderForEver(age) == IF age = NoStamp THEN age ELSE age + 1

Older(age) == IF age = NoStamp \/ age = Timeout THEN age ELSE age + 1

(* The clock.  An age stops at Timeout: beyond it nothing differs.         *)
Tick == /\ \/ \E x \in Xid : stampTable[x] # Older(stampTable[x])
           \/ \E t \in Thread : timestamp[t] # Older(timestamp[t])
        /\ stampTable' = [x \in Xid |-> Older(stampTable[x])]
        /\ timestamp' = [t \in Thread |-> Older(timestamp[t])]
        /\ UNCHANGED <<lockTable, waitTable, pc, req, scan>>

(* What a thread does on its own once it has made a call.                  *)
Advance(t) == \/ Redundant(t) \/ Conflict(t) \/ Grant(t)
              \/ Stamp(t) \/ StampExpired(t) \/ Register(t) \/ BeginWait(t)
              \/ TimedOut(t) \/ Retry(t) \/ CleanupDeadlock(t)
              \/ Unlock(t) \/ UnlockDone(t) \/ Wake(t) \/ EndScan(t)

Next == \/ \E t \in Thread : \/ CallLock(t)
                             \/ CallUnlockAll(t)
                             \/ SpuriousWakeup(t)
                             \/ Advance(t)
        \/ Tick

Spec == Init /\ [][Next]_vars

(* A runnable thread runs in the end, and time passes.  Nothing is assumed *)
(* of who enters a contended monitor, nor that clients make any call.      *)
Fairness == WF_vars(Tick) /\ \A t \in Thread : WF_vars(Advance(t))

FairSpec == Spec /\ Fairness

-----------------------------------------------------------------------------
(* Two transactions share a lock key only to read: the isolation that every *)
(* operation of Middleware.java between getLock and UnlockAll relies on.    *)
MutualExclusion ==
    \A a, b \in lockTable :
        a.xid # b.xid /\ SameKey(a.data, b.data)
            => a.type = "READ" /\ b.type = "READ"

(* A conversion leaves one lock, never a READ beside the WRITE, though the  *)
(* READ may have been given back by another thread while this one waited.   *)
OneLockPerItem ==
    \A a, b \in lockTable : a.xid = b.xid /\ a.data = b.data => a = b

(* No request is registered twice, although registration, removal by the    *)
(* scan, by a grant and by a timeout are done by different threads.         *)
NoDoubleWaiter ==
    \A i, j \in DOMAIN waitTable :
        waitTable[i].lock = waitTable[j].lock => i = j

(* A wait entry and a stamp do not outlive the Lock call they were made     *)
(* for: a stale stamp would refuse the next request of the transaction at   *)
(* once (LockManager.java:282-284), a stale entry would be woken in place   *)
(* of a thread that waits.  It takes one thread per transaction (Serves).   *)
NoLeftovers ==
    /\ \A i \in DOMAIN waitTable :
          LET e == waitTable[i] IN pc[e.thread] \in Locking /\ req[e.thread] = e.lock
    /\ \A x \in Xid : stampTable[x] # NoStamp =>
          \E t \in Thread : pc[t] \in Locking /\ req[t].xid = x

(* The order of monitors in which everyone waits on everyone: the unlocker  *)
(* holds waitTable and wants a waiter's Thread object; the waiter, timed    *)
(* out, holds its Thread object and wants waitTable.                        *)
MonitorDeadlock ==
    \E t \in Thread, i \in DOMAIN waitTable :
        /\ pc[t] = "scan"
        /\ IsNext(i) /\ MayWake(waitTable[i].lock)
        /\ pc[waitTable[i].thread] = "timedout"

(* A lock is lost only to UnlockAll for its own transaction, or replaced by *)
(* the stronger one: no grant, timeout or scan for another transaction ever *)
(* takes a lock away (strict two-phase locking).                            *)
Strict ==
    [][\A l \in lockTable : l \notin lockTable' =>
          \/ \E t \in Thread : pc[t] = "unlock" /\ req[t].xid = l.xid
          \/ [l EXCEPT !.type = "WRITE"] \in lockTable']_vars

(* Lock returns true only if the transaction holds a lock on that item that *)
(* allows the access, whichever of the ways out of the loop was taken.      *)
GrantedIsHeld ==
    [][\A t \in Thread : pc[t] \in Locking /\ pc'[t] = "granted" =>
          \E l \in lockTable' : /\ l.xid = req[t].xid
                                /\ l.data = req[t].data
                                /\ req[t].type = "READ" \/ l.type = "WRITE"]_vars

(* Unless clients go on calling UnlockAll for ever, a Lock call ends, or    *)
(* some threads are in the monitor deadlock above.                          *)
Quiet == <>[][\A t \in Thread : ~CallUnlockAll(t)]_vars

LockEndsOrMonitorDeadlock ==
    Quiet => \A t \in Thread :
                pc[t] \in Locking ~> (pc[t] \notin Locking \/ MonitorDeadlock)

(* LockManager.java:45 "Return true when there is no lock conflict or throw *)
(* a deadlock exception": Lock does one or the other.                       *)
LockEnds == Quiet => \A t \in Thread : pc[t] \in Locking ~> pc[t] \notin Locking

-----------------------------------------------------------------------------
(* The lock service this is meant to be: UnlockAll takes effect when it     *)
(* enters lockTable's monitor, so the locks it has yet to remove are gone.  *)
Unlocked(l) == \E t \in Thread : pc[t] \in Unlocking /\ req[t].xid = l.xid

held == {l \in lockTable : ~Unlocked(l)}
pending == [t \in Thread |-> IF pc[t] \in Locking THEN {req[t]} ELSE {}]
outcome == [t \in Thread |-> CASE pc[t] = "granted" -> "granted"
                               [] pc[t] = "deadlock" -> "refused"
                               [] OTHER -> "none"]

Service == INSTANCE LockService

(* LockManager implements LockService, when hash codes do not collide.      *)
ImplementsService == Service!SSpec
=============================================================================
