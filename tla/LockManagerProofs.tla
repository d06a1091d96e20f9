------------------------- MODULE LockManagerProofs -------------------------
(* Theorems about LockManager for any threads, transactions, items, hash   *)
(* codes, timeout and assignment of threads to transactions.               *)
EXTENDS LockManager, SequenceTheorems, TLAPS

(* Removing one element of a sequence shifts the later ones.               *)
LEMMA RemoveIndexProperties ==
    ASSUME NEW S, NEW q \in Seq(S), NEW i \in 1 .. Len(q)
    PROVE  /\ RemoveIndex(q, i) \in Seq(S)
           /\ Len(RemoveIndex(q, i)) = Len(q) - 1
           /\ \A j \in 1 .. Len(q) - 1 :
                 RemoveIndex(q, i)[j] = IF j < i THEN q[j] ELSE q[j + 1]
<1> DEFINE a == SubSeq(q, 1, i - 1)
           b == SubSeq(q, i + 1, Len(q))
<1>1. a \in Seq(S) /\ Len(a) = i - 1 /\ \A j \in 1 .. i - 1 : a[j] = q[j]
  BY SubSeqProperties
<1>2. /\ b \in Seq(S)
      /\ Len(b) = Len(q) - i
      /\ \A j \in 1 .. Len(q) - i : b[j] = q[i + j]
  BY SubSeqProperties
<1> HIDE DEF a, b
<1>0. Len(q) \in Nat /\ i \in Int
  BY LenProperties
<1>3. /\ a \o b \in Seq(S)
      /\ Len(a \o b) = Len(a) + Len(b)
      /\ \A j \in 1 .. Len(a) + Len(b) :
            (a \o b)[j] = IF j <= Len(a) THEN a[j] ELSE b[j - Len(a)]
  BY <1>1, <1>2, ConcatProperties
<1>4. RemoveIndex(q, i) = a \o b
  BY DEF RemoveIndex, a, b
<1>5. ASSUME NEW j \in 1 .. Len(q) - 1
      PROVE  (a \o b)[j] = IF j < i THEN q[j] ELSE q[j + 1]
  <2>1. CASE j < i
    BY <2>1, <1>0, <1>1, <1>2, <1>3
  <2>2. CASE ~(j < i)
    <3>1. j - (i - 1) \in 1 .. Len(q) - i
      BY <2>2, <1>0
    <3>2. (a \o b)[j] = b[j - (i - 1)]
      BY <2>2, <1>0, <1>1, <1>2, <1>3
    <3>3. b[j - (i - 1)] = q[i + (j - (i - 1))]
      BY <3>1, <1>2
    <3>4. i + (j - (i - 1)) = j + 1
      BY <1>0
    <3> QED BY <3>2, <3>3, <3>4, <2>2
  <2> QED BY <2>1, <2>2
<1>6. RemoveIndex(q, i) \in Seq(S) /\ Len(RemoveIndex(q, i)) = Len(q) - 1
  BY <1>0, <1>1, <1>2, <1>3, <1>4
<1> QED BY <1>4, <1>5, <1>6

-----------------------------------------------------------------------------
(* Type correctness.                                                       *)

LEMMA NoRequestType == NoRequest \in Lock
<1>1. \E l \in Lock : TRUE
  <2>1. PICK x \in Xid, d \in Data : TRUE
    BY SomeAssumption
  <2>2. [xid |-> x, data |-> d, type |-> "READ"] \in Lock
    BY DEF Lock
  <2> QED BY <2>2
<1> QED BY <1>1 DEF NoRequest

LEMMA WithoutWaiterType ==
    ASSUME waitTable \in Seq(WaitLock), NEW l
    PROVE  WithoutWaiter(l) \in Seq(WaitLock)
<1>1. CASE IsWaiting(l)
  <2> DEFINE i == CHOOSE k \in DOMAIN waitTable : waitTable[k].lock = l
  <2>1. i \in 1 .. Len(waitTable)
    BY <1>1 DEF IsWaiting
  <2>2. WithoutWaiter(l) = RemoveIndex(waitTable, i)
    BY <1>1 DEF WithoutWaiter
  <2> HIDE DEF i
  <2> QED BY <2>1, <2>2, RemoveIndexProperties
<1>2. CASE ~IsWaiting(l)
  BY <1>2 DEF WithoutWaiter
<1> QED BY <1>1, <1>2

LEMMA TypeInit == Init => TypeOK
<1> SUFFICES ASSUME Init PROVE TypeOK
  OBVIOUS
<1>1. scan \in [data : Data, first : BOOLEAN]
  BY SomeAssumption DEF Init
<1>2. waitTable \in Seq(WaitLock)
  BY DEF Init
<1> QED BY <1>1, <1>2, NoRequestType
        DEF Init, TypeOK, Age, Returned, NoStamp

LEMMA TypeNext == TypeOK /\ [Next]_vars => TypeOK'
<1> SUFFICES ASSUME TypeOK, [Next]_vars PROVE TypeOK'
  OBVIOUS
<1> USE DEF TypeOK, Goto, Return, Returned, Locking, Unlocking
<1>1. ASSUME NEW t \in Thread, CallLock(t) PROVE TypeOK'
  <2>1. PICK x \in Serves[t], d \in Data, k \in {"READ", "WRITE"} :
           req' = [req EXCEPT ![t] = [xid |-> x, data |-> d, type |-> k]]
    BY <1>1 DEF CallLock
  <2>2. [xid |-> x, data |-> d, type |-> k] \in Lock
    BY ServesAssumption DEF Lock
  <2> QED BY <1>1, <2>1, <2>2 DEF CallLock
<1>2. ASSUME NEW t \in Thread, CallUnlockAll(t) PROVE TypeOK'
  <2>1. PICK x \in Serves[t] : req' = [req EXCEPT ![t] = [@ EXCEPT !.xid = x]]
    BY <1>2 DEF CallUnlockAll
  <2>2. [req[t] EXCEPT !.xid = x] \in Lock
    BY ServesAssumption DEF Lock
  <2>3. req' \in [Thread -> Lock]
    BY <2>1, <2>2
  <2> QED BY <1>2, <2>3 DEF CallUnlockAll
<1>3. ASSUME NEW t \in Thread, SpuriousWakeup(t) PROVE TypeOK'
  BY <1>3 DEF SpuriousWakeup
<1>4. ASSUME NEW t \in Thread, Redundant(t) PROVE TypeOK'
  BY <1>4, NoRequestType DEF Redundant
<1>5. ASSUME NEW t \in Thread, Conflict(t) PROVE TypeOK'
  BY <1>5 DEF Conflict
<1>6. ASSUME NEW t \in Thread, Grant(t) PROVE TypeOK'
  BY <1>6, NoRequestType, WithoutWaiterType DEF Grant
<1>7. ASSUME NEW t \in Thread, Stamp(t) PROVE TypeOK'
  <2> DEFINE age == IF stampTable[req[t].xid] = NoStamp
                    THEN 0 ELSE stampTable[req[t].xid]
  <2>1. req[t].xid \in Xid
    BY DEF Lock
  <2>2. age \in Age
    BY <2>1, TimeoutAssumption DEF Age, NoStamp
  <2>3. /\ stampTable' = [stampTable EXCEPT ![req[t].xid] = age]
        /\ timestamp' = [timestamp EXCEPT ![t] = age]
        /\ pc' = [pc EXCEPT ![t] = "register"]
        /\ UNCHANGED <<lockTable, waitTable, req, scan>>
    BY <1>7 DEF Stamp
  <2> HIDE DEF age
  <2> QED BY <2>2, <2>3
<1>8. ASSUME NEW t \in Thread, ThrowDeadlock(t) PROVE TypeOK'
  BY <1>8, NoRequestType, WithoutWaiterType DEF ThrowDeadlock
<1>9. ASSUME NEW t \in Thread, Register(t) PROVE TypeOK'
  <2>1. [lock |-> req[t], thread |-> t] \in WaitLock
    BY DEF WaitLock
  <2>2. waitTable' \in Seq(WaitLock)
    BY <1>9, <2>1, AppendProperties DEF Register
  <2> QED BY <1>9, <2>2 DEF Register
<1>10. ASSUME NEW t \in Thread, BeginWait(t) PROVE TypeOK'
  BY <1>10 DEF BeginWait
<1>11. ASSUME NEW t \in Thread, TimedOut(t) PROVE TypeOK'
  BY <1>11 DEF TimedOut
<1>12. ASSUME NEW t \in Thread, Retry(t) PROVE TypeOK'
  BY <1>12 DEF Retry
<1>13. ASSUME NEW t \in Thread, Unlock(t) PROVE TypeOK'
  BY <1>13 DEF Unlock, Lock
<1>14. ASSUME NEW t \in Thread, UnlockDone(t) PROVE TypeOK'
  BY <1>14, NoRequestType DEF UnlockDone
<1>15. ASSUME NEW t \in Thread, Wake(t) PROVE TypeOK'
  <2>1. PICK i \in DOMAIN waitTable :
           /\ waitTable' = RemoveIndex(waitTable, i)
           /\ pc' = [pc EXCEPT
                  ![waitTable[i].thread] = IF @ = "waiting"
                                           THEN "notified" ELSE @,
                  ![t] = IF waitTable[i].lock.type = "WRITE"
                         THEN "unlock" ELSE "scan"]
    BY <1>15 DEF Wake
  <2>2. waitTable' \in Seq(WaitLock)
    BY <2>1, RemoveIndexProperties
  <2>3. pc' \in [Thread -> Returned \cup Locking \cup Unlocking]
    BY <2>1
  <2> QED BY <1>15, <2>2, <2>3 DEF Wake
<1>16. ASSUME NEW t \in Thread, EndScan(t) PROVE TypeOK'
  BY <1>16 DEF EndScan
<1>17. CASE Tick
  BY <1>17, TimeoutAssumption DEF Tick, Older, Age, NoStamp
<1>18. CASE UNCHANGED vars
  BY <1>18 DEF vars
<1> QED BY <1>1, <1>2, <1>3, <1>4, <1>5, <1>6, <1>7, <1>8, <1>9, <1>10,
           <1>11, <1>12, <1>13, <1>14, <1>15, <1>16, <1>17, <1>18
        DEF Next, Advance, StampExpired, CleanupDeadlock

(* Every variable of the lock manager keeps its type: in particular stamps  *)
(* stay between 0 and the timeout and the wait table stays a sequence.      *)
THEOREM TypeCorrect == Spec => []TypeOK
BY TypeInit, TypeNext, PTL DEF Spec

-----------------------------------------------------------------------------
(* Mutual exclusion.                                                       *)

LEMMA LockTableStep ==
    ASSUME [Next]_vars
    PROVE  \/ UNCHANGED lockTable
           \/ \E t \in Thread : Grant(t) \/ Unlock(t)
BY DEF Next, Advance, vars, CallLock, CallUnlockAll, SpuriousWakeup, Redundant,
       Conflict, Stamp, StampExpired, ThrowDeadlock, Register, BeginWait,
       TimedOut, Retry, CleanupDeadlock, UnlockDone, Wake, EndScan, Tick

LEMMA MutualExclusionNext ==
    TypeOK /\ MutualExclusion /\ [Next]_vars => MutualExclusion'
<1> SUFFICES ASSUME TypeOK, MutualExclusion, [Next]_vars,
                    NEW a \in lockTable', NEW b \in lockTable',
                    a.xid # b.xid, SameKey(a.data, b.data)
             PROVE  a.type = "READ" /\ b.type = "READ"
  BY DEF MutualExclusion, SameKey
<1>1. CASE UNCHANGED lockTable
  BY <1>1 DEF MutualExclusion
<1>2. ASSUME NEW t \in Thread, Unlock(t)
      PROVE  a.type = "READ" /\ b.type = "READ"
  BY <1>2 DEF Unlock, MutualExclusion
<1>3. ASSUME NEW t \in Thread, Grant(t)
      PROVE  a.type = "READ" /\ b.type = "READ"
  <2>1. /\ lockTable' \subseteq lockTable \cup {req[t]}
        /\ ~Conflicts(req[t])
    BY <1>3 DEF Grant
  <2>2. ASSUME NEW l \in lockTable, l.xid # req[t].xid,
               SameKey(l.data, req[t].data)
        PROVE  l.type = "READ" /\ req[t].type = "READ"
    BY <2>1, <2>2 DEF Conflicts, TypeOK, Lock
  <2>3. CASE a \in lockTable /\ b \in lockTable
    BY <2>3 DEF MutualExclusion
  <2>4. CASE a = req[t] /\ b \in lockTable
    BY <2>4, <2>2 DEF SameKey
  <2>5. CASE b = req[t] /\ a \in lockTable
    BY <2>5, <2>2
  <2> QED BY <2>1, <2>3, <2>4, <2>5
<1> QED BY <1>1, <1>2, <1>3, LockTableStep

(* Two transactions never hold locks under one key unless both only read.   *)
THEOREM MutuallyExclusive == Spec => []MutualExclusion
<1>1. Init => MutualExclusion
  BY DEF Init, MutualExclusion
<1> QED BY <1>1, TypeCorrect, MutualExclusionNext, PTL DEF Spec

LEMMA OneLockNext == TypeOK /\ OneLockPerItem /\ [Next]_vars => OneLockPerItem'
<1> SUFFICES ASSUME TypeOK, OneLockPerItem, [Next]_vars,
                    NEW a \in lockTable', NEW b \in lockTable',
                    a.xid = b.xid, a.data = b.data
             PROVE  a = b
  BY DEF OneLockPerItem
<1>1. CASE UNCHANGED lockTable
  BY <1>1 DEF OneLockPerItem
<1>2. ASSUME NEW t \in Thread, Unlock(t)
      PROVE  a = b
  BY <1>2 DEF Unlock, OneLockPerItem
<1>3. ASSUME NEW t \in Thread, Grant(t)
      PROVE  a = b
  <2> DEFINE weaker == [req[t] EXCEPT !.type = "READ"]
  <2>1. /\ lockTable' = (lockTable \ {weaker}) \cup {req[t]}
        /\ ~IsRedundant(req[t])
    BY <1>3 DEF Grant
  <2>2. req[t] \in Lock /\ lockTable \subseteq Lock
    BY DEF TypeOK
  <2>3. ASSUME NEW l \in lockTable, l.xid = req[t].xid, l.data = req[t].data
        PROVE  l = weaker
    <3>1. l.type = "READ"
      BY <2>1, <2>2, <2>3 DEF IsRedundant, SameKey, Lock
    <3> QED BY <2>2, <2>3, <3>1 DEF Lock
  <2> HIDE DEF weaker
  <2>4. CASE a \in lockTable /\ b \in lockTable
    BY <2>4 DEF OneLockPerItem
  <2>5. CASE a = req[t] /\ b # req[t]
    BY <2>1, <2>3, <2>5
  <2>6. CASE b = req[t] /\ a # req[t]
    BY <2>1, <2>3, <2>6
  <2> QED BY <2>1, <2>4, <2>5, <2>6
<1> QED BY <1>1, <1>2, <1>3, LockTableStep

(* A transaction never holds two locks on one item, whichever threads       *)
(* convert and release in between.                                          *)
THEOREM SingleLock == Spec => []OneLockPerItem
<1>1. Init => OneLockPerItem
  BY DEF Init, OneLockPerItem
<1> QED BY <1>1, TypeCorrect, OneLockNext, PTL DEF Spec

(* No step but UnlockAll's own takes a lock from a transaction.             *)
THEOREM StrictTwoPhase == Spec => Strict
<1> DEFINE Kept(l) ==
              \/ \E t \in Thread : pc[t] = "unlock" /\ req[t].xid = l.xid
              \/ [l EXCEPT !.type = "WRITE"] \in lockTable'
           Step == \A l \in lockTable : l \notin lockTable' => Kept(l)
<1>1. TypeOK /\ [Next]_vars => [Step]_vars
  <2> SUFFICES ASSUME TypeOK, [Next]_vars,
                      NEW l \in lockTable, l \notin lockTable'
               PROVE  Kept(l)
    OBVIOUS
  <2>1. ASSUME NEW t \in Thread, Unlock(t) PROVE Kept(l)
    BY <2>1 DEF Unlock
  <2>2. ASSUME NEW t \in Thread, Grant(t) PROVE Kept(l)
    <3>1. /\ l = [req[t] EXCEPT !.type = "READ"]
          /\ req[t] \in lockTable'
          /\ ~IsRedundant(req[t])
          /\ req[t] \in Lock
      BY <2>2 DEF Grant, TypeOK
    <3>2. req[t].type = "WRITE"
      BY <3>1 DEF IsRedundant, SameKey, Lock
    <3>3. [l EXCEPT !.type = "WRITE"] = req[t]
      BY <3>1, <3>2 DEF Lock
    <3> QED BY <3>1, <3>3
  <2> QED BY <2>1, <2>2, LockTableStep
<1> QED BY <1>1, TypeCorrect, PTL DEF Spec, Strict

-----------------------------------------------------------------------------
(* The wait table.                                                         *)

LEMMA WaitTableStep ==
    ASSUME TypeOK, [Next]_vars
    PROVE  \/ UNCHANGED waitTable
           \/ \E i \in DOMAIN waitTable : waitTable' = RemoveIndex(waitTable, i)
           \/ \E t \in Thread :
                 /\ ~IsWaiting(req[t])
                 /\ waitTable' = Append(waitTable, [lock |-> req[t], thread |-> t])
<1>1. ASSUME NEW l, waitTable' = WithoutWaiter(l)
      PROVE  \/ UNCHANGED waitTable
             \/ \E i \in DOMAIN waitTable : waitTable' = RemoveIndex(waitTable, i)
  BY <1>1 DEF WithoutWaiter, IsWaiting
<1>2. ASSUME NEW t \in Thread, Grant(t) \/ ThrowDeadlock(t)
      PROVE  waitTable' = WithoutWaiter(req[t])
  BY <1>2 DEF Grant, ThrowDeadlock
<1>3. ASSUME NEW t \in Thread, Register(t)
      PROVE  \/ UNCHANGED waitTable
             \/ /\ ~IsWaiting(req[t])
                /\ waitTable' = Append(waitTable, [lock |-> req[t], thread |-> t])
  BY <1>3 DEF Register
<1>4. ASSUME NEW t \in Thread, Wake(t)
      PROVE  \E i \in DOMAIN waitTable : waitTable' = RemoveIndex(waitTable, i)
  BY <1>4 DEF Wake
<1>5. \/ UNCHANGED waitTable
      \/ \E t \in Thread : \/ Grant(t) \/ ThrowDeadlock(t)
                           \/ Register(t) \/ Wake(t)
  BY DEF Next, Advance, vars, CallLock, CallUnlockAll, SpuriousWakeup,
         Redundant, Conflict, Stamp, StampExpired, BeginWait, TimedOut, Retry,
         CleanupDeadlock, Unlock, UnlockDone, EndScan, Tick
<1> QED BY <1>1, <1>2, <1>3, <1>4, <1>5

LEMMA NoDoubleWaiterNext ==
    TypeOK /\ NoDoubleWaiter /\ [Next]_vars => NoDoubleWaiter'
<1> SUFFICES ASSUME TypeOK, NoDoubleWaiter, [Next]_vars PROVE NoDoubleWaiter'
  OBVIOUS
<1>0. waitTable \in Seq(WaitLock) /\ Len(waitTable) \in Nat
  BY LenProperties DEF TypeOK
<1>1. CASE UNCHANGED waitTable
  BY <1>1 DEF NoDoubleWaiter
<1>2. ASSUME NEW k \in DOMAIN waitTable, waitTable' = RemoveIndex(waitTable, k)
      PROVE  NoDoubleWaiter'
  <2>1. k \in 1 .. Len(waitTable)
    BY <1>0
  <2>2. /\ waitTable' \in Seq(WaitLock)
        /\ Len(waitTable') = Len(waitTable) - 1
        /\ \A j \in 1 .. Len(waitTable) - 1 :
              waitTable'[j] = IF j < k THEN waitTable[j] ELSE waitTable[j + 1]
    BY <2>1, <1>0, <1>2, RemoveIndexProperties
  <2>3. DOMAIN waitTable' = 1 .. Len(waitTable) - 1
    BY <2>2, LenProperties
  <2>4. ASSUME NEW i \in 1 .. Len(waitTable) - 1,
               NEW j \in 1 .. Len(waitTable) - 1,
               waitTable'[i].lock = waitTable'[j].lock
        PROVE  i = j
    <3> DEFINE old(n) == IF n < k THEN n ELSE n + 1
    <3>1. ASSUME NEW m \in 1 .. Len(waitTable) - 1
          PROVE  /\ old(m) \in DOMAIN waitTable
                 /\ waitTable'[m] = waitTable[old(m)]
      <4>1. old(m) \in 1 .. Len(waitTable)
        BY <1>0, <2>1
      <4>2. old(m) \in DOMAIN waitTable
        BY <1>0, <4>1, LenProperties
      <4>3. waitTable'[m] = waitTable[old(m)]
        BY <2>2
      <4> QED BY <4>2, <4>3
    <3>2. old(i) = old(j)
      BY <3>1, <2>4 DEF NoDoubleWaiter
    <3> QED BY <3>2, <1>0, <2>1
  <2> QED BY <2>3, <2>4 DEF NoDoubleWaiter
<1>3. ASSUME NEW t \in Thread, ~IsWaiting(req[t]),
             waitTable' = Append(waitTable, [lock |-> req[t], thread |-> t])
      PROVE  NoDoubleWaiter'
  <2> DEFINE new == [lock |-> req[t], thread |-> t]
             n == Len(waitTable) + 1
  <2>1. new \in WaitLock
    BY DEF TypeOK, WaitLock
  <2>2. /\ waitTable' \in Seq(WaitLock)
        /\ DOMAIN waitTable' = 1 .. n
        /\ \A j \in 1 .. n - 1 : waitTable'[j] = waitTable[j]
        /\ waitTable'[n] = new
    BY <1>0, <1>3, <2>1, AppendProperties, LenProperties
  <2>3. \A j \in 1 .. n - 1 : waitTable[j].lock # req[t]
    BY <1>0, <1>3 DEF IsWaiting
  <2>4. \A j \in 1 .. n - 1 : j \in DOMAIN waitTable
    BY <1>0
  <2>5. \A j \in 1 .. n : j = n \/ j \in 1 .. n - 1
    BY <1>0
  <2> HIDE DEF n
  <2> QED BY <2>2, <2>3, <2>4, <2>5 DEF NoDoubleWaiter
<1> QED BY <1>1, <1>2, <1>3, WaitTableStep

(* A request is never in the wait table twice.                              *)
THEOREM NoDoubleWaiters == Spec => []NoDoubleWaiter
<1>1. Init => NoDoubleWaiter
  BY DEF Init, NoDoubleWaiter
<1> QED BY <1>1, TypeCorrect, NoDoubleWaiterNext, PTL DEF Spec

-----------------------------------------------------------------------------
(* The lock manager is the lock service, if no two names have one hash code. *)

Injective == \A d, e \in Data : SameKey(d, e) => d = e

LEMMA Classes == /\ Returned \cap Locking = {}
                 /\ Returned \cap Unlocking = {}
                 /\ Locking \cap Unlocking = {}
BY DEF Returned, Locking, Unlocking

(* Lock returns true only when the transaction holds the lock.             *)
THEOREM GrantImpliesHeld == ASSUME Injective PROVE Spec => GrantedIsHeld
<1> DEFINE Holds(t) == \E l \in lockTable' :
                          /\ l.xid = req[t].xid
                          /\ l.data = req[t].data
                          /\ req[t].type = "READ" \/ l.type = "WRITE"
           Step == \A t \in Thread :
                      pc[t] \in Locking /\ pc'[t] = "granted" => Holds(t)
<1>1. TypeOK /\ [Next]_vars => [Step]_vars
  <2> SUFFICES ASSUME TypeOK, [Next]_vars, NEW t \in Thread,
                      pc[t] \in Locking, pc'[t] = "granted"
               PROVE  Holds(t)
    OBVIOUS
  <2>1. CASE Redundant(t)
    <3>1. PICK l \in lockTable : /\ SameKey(l.data, req[t].data)
                                 /\ l.xid = req[t].xid
                                 /\ req[t].type = "READ" \/ l.type = "WRITE"
      BY <2>1 DEF Redundant, IsRedundant
    <3>2. l.data = req[t].data
      BY <3>1, Injective DEF Injective, TypeOK, Lock
    <3> QED BY <2>1, <3>1, <3>2 DEF Redundant
  <2>2. CASE Grant(t)
    <3>1. req[t] \in lockTable' /\ req[t].type \in {"READ", "WRITE"}
      BY <2>2 DEF Grant, TypeOK, Lock
    <3> QED BY <3>1
  <2>3. Redundant(t) \/ Grant(t)
    <3> USE DEF TypeOK, Goto, Return, Locking
    <3>1. ASSUME NEW u \in Thread, Advance(u) PROVE Redundant(t) \/ Grant(t)
      <4>1. CASE Wake(u)
        BY <4>1 DEF Wake
      <4>2. CASE ~Wake(u)
        BY <3>1, <4>2 DEF Advance, Redundant, Conflict, Grant, Stamp,
           StampExpired, ThrowDeadlock, Register, BeginWait, TimedOut, Retry,
           CleanupDeadlock, Unlock, UnlockDone, EndScan
      <4> QED BY <4>1, <4>2
    <3>2. ASSUME NEW u \in Thread,
                 CallLock(u) \/ CallUnlockAll(u) \/ SpuriousWakeup(u)
          PROVE  FALSE
      BY <3>2 DEF CallLock, CallUnlockAll, SpuriousWakeup
    <3>3. ~Tick /\ ~UNCHANGED vars
      BY DEF Tick, vars
    <3> QED BY <3>1, <3>2, <3>3 DEF Next
  <2> QED BY <2>1, <2>2, <2>3
<1> QED BY <1>1, TypeCorrect, PTL DEF Spec, GrantedIsHeld

(* What a step leaves alone of the service's view.                         *)

LEMMA SameHeld ==
    ASSUME UNCHANGED lockTable, \A l \in lockTable : Unlocked(l)' <=> Unlocked(l)
    PROVE  UNCHANGED held
BY DEF held

LEMMA SameCaller ==
    ASSUME NEW t \in Thread,
           \/ pc'[t] = pc[t] /\ req'[t] = req[t]
           \/ pc[t] \in Locking /\ pc'[t] \in Locking /\ req'[t] = req[t]
           \/ pc[t] \in Unlocking /\ pc'[t] \in Unlocking
    PROVE  /\ pending'[t] = pending[t]
           /\ outcome'[t] = outcome[t]
BY Classes DEF pending, outcome, Locking, Unlocking

LEMMA CallerUpdate ==
    ASSUME NEW t \in Thread, NEW r, NEW o,
           \A u \in Thread \ {t} : pending'[u] = pending[u] /\ outcome'[u] = outcome[u],
           pending'[t] = r, outcome'[t] = o
    PROVE  /\ pending' = [pending EXCEPT ![t] = r]
           /\ outcome' = [outcome EXCEPT ![t] = o]
BY DEF pending, outcome

LEMMA StutterStep ==
    ASSUME UNCHANGED lockTable,
           \A u \in Thread :
              \/ pc'[u] = pc[u] /\ req'[u] = req[u]
              \/ pc[u] \in Locking /\ pc'[u] \in Locking /\ req'[u] = req[u]
              \/ pc[u] \in Unlocking /\ pc'[u] \in Unlocking /\ req'[u] = req[u]
    PROVE  UNCHANGED <<held, pending, outcome>>
<1>1. \A l \in lockTable : Unlocked(l)' <=> Unlocked(l)
  BY Classes DEF Unlocked
<1>2. UNCHANGED held
  BY <1>1, SameHeld
<1>3. \A u \in Thread : pending'[u] = pending[u] /\ outcome'[u] = outcome[u]
  BY SameCaller
<1>4. UNCHANGED <<pending, outcome>>
  BY <1>3 DEF pending, outcome
<1> QED BY <1>2, <1>4

LEMMA HeldWhenFree == LockTableFree => held = lockTable
BY DEF held, Unlocked, LockTableFree

LEMMA CallLockRefines ==
    ASSUME TypeOK, TypeOK', NEW t \in Thread, CallLock(t)
    PROVE  Service!SNext
<1> USE DEF TypeOK, Goto
<1>1. /\ req'[t] \in Lock
      /\ pc[t] \in Returned /\ pc'[t] = "check"
      /\ \A u \in Thread \ {t} : pc'[u] = pc[u] /\ req'[u] = req[u]
      /\ UNCHANGED lockTable
  BY DEF CallLock
<1>2. UNCHANGED held
  BY <1>1, SameHeld, Classes DEF Unlocked, Unlocking
<1>3. pending[t] = {}
  BY <1>1, Classes DEF pending
<1>4. pending'[t] = {req'[t]} /\ outcome'[t] = "none"
  BY <1>1 DEF pending, outcome, Locking
<1>5. Service!Request(t, req'[t])
  BY <1>1, <1>2, <1>3, <1>4, SameCaller, CallerUpdate DEF Service!Request
<1> QED BY <1>1, <1>5 DEF Service!SNext, Service!Lock, Lock

LEMMA AnswerRefines ==
    ASSUME TypeOK, NEW t \in Thread, NEW how \in {"granted", "deadlock"},
           pc[t] \in Locking, Return(t, how)
    PROVE  Service!Answer(t, req[t], IF how = "granted" THEN "granted" ELSE "refused")
<1> USE DEF TypeOK, Goto, Return
<1>1. /\ pc'[t] = how
      /\ \A u \in Thread \ {t} : pc'[u] = pc[u] /\ req'[u] = req[u]
  OBVIOUS
<1>2. pending[t] = {req[t]}
  BY DEF pending
<1>3. /\ pending'[t] = {}
      /\ outcome'[t] = IF how = "granted" THEN "granted" ELSE "refused"
  BY <1>1 DEF pending, outcome, Locking
<1> QED BY <1>1, <1>2, <1>3, SameCaller, CallerUpdate DEF Service!Answer

LEMMA ReturnKeepsUnlocked ==
    ASSUME TypeOK, NEW t \in Thread, NEW how \in Returned,
           pc[t] \in Locking, Return(t, how), NEW l
    PROVE  Unlocked(l)' <=> Unlocked(l)
<1>1. /\ pc'[t] = how
      /\ \A u \in Thread \ {t} : pc'[u] = pc[u] /\ req'[u] = req[u]
  BY DEF TypeOK, Goto, Return
<1>2. pc[t] \notin Unlocking /\ pc'[t] \notin Unlocking
  BY <1>1, Classes
<1> QED BY <1>1, <1>2 DEF Unlocked

LEMMA RedundantRefines ==
    ASSUME TypeOK, Injective, NEW t \in Thread, Redundant(t)
    PROVE  Service!SNext
<1>1. req[t] \in Lock /\ lockTable \subseteq Lock
  BY DEF TypeOK
<1>2. Service!Answer(t, req[t], "granted")
  BY AnswerRefines DEF Redundant, Locking
<1>3. UNCHANGED held
  BY ReturnKeepsUnlocked, SameHeld DEF Redundant, Locking, Returned
<1>4. \E h \in held : Service!Covers(h, req[t])
  <2>1. PICK h \in lockTable : /\ SameKey(h.data, req[t].data)
                               /\ h.xid = req[t].xid
                               /\ req[t].type = "READ" \/ h.type = "WRITE"
    BY DEF Redundant, IsRedundant
  <2>2. h.data = req[t].data
    BY <1>1, <2>1 DEF Injective, Lock
  <2>3. h \in held
    BY HeldWhenFree DEF Redundant
  <2> QED BY <2>1, <2>2, <2>3 DEF Service!Covers
<1>5. Service!Redundant(t, req[t])
  BY <1>2, <1>3, <1>4 DEF Service!Redundant
<1> QED BY <1>1, <1>5 DEF Service!SNext, Service!Lock, Lock

LEMMA GrantRefines ==
    ASSUME TypeOK, NEW t \in Thread, Grant(t)
    PROVE  Service!SNext
<1> DEFINE weaker == [req[t] EXCEPT !.type = "READ"]
<1>1. /\ req[t] \in Lock /\ lockTable \subseteq Lock
      /\ LockTableFree /\ pc[t] \in Locking /\ Return(t, "granted")
      /\ ~IsRedundant(req[t]) /\ ~Conflicts(req[t])
      /\ lockTable' = (lockTable \ {weaker}) \cup {req[t]}
  BY DEF TypeOK, Grant, Locking
<1>2. Service!Answer(t, req[t], "granted")
  BY <1>1, AnswerRefines
<1>3. held = lockTable
  BY <1>1, HeldWhenFree
<1>4. held' = lockTable'
  <2>1. \A l : ~Unlocked(l)
    BY <1>1 DEF LockTableFree, Unlocked
  <2>2. \A l : ~Unlocked(l)'
    BY <1>1, <2>1, ReturnKeepsUnlocked DEF Returned
  <2> QED BY <2>2 DEF held
<1>5. \A h \in held : ~Service!Clash(h, req[t])
  BY <1>1, <1>3 DEF Conflicts, SameKey, Service!Clash
<1>6. ASSUME NEW h \in lockTable
      PROVE  Service!Covers(req[t], h) <=> (h = weaker \/ h = req[t])
  BY <1>1, <1>6 DEF Service!Covers, IsRedundant, SameKey, Lock
<1>7. held' = {h \in held : ~Service!Covers(req[t], h)} \cup {req[t]}
  BY <1>1, <1>3, <1>4, <1>6
<1>8. Service!Acquire(t, req[t])
  BY <1>2, <1>5, <1>7 DEF Service!Acquire
<1> QED BY <1>1, <1>8 DEF Service!SNext, Service!Lock, Lock

LEMMA DeadlockRefines ==
    ASSUME TypeOK, NEW t \in Thread, pc[t] \in Locking, ThrowDeadlock(t)
    PROVE  Service!SNext
<1>1. req[t] \in Lock
  BY DEF TypeOK
<1>2. Service!Answer(t, req[t], "refused")
  BY AnswerRefines DEF ThrowDeadlock
<1>3. UNCHANGED held
  BY ReturnKeepsUnlocked, SameHeld DEF ThrowDeadlock, Returned
<1>4. Service!Refuse(t, req[t])
  BY <1>2, <1>3 DEF Service!Refuse
<1> QED BY <1>1, <1>4 DEF Service!SNext, Service!Lock, Lock

LEMMA CallUnlockAllRefines ==
    ASSUME TypeOK, TypeOK', NEW t \in Thread, CallUnlockAll(t)
    PROVE  Service!SNext
<1> DEFINE x == req'[t].xid
<1>1. /\ x \in Xid
      /\ LockTableFree
      /\ pc[t] \in Returned /\ pc'[t] = "unlock"
      /\ \A u \in Thread \ {t} : pc'[u] = pc[u] /\ req'[u] = req[u]
      /\ UNCHANGED lockTable
  BY DEF TypeOK, Goto, CallUnlockAll, Lock
<1>2. held = lockTable
  BY <1>1, HeldWhenFree
<1>3. ASSUME NEW l PROVE Unlocked(l)' <=> l.xid = x
  BY <1>1 DEF Unlocked, LockTableFree, Unlocking
<1>4. held' = {h \in held : h.xid # x}
  BY <1>1, <1>2, <1>3 DEF held
<1>5. pending[t] = {}
  BY <1>1, Classes DEF pending
<1>6. pending'[t] = {} /\ outcome'[t] = "none"
  BY <1>1 DEF pending, outcome, Locking
<1>7. /\ pending' = [pending EXCEPT ![t] = {}]
      /\ outcome' = [outcome EXCEPT ![t] = "none"]
  BY <1>1, <1>6, SameCaller, CallerUpdate
<1>8. UNCHANGED pending
  BY <1>5, <1>7 DEF pending
<1>9. Service!ReleaseAll(t, x)
  BY <1>4, <1>5, <1>7, <1>8 DEF Service!ReleaseAll
<1> QED BY <1>1, <1>9 DEF Service!SNext

LEMMA UnlockRefines ==
    ASSUME TypeOK, NEW t \in Thread, Unlock(t)
    PROVE  UNCHANGED <<held, pending, outcome>>
<1>1. PICK l \in lockTable : /\ l.xid = req[t].xid
                             /\ lockTable' = lockTable \ {l}
  BY DEF Unlock
<1>2. /\ pc[t] = "unlock" /\ pc'[t] = "scan" /\ UNCHANGED req
      /\ \A u \in Thread \ {t} : pc'[u] = pc[u]
  BY DEF TypeOK, Goto, Unlock
<1>3. \A h : Unlocked(h)' <=> Unlocked(h)
  BY <1>2 DEF Unlocked, Unlocking
<1>4. Unlocked(l)
  BY <1>1, <1>2 DEF Unlocked, Unlocking
<1>5. UNCHANGED held
  BY <1>1, <1>3, <1>4 DEF held
<1>6. \A u \in Thread : pending'[u] = pending[u] /\ outcome'[u] = outcome[u]
  BY <1>2, SameCaller DEF Unlocking
<1> QED BY <1>5, <1>6 DEF pending, outcome

LEMMA UnlockDoneRefines ==
    ASSUME TypeOK, NEW t \in Thread, UnlockDone(t)
    PROVE  UNCHANGED <<held, pending, outcome>>
<1>1. /\ pc[t] = "unlock" /\ pc'[t] = "idle"
      /\ \A u \in Thread \ {t} : pc'[u] = pc[u] /\ req'[u] = req[u]
      /\ \A l \in lockTable : l.xid # req[t].xid
      /\ UNCHANGED lockTable
  BY DEF TypeOK, Goto, Return, UnlockDone
<1>2. \A l \in lockTable : Unlocked(l)' <=> Unlocked(l)
  BY <1>1 DEF Unlocked, Unlocking
<1>3. pending'[t] = pending[t] /\ outcome'[t] = outcome[t]
  BY <1>1 DEF pending, outcome, Locking
<1>4. \A u \in Thread : pending'[u] = pending[u] /\ outcome'[u] = outcome[u]
  BY <1>1, <1>3, SameCaller
<1> QED BY <1>1, <1>2, <1>4, SameHeld DEF pending, outcome

LEMMA WakeRefines ==
    ASSUME TypeOK, NEW t \in Thread, Wake(t)
    PROVE  UNCHANGED <<held, pending, outcome>>
<1>1. PICK i \in DOMAIN waitTable :
         pc' = [pc EXCEPT
                  ![waitTable[i].thread] = IF @ = "waiting"
                                           THEN "notified" ELSE @,
                  ![t] = IF waitTable[i].lock.type = "WRITE"
                         THEN "unlock" ELSE "scan"]
  BY DEF Wake
<1>2. pc[t] = "scan" /\ UNCHANGED <<lockTable, req>>
  BY DEF Wake
<1>3. ASSUME NEW u \in Thread
      PROVE  \/ pc'[u] = pc[u]
             \/ pc[u] \in Locking /\ pc'[u] \in Locking
             \/ pc[u] \in Unlocking /\ pc'[u] \in Unlocking
  BY <1>1, <1>2 DEF TypeOK, Locking, Unlocking
<1> QED BY <1>2, <1>3, StutterStep

LEMMA InnerStepRefines ==
    ASSUME TypeOK, NEW t \in Thread,
           \/ SpuriousWakeup(t) \/ Conflict(t) \/ Stamp(t) \/ Register(t)
           \/ BeginWait(t) \/ TimedOut(t) \/ Retry(t) \/ EndScan(t)
    PROVE  UNCHANGED <<held, pending, outcome>>
<1>1. UNCHANGED <<lockTable, req>>
  BY DEF SpuriousWakeup, Conflict, Stamp, Register, BeginWait, TimedOut, Retry,
         EndScan
<1>2. \/ pc[t] \in Locking /\ pc'[t] \in Locking
      \/ pc[t] \in Unlocking /\ pc'[t] \in Unlocking
  BY DEF TypeOK, Goto, SpuriousWakeup, Conflict, Stamp, Register, BeginWait,
         TimedOut, Retry, EndScan, Locking, Unlocking
<1>3. \A u \in Thread \ {t} : pc'[u] = pc[u]
  BY DEF TypeOK, Goto, SpuriousWakeup, Conflict, Stamp, Register, BeginWait,
         TimedOut, Retry, EndScan
<1> QED BY <1>1, <1>2, <1>3, StutterStep

(* Every behaviour of the lock manager is one of the lock service: requests *)
(* are granted in one step and only without conflict, UnlockAll releases    *)
(* all locks in one step, and nothing else shows.                           *)
THEOREM Refinement == ASSUME Injective PROVE Spec => ImplementsService
<1>1. Init => Service!SInit
  BY DEF Init, Service!SInit, held, pending, outcome, Locking
<1>2. TypeOK /\ TypeOK' /\ [Next]_vars => [Service!SNext]_Service!svars
  <2> SUFFICES ASSUME TypeOK, TypeOK', [Next]_vars
               PROVE  Service!SNext \/ UNCHANGED <<held, pending, outcome>>
    BY DEF Service!svars
  <2>1. ASSUME NEW t \in Thread, CallLock(t) PROVE Service!SNext
    BY <2>1, CallLockRefines
  <2>2. ASSUME NEW t \in Thread, CallUnlockAll(t) PROVE Service!SNext
    BY <2>2, CallUnlockAllRefines
  <2>3. ASSUME NEW t \in Thread, Redundant(t) PROVE Service!SNext
    BY <2>3, RedundantRefines, Injective
  <2>4. ASSUME NEW t \in Thread, Grant(t) PROVE Service!SNext
    BY <2>4, GrantRefines
  <2>5. ASSUME NEW t \in Thread, StampExpired(t) \/ CleanupDeadlock(t)
        PROVE  Service!SNext
    BY <2>5, DeadlockRefines DEF StampExpired, CleanupDeadlock, Locking
  <2>6. ASSUME NEW t \in Thread,
               \/ SpuriousWakeup(t) \/ Conflict(t) \/ Stamp(t) \/ Register(t)
               \/ BeginWait(t) \/ TimedOut(t) \/ Retry(t) \/ EndScan(t)
        PROVE  UNCHANGED <<held, pending, outcome>>
    BY <2>6, InnerStepRefines
  <2>7. ASSUME NEW t \in Thread, Unlock(t) \/ UnlockDone(t) \/ Wake(t)
        PROVE  UNCHANGED <<held, pending, outcome>>
    BY <2>7, UnlockRefines, UnlockDoneRefines, WakeRefines
  <2>8. CASE Tick
    BY <2>8, StutterStep DEF Tick
  <2>9. CASE UNCHANGED vars
    BY <2>9, StutterStep DEF vars
  <2> QED BY <2>1, <2>2, <2>3, <2>4, <2>5, <2>6, <2>7, <2>8, <2>9
          DEF Next, Advance
<1> QED BY <1>1, <1>2, TypeCorrect, PTL
        DEF Spec, ImplementsService, Service!SSpec

-----------------------------------------------------------------------------
(* One thread per transaction: nothing of a Lock call outlives it.          *)

OwnTransactions == \A t, u \in Thread : t # u => Serves[t] \cap Serves[u] = {}

(* A call that has met a conflict: its transaction has no lock that would   *)
(* answer it, and nobody else can get one for that transaction.             *)
Unanswered(t) == pc[t] \in Locking /\ ~IsRedundant(req[t])

ServesCaller == \A t \in Thread : pc[t] \in Locking => req[t].xid \in Serves[t]

ConflictsAreUnanswered ==
    \A t \in Thread : pc[t] \in Locking /\ pc[t] # "check" => Unanswered(t)

EntriesAreOfCalls ==
    \A i \in DOMAIN waitTable : \E t \in Thread :
        Unanswered(t) /\ waitTable[i] = [lock |-> req[t], thread |-> t]

StampsAreOfCalls ==
    \A x \in Xid : stampTable[x] # NoStamp =>
        \E t \in Thread : Unanswered(t) /\ req[t].xid = x

Calls == /\ ServesCaller
         /\ ConflictsAreUnanswered
         /\ EntriesAreOfCalls
         /\ StampsAreOfCalls

(* The ways out of a wait, which take back its entry and its stamp.         *)
Ends(t) == Grant(t) \/ StampExpired(t) \/ CleanupDeadlock(t)

(* Where a Lock call goes: it goes on with the same request, or it returns. *)
LEMMA LockCallStep ==
    ASSUME TypeOK, [Next]_vars, NEW u \in Thread, pc[u] \in Locking
    PROVE  \/ Redundant(u) \/ Ends(u)
           \/ /\ pc'[u] \in Locking
              /\ req'[u] = req[u]
              /\ pc'[u] # "check" => pc[u] # "check" \/ Conflict(u)
<1> USE DEF TypeOK, Goto, Return, Returned, Locking
<1> DEFINE Result == \/ Redundant(u) \/ Ends(u)
                     \/ /\ pc'[u] \in Locking
                        /\ req'[u] = req[u]
                        /\ pc'[u] # "check" => pc[u] # "check" \/ Conflict(u)
<1>1. ASSUME NEW t \in Thread, Wake(t) PROVE Result
  BY <1>1 DEF Wake
<1>2. ASSUME NEW t \in Thread, \/ CallLock(t) \/ CallUnlockAll(t)
                               \/ SpuriousWakeup(t)
      PROVE  Result
  BY <1>2 DEF CallLock, CallUnlockAll, SpuriousWakeup
<1>3. ASSUME NEW t \in Thread, Redundant(t) \/ Ends(t) PROVE Result
  <2>1. CASE t = u
    BY <1>3, <2>1
  <2>2. CASE t # u
    BY <1>3, <2>2 DEF Ends, Redundant, Grant, StampExpired, CleanupDeadlock,
                      ThrowDeadlock
  <2> QED BY <2>1, <2>2
<1>4. ASSUME NEW t \in Thread, Conflict(t) PROVE Result
  BY <1>4 DEF Conflict
<1>5. ASSUME NEW t \in Thread, \/ Stamp(t) \/ Register(t) \/ BeginWait(t)
                               \/ TimedOut(t) \/ Retry(t)
      PROVE  Result
  BY <1>5 DEF Stamp, Register, BeginWait, TimedOut, Retry
<1>6. ASSUME NEW t \in Thread, Unlock(t) \/ UnlockDone(t) \/ EndScan(t)
      PROVE  Result
  BY <1>6 DEF Unlock, UnlockDone, EndScan
<1>7. CASE Tick \/ UNCHANGED vars
  BY <1>7 DEF Tick, vars
<1> QED BY <1>1, <1>2, <1>3, <1>4, <1>5, <1>6, <1>7
        DEF Next, Advance, Ends

LEMMA BeginsLocking ==
    ASSUME TypeOK, [Next]_vars, NEW u \in Thread,
           pc[u] \notin Locking, pc'[u] \in Locking
    PROVE  CallLock(u)
<1> USE DEF TypeOK, Goto, Return, Returned, Locking
<1>1. ASSUME NEW t \in Thread, Wake(t) PROVE FALSE
  BY <1>1 DEF Wake
<1>2. ASSUME NEW t \in Thread, CallLock(t) PROVE CallLock(u)
  <2>1. t = u
    BY <1>2 DEF CallLock
  <2> QED BY <1>2, <2>1
<1>3. ASSUME NEW t \in Thread, CallUnlockAll(t) \/ SpuriousWakeup(t)
      PROVE  FALSE
  BY <1>3 DEF CallUnlockAll, SpuriousWakeup
<1>4. ASSUME NEW t \in Thread, Advance(t), ~Wake(t) PROVE FALSE
  BY <1>4 DEF Advance, Redundant, Conflict, Grant, Stamp, StampExpired,
     ThrowDeadlock, Register, BeginWait, TimedOut, Retry, CleanupDeadlock,
     Unlock, UnlockDone, EndScan
<1>5. ~Tick /\ ~UNCHANGED vars
  BY DEF Tick, vars
<1> QED BY <1>1, <1>2, <1>3, <1>4, <1>5 DEF Next

LEMMA StillUnanswered ==
    ASSUME OwnTransactions, TypeOK, ServesCaller, [Next]_vars,
           NEW u \in Thread, Unanswered(u),
           pc'[u] \in Locking, req'[u] = req[u]
    PROVE  Unanswered(u)'
<1> SUFFICES ASSUME NEW l \in lockTable',
                    SameKey(l.data, req[u].data), l.xid = req[u].xid,
                    req[u].type = "READ" \/ l.type = "WRITE"
             PROVE  FALSE
  BY DEF Unanswered, IsRedundant, SameKey
<1>1. l \notin lockTable
  BY DEF Unanswered, IsRedundant
<1>2. PICK t \in Thread : Grant(t)
  BY <1>1, LockTableStep DEF Unlock
<1>3. l = req[t] /\ pc[t] = "check"
  BY <1>1, <1>2 DEF Grant
<1>4. pc'[t] = "granted"
  BY <1>2 DEF Grant, Return, Goto, TypeOK
<1>5. t # u
  BY <1>4 DEF Locking
<1>6. req[t].xid \in Serves[t] /\ req[u].xid \in Serves[u]
  BY <1>3 DEF ServesCaller, Unanswered, Locking
<1> QED BY <1>3, <1>5, <1>6 DEF OwnTransactions

(* A conflict is no redundant request: others' locks and one's own that     *)
(* covers the request exclude each other.                                   *)
LEMMA ConflictIsUnanswered ==
    ASSUME TypeOK, MutualExclusion, NEW t \in Thread, Conflict(t)
    PROVE  Unanswered(t)
<1>1. /\ pc[t] \in Locking
      /\ Conflicts(req[t])
      /\ req[t] \in Lock
      /\ lockTable \subseteq Lock
  BY DEF Conflict, Locking, TypeOK
<1>2. PICK h \in lockTable : /\ SameKey(h.data, req[t].data)
                             /\ h.xid # req[t].xid
                             /\ "WRITE" \in {req[t].type, h.type}
  BY <1>1 DEF Conflicts
<1>3. ASSUME NEW l \in lockTable, SameKey(l.data, req[t].data),
             l.xid = req[t].xid
      PROVE  l.type = "READ" /\ h.type = "READ"
  BY <1>2, <1>3 DEF MutualExclusion, SameKey
<1> QED BY <1>1, <1>2, <1>3 DEF Unanswered, IsRedundant

LEMMA RemovedEntry ==
    ASSUME waitTable \in Seq(WaitLock), NEW k \in DOMAIN waitTable,
           NEW i \in DOMAIN RemoveIndex(waitTable, k)
    PROVE  \E j \in DOMAIN waitTable :
              j # k /\ RemoveIndex(waitTable, k)[i] = waitTable[j]
<1>1. k \in 1 .. Len(waitTable) /\ Len(waitTable) \in Nat
  BY LenProperties
<1> DEFINE q == RemoveIndex(waitTable, k)
<1>2. /\ q \in Seq(WaitLock)
      /\ Len(q) = Len(waitTable) - 1
      /\ \A j \in 1 .. Len(waitTable) - 1 :
            q[j] = IF j < k THEN waitTable[j] ELSE waitTable[j + 1]
  BY <1>1, RemoveIndexProperties
<1>3. i \in 1 .. Len(waitTable) - 1
  BY <1>2, LenProperties
<1> HIDE DEF q
<1>4. CASE i < k
  BY <1>1, <1>2, <1>3, <1>4 DEF q
<1>5. CASE ~(i < k)
  <2>1. i + 1 \in DOMAIN waitTable /\ i + 1 # k
    BY <1>1, <1>3, <1>5
  <2>2. q[i] = waitTable[i + 1]
    BY <1>2, <1>3, <1>5
  <2> QED BY <2>1, <2>2 DEF q
<1> QED BY <1>4, <1>5

LEMMA WithoutWaiterEntry ==
    ASSUME waitTable \in Seq(WaitLock), NoDoubleWaiter, NEW l,
           NEW i \in DOMAIN WithoutWaiter(l)
    PROVE  \E j \in DOMAIN waitTable : /\ waitTable[j].lock # l
                                       /\ WithoutWaiter(l)[i] = waitTable[j]
<1>1. CASE IsWaiting(l)
  <2> DEFINE k == CHOOSE n \in DOMAIN waitTable : waitTable[n].lock = l
  <2>1. k \in DOMAIN waitTable /\ waitTable[k].lock = l
    BY <1>1 DEF IsWaiting
  <2>2. WithoutWaiter(l) = RemoveIndex(waitTable, k)
    BY <1>1 DEF WithoutWaiter
  <2> HIDE DEF k
  <2>3. PICK j \in DOMAIN waitTable :
           j # k /\ WithoutWaiter(l)[i] = waitTable[j]
    BY <2>1, <2>2, RemovedEntry
  <2> QED BY <2>1, <2>3 DEF NoDoubleWaiter
<1>2. CASE ~IsWaiting(l)
  BY <1>2 DEF WithoutWaiter, IsWaiting
<1> QED BY <1>1, <1>2

LEMMA OneEnds ==
    ASSUME TypeOK, NEW t \in Thread, Ends(t), NEW u \in Thread, Ends(u)
    PROVE  u = t
<1>1. /\ pc[t] \in Locking /\ pc'[t] \in Returned
      /\ \A v \in Thread \ {t} : pc'[v] = pc[v]
  BY DEF TypeOK, Ends, Grant, StampExpired, CleanupDeadlock, ThrowDeadlock,
         Goto, Return, Locking, Returned
<1>2. pc[u] \in Locking /\ pc'[u] \in Returned
  BY DEF TypeOK, Ends, Grant, StampExpired, CleanupDeadlock, ThrowDeadlock,
         Goto, Return, Locking, Returned
<1> QED BY <1>1, <1>2, Classes

(* An entry was there before, and is not of a call that has just returned   *)
(* from a wait, or it has just been registered.                             *)
LEMMA EntryStep ==
    ASSUME TypeOK, NoDoubleWaiter, [Next]_vars, NEW i \in DOMAIN waitTable'
    PROVE  \/ \E j \in DOMAIN waitTable :
                 /\ waitTable'[i] = waitTable[j]
                 /\ \A t \in Thread : Ends(t) => waitTable[j].lock # req[t]
           \/ \E t \in Thread :
                 /\ Register(t)
                 /\ waitTable'[i] = [lock |-> req[t], thread |-> t]
<1>0. waitTable \in Seq(WaitLock) /\ Len(waitTable) \in Nat
  BY LenProperties DEF TypeOK
<1>1. CASE \E t \in Thread : Ends(t)
  <2>1. PICK t \in Thread : Ends(t)
    BY <1>1
  <2>2. waitTable' = WithoutWaiter(req[t])
    BY <2>1 DEF Ends, Grant, StampExpired, CleanupDeadlock, ThrowDeadlock
  <2>3. \A u \in Thread : Ends(u) => u = t
    BY <2>1, OneEnds
  <2>4. PICK j \in DOMAIN waitTable : /\ waitTable[j].lock # req[t]
                                      /\ waitTable'[i] = waitTable[j]
    BY <1>0, <2>2, WithoutWaiterEntry
  <2> QED BY <2>3, <2>4
<1>2. CASE \E t \in Thread : Register(t)
  <2>1. PICK t \in Thread : Register(t)
    BY <1>2
  <2>2. \A u \in Thread : ~Ends(u)
    BY <2>1 DEF TypeOK, Goto, Return, Ends, Grant, StampExpired,
                CleanupDeadlock, ThrowDeadlock, Register
  <2>3. CASE UNCHANGED waitTable
    BY <2>2, <2>3
  <2>4. CASE waitTable' = Append(waitTable, [lock |-> req[t], thread |-> t])
    <3>1. [lock |-> req[t], thread |-> t] \in WaitLock
      BY DEF TypeOK, WaitLock
    <3>2. /\ DOMAIN waitTable' = 1 .. Len(waitTable) + 1
          /\ \A j \in 1 .. Len(waitTable) : waitTable'[j] = waitTable[j]
          /\ waitTable'[Len(waitTable) + 1] = [lock |-> req[t], thread |-> t]
      BY <1>0, <2>4, <3>1, AppendProperties, LenProperties
    <3>3. i = Len(waitTable) + 1 \/ i \in 1 .. Len(waitTable)
      BY <1>0, <3>2
    <3>4. DOMAIN waitTable = 1 .. Len(waitTable)
      BY <1>0, LenProperties
    <3> QED BY <2>1, <2>2, <3>2, <3>3, <3>4
  <2> QED BY <2>1, <2>3, <2>4 DEF Register
<1>3. CASE \E t \in Thread : Wake(t)
  <2>1. PICK t \in Thread, k \in DOMAIN waitTable :
           Wake(t) /\ waitTable' = RemoveIndex(waitTable, k)
    BY <1>3 DEF Wake
  <2>2. \A u \in Thread : ~Ends(u)
    <3>1. pc[t] = "scan" /\ pc'[t] \in {"unlock", "scan"}
      BY <2>1 DEF Wake, TypeOK
    <3>2. ~\E u \in Thread : Grant(u)
      BY <3>1 DEF Grant, LockTableFree, Unlocking
    <3> QED BY <3>1, <3>2 DEF Ends, StampExpired, CleanupDeadlock, ThrowDeadlock,
                              WaitTableFree
  <2> QED BY <1>0, <2>1, <2>2, RemovedEntry
<1>4. CASE UNCHANGED waitTable /\ \A t \in Thread : ~Ends(t)
  BY <1>4
<1>5. \/ UNCHANGED waitTable
      \/ \E t \in Thread : Ends(t) \/ Register(t) \/ Wake(t)
  BY DEF Next, Advance, vars, CallLock, CallUnlockAll, SpuriousWakeup,
         Redundant, Conflict, Stamp, BeginWait, TimedOut, Retry,
         Unlock, UnlockDone, EndScan, Tick, Ends
<1> QED BY <1>1, <1>2, <1>3, <1>4, <1>5

LEMMA StampStep ==
    ASSUME TypeOK, [Next]_vars, NEW x \in Xid, stampTable'[x] # NoStamp
    PROVE  \/ /\ stampTable[x] # NoStamp
              /\ \A t \in Thread : Ends(t) => req[t].xid # x
           \/ \E t \in Thread : Stamp(t) /\ req[t].xid = x
<1> USE DEF TypeOK
<1>1. ASSUME NEW t \in Thread, Ends(t)
      PROVE  stampTable[x] # NoStamp /\ req[t].xid # x
  BY <1>1 DEF Ends, Grant, StampExpired, CleanupDeadlock, ThrowDeadlock
<1>2. ASSUME NEW t \in Thread, Stamp(t)
      PROVE  stampTable[x] # NoStamp \/ req[t].xid = x
  BY <1>2 DEF Stamp
<1>3. CASE Tick
  <2>1. stampTable'[x] = Older(stampTable[x])
    BY <1>3 DEF Tick
  <2>2. stampTable[x] # NoStamp
    BY <2>1 DEF Older
  <2> QED BY <1>1, <2>2
<1>4. CASE UNCHANGED stampTable
  BY <1>1, <1>4
<1>5. \/ UNCHANGED stampTable \/ Tick
      \/ \E t \in Thread : Ends(t) \/ Stamp(t)
  BY DEF Next, Advance, vars, CallLock, CallUnlockAll, SpuriousWakeup,
         Redundant, Conflict, Register, BeginWait, TimedOut, Retry,
         Unlock, UnlockDone, EndScan, Wake, Ends
<1>6. ASSUME NEW t \in Thread, Stamp(t), NEW u \in Thread, Ends(u)
      PROVE  FALSE
  BY <1>6 DEF Goto, Return, Ends, Grant, StampExpired, CleanupDeadlock,
              ThrowDeadlock, Stamp
<1> QED BY <1>1, <1>2, <1>3, <1>4, <1>5, <1>6

LEMMA CallsNext ==
    ASSUME OwnTransactions, TypeOK, MutualExclusion, NoDoubleWaiter, Calls,
           [Next]_vars
    PROVE  Calls'
(* A call that has met a conflict and does not return goes on unanswered.   *)
<1>1. ASSUME NEW t \in Thread, Unanswered(t), ~Ends(t)
      PROVE  Unanswered(t)' /\ req'[t] = req[t]
  <2>1. ~Redundant(t)
    BY <1>1 DEF Redundant, Unanswered
  <2>2. pc'[t] \in Locking /\ req'[t] = req[t]
    BY <1>1, <2>1, LockCallStep DEF Unanswered
  <2> QED BY <1>1, <2>2, StillUnanswered DEF Calls
<1>2. ServesCaller'
  <2> SUFFICES ASSUME NEW t \in Thread, pc'[t] \in Locking
               PROVE  req'[t].xid \in Serves[t]
    BY DEF ServesCaller
  <2>1. CASE pc[t] \in Locking
    <3>1. ~Redundant(t) /\ ~Ends(t)
      BY DEF Redundant, Ends, Grant, StampExpired, CleanupDeadlock,
             ThrowDeadlock, Return, Goto, TypeOK, Locking
    <3> QED BY <2>1, <3>1, LockCallStep DEF Calls, ServesCaller
  <2>2. CASE pc[t] \notin Locking
    BY <2>2, BeginsLocking DEF CallLock, TypeOK
  <2> QED BY <2>1, <2>2
<1>3. ConflictsAreUnanswered'
  <2> SUFFICES ASSUME NEW t \in Thread, pc'[t] \in Locking, pc'[t] # "check"
               PROVE  Unanswered(t)'
    BY DEF ConflictsAreUnanswered
  <2>1. pc[t] \in Locking
    BY BeginsLocking DEF CallLock, Goto, TypeOK
  <2>2. ~Redundant(t) /\ ~Ends(t)
    BY DEF Redundant, Ends, Grant, StampExpired, CleanupDeadlock,
           ThrowDeadlock, Return, Goto, TypeOK, Locking
  <2>3. pc[t] # "check" \/ Conflict(t)
    BY <2>1, <2>2, LockCallStep
  <2>4. Unanswered(t)
    BY <2>1, <2>3, ConflictIsUnanswered DEF Calls, ConflictsAreUnanswered
  <2> QED BY <1>1, <2>2, <2>4
<1>4. EntriesAreOfCalls'
  <2> SUFFICES ASSUME NEW i \in DOMAIN waitTable'
               PROVE  \E t \in Thread :
                         /\ Unanswered(t)'
                         /\ waitTable'[i] = [lock |-> req'[t], thread |-> t]
    BY DEF EntriesAreOfCalls
  <2>1. ASSUME NEW j \in DOMAIN waitTable, waitTable'[i] = waitTable[j],
               \A t \in Thread : Ends(t) => waitTable[j].lock # req[t]
        PROVE  \E t \in Thread :
                  /\ Unanswered(t)'
                  /\ waitTable'[i] = [lock |-> req'[t], thread |-> t]
    <3>1. PICK t \in Thread :
             Unanswered(t) /\ waitTable[j] = [lock |-> req[t], thread |-> t]
      BY DEF Calls, EntriesAreOfCalls
    <3> QED BY <1>1, <2>1, <3>1
  <2>2. ASSUME NEW t \in Thread, Register(t),
               waitTable'[i] = [lock |-> req[t], thread |-> t]
        PROVE  /\ Unanswered(t)'
               /\ waitTable'[i] = [lock |-> req'[t], thread |-> t]
    <3>1. Unanswered(t)
      BY <2>2 DEF Register, Calls, ConflictsAreUnanswered, Locking
    <3>2. ~Ends(t)
      BY <2>2 DEF Register, Ends, Grant, StampExpired, CleanupDeadlock
    <3> QED BY <1>1, <2>2, <3>1, <3>2
  <2> QED BY <2>1, <2>2, EntryStep
<1>5. StampsAreOfCalls'
  <2> SUFFICES ASSUME NEW x \in Xid, stampTable'[x] # NoStamp
               PROVE  \E t \in Thread : Unanswered(t)' /\ req'[t].xid = x
    BY DEF StampsAreOfCalls
  <2>1. CASE /\ stampTable[x] # NoStamp
             /\ \A t \in Thread : Ends(t) => req[t].xid # x
    <3>1. PICK t \in Thread : Unanswered(t) /\ req[t].xid = x
      BY <2>1 DEF Calls, StampsAreOfCalls
    <3> QED BY <1>1, <2>1, <3>1
  <2>2. ASSUME NEW t \in Thread, Stamp(t), req[t].xid = x
        PROVE  Unanswered(t)' /\ req'[t].xid = x
    <3>1. Unanswered(t)
      BY <2>2 DEF Stamp, Calls, ConflictsAreUnanswered, Locking
    <3>2. ~Ends(t)
      BY <2>2 DEF Stamp, Goto, Return, TypeOK, Ends, Grant, StampExpired,
                  CleanupDeadlock, ThrowDeadlock
    <3> QED BY <1>1, <2>2, <3>1, <3>2
  <2> QED BY <2>1, <2>2, StampStep
<1> QED BY <1>2, <1>3, <1>4, <1>5 DEF Calls

(* With one thread per transaction, no wait entry and no stamp is left by a *)
(* Lock call that has returned, whichever thread has removed what meanwhile.*)
THEOREM NothingLeft == ASSUME OwnTransactions PROVE Spec => []NoLeftovers
<1>1. Init => Calls
  BY DEF Init, Calls, ServesCaller, ConflictsAreUnanswered, EntriesAreOfCalls,
         StampsAreOfCalls, Locking
<1>2. TypeOK /\ MutualExclusion /\ NoDoubleWaiter /\ Calls /\ [Next]_vars
         => Calls'
  BY CallsNext, OwnTransactions
<1>3. Calls => NoLeftovers
  BY DEF Calls, EntriesAreOfCalls, StampsAreOfCalls, Unanswered, NoLeftovers
<1> QED BY <1>1, <1>2, <1>3, TypeCorrect, MutuallyExclusive, NoDoubleWaiters,
           PTL DEF Spec
=============================================================================
