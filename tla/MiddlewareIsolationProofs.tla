----------------------- MODULE MiddlewareIsolationProofs -----------------------
(* Theorems about Middleware for any number of clients, transactions and    *)
(* keys, where every transaction has a client of its own and no call takes  *)
(* longer than the time to live.                                           *)
EXTENDS MiddlewareProofs

(* No two clients make calls for the same transaction.                      *)
OwnTransactions == \A s, t \in Client : s # t => Serves[s] \cap Serves[t] = {}

(* Clients call the methods of Middleware.java and nothing else.            *)
Methods == \A o \in Op : \E k, c \in Key, rm \in RM, reserved \in SUBSET Key :
    o \in {Query(k, rm), Change(k, rm), Check(k, rm), Reserve(k, rm, c),
           QueryCustomerInfo(c), NewCustomer(c), DeleteCustomer(c, reserved),
           NewCustomerId(c)}

Assumptions == OwnTransactions /\ ~SlowCalls /\ Methods

-----------------------------------------------------------------------------
(* The inductive invariant: who works for a transaction.                    *)

Busy(t) == pc[t] # "idle"

(* A call that has seen its transaction live, and will look at the table    *)
(* once more before it does anything with it but take its lock.             *)
Early(t) == \/ pc[t] \in {"refresh", "refused", "attach"}
            \/ pc[t] = "getLock" /\ ~op(t).late

(* A client works for one of its transactions.  It does not expire once it   *)
(* is refreshed; the reaper then leaves it alone, if it had not begun.       *)
Clients == \A t \in Client : Busy(t) =>
              /\ xid(t) \in Serves[t]
              /\ pc[t] # "refresh" => ~expired[xid(t)]
              /\ Busy(Reaper) /\ ~Early(t) => xid(t) # xid(Reaper)

Reaping == Busy(Reaper) => pc[Reaper] \in {"abort", "aborted", "unlock"}

(* The transaction is live until the call that ends it has ended it, but     *)
(* for a call that is early.                                               *)
LiveCalls == \A t \in Thread : Busy(t) =>
                /\ active[xid(t)] # "none"
                /\ pc[t] = "unlock" => active[xid(t)] \in Ended
                /\ ~Early(t) /\ pc[t] # "unlock" => active[xid(t)] = "active"

Workers == Types /\ Clients /\ Reaping /\ LiveCalls

(* Only the reaper ends a transaction that a client has a call for, and only *)
(* if it has overtaken that call.                                          *)
Overtakes == \A t \in Client :
    /\ Early(t)
    /\ active[xid(t)] \in Ended \/ (Busy(Reaper) /\ xid(Reaper) = xid(t))
    => xid(t) \in overtaken

(* Such a call has not got its lock before the others are given back.        *)
Spare == \A t \in Client :
    /\ pc[t] = "refresh" \/ (pc[t] = "getLock" /\ ~op(t).late)
    /\ active[xid(t)] \in Ended /\ ~Unlocking(xid(t))
    => \A h \in held : h.xid # xid(t)

-----------------------------------------------------------------------------
(* The inductive invariant: locks and copies.                               *)

NoClash == \A a, b \in held : ~Clash(a, b)

(* An operation of a live transaction has its lock while it calls the       *)
(* resource managers.                                                      *)
Locked == \A t \in Thread :
    pc[t] \in {"attach", "begin", "call"} /\ ~op(t).late /\ active[xid(t)] = "active" =>
        \E h \in held : Covers(h, Wanted(t))

(* x holds a lock on k, to write if it must.                                *)
Holds(x, k, mustWrite) ==
    \E h \in held : h.xid = x /\ h.data = k /\ (mustWrite => h.type = "WRITE")

CopiesLocked ==
    \A rm \in RM, x \in Xid, k \in LockedKeys :
        active[x] = "active" /\ k \in DOMAIN work[rm][x] =>
            Holds(x, k, FALSE) /\ (Wrote(rm, x, k) => Holds(x, k, TRUE))

(* Nothing is known of a transaction that has not begun.                    *)
Unbegun == \A rm \in RM, x \in Xid :
              /\ table[rm][x] = "none" => DOMAIN work[rm][x] = {}
              /\ active[x] = "none" => table[rm][x] = "none"

(* Isolation, and what is left of it when a transaction has committed here  *)
(* and not elsewhere.                                                      *)
Agrees ==
    \A rm \in RM, x \in Xid, k \in LockedKeys :
        active[x] = "active" /\ k \in DOMAIN work[rm][x] =>
            work[rm][x][k] \ {x} = store[rm][k] \ {x}

(* Whose write is seen, has written.                                       *)
Written ==
    \A rm \in RM, x \in Xid, k \in Key :
        /\ x \in store[rm][k] => Wrote(rm, x, k)
        /\ \A y \in Xid : k \in DOMAIN work[rm][y] /\ x \in work[rm][y][k] => Wrote(rm, x, k)

Copying == /\ NoDirtyRead /\ NoClash /\ Locked /\ CopiesLocked
           /\ Unbegun /\ Agrees /\ Written

-----------------------------------------------------------------------------
(* Who works for a transaction: the proof.                                  *)

LEMMA ClientThread ==
    ASSUME NEW t \in Client
    PROVE  t \in Thread /\ t # Reaper /\ Serves[t] \subseteq Xid
  BY ReaperAssumption, ServesAssumption DEF Thread

(* Nobody works for a transaction that somebody works for already, but a     *)
(* call that the reaper has overtaken.                                     *)
LEMMA Alone ==
    ASSUME OwnTransactions, Clients, NEW s \in Thread, NEW t \in Thread,
           Busy(s), Busy(t), xid(s) = xid(t), ~Early(t), t \in Client \/ ~Early(s)
    PROVE  s = t
<1>1. CASE s \in Client /\ t \in Client
  BY <1>1 DEF OwnTransactions, Clients
<1>2. CASE s = Reaper \/ t = Reaper
  BY <1>2 DEF Clients, Thread
<1> QED BY <1>1, <1>2 DEF Thread

(* How a call goes on.                                                     *)
LEMMA AdvanceControl ==
    ASSUME Types, NEW t \in Thread, Advance(t)
    PROVE  /\ Busy(t)
           /\ pc'[t] = "idle" \/ call'[t] = call[t]
           /\ pc[t] = "unlock" => pc'[t] = "idle"
           /\ pc[t] \in Ended => /\ pc'[t] = "unlock"
                                 /\ active' = [active EXCEPT ![xid(t)] = pc[t]]
           /\ pc[t] \notin Ended => pc'[t] # "unlock" /\ active' = active
           /\ \A x \in Xid : expired'[x] => expired[x]
           /\ pc[t] = "refresh" => ~expired'[xid(t)]
           /\ pc[t] \in {"abort", "aborted", "unlock"} =>
                 pc'[t] \in {"idle", "abort", "aborted", "unlock"}
           /\ pc'[t] # "refresh" /\ overtaken' = overtaken
           /\ Early(t) /\ pc'[t] # "idle" =>
                 Early(t)' \/ (TableFree(t) /\ active[xid(t)] = "active")
<1> DEFINE Goal ==
           /\ Busy(t)
           /\ pc'[t] = "idle" \/ call'[t] = call[t]
           /\ pc[t] = "unlock" => pc'[t] = "idle"
           /\ pc[t] \in Ended => /\ pc'[t] = "unlock"
                                 /\ active' = [active EXCEPT ![xid(t)] = pc[t]]
           /\ pc[t] \notin Ended => pc'[t] # "unlock" /\ active' = active
           /\ \A x \in Xid : expired'[x] => expired[x]
           /\ pc[t] = "refresh" => ~expired'[xid(t)]
           /\ pc[t] \in {"abort", "aborted", "unlock"} =>
                 pc'[t] \in {"idle", "abort", "aborted", "unlock"}
           /\ pc'[t] # "refresh" /\ overtaken' = overtaken
           /\ Early(t) /\ pc'[t] # "idle" =>
                 Early(t)' \/ (TableFree(t) /\ active[xid(t)] = "active")
<1> USE DEF Ended, Busy
<1>1. CASE GetLock(t) \/ Refused(t)
  <2>1. pc[t] = "getLock" /\ UNCHANGED <<active, expired, overtaken, call>>
    BY <1>1 DEF GetLock, Refused, managed
  <2>2. pc'[t] = "refused" \/ pc'[t] = IF op(t).late THEN "call" ELSE "attach"
    BY <1>1, GotoAt DEF GetLock, Refused
  <2> QED BY <2>1, <2>2 DEF Early
<1>10. CASE Refresh(t)
  <2>1. /\ pc[t] = "refresh" /\ UNCHANGED <<active, overtaken, call>>
        /\ expired' = [expired EXCEPT ![xid(t)] = FALSE]
    BY <1>10 DEF Refresh
  <2>2. pc'[t] = IF op(t).late THEN "attach" ELSE "getLock"
    BY <1>10, GotoAt DEF Refresh
  <2>3. ~expired'[xid(t)] /\ \A x \in Xid : expired'[x] => expired[x]
    BY <2>1, ThreadType DEF Types, TypeOK
  <2> QED BY <2>1, <2>2, <2>3 DEF Early, op
<1>2. CASE AbortRefused(t)
  <2>1. /\ pc[t] = "refused" /\ active' = active /\ overtaken' = overtaken
        /\ \A x \in Xid : expired'[x] => expired[x]
    BY <1>2 DEF AbortRefused, IsValid, Types, TypeOK
  <2>2. \/ pc'[t] = "abort" /\ call' = call /\ TableFree(t) /\ active[xid(t)] = "active"
        \/ pc'[t] = "idle"
    BY <1>2, GotoAt, ReturnAt DEF AbortRefused, IsValid
  <2> QED BY <2>1, <2>2
<1>3. CASE Attach(t)
  <2>1. \/ pc'[t] = "begin" /\ call' = call /\ TableFree(t) /\ active[xid(t)] = "active"
        \/ pc'[t] = "idle"
    BY <1>3, GotoAt, ReturnAt DEF Attach
  <2> QED BY <1>3, <2>1 DEF Attach
<1>4. CASE Begin(t)
  <2>1. \/ pc'[t] \in {"call", "attach"} /\ call' = call
        \/ pc'[t] = "idle"
    BY <1>4, GotoAt, ReturnAt, BeginEffect
  <2> QED BY <1>4, <2>1, BeginEffect DEF Early
<1>5. CASE Execute(t)
  <2>1. \/ pc'[t] \in {"call", "getLock"} /\ call' = call
        \/ pc'[t] = "idle"
    BY <1>5, GotoAt, ReturnAt, ExecuteControl
  <2> QED BY <1>5, <2>1, ExecuteControl DEF Early
<1>6. CASE CommitAt(t)
  <2>1. \/ pc'[t] \in {"commit", "committed"} /\ call' = call
        \/ pc'[t] = "idle"
    BY <1>6, GotoAt, ReturnAt, CommitAtEffect
  <2> QED BY <1>6, <2>1, CommitAtEffect DEF Early
<1>7. CASE AbortAt(t)
  <2>1. \/ pc'[t] \in {"abort", "aborted"} /\ call' = call
        \/ pc'[t] = "idle"
    BY <1>7, GotoAt, ReturnAt, AbortAtEffect
  <2> QED BY <1>7, <2>1, AbortAtEffect DEF Early
<1>8. CASE End(t)
  BY <1>8, GotoAt DEF End, Early
<1>9. CASE UnlockAll(t)
  BY <1>9, ReturnAt DEF UnlockAll, managed, Early
<1> QED BY <1>1, <1>2, <1>3, <1>4, <1>5, <1>6, <1>7, <1>8, <1>9, <1>10 DEF Advance

(* A client begins a call.                                                 *)
LEMMA AskControl ==
    ASSUME Types, NEW t \in Client, Invoke(t) \/ Commit(t) \/ Abort(t)
    PROVE  /\ pc[t] = "idle" /\ pc[Reaper] = "idle"
           /\ pc'[t] \in {"refresh", "commit", "abort"}
           /\ xid(t)' \in Serves[t] /\ active[xid(t)'] = "active"
           /\ \A x \in Xid : expired'[x] => expired[x]
           /\ pc'[t] # "refresh" => ~expired'[xid(t)']
           /\ UNCHANGED <<active, rms, overtaken, held, table, work, store, up>>
           /\ \A u \in Thread \ {t} :
                 pc'[u] = pc[u] /\ step'[u] = step[u] /\ call'[u] = call[u]
<1>1. /\ pc[t] = "idle"
      /\ UNCHANGED <<active, rms, overtaken, held, table, work, store, up>>
  BY DEF Invoke, Commit, Abort, data, managed
<1>2. pc[Reaper] = "idle"
  BY ClientThread DEF Invoke, Commit, Abort, TableFree
<1>3. \A x \in Serves[t] : x \in Xid
  BY ClientThread
<1>4. \A u \in Thread \ {t} :
         pc'[u] = pc[u] /\ step'[u] = step[u] /\ call'[u] = call[u]
  BY OtherThreads, ClientThread DEF Ask
<1>5. \A c \in Call : call' = [call EXCEPT ![t] = c] => xid(t)' = c.xid
  BY ClientThread DEF xid, Types, TypeOK
<1>6. CASE Invoke(t)
  <2>1. PICK x \in Serves[t], o \in Op :
           active[x] = "active" /\ call' = [call EXCEPT ![t] = [xid |-> x, op |-> o]]
    BY <1>6 DEF Invoke
  <2>2. xid(t)' = x
    BY <1>3, <1>5, <2>1, NewCallType
  <2>3. pc'[t] = "refresh" /\ UNCHANGED expired
    BY <1>6, GotoAt, ClientThread DEF Invoke, managed
  <2> QED BY <1>1, <1>2, <1>4, <2>1, <2>2, <2>3
<1>7. CASE Commit(t) \/ Abort(t)
  <2>1. PICK x \in Serves[t] : IsValid(x) /\ call' = [call EXCEPT ![t] = EndCall(x)]
    BY <1>7 DEF Commit, Abort
  <2>2. xid(t)' = x
    BY <1>3, <1>5, <2>1, NewCallType
  <2>3. pc'[t] \in {"commit", "abort"}
    BY <1>7, GotoAt, ClientThread DEF Commit, Abort
  <2>4. ~expired'[x] /\ \A y \in Xid : expired'[y] => expired[y]
    BY <1>3, <2>1 DEF IsValid, Types, TypeOK
  <2>5. active[x] = "active"
    BY <2>1 DEF IsValid
  <2> QED BY <1>1, <1>2, <1>4, <2>1, <2>2, <2>3, <2>4, <2>5
<1> QED BY <1>6, <1>7

(* An idle thread begins a call.                                           *)
LEMMA FromIdle ==
    ASSUME Types, [Next]_vars, NEW u \in Thread, pc[u] = "idle", pc'[u] # "idle"
    PROVE  /\ pc'[u] \in {"refresh", "commit", "abort"}
           /\ UNCHANGED <<active, rms, table, work, store, up>>
           /\ \/ u \in Client /\ (Invoke(u) \/ Commit(u) \/ Abort(u))
              \/ u = Reaper /\ pc'[u] = "abort" /\ \E x \in Xid : Reap(x)
<1> DEFINE Goal ==
           /\ pc'[u] \in {"refresh", "commit", "abort"}
           /\ UNCHANGED <<active, rms, table, work, store, up>>
           /\ \/ u \in Client /\ (Invoke(u) \/ Commit(u) \/ Abort(u))
              \/ u = Reaper /\ pc'[u] = "abort" /\ \E x \in Xid : Reap(x)
<1> HIDE DEF Goal
<1>1. ASSUME NEW t \in Client, Ask(t) PROVE Goal
  <2>1. u = t
    BY <1>1, OtherThreads, ClientThread
  <2>2. ~Start(t)
    BY <2>1 DEF Start
  <2> QED BY <1>1, <2>1, <2>2, AskControl DEF Ask, Goal
<1>2. ASSUME NEW t \in Thread, Advance(t) PROVE Goal
  BY <1>2, OtherThreads, AdvanceControl DEF Busy
<1>3. ASSUME NEW x \in Xid, Reap(x) PROVE Goal
  <2>1. u = Reaper
    BY <1>3, OtherThreads DEF Thread
  <2>2. pc'[u] = "abort"
    BY <1>3, <2>1, GotoAt DEF Reap
  <2> QED BY <1>3, <2>1, <2>2 DEF Reap, data, Goal
<1>4. CASE (\E x \in Xid : Expire(x)) \/ Crash \/ UNCHANGED vars
  BY <1>4 DEF Expire, Crash, vars
<1> QED BY <1>1, <1>2, <1>3, <1>4 DEF Next, Goal

LEMMA WorkersNext ==
    ASSUME Assumptions, Workers, [Next]_vars
    PROVE  Workers'
<1> USE DEF Assumptions, Workers, Busy
<1>1. Types'
  BY TypesNext
<1>2. ASSUME UNCHANGED <<pc, call>>, NEW x \in Xid, active[x] = "none",
             active' = [active EXCEPT ![x] = "active"], UNCHANGED expired
      PROVE  Clients' /\ Reaping' /\ LiveCalls'
  <2>1. Clients' /\ Reaping'
    BY <1>2 DEF Clients, Reaping, xid, Early, op
  <2>2. LiveCalls'
    <3>1. ASSUME NEW t \in Thread, pc[t] # "idle" PROVE active'[xid(t)] = active[xid(t)]
      <4>1. xid(t) # x /\ xid(t) \in Xid
        BY <1>2, <3>1, ThreadType DEF LiveCalls
      <4> QED BY <1>2, <4>1 DEF Types, TypeOK
    <3> QED BY <1>2, <3>1 DEF LiveCalls, xid, Early, op
  <2> QED BY <2>1, <2>2
<1>3. ASSUME NEW t \in Client, Start(t) PROVE Clients' /\ Reaping' /\ LiveCalls'
  BY <1>2, <1>3, ClientThread DEF Start
<1>4. ASSUME NEW t \in Client, Invoke(t) \/ Commit(t) \/ Abort(t)
      PROVE  Clients' /\ Reaping' /\ LiveCalls'
  <2>1. \A u \in Thread \ {t} : xid(u)' = xid(u) /\ pc'[u] = pc[u] /\ (Early(u)' <=> Early(u))
    BY <1>4, AskControl DEF xid, Early, op
  <2>2. /\ \A x \in Xid : expired'[x] => expired[x]
        /\ pc'[t] # "refresh" => ~expired'[xid(t)']
        /\ xid(t)' \in Serves[t] /\ active'[xid(t)'] = "active"
        /\ pc'[t] # "unlock" /\ active' = active
    BY <1>4, AskControl
  <2>3. pc'[Reaper] = "idle"
    BY <1>4, <2>1, AskControl, ClientThread DEF Thread
  <2>4. LiveCalls'
    <3> SUFFICES ASSUME NEW u \in Thread, pc'[u] # "idle"
                 PROVE  /\ active'[xid(u)'] # "none"
                        /\ pc'[u] = "unlock" => active'[xid(u)'] \in Ended
                        /\ ~Early(u)' /\ pc'[u] # "unlock" => active'[xid(u)'] = "active"
      BY DEF LiveCalls
    <3>1. CASE u = t
      BY <2>2, <3>1
    <3>2. CASE u # t
      BY <2>1, <2>2, <3>2 DEF LiveCalls
    <3> QED BY <3>1, <3>2
  <2>5. ASSUME NEW u \in Client, pc'[u] # "idle"
        PROVE  xid(u)' \in Serves[u] /\ (pc'[u] # "refresh" => ~expired'[xid(u)'])
    <3>1. CASE u = t
      BY <2>2, <3>1
    <3>2. CASE u # t
      BY <2>1, <2>2, <2>5, <3>2, ClientThread, ThreadType DEF Clients
    <3> QED BY <3>1, <3>2
  <2> QED BY <2>3, <2>4, <2>5 DEF Clients, Reaping
<1>5. ASSUME NEW t \in Thread, Advance(t) PROVE Clients' /\ Reaping' /\ LiveCalls'
  <2>1. \A u \in Thread \ {t} : xid(u)' = xid(u) /\ pc'[u] = pc[u] /\ (Early(u)' <=> Early(u))
    BY <1>5, OtherThreads DEF xid, Early, op
  <2>2. pc'[t] = "idle" \/ xid(t)' = xid(t)
    BY <1>5, AdvanceControl DEF xid
  <2>3. Clients'
    <3> SUFFICES ASSUME NEW u \in Client, pc'[u] # "idle"
                 PROVE  /\ xid(u)' \in Serves[u]
                        /\ pc'[u] # "refresh" => ~expired'[xid(u)']
                        /\ pc'[Reaper] # "idle" /\ ~Early(u)' => xid(u)' # xid(Reaper)'
      BY DEF Clients
    <3>1. u \in Thread /\ Reaper \in Thread /\ u # Reaper
      BY ClientThread DEF Thread
    <3>2. pc[u] # "idle" /\ xid(u)' = xid(u) /\ xid(u) \in Xid /\ xid(u) \in Serves[u]
      BY <1>5, <2>1, <2>2, <3>1, AdvanceControl, ThreadType DEF Clients
    <3>3. pc'[Reaper] # "idle" => pc[Reaper] # "idle" /\ xid(Reaper)' = xid(Reaper)
      BY <1>5, <2>1, <2>2, <3>1, AdvanceControl
    <3>4. pc'[u] # "refresh" => ~expired'[xid(u)']
      <4>1. CASE pc[u] = "refresh" /\ u # t
        BY <2>1, <3>1, <4>1
      <4>2. CASE pc[u] = "refresh" /\ u = t
        BY <1>5, <3>2, <4>2, AdvanceControl
      <4>3. CASE pc[u] # "refresh"
        BY <1>5, <3>2, <4>3, AdvanceControl DEF Clients
      <4> QED BY <4>1, <4>2, <4>3
    <3>5. ASSUME pc'[Reaper] # "idle", ~Early(u)' PROVE xid(u)' # xid(Reaper)'
      <4>1. CASE ~Early(u)
        BY <3>2, <3>3, <3>5, <4>1 DEF Clients
      <4>2. CASE Early(u)
        <5>1. u = t
          BY <2>1, <3>1, <3>5, <4>2
        <5>2. TableFree(u)
          BY <1>5, <3>5, <4>2, <5>1, AdvanceControl
        <5> QED BY <3>1, <3>3, <3>5, <5>2 DEF TableFree
      <4> QED BY <4>1, <4>2
    <3> QED BY <3>2, <3>4, <3>5
  <2>4. Reaping'
    BY <1>5, <2>1, AdvanceControl DEF Reaping, Thread
  <2>5. LiveCalls'
    <3> SUFFICES ASSUME NEW u \in Thread, pc'[u] # "idle"
                 PROVE  /\ active'[xid(u)'] # "none"
                        /\ pc'[u] = "unlock" => active'[xid(u)'] \in Ended
                        /\ ~Early(u)' /\ pc'[u] # "unlock" => active'[xid(u)'] = "active"
      BY DEF LiveCalls
    <3>1. pc[u] # "idle" /\ xid(u)' = xid(u) /\ xid(u) \in Xid
      BY <1>5, <2>1, <2>2, AdvanceControl, ThreadType
    <3>2. CASE pc[t] \in Ended
      <4>1. pc'[t] = "unlock" /\ active' = [active EXCEPT ![xid(t)] = pc[t]]
        BY <1>5, <3>2, AdvanceControl
      <4>2. CASE xid(u) # xid(t)
        <5>1. u # t /\ active'[xid(u)] = active[xid(u)]
          BY <3>1, <4>1, <4>2 DEF Types, TypeOK
        <5> QED BY <2>1, <3>1, <5>1 DEF LiveCalls
      <4>3. CASE xid(u) = xid(t)
        <5>1. active'[xid(u)] = pc[t] /\ ~Early(t) /\ Busy(t)
          BY <3>1, <3>2, <4>1, <4>3 DEF Early, Ended, Types, TypeOK
        <5>2. ~Early(u) => u = t
          BY <3>1, <4>3, <5>1, Alone
        <5> QED BY <2>1, <3>1, <3>2, <4>1, <5>1, <5>2 DEF Ended
      <4> QED BY <4>2, <4>3
    <3>3. CASE pc[t] \notin Ended
      <4>1. active' = active
        BY <1>5, <3>3, AdvanceControl
      <4>2. CASE u # t
        BY <2>1, <3>1, <4>1, <4>2 DEF LiveCalls
      <4>3. CASE u = t
        <5>1. pc'[t] # "unlock" /\ pc[t] # "unlock" /\ active[xid(t)] # "none"
          BY <1>5, <3>1, <3>3, <4>3, AdvanceControl DEF LiveCalls
        <5>2. ~Early(t)' => active[xid(t)] = "active"
          BY <1>5, <3>1, <4>3, <5>1, AdvanceControl DEF LiveCalls
        <5> QED BY <3>1, <4>1, <4>3, <5>1, <5>2
      <4> QED BY <4>2, <4>3
    <3> QED BY <3>2, <3>3
  <2> QED BY <2>3, <2>4, <2>5
<1>6. ASSUME NEW x \in Xid, Reap(x) PROVE Clients' /\ Reaping' /\ LiveCalls'
  <2>1. /\ pc[Reaper] = "idle" /\ expired[x] /\ active[x] = "active" /\ active' = active
        /\ expired' = [expired EXCEPT ![x] = FALSE]
        /\ pc'[Reaper] = "abort" /\ xid(Reaper)' = x
    BY <1>6, GotoAt DEF Reap, IsValid, EndCall, xid, Types, TypeOK, Thread
  <2>2. \A u \in Thread \ {Reaper} :
           xid(u)' = xid(u) /\ pc'[u] = pc[u] /\ (Early(u)' <=> Early(u))
    BY <1>6, OtherThreads DEF xid, Thread, Early, op
  <2>3. \A y \in Xid : expired'[y] => expired[y]
    BY <2>1 DEF Types, TypeOK
  <2>4. Clients'
    <3> SUFFICES ASSUME NEW u \in Client, pc'[u] # "idle"
                 PROVE  /\ xid(u)' \in Serves[u]
                        /\ pc'[u] # "refresh" => ~expired'[xid(u)']
                        /\ ~Early(u)' => xid(u)' # x
      BY <2>1 DEF Clients
    <3>1. /\ xid(u)' = xid(u) /\ pc'[u] = pc[u] /\ (Early(u)' <=> Early(u))
          /\ xid(u) \in Xid
      BY <2>2, ClientThread, ThreadType
    <3>2. pc[u] = "refresh" => Early(u)
      BY DEF Early
    <3> QED BY <2>1, <2>3, <3>1, <3>2 DEF Clients
  <2>5. LiveCalls'
    <3> SUFFICES ASSUME NEW u \in Thread, pc'[u] # "idle"
                 PROVE  /\ active'[xid(u)'] # "none"
                        /\ pc'[u] = "unlock" => active'[xid(u)'] \in Ended
                        /\ ~Early(u)' /\ pc'[u] # "unlock" => active'[xid(u)'] = "active"
      BY DEF LiveCalls
    <3>1. CASE u = Reaper
      BY <2>1, <3>1
    <3>2. CASE u # Reaper
      BY <2>1, <2>2, <3>2 DEF LiveCalls
    <3> QED BY <3>1, <3>2
  <2> QED BY <2>1, <2>4, <2>5 DEF Reaping
<1>7. ASSUME NEW x \in Xid, Expire(x) PROVE Clients' /\ Reaping' /\ LiveCalls'
  <2>1. /\ \A t \in Thread : pc[t] \notin {"idle", "refresh"} => xid(t) # x
        /\ expired' = [expired EXCEPT ![x] = TRUE]
        /\ UNCHANGED <<active, pc, call>>
    BY <1>7 DEF Expire
  <2>2. \A t \in Thread : pc[t] \notin {"idle", "refresh"} =>
                             (expired'[xid(t)] => expired[xid(t)])
    BY <2>1, ThreadType DEF Types, TypeOK
  <2> QED BY <2>1, <2>2, ClientThread DEF Clients, Reaping, LiveCalls, xid, Early, op
<1>8. CASE Crash \/ UNCHANGED vars
  BY <1>1, <1>8 DEF Crash, vars, managed, Clients, Reaping, LiveCalls, xid, Early, op
<1> QED BY <1>1, <1>3, <1>4, <1>5, <1>6, <1>7, <1>8 DEF Next, Ask

-----------------------------------------------------------------------------
(* Outcomes and locks.                                                     *)

LEMMA ThreadStep ==
    ASSUME Types, [Next]_vars, NEW u \in Thread
    PROVE  \/ pc'[u] = pc[u] /\ step'[u] = step[u] /\ call'[u] = call[u]
           \/ Advance(u)
           \/ pc[u] = "idle"
<1> DEFINE Goal == \/ pc'[u] = pc[u] /\ step'[u] = step[u] /\ call'[u] = call[u]
                   \/ Advance(u)
                   \/ pc[u] = "idle"
<1> HIDE DEF Goal
<1>1. ASSUME NEW t \in Client, Ask(t) PROVE Goal
  <2>1. CASE t = u
    BY <1>1, <2>1 DEF Ask, Start, Invoke, Commit, Abort, Goal
  <2>2. CASE t # u
    BY <1>1, <2>2, OtherThreads, ClientThread DEF Goal
  <2> QED BY <2>1, <2>2
<1>2. ASSUME NEW t \in Thread, Advance(t) PROVE Goal
  <2>1. CASE t = u
    BY <1>2, <2>1 DEF Goal
  <2>2. CASE t # u
    BY <1>2, <2>2, OtherThreads DEF Goal
  <2> QED BY <2>1, <2>2
<1>3. ASSUME NEW x \in Xid, Reap(x) PROVE Goal
  <2>1. CASE u = Reaper
    BY <1>3, <2>1 DEF Reap, Goal
  <2>2. CASE u # Reaper
    BY <1>3, <2>2, OtherThreads DEF Thread, Goal
  <2> QED BY <2>1, <2>2
<1>4. ASSUME NEW x \in Xid, Expire(x) PROVE Goal
  BY <1>4 DEF Expire, Goal
<1>5. CASE Crash \/ UNCHANGED vars
  BY <1>5 DEF Crash, vars, Goal
<1> QED BY <1>1, <1>2, <1>3, <1>4, <1>5 DEF Next, Goal

(* The transaction table changes when a transaction starts or ends.         *)
LEMMA ActiveSteps ==
    ASSUME Types, [Next]_vars
    PROVE  \/ UNCHANGED active
           \/ \E t \in Client : Start(t)
           \/ \E t \in Thread : End(t)
<1>1. ASSUME NEW t \in Client, Invoke(t) \/ Commit(t) \/ Abort(t) PROVE UNCHANGED active
  BY <1>1 DEF Invoke, Commit, Abort, managed
<1>2. ASSUME NEW t \in Thread, Advance(t) PROVE UNCHANGED active \/ End(t)
  BY <1>2, BeginEffect, ExecuteControl, CommitAtEffect, AbortAtEffect
     DEF Advance, Refresh, GetLock, Refused, AbortRefused, Attach, UnlockAll, managed
<1>3. ASSUME NEW x \in Xid, Reap(x) \/ Expire(x) PROVE UNCHANGED active
  BY <1>3 DEF Reap, Expire
<1>4. CASE Crash \/ UNCHANGED vars
  BY <1>4 DEF Crash, vars, managed
<1> QED BY <1>1, <1>2, <1>3, <1>4 DEF Next, Ask

LEMMA HeldSteps ==
    ASSUME Types, [Next]_vars
    PROVE  \/ UNCHANGED held
           \/ \E t \in Thread : GetLock(t) \/ UnlockAll(t)
<1>1. ASSUME NEW t \in Client, Ask(t) PROVE UNCHANGED held
  BY <1>1 DEF Ask, Start, Invoke, Commit, Abort
<1>2. ASSUME NEW t \in Thread, Advance(t) PROVE UNCHANGED held \/ GetLock(t) \/ UnlockAll(t)
  BY <1>2, BeginEffect, ExecuteControl, CommitAtEffect, AbortAtEffect
     DEF Advance, Refresh, Refused, AbortRefused, Attach, End
<1>3. ASSUME NEW x \in Xid, Reap(x) \/ Expire(x) PROVE UNCHANGED held
  BY <1>3 DEF Reap, Expire
<1>4. CASE Crash \/ UNCHANGED vars
  BY <1>4 DEF Crash, vars
<1> QED BY <1>1, <1>2, <1>3, <1>4 DEF Next

LEMMA StartEffect ==
    ASSUME Types, NEW t \in Client, Start(t)
    PROVE  /\ \E x \in Xid : /\ active[x] = "none" /\ active'[x] = "active"
                             /\ \A y \in Xid \ {x} : active'[y] = active[y]
           /\ UNCHANGED <<rms, expired, held, table, work, store, up, pc, call, step>>
  BY ClientThread DEF Start, Types, TypeOK, data

LEMMA EndEffect ==
    ASSUME Workers, NEW t \in Thread, End(t)
    PROVE  /\ pc[t] \in Ended /\ pc'[t] = "unlock"
           /\ active[xid(t)] = "active" /\ active'[xid(t)] = pc[t]
           /\ \A y \in Xid \ {xid(t)} : active'[y] = active[y]
           /\ UNCHANGED <<rms, expired, held, table, work, store, up, call>>
<1>1. pc[t] \in Ended /\ Busy(t) /\ ~Early(t) /\ pc[t] # "unlock"
  BY DEF End, Ended, Busy, Early
<1>2. active[xid(t)] = "active"
  BY <1>1 DEF Workers, LiveCalls
<1> QED BY <1>1, <1>2, GotoAt, ThreadType DEF End, Workers, Types, TypeOK, data

LEMMA WorkersInit == Init => Workers
<1> SUFFICES ASSUME Init PROVE Workers
  OBVIOUS
<1>1. \A t \in Thread : pc[t] = "idle"
  BY DEF Init
<1> QED BY <1>1, TypeInit DEF Workers, Clients, Reaping, LiveCalls, Busy, Thread

LEMMA OneOutcomeStep ==
    ASSUME Workers, [Next]_vars, NEW x \in Xid, active[x] \in Ended
    PROVE  active'[x] = active[x]
<1>1. ASSUME NEW t \in Client, Start(t) PROVE active'[x] = active[x]
  BY <1>1, StartEffect DEF Workers, Ended
<1>2. ASSUME NEW t \in Thread, End(t) PROVE active'[x] = active[x]
  BY <1>2, EndEffect DEF Ended
<1> QED BY <1>1, <1>2, ActiveSteps DEF Workers

(* The outcome of a transaction does not change, although the reaper works  *)
(* beside the client: who has not looked at the table since does no more to *)
(* the transaction than lock.                                              *)
THEOREM OutcomeIsFinal == ASSUME Assumptions PROVE Spec => OneOutcome
<1>1. Workers /\ [Next]_vars => [\A x \in Xid : active[x] \in Ended => active'[x] = active[x]]_vars
  BY OneOutcomeStep
<1>2. Workers /\ [Next]_vars => Workers'
  BY WorkersNext, Assumptions
<1> QED BY <1>1, <1>2, WorkersInit, PTL DEF Spec, OneOutcome

-----------------------------------------------------------------------------
(* Calls that the reaper has overtaken.                                     *)

LEMMA OvertakenStep == ASSUME Types, [Next]_vars PROVE overtaken \subseteq overtaken'
<1>1. ASSUME NEW t \in Client, Ask(t) PROVE UNCHANGED overtaken
  BY <1>1 DEF Ask, Start, Invoke, Commit, Abort, managed
<1>2. ASSUME NEW t \in Thread, Advance(t) PROVE UNCHANGED overtaken
  BY <1>2, AdvanceControl
<1>3. ASSUME NEW x \in Xid, Reap(x) \/ Expire(x) PROVE overtaken \subseteq overtaken'
  BY <1>3 DEF Reap, Expire
<1>4. CASE Crash \/ UNCHANGED vars
  BY <1>4 DEF Crash, vars, managed
<1> QED BY <1>1, <1>2, <1>3, <1>4 DEF Next

LEMMA SameCall ==
    ASSUME NEW u \in Thread, pc'[u] = pc[u], call'[u] = call[u]
    PROVE  /\ xid(u)' = xid(u) /\ op(u)' = op(u) /\ (Early(u)' <=> Early(u))
           /\ Busy(u)' <=> Busy(u)
  BY DEF xid, op, Early, Busy

(* What the reaper works on, it has worked on before, or has just taken up.  *)
LEMMA ReaperStep ==
    ASSUME Workers, [Next]_vars, NEW x \in Xid, Busy(Reaper)', xid(Reaper)' = x
    PROVE  (Busy(Reaper) /\ xid(Reaper) = x) \/ Reap(x)
<1> USE DEF Workers
<1>1. Reaper \in Thread
  BY DEF Thread
<1>2. CASE pc'[Reaper] = pc[Reaper] /\ step'[Reaper] = step[Reaper] /\ call'[Reaper] = call[Reaper]
  BY <1>1, <1>2, SameCall
<1>3. CASE Advance(Reaper)
  BY <1>1, <1>3, AdvanceControl DEF Busy, xid
<1>4. CASE pc[Reaper] = "idle"
  <2>1. PICK y \in Xid : Reap(y)
    BY <1>1, <1>4, FromIdle, ClientThread DEF Busy
  <2>2. xid(Reaper)' = y
    BY <1>1, <2>1, NewCallType DEF Reap, xid, Types, TypeOK
  <2> QED BY <2>1, <2>2
<1> QED BY <1>1, <1>2, <1>3, <1>4, ThreadStep

(* Nobody but the reaper ends a transaction under a client's call.           *)
LEMMA EndedStep ==
    ASSUME OwnTransactions, Workers, [Next]_vars,
           NEW u \in Client, Early(u), active'[xid(u)] \in Ended
    PROVE  active[xid(u)] \in Ended \/ (Busy(Reaper) /\ xid(Reaper) = xid(u))
<1> USE DEF Workers
<1>1. u \in Thread /\ xid(u) \in Xid /\ Busy(u)
  BY ClientThread, ThreadType DEF Early, Busy
<1>2. ASSUME NEW t \in Client, Start(t) PROVE active[xid(u)] \in Ended
  <2>1. active'[xid(u)] # active[xid(u)] => active'[xid(u)] = "active"
    BY <1>1, <1>2, StartEffect
  <2> QED BY <2>1 DEF Ended
<1>3. ASSUME NEW t \in Thread, End(t), active'[xid(u)] # active[xid(u)]
      PROVE  Busy(Reaper) /\ xid(Reaper) = xid(u)
  <2>1. xid(t) = xid(u) /\ pc[t] \in Ended
    BY <1>1, <1>3, EndEffect
  <2>2. Busy(t) /\ ~Early(t)
    BY <2>1 DEF Ended, Busy, Early
  <2>3. t # u
    BY <2>2
  <2>4. t \notin Client
    BY <1>1, <2>1, <2>2, <2>3, Alone
  <2> QED BY <2>1, <2>2, <2>4 DEF Thread
<1> QED BY <1>2, <1>3, ActiveSteps

LEMMA OvertakesNext ==
    ASSUME OwnTransactions, Workers, Overtakes, [Next]_vars
    PROVE  Overtakes'
<1> USE DEF Workers
<1> SUFFICES ASSUME NEW u \in Client, Early(u)',
                    \/ active'[xid(u)'] \in Ended
                    \/ Busy(Reaper)' /\ xid(Reaper)' = xid(u)'
             PROVE  xid(u)' \in overtaken'
  BY DEF Overtakes
<1>1. u \in Thread /\ u # Reaper /\ pc'[u] # "idle" /\ overtaken \subseteq overtaken'
  BY ClientThread, OvertakenStep DEF Early
<1>2. CASE pc'[u] = pc[u] /\ step'[u] = step[u] /\ call'[u] = call[u]
  <2>1. xid(u)' = xid(u) /\ Early(u) /\ xid(u) \in Xid /\ Busy(u)
    BY <1>1, <1>2, SameCall, ThreadType DEF Busy
  <2>2. CASE active[xid(u)] \in Ended \/ (Busy(Reaper) /\ xid(Reaper) = xid(u))
    BY <1>1, <2>1, <2>2 DEF Overtakes
  <2>3. CASE Reap(xid(u))
    <3>1. expired[xid(u)]
      BY <2>3 DEF Reap
    <3>2. pc[u] = "refresh"
      BY <2>1, <3>1 DEF Clients
    <3>3. xid(u) \in overtaken'
      BY <2>3, <3>2 DEF Reap
    <3> QED BY <2>1, <3>3
  <2> QED BY <2>1, <2>2, <2>3, EndedStep, ReaperStep
<1>3. CASE Advance(u)
  <2>1. xid(u)' = xid(u) /\ pc[u] # "unlock" /\ active' = active /\ Busy(u)
    BY <1>1, <1>3, AdvanceControl DEF xid, Early
  <2>2. Busy(Reaper)' = Busy(Reaper) /\ xid(Reaper)' = xid(Reaper)
    BY <1>1, <1>3, OtherThreads DEF Busy, xid, Thread
  <2>3. CASE Early(u)
    BY <1>1, <2>1, <2>2, <2>3 DEF Overtakes
  <2>4. CASE ~Early(u)
    BY <1>1, <2>1, <2>2, <2>4 DEF LiveCalls, Clients, Ended
  <2> QED BY <2>3, <2>4
<1>4. CASE pc[u] = "idle"
  <2>1. Invoke(u) \/ Commit(u) \/ Abort(u)
    BY <1>1, <1>4, FromIdle
  <2>2. active'[xid(u)'] = "active" /\ pc'[Reaper] = "idle"
    BY <1>1, <2>1, AskControl DEF Thread
  <2> QED BY <2>2 DEF Busy, Ended
<1> QED BY <1>1, <1>2, <1>3, <1>4, ThreadStep

(* A client that asks for a lock, too late or not.                          *)
LEMMA LockCall ==
    ASSUME Workers, NEW t \in Thread, GetLock(t)
    PROVE  /\ t \in Client /\ xid(t) \in Serves[t] /\ xid(t) \in Xid
           /\ pc[t] = "getLock" /\ pc'[t] # "getLock" /\ active' = active
           /\ active[xid(t)] # "active" => Early(t) /\ active[xid(t)] \in Ended
<1> USE DEF Workers
<1>1. pc[t] = "getLock" /\ pc'[t] # "getLock" /\ active' = active /\ xid(t) \in Xid
  BY GotoAt, ThreadType DEF GetLock, managed
<1>2. t \in Client
  BY <1>1 DEF Thread, Reaping, Busy
<1>3. active[xid(t)] \in Entry
  BY <1>1 DEF Types, TypeOK
<1> QED BY <1>1, <1>2, <1>3 DEF Clients, LiveCalls, Busy, Entry, Ended

(* The locks of a transaction are given back in the end.                    *)
LEMMA UnlockingStep ==
    ASSUME Workers, [Next]_vars, NEW x \in Xid, Unlocking(x)
    PROVE  Unlocking(x)' \/ \A h \in held' : h.xid # x
<1> USE DEF Workers
<1>1. PICK u \in Thread : pc[u] = "unlock" /\ xid(u) = x
  BY DEF Unlocking
<1>2. CASE Advance(u)
  <2>1. UnlockAll(u)
    BY <1>1, <1>2, BeginEffect, ExecuteControl, CommitAtEffect, AbortAtEffect
       DEF Advance, Refresh, GetLock, Refused, AbortRefused, Attach, End, Ended
  <2> QED BY <1>1, <2>1 DEF UnlockAll
<1>3. CASE pc'[u] = pc[u] /\ step'[u] = step[u] /\ call'[u] = call[u]
  BY <1>1, <1>3 DEF Unlocking, xid
<1> QED BY <1>1, <1>2, <1>3, ThreadStep

(* A transaction that has just ended gives back its locks.                  *)
LEMMA EndUnlocks ==
    ASSUME Workers, [Next]_vars, NEW x \in Xid, active[x] \notin Ended, active'[x] \in Ended
    PROVE  Unlocking(x)'
<1> USE DEF Workers
<1>1. ASSUME NEW t \in Client, Start(t) PROVE FALSE
  <2>1. active'[x] # active[x] => active'[x] = "active"
    BY <1>1, StartEffect
  <2> QED BY <2>1 DEF Ended
<1>2. ASSUME NEW t \in Thread, End(t) PROVE Unlocking(x)'
  <2>1. xid(t) = x /\ pc'[t] = "unlock" /\ call' = call
    BY <1>2, EndEffect
  <2> QED BY <2>1 DEF Unlocking, xid
<1> QED BY <1>1, <1>2, ActiveSteps

LEMMA SpareNext ==
    ASSUME OwnTransactions, Workers, Spare, [Next]_vars
    PROVE  Spare'
<1> USE DEF Workers
<1> SUFFICES ASSUME NEW u \in Client, NEW x, xid(u)' = x,
                    pc'[u] = "refresh" \/ (pc'[u] = "getLock" /\ ~op(u)'.late),
                    active'[x] \in Ended, ~Unlocking(x)'
             PROVE  \A h \in held' : h.xid # x
  BY DEF Spare, Unlocking
<1>1. u \in Thread /\ u # Reaper /\ pc'[u] # "idle"
  BY ClientThread
<1>2. CASE pc'[u] = pc[u] /\ step'[u] = step[u] /\ call'[u] = call[u]
  <2>1. /\ xid(u) = x /\ op(u)' = op(u) /\ x \in Xid /\ x \in Serves[u]
        /\ pc[u] = "refresh" \/ (pc[u] = "getLock" /\ ~op(u).late)
    BY <1>1, <1>2, SameCall, ThreadType DEF Clients, Busy
  <2>3. active[x] \in Ended
    BY <2>1, EndUnlocks
  <2>4. CASE Unlocking(x)
    BY <2>1, <2>4, UnlockingStep
  <2>5. CASE ~Unlocking(x)
    <3>1. \A h \in held : h.xid # x
      BY <2>1, <2>3, <2>5 DEF Spare
    <3>2. ASSUME NEW t \in Thread, GetLock(t) PROVE \A h \in held' : h.xid # x
      <4>1. t # u
        BY <1>2, <3>2, LockCall
      <4>2. xid(t) # x
        BY <2>1, <3>2, <4>1, LockCall DEF OwnTransactions
      <4> QED BY <3>1, <3>2, <4>2 DEF GetLock, Wanted
    <3>3. ASSUME NEW t \in Thread, UnlockAll(t) PROVE \A h \in held' : h.xid # x
      BY <3>1, <3>3 DEF UnlockAll
    <3> QED BY <2>1, <3>1, <3>2, <3>3, HeldSteps
  <2> QED BY <2>4, <2>5
<1>3. CASE Advance(u)
  <2>1. Refresh(u)
    <3>1. ~(GetLock(u) \/ Refused(u) \/ AbortRefused(u) \/ Attach(u) \/ End(u) \/ UnlockAll(u))
      BY <1>1, GotoAt, ReturnAt DEF GetLock, Refused, AbortRefused, Attach, End, UnlockAll
    <3>2. ~(Begin(u) \/ CommitAt(u) \/ AbortAt(u))
      BY <1>1, GotoAt, ReturnAt, BeginEffect, CommitAtEffect, AbortAtEffect
    <3>3. ASSUME Execute(u) PROVE FALSE
      <4>1. op(u).late /\ UNCHANGED call
        BY <1>1, <3>3, GotoAt, ReturnAt, ExecuteControl
      <4> QED BY <1>1, <1>3, <4>1, AdvanceControl DEF op
    <3> QED BY <1>3, <3>1, <3>2, <3>3 DEF Advance
  <2>2. /\ pc[u] = "refresh" /\ UNCHANGED <<active, held, call>> /\ xid(u) = x
    BY <2>1 DEF Refresh, xid
  <2>3. ~Unlocking(x)
    <3>1. ASSUME NEW t \in Thread, pc[t] = "unlock", xid(t) = x PROVE FALSE
      <4>1. pc'[t] = pc[t] /\ xid(t)' = x
        BY <1>1, <1>3, <2>2, <3>1, OtherThreads DEF xid
      <4> QED BY <2>2, <3>1, <4>1 DEF Unlocking
    <3> QED BY <3>1 DEF Unlocking
  <2>4. active[x] \in Ended
    BY <2>2
  <2> QED BY <2>2, <2>3, <2>4 DEF Spare
<1>4. CASE pc[u] = "idle"
  <2>1. Invoke(u) \/ Commit(u) \/ Abort(u)
    BY <1>1, <1>4, FromIdle
  <2> QED BY <2>1, AskControl DEF Ended
<1> QED BY <1>1, <1>2, <1>3, <1>4, ThreadStep

LEMMA LocksOfLiveNext ==
    ASSUME OwnTransactions, Workers, Overtakes, Spare, LocksOfLive, [Next]_vars
    PROVE  LocksOfLive'
<1> USE DEF Workers
<1> SUFFICES ASSUME NEW l \in held', NEW x, l.xid = x
             PROVE  \/ active'[x] = "active" \/ Unlocking(x)'
                    \/ /\ x \in overtaken'
                       /\ \A m \in held' : m.xid = x => m = l
  BY DEF LocksOfLive, Unlocking
<1>1. x \in Xid /\ overtaken \subseteq overtaken'
  BY TypesNext, OvertakenStep DEF Types, TypeOK, Lock
<1>2. CASE active[x] = "active"
  <2>1. active'[x] \in Entry
    BY <1>1, TypesNext DEF Types, TypeOK
  <2>2. active'[x] # "none"
    BY <1>1, <1>2, ActiveSteps, StartEffect, EndEffect DEF Ended
  <2> QED BY <1>1, <1>2, <2>1, <2>2, EndUnlocks DEF Entry, Ended
<1>3. CASE Unlocking(x)
  BY <1>1, <1>3, UnlockingStep
<1>4. CASE l \in held /\ active[x] # "active" /\ ~Unlocking(x)
  <2>1. x \in overtaken /\ \A m \in held : m.xid = x => m = l
    BY <1>4 DEF LocksOfLive
  <2>2. ASSUME NEW t \in Thread, GetLock(t) PROVE xid(t) # x
    <3> SUFFICES ASSUME xid(t) = x PROVE FALSE
      OBVIOUS
    <3>1. /\ t \in Client /\ pc[t] = "getLock" /\ ~op(t).late
          /\ active[x] \in Ended
      BY <1>4, <2>2, LockCall DEF Early
    <3> QED BY <1>4, <3>1 DEF Spare
  <2>3. \A m \in held' : m.xid = x => m \in held
    <3>1. ASSUME NEW t \in Thread, GetLock(t) PROVE \A m \in held' : m.xid = x => m \in held
      BY <2>2, <3>1 DEF GetLock, Wanted
    <3>2. ASSUME NEW t \in Thread, UnlockAll(t) PROVE held' \subseteq held
      BY <3>2 DEF UnlockAll
    <3> QED BY <3>1, <3>2, HeldSteps
  <2> QED BY <1>1, <2>1, <2>3
<1>5. CASE l \notin held /\ active[x] # "active" /\ ~Unlocking(x)
  <2>1. PICK t \in Thread : GetLock(t)
    BY <1>5, HeldSteps DEF UnlockAll
  <2>2. l = Wanted(t) /\ held' \subseteq held \cup {l}
    BY <1>5, <2>1 DEF GetLock
  <2>3. xid(t) = x
    BY <2>2 DEF Wanted
  <2>4. /\ t \in Client /\ Early(t) /\ pc[t] = "getLock" /\ ~op(t).late
        /\ active[x] \in Ended
    BY <1>5, <2>1, <2>3, LockCall DEF Early
  <2>5. x \in overtaken
    BY <2>3, <2>4 DEF Overtakes
  <2>6. \A h \in held : h.xid # x
    BY <1>5, <2>3, <2>4 DEF Spare
  <2> QED BY <1>1, <2>2, <2>5, <2>6
<1> QED BY <1>2, <1>3, <1>4, <1>5

(* Locks belong to transactions that are live or whose locks are just being *)
(* given back, although the reaper works beside the clients.  Only a call    *)
(* that has looked at the table before the reaper and goes on after it gets *)
(* a lock too late, which then is the only one its transaction has.         *)
THEOREM LocksAreOfLive == ASSUME Assumptions PROVE Spec => []LocksOfLive
<1>1. Init => Overtakes /\ Spare /\ LocksOfLive
  BY ClientThread DEF Init, Overtakes, Spare, Early, LocksOfLive
<1>2. Workers /\ Overtakes /\ Spare /\ LocksOfLive /\ [Next]_vars
         => Workers' /\ Overtakes' /\ Spare' /\ LocksOfLive'
  BY WorkersNext, OvertakesNext, SpareNext, LocksOfLiveNext, Assumptions DEF Assumptions
<1> QED BY <1>1, <1>2, WorkersInit, PTL DEF Spec

-----------------------------------------------------------------------------
(* Locks and copies: the proof.                                            *)

LEMMA CoversOrder ==
    /\ \A a : a.type \in {"READ", "WRITE"} => Covers(a, a)
    /\ \A a, b, c : Covers(a, b) /\ Covers(b, c) => Covers(a, c)
  BY DEF Covers

LEMMA NoClashNext == ASSUME Types, NoClash, [Next]_vars PROVE NoClash'
<1>1. CASE UNCHANGED held
  BY <1>1 DEF NoClash
<1>2. ASSUME NEW t \in Thread, UnlockAll(t) PROVE NoClash'
  BY <1>2 DEF UnlockAll, NoClash
<1>3. ASSUME NEW t \in Thread, GetLock(t) PROVE NoClash'
  <2>1. CASE UNCHANGED held
    BY <2>1 DEF NoClash
  <2>2. CASE /\ \A h \in held : ~Clash(h, Wanted(t))
             /\ held' = {h \in held : ~Covers(Wanted(t), h)} \cup {Wanted(t)}
    <3> DEFINE w == Wanted(t)
    <3>1. \A h \in held' : h = w \/ h \in held
      BY <2>2
    <3>2. /\ ~Clash(w, w)
          /\ \A h : Clash(h, w) <=> Clash(w, h)
      BY DEF Clash
    <3> HIDE DEF w
    <3> QED BY <2>2, <3>1, <3>2 DEF NoClash, w
  <2> QED BY <1>3, <2>1, <2>2 DEF GetLock
<1> QED BY <1>1, <1>2, <1>3, HeldSteps

(* A lock is given back or replaced by one at least as strong.              *)
LEMMA KeepsLock ==
    ASSUME Types, [Next]_vars, NEW h \in held,
           \A t \in Thread : pc[t] = "unlock" => xid(t) # h.xid
    PROVE  \E g \in held' : Covers(g, h)
<1>1. h.type \in {"READ", "WRITE"}
  BY DEF Types, TypeOK, Lock
<1>2. ASSUME h \in held' PROVE \E g \in held' : Covers(g, h)
  BY <1>1, <1>2, CoversOrder
<1>3. ASSUME NEW t \in Thread, UnlockAll(t) PROVE h \in held'
  BY <1>3 DEF UnlockAll
<1>4. ASSUME NEW t \in Thread, GetLock(t), h \notin held' PROVE \E g \in held' : Covers(g, h)
  BY <1>4 DEF GetLock
<1> QED BY <1>2, <1>3, <1>4, HeldSteps

LEMMA HoldsNext ==
    ASSUME Workers, [Next]_vars, NEW x \in Xid, active[x] = "active",
           NEW k, NEW w \in BOOLEAN, Holds(x, k, w)
    PROVE  Holds(x, k, w)'
<1>1. PICK h \in held : h.xid = x /\ h.data = k /\ (w => h.type = "WRITE")
  BY DEF Holds
<1>2. \A t \in Thread : pc[t] = "unlock" => xid(t) # x
  BY DEF Workers, LiveCalls, Busy, Ended
<1>3. PICK g \in held' : Covers(g, h)
  BY <1>1, <1>2, KeepsLock DEF Workers
<1> QED BY <1>1, <1>3 DEF Covers, Holds

LEMMA ActiveStep ==
    ASSUME Workers, [Next]_vars, NEW x \in Xid
    PROVE  /\ active'[x] = "none" => active[x] = "none"
           /\ active'[x] = "active" => active[x] \in {"none", "active"}
<1>1. active[x] \in Ended => active'[x] = active[x]
  BY OneOutcomeStep
<1>2. active[x] \in Entry
  BY DEF Workers, Types, TypeOK
<1>3. active[x] = "active" => active'[x] # "none"
  BY ActiveSteps, StartEffect, EndEffect DEF Workers, Ended
<1> QED BY <1>1, <1>2, <1>3 DEF Entry, Ended

LEMMA LockedNext ==
    ASSUME OwnTransactions, Workers, Locked, [Next]_vars
    PROVE  Locked'
<1> USE DEF Workers
<1> SUFFICES ASSUME NEW u \in Thread, pc'[u] \in {"attach", "begin", "call"}, ~op(u)'.late,
                    active'[xid(u)'] = "active"
             PROVE  \E g \in held' : Covers(g, Wanted(u)')
  BY DEF Locked
<1>0. ASSUME Busy(u), call'[u] = call[u] PROVE active[xid(u)] = "active"
  BY <1>0, ActiveStep, ThreadType DEF xid, LiveCalls
<1> DEFINE Goal == \E g \in held' : Covers(g, Wanted(u)')
<1> HIDE DEF Goal
<1>1. ASSUME UNCHANGED held, call'[u] = call[u], pc[u] \in {"attach", "begin", "call"}
      PROVE  Goal
  <2>1. Busy(u) /\ active[xid(u)] = "active"
    BY <1>0, <1>1 DEF Busy
  <2> QED BY <1>1, <2>1 DEF Locked, Goal, op, xid, Wanted
<1>2. CASE pc'[u] = pc[u] /\ step'[u] = step[u] /\ call'[u] = call[u]
  <2>1. Wanted(u)' = Wanted(u) /\ op(u)' = op(u)
    BY <1>2 DEF Wanted, op, xid
  <2>2. active[xid(u)] = "active"
    BY <1>0, <1>2 DEF Busy
  <2>3. PICK h \in held : Covers(h, Wanted(u))
    BY <1>2, <2>1, <2>2 DEF Locked
  <2>4. \A t \in Thread : pc[t] = "unlock" => xid(t) # h.xid
    BY <2>2, <2>3 DEF Covers, Wanted, LiveCalls, Busy, Ended
  <2>5. PICK g \in held' : Covers(g, h)
    BY <2>4, KeepsLock
  <2> QED BY <2>1, <2>3, <2>5, CoversOrder DEF Goal
<1>3. CASE Advance(u)
  <2>1. call'[u] = call[u]
    BY <1>3, AdvanceControl
  <2>2. CASE GetLock(u)
    <3>1. Wanted(u)' = Wanted(u) /\ Wanted(u).type \in {"READ", "WRITE"}
      BY <2>1, ThreadType DEF Wanted, op, xid, Lock
    <3> QED BY <2>2, <3>1, CoversOrder DEF GetLock, Goal
  <2>3. CASE Attach(u) \/ Begin(u) \/ Execute(u)
    BY <1>1, <2>1, <2>3, BeginEffect, ExecuteControl DEF Attach, Goal
  <2>4. CASE Refused(u) \/ AbortRefused(u) \/ End(u) \/ UnlockAll(u)
    BY <2>4, GotoAt, ReturnAt DEF Refused, AbortRefused, End, UnlockAll
  <2>6. CASE Refresh(u)
    BY <2>1, <2>6, GotoAt DEF Refresh, op
  <2>5. CASE CommitAt(u) \/ AbortAt(u)
    BY <2>5, GotoAt, ReturnAt, CommitAtEffect, AbortAtEffect
  <2> QED BY <1>3, <2>2, <2>3, <2>4, <2>5, <2>6 DEF Advance, Goal
<1>4. CASE pc[u] = "idle" /\ pc'[u] # "idle"
  BY <1>4, FromIdle
<1> QED BY <1>2, <1>3, <1>4, ThreadStep DEF Goal

(* A private copy changes only when its transaction calls an operation.      *)
LEMMA WorkStep ==
    ASSUME Types, [Next]_vars, NEW rm \in RM, NEW x \in Xid
    PROVE  \/ work'[rm][x] = work[rm][x]
           \/ \E t \in Thread :
                 /\ pc[t] = "call" /\ xid(t) = x
                 /\ table[rm][x] = "active"
                 /\ After(t, rm, x, work'[rm][x])
                 /\ UNCHANGED <<active, held, table, store>>
<1>1. ASSUME NEW t \in Thread, Execute(t), work'[rm][x] # work[rm][x]
      PROVE  /\ pc[t] = "call" /\ xid(t) = x
             /\ table[rm][x] = "active"
             /\ After(t, rm, x, work'[rm][x])
             /\ UNCHANGED <<active, held, table, store>>
  <2>1. PICK c : /\ After(t, rmOf(t), xid(t), c)
                 /\ Becomes(work, work', TRUE, rmOf(t), xid(t), c)
                 /\ table[rmOf(t)][xid(t)] = "active"
    BY <1>1, ExecuteEffect
  <2>2. rm = rmOf(t) /\ x = xid(t) /\ work'[rm][x] = c
    BY <1>1, <2>1 DEF Becomes
  <2> QED BY <1>1, <2>1, <2>2, ExecuteControl
<1> QED BY <1>1, DataSteps, BeginEffect, CommitAtEffect, AbortAtEffect

(* A committed value changes only when a transaction writes back its copy.   *)
LEMMA StoreStep ==
    ASSUME Types, [Next]_vars, NEW rm \in RM, NEW k \in Key
    PROVE  \/ store'[rm][k] = store[rm][k]
           \/ \E t \in Thread :
                 /\ pc[t] = "commit"
                 /\ table[rm][xid(t)] = "active" /\ table'[rm][xid(t)] = "committed"
                 /\ k \in DOMAIN work[rm][xid(t)]
                 /\ store'[rm][k] = work[rm][xid(t)][k]
                 /\ UNCHANGED <<active, held, work>>
<1>1. ASSUME NEW t \in Thread, CommitAt(t), store'[rm][k] # store[rm][k]
      PROVE  /\ pc[t] = "commit"
             /\ table[rm][xid(t)] = "active" /\ table'[rm][xid(t)] = "committed"
             /\ k \in DOMAIN work[rm][xid(t)]
             /\ store'[rm][k] = work[rm][xid(t)][k]
             /\ UNCHANGED <<active, held, work>>
  BY <1>1, CommitAtEffect, ThreadType DEF Commits, Becomes
<1> QED BY <1>1, DataSteps, BeginEffect, ExecuteControl, AbortAtEffect

(* What a resource manager knows of a transaction.                          *)
LEMMA TableSteps ==
    ASSUME Types, [Next]_vars, NEW rm \in RM, NEW x \in Xid,
           table'[rm][x] # table[rm][x]
    PROVE  \E t \in Thread :
              /\ xid(t) = x
              /\ \/ /\ Begin(t) /\ rmOf(t) = rm
                    /\ table[rm][x] = "none" /\ table'[rm][x] = "active"
                 \/ /\ CommitAt(t) /\ Commits(t) /\ AllRMs[step[t]] = rm
                    /\ table[rm][x] = "active" /\ table'[rm][x] = "committed"
                 \/ /\ AbortAt(t) /\ Aborts(t) /\ AllRMs[step[t]] = rm
                    /\ table[rm][x] = "active" /\ table'[rm][x] = "aborted"
<1>1. ASSUME NEW t \in Thread, Begin(t)
      PROVE  xid(t) = x /\ rmOf(t) = rm /\ table[rm][x] = "none" /\ table'[rm][x] = "active"
  BY <1>1, BeginEffect DEF Becomes
<1>2. ASSUME NEW t \in Thread, CommitAt(t)
      PROVE  /\ Commits(t) /\ xid(t) = x /\ AllRMs[step[t]] = rm
             /\ table[rm][x] = "active" /\ table'[rm][x] = "committed"
  BY <1>2, CommitAtEffect DEF Commits, Becomes
<1>3. ASSUME NEW t \in Thread, AbortAt(t)
      PROVE  /\ Aborts(t) /\ xid(t) = x /\ AllRMs[step[t]] = rm
             /\ table[rm][x] = "active" /\ table'[rm][x] = "aborted"
  BY <1>3, AbortAtEffect DEF Aborts, Becomes
<1> QED BY <1>1, <1>2, <1>3, DataSteps, ExecuteControl

LEMMA UnbegunNext == ASSUME Workers, Unbegun, [Next]_vars PROVE Unbegun'
<1> USE DEF Workers
<1> SUFFICES ASSUME NEW rm \in RM, NEW x \in Xid
             PROVE  /\ table'[rm][x] = "none" => DOMAIN work'[rm][x] = {}
                    /\ active'[x] = "none" => table'[rm][x] = "none"
  BY DEF Unbegun
<1>1. ASSUME table'[rm][x] = "none" PROVE DOMAIN work'[rm][x] = {}
  <2>1. table[rm][x] = "none"
    BY <1>1, TableSteps
  <2> QED BY <2>1, WorkStep DEF Unbegun
<1>2. ASSUME active'[x] = "none" PROVE table'[rm][x] = "none"
  <2>1. active[x] = "none" /\ table[rm][x] = "none"
    BY <1>2, ActiveStep DEF Unbegun
  <2>2. ASSUME NEW t \in Thread, Begin(t), xid(t) = x PROVE FALSE
    BY <2>1, <2>2, BeginEffect DEF LiveCalls, Busy, Early
  <2> QED BY <2>1, <2>2, TableSteps
<1> QED BY <1>1, <1>2

LEMMA WroteStays ==
    ASSUME Types, [Next]_vars, NEW rm \in RM, NEW x \in Xid, NEW k, Wrote(rm, x, k)
    PROVE  Wrote(rm, x, k)'
<1>1. CASE work'[rm][x] = work[rm][x]
  BY <1>1 DEF Wrote
<1>2. ASSUME NEW t \in Thread, After(t, rm, x, work'[rm][x]) PROVE Wrote(rm, x, k)'
  BY <1>2 DEF After, Sees, Wrote
<1> QED BY <1>1, <1>2, WorkStep

LEMMA WrittenNext == ASSUME Types, Written, [Next]_vars PROVE Written'
<1> SUFFICES ASSUME NEW rm \in RM, NEW x \in Xid, NEW k \in Key
             PROVE  /\ x \in store'[rm][k] => Wrote(rm, x, k)'
                    /\ \A y \in Xid : k \in DOMAIN work'[rm][y] /\ x \in work'[rm][y][k]
                                         => Wrote(rm, x, k)'
  BY DEF Written
<1>1. Wrote(rm, x, k) => Wrote(rm, x, k)'
  BY WroteStays
<1>2. ASSUME x \in store'[rm][k] PROVE Wrote(rm, x, k)
  <2>1. CASE store'[rm][k] = store[rm][k]
    BY <1>2, <2>1 DEF Written
  <2>2. ASSUME NEW t \in Thread, k \in DOMAIN work[rm][xid(t)],
               store'[rm][k] = work[rm][xid(t)][k]
        PROVE  Wrote(rm, x, k)
    BY <1>2, <2>2, ThreadType DEF Written
  <2> QED BY <2>1, <2>2, StoreStep
<1>3. ASSUME NEW y \in Xid, k \in DOMAIN work'[rm][y], x \in work'[rm][y][k], x # y
      PROVE  Wrote(rm, x, k)
  <2>1. CASE work'[rm][y] = work[rm][y]
    BY <1>3, <2>1 DEF Written
  <2>2. ASSUME NEW t \in Thread, After(t, rm, y, work'[rm][y]) PROVE Wrote(rm, x, k)
    <3>1. x \in Sees(rm, y, k)
      BY <1>3, <2>2 DEF After
    <3> QED BY <3>1 DEF Sees, Written
  <2> QED BY <2>1, <2>2, WorkStep
<1>4. ASSUME k \in DOMAIN work'[rm][x], x \in work'[rm][x][k] PROVE Wrote(rm, x, k)'
  BY <1>4 DEF Wrote
<1> QED BY <1>1, <1>2, <1>3, <1>4

(* Whatever may write has a WRITE lock.                                    *)
LEMMA MethodsLock == ASSUME Methods, NEW o \in Op, o.writes PROVE o.type = "WRITE"
<1>1. PICK k \in Key, c \in Key, rm \in RM, reserved \in SUBSET Key :
         o \in {Query(k, rm), Change(k, rm), Check(k, rm), Reserve(k, rm, c),
                QueryCustomerInfo(c), NewCustomer(c), DeleteCustomer(c, reserved),
                NewCustomerId(c)}
  BY DEF Methods
<1>2. CASE o = Query(k, rm) \/ o = Change(k, rm) \/ o = Check(k, rm)
  BY <1>2 DEF Query, Change, Check, Item
<1>3. CASE o = Reserve(k, rm, c)
  BY <1>3 DEF Reserve, Change, Item
<1>4. CASE o = QueryCustomerInfo(c) \/ o = NewCustomer(c)
  BY <1>4 DEF QueryCustomerInfo, NewCustomer, OnCustomer, Item
<1>5. CASE o = DeleteCustomer(c, reserved)
  BY <1>5 DEF DeleteCustomer, OnCustomer, Item
<1>6. CASE o = NewCustomerId(c)
  BY <1>6 DEF NewCustomerId, OnCustomer, Item
<1> QED BY <1>1, <1>2, <1>3, <1>4, <1>5, <1>6

LEMMA CopiesLockedNext ==
    ASSUME Assumptions, Workers, Copying, [Next]_vars
    PROVE  CopiesLocked'
<1> USE DEF Workers, Copying
<1> SUFFICES ASSUME NEW rm \in RM, NEW x \in Xid, NEW k \in LockedKeys,
                    active'[x] = "active", k \in DOMAIN work'[rm][x],
                    NEW w \in BOOLEAN, w => Wrote(rm, x, k)'
             PROVE  Holds(x, k, w)'
  BY DEF CopiesLocked, LockedKeys
<1>1. k \in Key /\ active[x] \in {"none", "active"}
  BY ActiveStep DEF LockedKeys
<1>2. active[x] = "active"
  <2> SUFFICES ASSUME active[x] = "none" PROVE FALSE
    BY <1>1
  <2>1. table[rm][x] = "none" /\ DOMAIN work[rm][x] = {}
    BY DEF Unbegun
  <2> QED BY <2>1, WorkStep
<1>3. CASE work'[rm][x] = work[rm][x]
  BY <1>2, <1>3, HoldsNext DEF CopiesLocked, Wrote
<1>4. ASSUME NEW t \in Thread, pc[t] = "call", xid(t) = x, table[rm][x] = "active",
             After(t, rm, x, work'[rm][x]), UNCHANGED held
      PROVE  Holds(x, k, w)'
  <2>1. CASE k \in op(t).uses
    <3>1. op(t) \in Op /\ op(t).lock = k /\ ~op(t).late
      BY <2>1, ThreadType DEF LockedKeys
    <3>2. PICK h \in held : Covers(h, Wanted(t))
      BY <1>2, <1>4, <3>1 DEF Locked
    <3>3. h.xid = x /\ h.data = k /\ (op(t).type = "WRITE" => h.type = "WRITE")
      BY <1>4, <3>1, <3>2 DEF Covers, Wanted
    <3>4. CASE op(t).writes
      BY <1>4, <3>1, <3>3, <3>4, MethodsLock DEF Assumptions, Holds
    <3>5. CASE ~op(t).writes
      <4>1. work'[rm][x][k] = Sees(rm, x, k)
        BY <1>4, <3>5 DEF After
      <4>2. x \notin store[rm][k]
        BY <1>1, <1>4 DEF NoDirtyRead, Committed
      <4>3. k \in DOMAIN work[rm][x] /\ (w => x \in work[rm][x][k]) => Holds(x, k, w)
        BY <1>2 DEF CopiesLocked, Wrote
      <4> QED BY <1>4, <3>3, <4>1, <4>2, <4>3 DEF Sees, Holds, Wrote
    <3> QED BY <3>4, <3>5
  <2>2. CASE k \notin op(t).uses
    <3>1. k \in DOMAIN work[rm][x] /\ work'[rm][x][k] = work[rm][x][k]
      BY <1>4, <2>2 DEF After, Sees
    <3>2. Holds(x, k, w)
      BY <1>2, <3>1 DEF CopiesLocked, Wrote
    <3> QED BY <1>4, <3>2 DEF Holds
  <2> QED BY <2>1, <2>2
<1> QED BY <1>3, <1>4, WorkStep

LEMMA AgreesNext ==
    ASSUME Assumptions, Workers, Copying, [Next]_vars
    PROVE  Agrees'
<1> USE DEF Workers, Copying
<1> SUFFICES ASSUME NEW rm \in RM, NEW x \in Xid, NEW k \in LockedKeys,
                    active'[x] = "active", k \in DOMAIN work'[rm][x]
             PROVE  work'[rm][x][k] \ {x} = store'[rm][k] \ {x}
  BY DEF Agrees, LockedKeys
<1>1. k \in Key /\ active[x] \in {"none", "active"}
  BY ActiveStep DEF LockedKeys
<1>2. active[x] = "active"
  <2> SUFFICES ASSUME active[x] = "none" PROVE FALSE
    BY <1>1
  <2>1. table[rm][x] = "none" /\ DOMAIN work[rm][x] = {}
    BY DEF Unbegun
  <2> QED BY <2>1, WorkStep
<1>3. CASE work'[rm][x] = work[rm][x] /\ store'[rm][k] = store[rm][k]
  BY <1>2, <1>3 DEF Agrees
<1>4. ASSUME NEW t \in Thread, After(t, rm, x, work'[rm][x]), UNCHANGED store
      PROVE  work'[rm][x][k] \ {x} = store'[rm][k] \ {x}
  <2>1. Sees(rm, x, k) \ {x} = store[rm][k] \ {x}
    BY <1>2 DEF Sees, Agrees
  <2>2. k \in op(t).uses => ~op(t).late
    BY ThreadType DEF LockedKeys
  <2> QED BY <1>4, <2>1, <2>2 DEF After
<1>5. ASSUME NEW t \in Thread, pc[t] = "commit", table[rm][xid(t)] = "active",
             k \in DOMAIN work[rm][xid(t)], store'[rm][k] = work[rm][xid(t)][k],
             UNCHANGED work
      PROVE  work'[rm][x][k] \ {x} = store'[rm][k] \ {x}
  <2> DEFINE y == xid(t)
  <2>1. y \in Xid /\ active[y] = "active"
    BY <1>5, ThreadType DEF LiveCalls, Busy, Early
  <2> HIDE DEF y
  <2>2. CASE y = x
    BY <1>5, <2>2 DEF y
  <2>3. CASE y # x
    <3>1. /\ y \in work[rm][y][k] => Holds(y, k, TRUE)
          /\ Holds(x, k, FALSE)
          /\ work[rm][y][k] \ {y} = store[rm][k] \ {y}
          /\ work[rm][x][k] \ {x} = store[rm][k] \ {x}
      BY <1>2, <1>5, <2>1 DEF CopiesLocked, Agrees, Wrote, y
    <3>2. y \notin store[rm][k]
      BY <1>1, <1>5, <2>1 DEF NoDirtyRead, Committed, y
    <3>3. y \notin work[rm][y][k]
      BY <2>3, <3>1 DEF Holds, NoClash, Clash
    <3> QED BY <1>5, <3>1, <3>2, <3>3 DEF y
  <2> QED BY <2>2, <2>3
<1> QED BY <1>1, <1>3, <1>4, <1>5, WorkStep, StoreStep

LEMMA CopyingInit == Init => Copying
  BY DEF Init, Copying, NoDirtyRead, Committed, NoClash, Locked, CopiesLocked,
         Unbegun, Agrees, Written

LEMMA CopyingNext ==
    ASSUME Assumptions, Workers, Copying, [Next]_vars
    PROVE  Copying'
  BY NoDirtyReadNext, NoClashNext, LockedNext, CopiesLockedNext, UnbegunNext, AgreesNext,
     WrittenNext DEF Workers, Copying, Assumptions

LEMMA IsolationFollows == Workers /\ Copying => Isolation
<1> SUFFICES ASSUME Workers, Copying, NEW rm \in RM, NEW x \in Xid,
                    table[rm][x] = "active", active[x] = "active",
                    NEW k \in DOMAIN work[rm][x] \cap LockedKeys
             PROVE  work[rm][x][k] \ {x} = store[rm][k]
  BY DEF Isolation
<1>1. x \notin store[rm][k]
  BY DEF Copying, NoDirtyRead, Committed, LockedKeys
<1> QED BY <1>1 DEF Copying, Agrees

(* Two-phase locking isolates transactions: a transaction that locks a key   *)
(* before it uses it works on what is committed, until it ends.             *)
THEOREM Isolated == ASSUME Assumptions PROVE Spec => []Isolation
<1>1. Workers /\ Copying /\ [Next]_vars => Workers' /\ Copying'
  BY WorkersNext, CopyingNext, Assumptions
<1> QED BY <1>1, WorkersInit, CopyingInit, IsolationFollows, PTL DEF Spec

LEMMA NoLostUpdateNext ==
    ASSUME Workers, Copying, NoLostUpdate, [Next]_vars
    PROVE  NoLostUpdate'
<1> USE DEF Workers
<1> SUFFICES ASSUME NEW rm \in RM, NEW x \in Xid, NEW k \in LockedKeys,
                    table'[rm][x] = "committed", Wrote(rm, x, k)'
             PROVE  x \in store'[rm][k]
  BY DEF NoLostUpdate, LockedKeys
<1>1. k \in Key
  BY DEF LockedKeys
<1>2. CASE table[rm][x] = "committed"
  <2>1. work'[rm][x] = work[rm][x]
    BY <1>2, WorkStep
  <2>2. x \in store[rm][k]
    BY <1>2, <2>1 DEF NoLostUpdate, Wrote
  <2>3. ASSUME NEW t \in Thread, pc[t] = "commit", table[rm][xid(t)] = "active",
               k \in DOMAIN work[rm][xid(t)], store'[rm][k] = work[rm][xid(t)][k]
        PROVE  x \in store'[rm][k]
    <3>1. active[xid(t)] = "active" /\ xid(t) \in Xid /\ xid(t) # x
      BY <1>2, <2>3, ThreadType DEF LiveCalls, Busy, Early
    <3> QED BY <2>2, <2>3, <3>1 DEF Copying, Agrees
  <2> QED BY <1>1, <2>2, <2>3, StoreStep
<1>3. CASE table[rm][x] # "committed"
  <2>1. PICK t \in Thread : CommitAt(t) /\ Commits(t) /\ AllRMs[step[t]] = rm /\ xid(t) = x
    BY <1>3, TableSteps
  <2>2. /\ work' = work
        /\ k \in DOMAIN work[rm][x] => store'[rm][k] = work[rm][x][k]
    BY <1>1, <2>1, CommitAtEffect
  <2> QED BY <2>2 DEF Wrote
<1> QED BY <1>2, <1>3

(* No committed write is lost: nobody writes back a copy older than it.      *)
THEOREM NoLostUpdates == ASSUME Assumptions PROVE Spec => []NoLostUpdate
<1>1. Init => NoLostUpdate
  BY DEF Init, NoLostUpdate
<1>2. Workers /\ Copying /\ NoLostUpdate /\ [Next]_vars
         => Workers' /\ Copying' /\ NoLostUpdate'
  BY WorkersNext, CopyingNext, NoLostUpdateNext, Assumptions
<1> QED BY <1>1, <1>2, WorkersInit, CopyingInit, PTL DEF Spec
=============================================================================
