----------------------------- MODULE Middleware -----------------------------
(***************************************************************************)
(* The life of a transaction: Middleware.java (Start, the operations,       *)
(* commit, abort), TransactionManager.java with its time-to-live thread,    *)
(* and the transaction tables and private copies of the resource managers.  *)
(*                                                                         *)
(* A step is one call to a resource manager, to the lock manager or to the  *)
(* transaction table.  Locks behave as LockService.tla says.  The data is   *)
(* abstracted to who wrote it: a value is the set of the transactions whose *)
(* writes it includes, and a write adds its own transaction to what it read.*)
(***************************************************************************)
EXTENDS Naturals, Sequences

CONSTANTS Client,    \* the threads that run the clients' calls
          Reaper,    \* the thread of TransactionManager.run
          Xid,       \* transaction identifiers
          Key,       \* keys of flights, cars, rooms and customers
          Op,        \* the operations clients call, see Operation
          Serves,    \* Serves[t]: transactions client t makes calls for
          MayCrash,  \* the resource managers that may stop answering
          SlowCalls  \* may a call last longer than the time to live?

RM == {"Flight", "Car", "Room"}
AllRMs == <<"Flight", "Car", "Room">>
Thread == Client \cup {Reaper}

(* An operation locks one key and calls resource managers in turn, where it *)
(* uses that key and others it has not locked.  "late": newCustomer(xid)    *)
(* locks after its first call, which makes up the key.                      *)
Operation == [lock : Key, type : {"READ", "WRITE"},
              rms : {<<rm>> : rm \in RM} \cup {AllRMs},
              uses : SUBSET Key, writes : BOOLEAN, late : BOOLEAN]
Call == [xid : Xid, op : Op]

(* The methods of Middleware.java that call resource managers.  bundle is a *)
(* sequence of Check and then of Reserve operations by one client.          *)
Item(k, rm, type, writes) ==
    [lock |-> k, type |-> type, rms |-> <<rm>>, uses |-> {k},
     writes |-> writes, late |-> FALSE]
Query(k, rm) == Item(k, rm, "READ", FALSE)
(* Fault: a change takes a READ lock.                                      *)
ChangeReadLocked(k, rm) == Item(k, rm, "READ", TRUE)

Change(k, rm) == Item(k, rm, "WRITE", TRUE)    \* add..., delete...
Check(k, rm) == Item(k, rm, "WRITE", FALSE)
Reserve(k, rm, c) == [Change(k, rm) EXCEPT !.uses = {k, c}]
OnCustomer(c, writes) == [Item(c, "Flight", "WRITE", writes) EXCEPT !.rms = AllRMs]
QueryCustomerInfo(c) == OnCustomer(c, FALSE)
NewCustomer(c) == OnCustomer(c, TRUE)
DeleteCustomer(c, reserved) == [OnCustomer(c, TRUE) EXCEPT !.uses = {c} \cup reserved]
NewCustomerId(c) == [OnCustomer(c, TRUE) EXCEPT !.late = TRUE]

ASSUME ReaperAssumption == Reaper \notin Client
ASSUME ServesAssumption == Serves \in [Client -> SUBSET Xid]
ASSUME OpAssumption == Op \subseteq Operation /\ Call # {}
ASSUME SwitchAssumption == MayCrash \subseteq RM /\ SlowCalls \in BOOLEAN

VARIABLES
    active,   \* active[x]: x's entry in the middleware's ACTIVE_Transaction
    rms,      \* rms[x]: Transaction.resourceManagers of x
    expired,  \* expired[x]: has x been unused for longer than TTL?
    held,     \* the locks held
    table,    \* table[rm][x]: x's entry in rm's own ACTIVE_Transaction
    work,     \* work[rm][x]: x's private copies in rm, a map from keys
    store,    \* store[rm][k]: the committed value of k in rm
    up,       \* the resource managers that answer
    pc,       \* pc[t]: where thread t is in its call
    call,     \* call[t]: the transaction and operation of that call
    step,     \* step[t]: position in the list of resource managers
    overtaken \* history: transactions that the reaper has begun to abort
              \* when a call had seen them live and not refreshed them yet

managed == <<active, rms, expired, overtaken>>
data == <<table, work, store>>
vars == <<active, rms, expired, held, table, work, store, up, pc, call, step,
          overtaken>>

(* No entry, a Transaction, or null.  What a null entry came from is kept   *)
(* for the properties only.                                                 *)
Entry == {"none", "active", "committed", "aborted"}
Ended == {"committed", "aborted"}
Value == SUBSET Xid
Copies == UNION {[S -> Value] : S \in SUBSET Key}
Lock == [xid : Xid, data : Key, type : {"READ", "WRITE"}]
Label == {"idle", "refresh", "getLock", "refused", "attach", "begin", "call", "commit",
          "abort", "committed", "aborted", "unlock"}

TypeOK == /\ active \in [Xid -> Entry]
          /\ rms \in [Xid -> SUBSET RM]
          /\ expired \in [Xid -> BOOLEAN]
          /\ held \subseteq Lock
          /\ table \in [RM -> [Xid -> Entry]]
          /\ work \in [RM -> [Xid -> Copies]]
          /\ store \in [RM -> [Key -> Value]]
          /\ up \subseteq RM
          /\ pc \in [Thread -> Label]
          /\ call \in [Thread -> Call]
          /\ step \in [Thread -> 1 .. 3]
          /\ overtaken \subseteq Xid

NoCall == CHOOSE c \in Call : TRUE

(* A call of commit or abort has no operation.                             *)
EndCall(x) == [xid |-> x, op |-> NoCall.op]

Init == /\ active = [x \in Xid |-> "none"]
        /\ rms = [x \in Xid |-> {}]
        /\ expired = [x \in Xid |-> FALSE]
        /\ held = {}
        /\ table = [rm \in RM |-> [x \in Xid |-> "none"]]
        /\ work = [rm \in RM |-> [x \in Xid |-> [k \in {} |-> {}]]]
        /\ store = [rm \in RM |-> [k \in Key |-> {}]]
        /\ up = RM
        /\ pc = [t \in Thread |-> "idle"]
        /\ call = [t \in Thread |-> NoCall]
        /\ step = [t \in Thread |-> 1]
        /\ overtaken = {}

-----------------------------------------------------------------------------
xid(t) == call[t].xid
op(t) == call[t].op

(* queryCustomerInfo, which alone asks all three and writes nothing, calls  *)
(* them in another order than it attaches them.                            *)
CallOrder(o) == IF o.rms = AllRMs /\ ~o.writes
                THEN <<"Flight", "Room", "Car">> ELSE o.rms

rmOf(t) == IF pc[t] \in {"commit", "abort"} THEN AllRMs[step[t]]
           ELSE IF pc[t] = "call" THEN CallOrder(op(t))[step[t]]
           ELSE op(t).rms[step[t]]

(* The reaper aborts inside ACTIVE_Transaction's monitor: other threads can *)
(* not look at the transaction table meanwhile.                             *)
TableFree(t) == t # Reaper => pc[Reaper] = "idle"

Goto(t, label, n) == /\ pc' = [pc EXCEPT ![t] = label]
                     /\ step' = [step EXCEPT ![t] = n]

(* The call returns or throws; its locals are gone.                        *)
Return(t) == Goto(t, "idle", 1) /\ call' = [call EXCEPT ![t] = NoCall]

(* A remote call to a resource manager that is down throws.                *)
Throws(t, rm) == rm \notin up

-----------------------------------------------------------------------------
(* Start: a fresh identifier.                                              *)
Start(t) == /\ pc[t] = "idle"
            /\ TableFree(t)
            /\ \E x \in Serves[t] :
                  /\ active[x] = "none"
                  /\ active' = [active EXCEPT ![x] = "active"]
            /\ UNCHANGED <<rms, expired, overtaken, held, data, up, pc, call, step>>

(* Fault: an entry is enough, null as it may be (as in isActive).          *)
IsKnown(x) == /\ active[x] # "none"
              /\ expired' = [expired EXCEPT ![x] = FALSE]

(* isValidTransaction in commit and abort, which look at the table once      *)
(* more after it and throw on null: what counts is that last look, in front *)
(* of which the stamp has been refreshed.                                  *)
IsValid(x) == /\ active[x] = "active"
              /\ expired' = [expired EXCEPT ![x] = FALSE]

(* isValidTransaction in an operation: it looks (null throws), and refreshes*)
(* the stamp of what it has seen outside the table's monitor.              *)
Invoke(t) == /\ pc[t] = "idle"
             /\ TableFree(t)
             /\ \E x \in Serves[t], o \in Op :
                   /\ active[x] = "active"
                   /\ call' = [call EXCEPT ![t] = [xid |-> x, op |-> o]]
             /\ Goto(t, "refresh", 1)
             /\ UNCHANGED <<managed, held, data, up>>

(* updateTimeStamp, also of a transaction that has ended meanwhile.         *)
Refresh(t) == /\ pc[t] = "refresh"
              /\ expired' = [expired EXCEPT ![xid(t)] = FALSE]
              /\ Goto(t, IF op(t).late THEN "attach" ELSE "getLock", 1)
              /\ UNCHANGED <<active, rms, overtaken, held, data, up, call>>

(* Fault: readers do not hold off a writer.                                *)
ClashOfWrites(a, b) == /\ a.xid # b.xid
                       /\ a.data = b.data
                       /\ {a.type, b.type} = {"WRITE"}

Clash(a, b) == /\ a.xid # b.xid
               /\ a.data = b.data
               /\ "WRITE" \in {a.type, b.type}

(* Fault: a READ lock is taken for a WRITE lock.                           *)
CoversAnyType(l, r) == l.xid = r.xid /\ l.data = r.data

Covers(l, r) == /\ l.xid = r.xid
                /\ l.data = r.data
                /\ l.type = "WRITE" \/ r.type = "READ"

Wanted(t) == [xid |-> xid(t), data |-> op(t).lock, type |-> op(t).type]

GetLock(t) == /\ pc[t] = "getLock"
              /\ \/ /\ \E h \in held : Covers(h, Wanted(t))
                    /\ UNCHANGED held
                 \/ /\ \A h \in held : ~Clash(h, Wanted(t))
                    /\ held' = {h \in held : ~Covers(Wanted(t), h)}
                                  \cup {Wanted(t)}
              /\ Goto(t, IF op(t).late THEN "call" ELSE "attach", step[t])
              /\ UNCHANGED <<managed, data, up, call>>

(* DeadlockException.  The lock manager may throw it at any time.          *)
Refused(t) == /\ pc[t] = "getLock"
              /\ Goto(t, "refused", 1)
              /\ UNCHANGED <<managed, held, data, up, call>>

AbortRefused(t) == /\ pc[t] = "refused"
                   /\ TableFree(t)
                   /\ \/ IsValid(xid(t)) /\ Goto(t, "abort", 1) /\ UNCHANGED call
                      \/ /\ active[xid(t)] # "active"
                         /\ Return(t)
                         /\ UNCHANGED expired
                   /\ UNCHANGED <<active, rms, overtaken, held, data, up>>

(* Fault: the key is noted instead of the resource manager.                *)
AttachKey(t) == /\ pc[t] = "attach"
                /\ TableFree(t)
                /\ active[xid(t)] = "active"
                /\ rms' = [rms EXCEPT ![xid(t)] = @ \cup {op(t).lock}]
                /\ Goto(t, "begin", step[t])
                /\ UNCHANGED <<active, expired, overtaken, held, data, up, call>>

(* attachTransactionWithRM: Transaction.addRM, where a null Transaction     *)
(* makes the call throw, then addTransaction at the resource manager.       *)
Attach(t) == /\ pc[t] = "attach"
             /\ TableFree(t)
             /\ \/ /\ active[xid(t)] = "active"
                   /\ rms' = [rms EXCEPT ![xid(t)] = @ \cup {rmOf(t)}]
                   /\ Goto(t, "begin", step[t])
                   /\ UNCHANGED call
                \/ /\ active[xid(t)] # "active"
                   /\ Return(t)
                   /\ UNCHANGED rms
             /\ UNCHANGED <<active, expired, overtaken, held, data, up>>

Begin(t) == /\ pc[t] = "begin"
            /\ \/ /\ rmOf(t) \in up
                  /\ table' = IF table[rmOf(t)][xid(t)] = "none"
                              THEN [table EXCEPT ![rmOf(t)][xid(t)] = "active"]
                              ELSE table
                  /\ IF step[t] = Len(op(t).rms)
                     THEN Goto(t, "call", 1) ELSE Goto(t, "attach", step[t] + 1)
                  /\ UNCHANGED call
               \/ Throws(t, rmOf(t)) /\ Return(t) /\ UNCHANGED table
            /\ UNCHANGED <<managed, held, work, store, up>>

(* Fault: the committed value is copied on every use.                      *)
ReadFresh(rm, x, K) == [k \in DOMAIN work[rm][x] \cup K |->
                           IF k \notin K THEN work[rm][x][k] ELSE store[rm][k]]

(* readData copies the committed value on first use.                       *)
Read(rm, x, K) == [k \in DOMAIN work[rm][x] \cup K |->
                      IF k \in DOMAIN work[rm][x] THEN work[rm][x][k]
                      ELSE store[rm][k]]

(* The operation at one resource manager.  It writes or finds that it can   *)
(* not (no such item, none left, customer exists); newCustomer(xid) writes  *)
(* a new object over whatever it read at its first one, and throws if the   *)
(* others have that customer.                                               *)
Execute(t) ==
    LET rm == rmOf(t)
        x == xid(t)
        copy == Read(rm, x, op(t).uses)
        blind == op(t).late /\ step[t] = 1
        written == [k \in DOMAIN copy |->
                       IF k \notin op(t).uses THEN copy[k]
                       ELSE IF blind THEN {x} ELSE copy[k] \cup {x}]
        next == \/ step[t] = Len(op(t).rms) /\ Return(t)
                \/ /\ step[t] < Len(op(t).rms)
                   /\ Goto(t, IF blind THEN "getLock" ELSE "call", step[t] + 1)
                   /\ UNCHANGED call
    IN  /\ pc[t] = "call"
        /\ \/ /\ rm \in up /\ table[rm][x] = "active"
              /\ op(t).writes
              /\ work' = [work EXCEPT ![rm][x] = written]
              /\ next
           \/ /\ rm \in up /\ table[rm][x] = "active"
              /\ ~blind
              /\ work' = [work EXCEPT ![rm][x] = copy]
              /\ IF op(t).late THEN Return(t) ELSE next
           \/ /\ rm \notin up \/ table[rm][x] # "active"
              /\ Return(t)
              /\ UNCHANGED work
        /\ UNCHANGED <<managed, held, table, store, up>>

-----------------------------------------------------------------------------
(* The resource manager's store with the copies of x put into it.           *)
WriteBack(rm, x) == [k \in Key |-> IF k \in DOMAIN work[rm][x]
                                   THEN work[rm][x][k] ELSE store[rm][k]]

(* commit: the resource managers the transaction used, one after another.   *)
Commit(t) == /\ pc[t] = "idle"
             /\ TableFree(t)
             /\ \E x \in Serves[t] :
                   /\ IsValid(x)
                   /\ call' = [call EXCEPT ![t] = EndCall(x)]
             /\ Goto(t, "commit", 1)
             /\ UNCHANGED <<active, rms, overtaken, held, data, up>>

(* Fault: else if, as in abort.                                            *)
CommitAtFirst(t) ==
    LET rm == AllRMs[step[t]]
        x == xid(t)
    IN  /\ pc[t] = "commit"
        /\ \/ /\ rm \in rms[x] /\ rm \in up /\ table[rm][x] = "active"
              /\ store' = [store EXCEPT ![rm] = WriteBack(rm, x)]
              /\ table' = [table EXCEPT ![rm][x] = "committed"]
              /\ Goto(t, "committed", 1)
           \/ /\ rm \notin rms[x]
              /\ UNCHANGED <<store, table>>
              /\ IF step[t] = 3 THEN Goto(t, "committed", 1)
                 ELSE Goto(t, "commit", step[t] + 1)
        /\ UNCHANGED <<managed, held, work, up, call>>

(* Fault: a resource manager commits what it has aborted.                  *)
CommitAtUnchecked(t) ==
    LET rm == AllRMs[step[t]]
        x == xid(t)
    IN  /\ pc[t] = "commit"
        /\ IF rm \in rms[x]
           THEN store' = [store EXCEPT ![rm] = WriteBack(rm, x)]
           ELSE UNCHANGED store
        /\ IF step[t] = 3 THEN Goto(t, "committed", 1)
           ELSE Goto(t, "commit", step[t] + 1)
        /\ UNCHANGED <<managed, held, table, work, up, call>>

CommitAt(t) ==
    LET rm == AllRMs[step[t]]
        x == xid(t)
    IN  /\ pc[t] = "commit"
        /\ \/ /\ rm \in rms[x] /\ rm \in up /\ table[rm][x] = "active"
              /\ store' = [store EXCEPT ![rm] = WriteBack(rm, x)]
              /\ table' = [table EXCEPT ![rm][x] = "committed"]
              /\ UNCHANGED call
              /\ IF step[t] = 3 THEN Goto(t, "committed", 1)
                 ELSE Goto(t, "commit", step[t] + 1)
           \/ /\ rm \notin rms[x]
              /\ UNCHANGED <<store, table, call>>
              /\ IF step[t] = 3 THEN Goto(t, "committed", 1)
                 ELSE Goto(t, "commit", step[t] + 1)
           \/ /\ rm \in rms[x]
              /\ rm \notin up \/ table[rm][x] # "active"
              /\ Return(t)
              /\ UNCHANGED <<store, table>>
        /\ UNCHANGED <<managed, held, work, up>>

(* abort, by a client or by the reaper: the first of Flight, Car, Room that *)
(* the transaction used, and no other ("else if").                          *)
Abort(t) == /\ pc[t] = "idle"
            /\ TableFree(t)
            /\ \E x \in Serves[t] :
                  /\ IsValid(x)
                  /\ call' = [call EXCEPT ![t] = EndCall(x)]
            /\ Goto(t, "abort", 1)
            /\ UNCHANGED <<active, rms, overtaken, held, data, up>>

(* The reaper may come upon a transaction that a call has just looked at.    *)
Reap(x) == /\ pc[Reaper] = "idle"
           /\ expired[x]
           /\ IsValid(x)
           /\ call' = [call EXCEPT ![Reaper] = EndCall(x)]
           /\ Goto(Reaper, "abort", 1)
           /\ overtaken' = overtaken \cup
                  {xid(t) : t \in {s \in Client : pc[s] = "refresh" /\ xid(s) = x}}
           /\ UNCHANGED <<active, rms, held, data, up>>

AbortAt(t) ==
    LET rm == AllRMs[step[t]]
        x == xid(t)
    IN  /\ pc[t] = "abort"
        /\ \/ /\ rm \in rms[x] /\ rm \in up /\ table[rm][x] # "none"
              /\ table' = [table EXCEPT ![rm][x] =
                              IF @ = "active" THEN "aborted" ELSE @]
              /\ Goto(t, "aborted", 1)
              /\ UNCHANGED call
           \/ /\ rm \notin rms[x]
              /\ IF step[t] = 3 THEN Goto(t, "aborted", 1)
                 ELSE Goto(t, "abort", step[t] + 1)
              /\ UNCHANGED <<table, call>>
           \/ /\ rm \in rms[x] /\ (rm \notin up \/ table[rm][x] = "none")
              /\ Return(t)
              /\ UNCHANGED table
        /\ UNCHANGED <<managed, held, work, store, up>>

(* Fault: the locks are kept.                                              *)
EndLocked(t) == /\ pc[t] \in Ended
                /\ TableFree(t)
                /\ active' = [active EXCEPT ![xid(t)] = pc[t]]
                /\ Return(t)
                /\ UNCHANGED <<rms, expired, overtaken, held, data, up>>

(* transactionManager.addTransaction(xid, null), then UnlockAll.            *)
End(t) == /\ pc[t] \in Ended
          /\ TableFree(t)
          /\ active' = [active EXCEPT ![xid(t)] = pc[t]]
          /\ Goto(t, "unlock", 1)
          /\ UNCHANGED <<rms, expired, overtaken, held, data, up, call>>

(* Fault: READ locks are kept.                                             *)
UnlockWrites(t) == /\ pc[t] = "unlock"
                   /\ held' = {h \in held : h.xid # xid(t) \/ h.type = "READ"}
                   /\ Return(t)
                   /\ UNCHANGED <<managed, data, up>>

UnlockAll(t) == /\ pc[t] = "unlock"
                /\ held' = {h \in held : h.xid # xid(t)}
                /\ Return(t)
                /\ UNCHANGED <<managed, data, up>>

-----------------------------------------------------------------------------
(* More than TTL seconds since the last refresh.  A call that has refreshed *)
(* lasts less, unless SlowCalls: nothing in the code limits a call to a     *)
(* resource manager.                                                       *)
Expire(x) == /\ active[x] = "active" /\ ~expired[x]
             /\ \/ SlowCalls
                \/ \A t \in Thread : pc[t] \notin {"idle", "refresh"} => xid(t) # x
             /\ expired' = [expired EXCEPT ![x] = TRUE]
             /\ UNCHANGED <<active, rms, overtaken, held, data, up, pc, call, step>>

(* A resource manager stops answering.  connectExternalServers runs once:   *)
(* the middleware never looks one up again.                                 *)
Crash == /\ \E rm \in MayCrash \cap up : up' = up \ {rm}
         /\ UNCHANGED <<managed, held, data, pc, call, step>>

Ask(t) == Start(t) \/ Invoke(t) \/ Commit(t) \/ Abort(t)

Advance(t) == \/ Refresh(t) \/ GetLock(t) \/ Refused(t) \/ AbortRefused(t)
              \/ Attach(t) \/ Begin(t) \/ Execute(t)
              \/ CommitAt(t) \/ AbortAt(t) \/ End(t) \/ UnlockAll(t)

Next == \/ \E t \in Client : Ask(t)
        \/ \E t \in Thread : Advance(t)
        \/ \E x \in Xid : Reap(x) \/ Expire(x)
        \/ Crash

Spec == Init /\ [][Next]_vars

(* Calls that have begun go on (a lock request is answered within the       *)
(* deadlock timeout) and time passes.  An abort that throws does not keep   *)
(* the reaper's loop from the other entries, since it has refreshed the      *)
(* stamp of its own; nor does the loop, which leaves ACTIVE_Transaction's    *)
(* monitor each time, keep the clients out of it for ever: hence the strong  *)
(* fairness.  Nothing is assumed of the clients.                            *)
Fairness == /\ \A t \in Client : SF_vars(Advance(t))
            /\ WF_vars(Advance(Reaper))
            /\ \A x \in Xid : SF_vars(Reap(x)) /\ WF_vars(Expire(x))

FairSpec == Spec /\ Fairness

-----------------------------------------------------------------------------
(* The keys that every operation locks before it uses them.                *)
LockedKeys == {k \in Key : \A o \in Op : k \in o.uses => o.lock = k /\ ~o.late}

Unlocking(x) == \E t \in Thread : pc[t] = "unlock" /\ xid(t) = x

(* Locks belong to live transactions: none is granted after the UnlockAll   *)
(* that was to give it back, or left behind by a call that threw.  But for  *)
(* a transaction that the reaper has overtaken: the call goes on to its     *)
(* lock, one and no more, and throws when it attaches.                     *)
LocksOfLive ==
    \A l \in held : active[l.xid] = "active" \/ Unlocking(l.xid)
       \/ /\ l.xid \in overtaken
          /\ \A m \in held : m.xid = l.xid => m = l

(* What a live transaction has copied is still what is committed, but for   *)
(* its own writes: nobody has committed to an item under its feet.          *)
Isolation ==
    \A rm \in RM, x \in Xid :
        table[rm][x] = "active" /\ active[x] = "active" =>
            \A k \in DOMAIN work[rm][x] \cap LockedKeys :
                work[rm][x][k] \ {x} = store[rm][k]

Wrote(rm, x, k) == k \in DOMAIN work[rm][x] /\ x \in work[rm][x][k]

(* A committed write is in the store for good: no transaction writes back a *)
(* copy that was made before it.                                           *)
NoLostUpdate ==
    \A rm \in RM, x \in Xid, k \in LockedKeys :
        table[rm][x] = "committed" /\ Wrote(rm, x, k) => x \in store[rm][k]

(* Nobody sees what a transaction wrote before it has committed, or ever if *)
(* it aborts, though a call of its own, a commit and an abort (by another   *)
(* client or by the reaper) may be under way at the same time.              *)
Committed(rm) == {x \in Xid : table[rm][x] = "committed"}
NoDirtyRead ==
    \A rm \in RM, k \in Key :
        /\ store[rm][k] \subseteq Committed(rm)
        /\ \A x \in Xid : k \in DOMAIN work[rm][x] =>
              work[rm][x][k] \subseteq Committed(rm) \cup {x}

(* A transaction the middleware has committed is committed wherever it      *)
(* wrote, whatever has stopped, and one it has aborted nowhere, as long as  *)
(* the resource managers it has used answer.                               *)
AllOrNothing ==
    \A rm \in RM, x \in Xid :
        /\ active[x] = "committed" /\ (\E k \in Key : Wrote(rm, x, k))
              => table[rm][x] = "committed"
        /\ active[x] = "aborted" /\ rms[x] \subseteq up
              => table[rm][x] # "committed"

(* The outcome of a transaction, once reached, does not change.             *)
OneOutcome ==
    [][\A x \in Xid : active[x] \in Ended => active'[x] = active[x]]_vars

(* Middleware.java:63 "Methods aborts a given transaction": it is not left  *)
(* active at a resource manager.                                            *)
AbortIsComplete ==
    \A rm \in RM, x \in Xid : active[x] = "aborted" => table[rm][x] # "active"

Abandoned(x) ==
    <>[][\A t \in Client : pc[t] = "idle" /\ pc'[t] # "idle" => xid(t)' # x]_vars

(* A transaction whose clients have gone away gives back its locks, unless  *)
(* the reaper has overtaken a call of it or a resource manager that it has  *)
(* used has stopped (and the reaper's abort throws again and again).        *)
AbandonedGivesBack ==
    \A x \in Xid : Abandoned(x) =>
        \/ <>[](\A l \in held : l.xid # x)
        \/ <>(x \in overtaken \/ ~(rms[x] \subseteq up))

-----------------------------------------------------------------------------
(* The lock service that is assumed here is the one LockManager implements. *)
Granted(t) == IF op(t).late THEN pc[t] = "call" /\ step[t] = 2
              ELSE pc[t] = "attach" /\ step[t] = 1

pending == [t \in Thread |-> IF pc[t] = "getLock" THEN {Wanted(t)} ELSE {}]
outcome == [t \in Thread |-> IF Granted(t) THEN "granted"
                             ELSE IF pc[t] = "refused" THEN "refused" ELSE "none"]

Locks == INSTANCE LockService WITH Data <- Key

(* The middleware sees nothing of its locks that LockService does not allow,*)
(* and uses it as it is meant to: a thread makes one request at a time.     *)
ImplementsLockService == Locks!SSpec

(* The transactional store this is meant to be.  A transaction takes effect *)
(* when the middleware has ended it: what it has put into some of the       *)
(* resource managers before is not seen by others, who lack the locks.      *)
Cell == RM \X LockedKeys

db == [c \in Cell |-> {y \in store[c[1]][c[2]] : active[y] = "committed"}]
view == [x \in Xid |->
            [c \in {d \in Cell : /\ active[x] = "active"
                                 /\ d[2] \in DOMAIN work[d[1]][x]} |->
                work[c[1]][x][c[2]]]]

Store == INSTANCE TransactionStore WITH status <- active, intact <- up = RM

(* On the keys that are locked before they are used, transactions are       *)
(* serializable and atomic over the resource managers, as long as these     *)
(* answer: every step begins, uses, commits or aborts one transaction.      *)
ImplementsTransactionStore == Store!Spec
=============================================================================
