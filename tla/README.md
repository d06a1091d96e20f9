# Travel reservation system: specification, model checking and proofs

The system is a distributed travel agency (`src/RMI`). Clients call a
**middleware**; the middleware runs **transactions** over three **resource
managers** (flights, cars, rooms), each a server of its own reached over Java
RMI. The middleware holds a **lock manager** (strict two-phase locking with a
deadlock timeout) and a **transaction manager** (the table of active
transactions and a thread that aborts those unused for 100 s). A resource
manager keeps the committed data in memory and private copies per transaction.
Nothing is written to disk: a resource manager that stops is gone with its data.

## 1. Inventory

| Part | Code | State | Operations | Talks to |
|---|---|---|---|---|
| Lock manager | `LockManager/*` | `lockTable`, `stampTable`, `waitTable`; the monitors of these and of the waiting `Thread` objects | `Lock` (with `LockConflict`, `WaitLock`, `cleanupDeadlock`), `UnlockAll` | called by the middleware's RMI threads and by the time-to-live thread |
| Transaction middleware | `Middleware/Middleware.java` | the set of resource managers of each transaction | `Start`, the add/delete/query/reserve/customer/bundle methods, `commit`, `abort` | lock manager, transaction manager, the resource managers (remote calls that may throw) |
| Transaction manager | `Middleware/TransactionManager.java`, `Transaction.java` | `ACTIVE_Transaction` (missing, `Transaction` or null), time stamps, private copies | `start`, `addTransaction`, `getTransaction`, `isActive`, `run` | `run` calls `Middleware.abort` inside the table's monitor |
| Resource manager | `Common/ResourceManager.java`, `Customer.java`, `ReservableItem.java`, ... | `m_data`, its own transaction table with the copies | `addTransaction`, `readData`, `writeData`, `removeData`, the methods, `commit`, `abort` | called by the middleware only |
| Start-up | `RMI/*.java`, `run_server.sh` | a name bound in each registry; the middleware's remote references, looked up once | `main`, `connectExternalServers`, the shutdown hooks | RMI registries |
| Client | `src/RMI/Client` | its reference to the middleware | parses a command, calls the middleware, connects and calls once more after `ConnectException` | middleware, its registry |
| Template system | `src/Template` | `m_data` of each server, items and customers | the same methods without transactions: read, compute, write back in separate monitors | clients call its middleware over RMI or TCP, the middleware the three servers |
| Plotter, tests, ZooKeeper files | `src/GrapPlotter`, `MultiClientTest.java`, `src/bin`, `src/docs` ... | - | - | not part of the running system |

What is hard, and what makes each part correct:

* **Lock manager**: waiting and waking (lost notifies, spurious wake-ups, the
  order of monitors, timeouts racing with grants), conversions, the stamps that
  measure a wait across several tries, UnlockAll working lock by lock. Correct
  means: exclusion, one lock per item and transaction, strictness, true only with
  the lock, every call ends, a deadlock is reported only after the timeout, and
  all in all it behaves as one simple lock service.
* **Middleware and transaction manager**: a call is many steps on three parts,
  during which the transaction may be committed, aborted or reaped by somebody
  else (`MultiClientTest.java:107` "multiple clients access the same
  transaction"); commit and abort are sequences of remote calls that may fail
  half-way. Correct means: isolation of live transactions, no lost update, no dirty
  read, all-or-nothing commit, one outcome, no leaked lock, locks given back when
  the clients disappear. The code does not achieve all of it: section 3 has the findings.
* **Resource manager**: two objects (item and customer) that must agree, copies
  that are written back whole. Correct means: seats add up and the items'
  reservation counts are those of the customers.
* **Start-up and client**: processes start in any order and may stop at any moment;
  the middleware keeps the references it has found at its start, null where a registry
  did not run; the client tries again. Correct means: a command is run at most once,
  reaches a middleware that has been restarted, and "committed" is true for every write
  that was acknowledged.
* **Template**: nothing is locked between reading an object and writing it back,
  customers are made and deleted at three servers in turn, and calls break off.
  Correct means what can still be promised: no seats are made out of nothing, and
  objects agree unless commands have raced on them.

`PROJECT.json` lists the hazards at their lines with the properties for each.

## 2. Modules

| Module | What it is |
|---|---|
| `LockService` | abstract: locks held, requests pending, outcomes; a request is granted in one step or refused |
| `LockManager` | `LockManager.java` and `TPHashTable.java`, step by step between monitors; refinement mapping to `LockService` |
| `LockManagerProofs` | the theorems about `LockManager`, with TLAPS proofs |
| `MCLockManager` | instances |
| `LockTable`, `MCLockTable` | `TPHashTable.java` with its slots, and the two entries that `LockManager.java` keeps in it for each lock; instances |
| `TransactionStore` | abstract: transactions that each work on a view of their own and take effect at once at their commit, when all they have read is still what is stored |
| `Middleware` | the life of transactions over lock service, transaction table and resource managers; refinement mappings to `LockService` and `TransactionStore` |
| `MiddlewareProofs` | the theorems about `Middleware` that need no assumption on clients: types, no dirty read, the use of the lock service |
| `MiddlewareIsolationProofs` | the theorems about locks, isolation and outcomes, for one client per transaction |
| `MiddlewareAtomicityProofs` | all-or-nothing, and the refinement of `TransactionStore` |
| `MCMiddleware` | instances and sets of operations |
| `ResourceManager` | the data of one resource manager: items, customers, copies, bundles |
| `ResourceManagerProofs` | the theorems about `ResourceManager` |
| `MCResourceManager` | an instance |
| `FoldTheorems` | induction over finite sets and over numbers, and what follows for sums and for folds; used by the proofs about `ResourceManager` and `Template` |
| `Deployment`, `MCDeployment` | the processes, what they know of each other, stops and restarts, the client's second try; an instance |
| `DeploymentProofs` | the theorems about `Deployment`, with TLAPS proofs |
| `Template` | the system without transactions, one step per access to `m_data` |
| `TemplateProofs` | the theorems about `Template` |
| `MCTemplate` | an instance with two flights at one server and a customer |

The composition goes through `LockService`: `LockManager` is shown to implement
it, and `Middleware`, which uses locks in single steps, is shown to do with them
only what `LockService` allows (`ImplementsLockService`). Upwards, `Middleware` is
shown to implement `TransactionStore` (`ImplementsTransactionStore`), which knows nothing of locks,
managers or copies, for the data that every operation locks, as long as no resource
manager stops. `Middleware` is abstract about data (who wrote what), `ResourceManager`
about the protocol (an operation is one step); the locks each operation takes are
the same in both. `Deployment` is abstract about data and locks, and has what
`Middleware` takes for granted: processes, references, restarts and the client.

Definitions whose comment begins with "Fault:" are no part of a model. Each is a
plausible mistake in the definition that follows it, kept to show that the
property named with it in `PROJECT.json` would notice.

### LockManager and the code

State: `lockTable`, `waitTable`, `stampTable` are the static tables (lines 15-17);
`pc`, `req`, `timestamp` a thread's place and locals; `scan` the locals of
`UnlockAll`'s inner loop. A lock is stored in the code twice (by transaction and
by item); both entries are always added and removed in one monitor, so this model
has one, and `LockTable` has both. `lockTable` is a set because `LockConflict`'s answer does not depend on
the order when exclusion holds (which is proved). `waitTable` is a sequence: `elements` returns the newest
entry first, and `UnlockAll` looks at them in that order.

| Action | Code |
|---|---|
| `CallLock`, `Redundant`, `Conflict`, `Grant` | `Lock`, one pass of the loop in `lockTable`'s monitor (50-88, 98-102); granting also removes the stamp, the wait entry and a READ lock that is converted |
| `Stamp`, `StampExpired` | `WaitLock` 285-313 |
| `Register`, `BeginWait` | 316-327, two steps: no monitor is held in between |
| `SpuriousWakeup`, `Retry`, `TimedOut`, `CleanupDeadlock` | 327-335 and 345-355; the thread keeps its own monitor from `TimedOut` to `CleanupDeadlock` |
| `CallUnlockAll`, `Unlock`, `Wake`, `EndScan`, `UnlockDone` | `UnlockAll` 117-203: it keeps `lockTable`'s monitor throughout and `waitTable`'s during a scan, and needs the waiter's monitor to notify |
| `Tick` | the clock; ages stop at `Timeout` |

`Serves[t]` says for which transactions a thread makes calls: one thread per
transaction (a client that waits for each answer) or several.

### LockTable and the code

`m_vector` is the vector of slots, each a sequence of entries, `vect` what `UnlockAll` has
yet to remove. `hashSlot`, `key`, `elements`, `Equal`, `add` and `remove` are the methods of
`TPHashTable` and of the entries' classes. `CallLock` is one pass of `Lock` in the table's
monitor: `Refuse` (an entry that makes `LockConflict` return, or throw), `Grant`, `Convert`.
The real table has 2039 slots; what matters is whether a transaction and an
item share one, which the instances choose.

### Middleware and the code

`active`, `rms`, `expired` are the middleware's table, `Transaction.resourceManagers`
and the comparison of the time stamp with TTL; `table`, `work`, `store` are a
resource manager's table, copies and `m_data`; `held` is the lock service; `up` the
servers that answer. An operation is a record: which key it locks and how, which
resource managers it calls, which keys it uses there. The constructors `Query`,
`Change`, `Check`, `Reserve`, `NewCustomer`, ... give the methods of `Middleware.java`.
`Check` and `Reserve` one after another by one client are a `bundle`.

A call goes through `Invoke` (`isValidTransaction` 54-55, which looks at the table) and
`Refresh` (the `updateTimeStamp` of line 55), `GetLock` or `Refused` (then
`AbortRefused`), `Attach` and `Begin` (`attachTransactionWithRM`), `Execute` per resource
manager; `Commit`/`CommitAt` and `Abort`/`Reap`/`AbortAt`, then `End` and
`UnlockAll`. Early exits are part of these actions: an invalid transaction, a null
entry (which makes the code throw `NullPointerException`), a server that does
not answer, an identifier that exists. `abort`'s `else if` is kept (`AbortAt` tells
only the first resource manager). `TableFree` is the monitor that the time-to-live
thread keeps during its abort.

Between `Invoke` and `Refresh` no monitor is held: the time-to-live thread may come upon
the transaction, abort it, store null and unlock, and the call goes on to its lock all
the same, because `getLock` does not look at the table. `overtaken` is a history variable: the
transactions to which this has happened. `commit` and `abort` look at the table once more after
their refresh and throw on null, so there what counts is the last look, with the refresh
just before it: `IsValid` is one step. `CallOrder` is the order in which an operation
calls the servers; `queryCustomerInfo` has one of its own.

Data: a value is the set of the transactions whose writes it contains. The
result "no such item" or "none left" is a nondeterministic choice not to write.

In the mapping to `TransactionStore` a cell is a resource manager's object for a locked key,
a live transaction's view is its copies there, and it ends
when its entry in the middleware's table becomes null.

### ResourceManager and the code

`copies[s]` is the map in `Transaction.m_data`: `ReadData` copies on first use (null
included), `WriteData`/`removeData` replace, `Commit` writes back every copy, also those
only read. Locks are those of `Middleware.java`: the item for add, delete, reserve
and bundle, the customer for newCustomer, deleteCustomer and queryCustomerInfo. An operation with its lock
is one step: its lock is kept to the end of the transaction, so what it locks
cannot change in between, and what it does not lock is read at once by the code
too. `deleteCustomer` throws in the middle when a reserved item is gone; the order
of its loop (a HashMap) is a choice.

`added` and `delta` are history variables for `SeatsAddUp`. `bare` and `raced` say where
locks have failed: `bare[s]` are the objects that a transaction has read or changed
without their lock (customers while reserving, items in `deleteCustomer`), and an object
is in `raced` once a commit has changed it while another transaction had a copy, one of
the two bare. That is when data get lost, and the properties say that nothing
else loses any.

### Deployment and the code

A process has an incarnation (`inc`), counted at each start; a reference is the
incarnation it was made for, 0 for null, and a call arrives if that one still runs
(`Reachable`). `StartServer`, `StopServer`, `StartMiddleware`, `StopMiddleware` are the `main` methods up to the binding, the
shutdown hooks, and being killed (the name then stays bound). The middleware may be called
before `LookUp` has gone through its servers: a registry that does not run leaves the
reference null, a name that is not bound ends the program (`connectExternalServers` 64-67).

The client connects (`Connect`), takes a command (`Type`) and calls (`Send`). A call that
cannot be sent is a `ConnectException`: the first time the client connects again, which it tries until it
succeeds, and sends once more. A middleware that stops in the middle of a call makes it end
with an `UnmarshalException` (`Lost`). The middleware's side of a call is `RunStart`, `RunInvalid`, `Attach`
(notes the server), `Begin` (tells it), `Write`, `Commit`, `CommitAt`, `EndCommit`, `RunAbort`; `Reap`
is the time-to-live thread, taken to end any transaction at any time. `acked` and `stored` are
history variables: where writes have been acknowledged and committed.

### Template and the code

A call is a sequence of commands (`todo`), as `Template/Middleware.java` sends them to
the servers: one for an item, three for a customer, one reservation after
another for a bundle. `pc` and the clones `customer`, `item` are a server thread's
place and locals in the first of them. Each `readData`, `writeData` and `removeData` is a
step, because the code takes `m_data`'s monitor for no longer. `Unreachable` is a
command that throws before it is executed; the rest of its call is dropped (`Throw`), as
it is when `deleteCustomer` finds a reserved item gone. A command that answers false
does not stop a bundle, but does stop `newCustomer(id)` (`must`).

`added`, `raced` and `split` are history variables: seats asked for, objects that two
commands used at once, customers whose calls met or broke off. The properties use
them to say what remains true without transactions and under which condition.

## 3. Runs

All bounds are in the `.cfg` files. Runs that must pass:

| Run | Instance | Shows |
|---|---|---|
| `LockManagerShared` | 2 threads for one transaction, 1 thread for another, 1 item | `TypeOK`, `MutualExclusion`, `OneLockPerItem`, `NoDoubleWaiter`, and `ImplementsService` |
| `LockManagerOwn` | 2 threads with a transaction each, 2 items, fairness | `NoLeftovers`, `Strict`, `GrantedIsHeld`; every call ends, or its thread is in the monitor deadlock |
| `MiddlewareCore` | 2 clients; a flight, and cars reserved for a customer; the car manager may stop | isolation, no lost update, one outcome; no lock left behind, but for one lock of a transaction that the reaper has overtaken; committed means committed wherever it wrote, aborted means committed nowhere if the servers that the transaction used answer; `ImplementsTransactionStore`, while every server answers |
| `MiddlewareShared` | both clients use both transactions, slow calls | no dirty read |
| `MiddlewareLive` | 1 client that works for two transactions, a query of cars, `newCustomer(xid)`; the car manager may stop; fairness | an abandoned transaction gives back its locks, unless the reaper has overtaken a call of it or a server it used has stopped; `LocksOfLive`; `ImplementsLockService` |
| `ResourceManagerShared` | 2 sessions, 2 items, a customer both use, every method but `newCustomer(xid)` | seats add up, items and the customer agree, where nothing raced; bundles of different flights are atomic |
| `Deployment` | 2 servers, middleware, client; 2 transactions or restarts; fairness | a command is run at most once and reaches the restarted middleware; success of commit means stored; transactions are ended as long as the servers stay |
| `TemplateShared` | 2 clients, two flights at one server, a customer, every method | no seats out of nothing; items, reservations and the customer's three copies agree where nothing raced |

Runs that show a disagreement between the code and what it says of itself
(`findings` in `PROJECT.json` quotes the lines):

| Run | Property violated | What happens |
|---|---|---|
| `LockManagerMonitors` | `LockEnds` | a waiter that times out and an unlocker that notifies it wait for each other's monitor |
| `LockTableSlots` | `LockAnswers` | a transaction converts a READ lock on an item whose name falls into the transaction's slot of the hash table: `Lock` throws `ClassCastException`. Transaction 55 and `flight-1` do, 50 and `flight-100` |
| `MiddlewareAbort` | `AbortIsComplete` | `else if`: only one resource manager is told of an abort |
| `ResourceManagerCustomer` | `ReservationsMatch` | reservations do not lock the customer: a committed one is lost |

The passing runs keep to instances where their properties hold. What lies
beyond follows from the same modules with other constants:

| Change | What then fails |
|---|---|
| a hash function with a collision in `LockManager` | `GrantedIsHeld`: a request is "redundant" because of another name's lock. Exclusion survives |
| `Serves <- Shared` in `Middleware` | `LocksOfLive`: a lock is granted after `UnlockAll` and stays for ever; `OneOutcome`: commit and abort both succeed |
| `AbandonedGivesBack` without `rms[x] \subseteq up` | an abort throws before it gives back the locks, each time the reaper tries it |
| the second half of `AllOrNothing` without `rms[x] \subseteq up` | one server has committed when the commit throws at the next, which has stopped; an abort, by the client or the reaper, then ends the transaction as aborted |
| `LocksOfLive` or `AbandonedGivesBack` without `overtaken` | both: the reaper aborts between `getTransaction` and `updateTimeStamp` of `Middleware.java:55`; the call goes on with a dead transaction, gets a lock after `UnlockAll`, throws `NullPointerException` in `attachTransactionWithRM`, and the lock stays for ever |
| `newCustomer(xid)` while the identifier it makes up exists | the customer that exists is overwritten before its lock is asked for |
| `hashCode <- Apart`, `TABLE_SIZE = 8` in `LockTable` (no shared slot) | nothing: `TypeOK`, `LockAnswers` and `EveryLockTwice` hold |
| a hash code equal to a live transaction number in `LockTable` | `LockConflict` casts the transaction's entry, and `UnlockAll` takes out locks of others |
| `SeatsAddUp` without `raced` in `ResourceManager` | `deleteCustomer` rewrites the items without locks, seats added meanwhile are gone |
| `EndsIfServersStay` without the condition on `looked` in `Deployment` | a call in the start-up window notes a server that never hears of the transaction (the reference is null), and every abort of it throws from then on |
| `ReservationsMatch` of `Template`, excluding races on the item itself only instead of on any object of its server | `deleteCustomer` has given back this item when it finds another one gone and throws: the customer, with its reservations, stays |
| bundles that name a flight twice, in `BundleOfDifferentIsAtomic` | with one seat left the first reservation is made and the second is not |

`Deployment` also reaches states about which the code promises nothing. A
middleware that starts again counts its transactions from 2 again
(`TransactionManager.java:10`), while the resource managers still know those
numbers: a new transaction finds the copies of an old one of the same number, and
commits them with its own, or is refused as ended. After a resource manager has started
again, nothing reaches it until the middleware does, too. And `newCustomer(xid)`
makes its identifier from the digits of the transaction, a millisecond and a random number up to 101:
2, 11, 1 and 21, 1, 1 give the same one, and from some length on it is no `int`.

A notify that is lost because it comes between `Register` and `BeginWait` needs no
change of constants: the waiter then ends with a `DeadlockException` though the item is free.
No comment in the code excludes that, and `LockEndsOrMonitorDeadlock` holds regardless.

Why the bounds are enough: conflicts, conversions and deadlocks need two
transactions; two threads of one transaction add the races on its stamp, its entries
and its locks; two items make a cycle of waits and let UnlockAll do more than one
scan. Timeout 1 separates "not yet" from "timed out". In `Middleware` two transactions show every pairwise
interference, and two resource managers with one that stops every half-way failure; the window
of the refresh, and a lock that is left behind in it, need one client only, which in
`MiddlewareLive` has a second transaction whose abort may fail before the reaper gets to the first.
In `ResourceManager`, `MaxSeats` = 2 tells "none", "some" and "all" apart; after the first race
the transactions under way go on but none begins (`Going`), and what lost reservations could add up to
is bounded (`Bounded`); `MaxFlights` = 2 is the shortest bundle that can be made half (the proof covers any length). In `Deployment` two servers let a commit fail half-way; `Budget` = 2 allows a transaction
and a restart of any process at any point of it, two transactions, or two restarts. In `Template`, `MaxCalls` = 3 lets one
client make a customer, reserve and delete while the other does the same. Each client of
`Middleware` starts each of its transaction identifiers once; that is the bound on transactions.

`CHECK_DEADLOCK FALSE`: in `LockManager` the system really may stop (the monitor
deadlock above). `Deployment` ends when `Budget` is used up and all has stopped, `Middleware` ends when all identifiers are used up, `Template` when all
calls are.
Symmetry permutes threads or clients together with their transactions, or items; it is used
with safety properties only. `CHOOSE` appears only in values of dead locals
(`NoRequest`, `NoCall`, the initial `scan`, the hash function), which no guard reads.

Fairness. `LockManager`: the clock and every runnable thread go on (weak
fairness); nothing is assumed about who gets a contended monitor, about clients
or about notifies. `Middleware`: calls that have begun go on, because every remote call
returns or throws and a lock request ends within the timeout (`LockManagerOwn`; the
monitor deadlock is the exception and is a finding); time passes; the time-to-live
thread visits every entry (strong fairness of `Reap(x)`). The last is so whatever stops: an abort
that throws restarts the thread's loop over the transactions, but
`isValidTransaction` has refreshed the time stamp of that one by then, so that the loop gets to
those behind it before it is tried again. The loop leaves the monitor of `ACTIVE_Transaction` after
each pass, and passes in which nothing has expired follow each other for as long as the time
to live lasts; so a call that wants to look at the table gets in (strong fairness of `Advance` for clients).
With weak fairness only, an abort that fails again and again could keep everybody else waiting. Nothing is assumed of clients. `Deployment`: a command that has been typed
goes on (every call returns or throws), and so does the time-to-live thread; nothing is
assumed of users, nor that anything is ever started or stays up: where a property
needs that, it says so.

## 4. Proofs

TLAPS checks every proof. Each theorem is about all values of the constants that
the model's named ASSUMEs allow; what it needs beyond them is its `ASSUME`, named below. Every
invariant that a passing run checks is a theorem, and so is every action property and
refinement among their properties; TLC shows on small instances what the theorems say of all. Each
inductive invariant was checked with TLC before it was proved.

**Lock manager** (`LockManagerProofs`): all sets of threads, transactions and items, all
hash functions, all `Serves` and timeouts.

| Theorem | States | Argument |
|---|---|---|
| `TypeCorrect` | `TypeOK` | inductive; `TypeNext` has a step per action |
| `MutuallyExclusive` | `MutualExclusion` | inductive with `TypeOK`: `LockTableStep` says that only `Grant` adds a lock, and only when nothing conflicts |
| `SingleLock` | `OneLockPerItem` | the same; `Grant` removes the READ lock it converts, and a WRITE lock would have made the request redundant |
| `StrictTwoPhase` | `Strict` | from `LockTableStep` |
| `NoDoubleWaiters` | `NoDoubleWaiter` | `WaitTableStep`: an entry is appended only when absent; removing one keeps the others different |
| `NothingLeft` | `NoLeftovers`, if threads serve disjoint transactions | `Calls`: each wait entry and each stamp belongs to a call under way whose transaction has no lock that would answer it (`Unanswered`). With two threads per transaction one of them may get the lock and remove the other's stamp |
| `GrantImpliesHeld` | `GrantedIsHeld`, without collisions | the two ways to answer "granted" |
| `Refinement` | `ImplementsService`, without collisions | one lemma per action. `UnlockAll` takes effect when it enters the monitor, so the mapping hides the locks it has yet to remove |

The last two assume that different names have different
hash codes, and need it: with a collision `LockConflict` takes the lock on another name
for the one requested.

**Middleware** (`MiddlewareProofs`, `MiddlewareIsolationProofs`, `MiddlewareAtomicityProofs`): any clients,
transactions and keys.

| Theorem | States | Argument |
|---|---|---|
| `TypeCorrect` | `TypeOK` | no assumption; with the control state (`Types`) |
| `NoDirtyReads` | `NoDirtyRead` | no assumption: a copy reaches the store only in `CommitAt`, which makes the transaction committed there in the same step |
| `LockServiceRefinement` | `ImplementsLockService` | no assumption; the map sends `GetLock`, `Refused` and `UnlockAll` to the service's steps and all else to stutters |
| `OutcomeIsFinal` | `OneOutcome` | `Workers`: a client works for its own transaction, whose table entry is live until the call that ends it has ended it, and which the reaper leaves alone once the call is refreshed. A call that is `Early` (it will look at the table again) may have lost its transaction to the reaper, and then changes nothing but locks |
| `LocksAreOfLive` | `LocksOfLive` | `Overtakes`: an early call has lost its transaction only to a reaper that has overtaken it; `Spare`: until such a call has asked for its lock, its transaction has none once it is unlocked, so the lock it gets is the only one; any other lock is got for a live transaction, and `End` goes on to `UnlockAll` |
| `Isolated` | `Isolation` | `Copying`: while an operation of a live transaction calls the resource managers it has its lock (`Locked`), every copy of a locked key is covered by a lock, of the WRITE kind if it was changed (`CopiesLocked`), no two locks clash, and copy and store differ only in the transaction's own writes (`Agrees`) |
| `NoLostUpdates` | `NoLostUpdate` | with `Copying`: what is written back contains everything stored |
| `EndsEverywhere` | `AllOrNothing` | `Outcomes`: a resource manager knows a transaction only after it has been noted, and the commit under way has passed exactly the servers before its place (`Passed`). What depends on servers that answer is asked only of those that the transaction has used |
| `StoreRefinement` | `ImplementsTransactionStore` | below |

From `OutcomeIsFinal` on they assume `Assumptions`: `OwnTransactions` (no two clients make calls for one
transaction: otherwise a lock is granted after `UnlockAll` and commit and abort both
succeed, as section 3 says), `~SlowCalls` (no call takes longer than the time to live after its refresh, during which
the reaper would abort its transaction; between check and refresh time may pass) and `Methods` (the operations are those the constructors
make, so that an operation that writes a locked key asks for a WRITE lock).

The refinement of `TransactionStore`. A cell is a locked key at a resource manager. The mapping shows, as
a live transaction's view, its copies (which stay there after a commit), and as the database what is
stored without the writes of transactions that are not ended as committed. `CommitAt` is therefore a stutter
although it changes the store at one resource manager, and `End` is the point where the transaction takes
effect everywhere at once. The locks make this possible: from the first `CommitAt` to `End` nobody else has
copied what the transaction writes, so nobody sees that a part of it is stored already (`CopiesLocked` and
`NoClash`). The abstract commit is possible only when all that was read is still what is stored, which is
`Agrees`, and it changes every cell the transaction wrote, which is `Passed`. A server that stops is the
abstract `Fail`, after which nothing is promised.

**Resource manager** (`ResourceManagerProofs`): any sessions, items, customers, methods and
bounds, bundles of any length.

| Theorem | States | Argument |
|---|---|---|
| `TypeCorrect` | `TypeOK` | with the invariant `Inv` |
| `SeatsNeverLost` | `SeatsAddUp` | `Inv`: what a transaction has copied and no commit has raced on is locked, or counts as `bare` (`LockedOrBare`), so that a commit writes back either what nobody else could change or what it puts into `raced`; the seats of every item add up in every transaction's view, not only in what is committed (`SeatsOfAll`) |
| `ReservationsAgree` | `ReservationsMatchUnlessRaced`, if `Customer` is finite | `AllMatch`: the sums agree in every transaction's view, since a commit makes a view what is stored |
| `BundlesAreAtomic` | `BundleOfDifferentIsAtomic` | the bundle is a left fold of reservations: by induction over its length, after `i` of them the seats of the first `i` flights have been taken once each and the others are as they were |

**Deployment** (`DeploymentProofs`): any sequence of different servers and any `Budget`.

| Theorem | States | Argument |
|---|---|---|
| `TypeCorrect` | `TypeOK` | with places and references (`AllTypes`) |
| `RunAtMostOnce` | `AtMostOnce` | a command counts as run exactly while its call is under way (`RunWhenCalled`), and every way out of the call ends the command |
| `SuccessIsStored` | `CommittedIsStored` | `Inv`: references are made once, at the look-up (`LookedUp`); every acknowledged write was made at the incarnation that is still referred to, of a server that counts as used (`Acknowledged`); each used server that a commit has passed has committed at that incarnation (`Passed`). `CommittedIsStored` alone is not inductive: it speaks only of the end of a commit |

**Template** (`TemplateProofs`): any clients, items, customers and bounds, bundles of any
length; all assume `CallsOfMiddleware`, that clients call the methods of `Template/Middleware.java` and nothing
else.

| Theorem | States | Argument |
|---|---|---|
| `TypeCorrect` | `TypeOK` | what a thread has cloned by the time it is where it is (`Place`) |
| `NoSeatsFromNothing` | `SeatsBounded`, if `Client` is finite | a clone is written back later, over whatever is there then, so the bound must hold of clones too, and of the seats asked for without those that threads have yet to add (`Room`) |
| `ReservationsAgree` | `ReservationsMatch`, if `Customer` is finite | the property speaks of servers at rest only. At any time the items of an unraced server count the sum of what stands of the customers' reservations (`Stands`): all of it, less one that is written to the customer and not to the item yet, less those `deleteCustomer` has given back. It takes that a clone nobody has raced on is still what is stored (`Clones`) and where a thread is in its command (`Progress`); and that `deleteCustomer` never finds an item gone, for which no reservation may stand |
| `CustomersExistEverywhere` | `CustomersAgree` | while a call goes from server to server, the customer is, where it has been, what the call makes of it, and the same everywhere else (`HalfWay`); one call at a time does so (`Settled`); what is left of a call is one of few sequences (`Remains`). A call that insists on success finds no customer that it did not make |

Induction over data is done with sets: `FoldTheorems` proves, from the
well-foundedness facts of the library, that a set of subsets (or of numbers) which contains whatever follows
all smaller ones contains all, and from that what sums and left folds of the community modules compute.

Only model-checked: the liveness properties (`LockEndsOrMonitorDeadlock`, `AbandonedGivesBack`, `RetryReaches`, `EndsIfServersStay`: fairness and ENABLED are
outside TLAPS), and everything about `LockTable`, whose run expects a violation.

## 5. Not modelled, and why

* `Lock`'s and `UnlockAll`'s `false` for invalid parameters, and thread
  interrupts: no caller passes or causes them.
* Data races inside `HashSet` and `HashMap` objects that threads of one
  transaction share (`Transaction.resourceManagers`).
* Negative numbers of seats in `ResourceManager` and `Template`: the code takes any `int`, and
  its test `getCount() == 0` would then let a reservation through.
* The car and the room of a `bundle` in `ResourceManager`, which are at servers of their own
  and are queried and reserved like one more flight.
* In `Template`, a command that is executed and whose answer is lost on the way to the middleware.
* Prices, bills, the digits of made-up customer identifiers and their overflow.
* Assertions: the start scripts do not enable them.
* Parsing and printing of commands, arguments of `main`, security managers.
* In `Deployment`, locks, data and calls that overlap (they are in `Middleware`); a client of
  several; the deadlock timeout.
* Of `src/Template`, the methods that only read, and the TCP client, most of whose methods
  are stubs.
* `src/docs`, with the JavaScript of its pages (`skin/*.js`), is the documentation of a
  ZooKeeper release, written elsewhere; nothing of the system uses it.

## 6. Plan

Done: the lock manager with its abstract service, and its hash table; the
transaction protocol and its abstract store; the data of a resource manager; start-up,
restarts and the client; the Template system; proofs of the safety properties of all of
these but the hash table. To do:

1. A run and a proof of `EveryLockTwice` for `LockTable` where no transaction shares a slot with an item, which
   is what `LockManager`'s single set of locks stands on.
2. The action properties of liveness arguments: that a step of the reaper or of a waiting thread
   brings its end nearer, which is as much of the liveness properties as TLAPS can state.
