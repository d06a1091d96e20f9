------------------------------ MODULE Deployment ------------------------------
(***************************************************************************)
(* The processes of the system and what they know of each other: resource   *)
(* managers with their registries (RMIResourceManager.java), the middleware *)
(* that looks them up once (RMIMiddleware.java), and a client with its loop *)
(* of commands and its reconnection (Client.java, RMIClient.java).          *)
(*                                                                         *)
(* Processes stop and start again, with empty memory.  A reference is the   *)
(* number of the start ("incarnation") of the process it was made for.      *)
(* Locks and data are left to Middleware.tla: here a transaction writes at  *)
(* servers, and its local copy there is lost with the server's table.       *)
(***************************************************************************)
EXTENDS Naturals, Sequences

CONSTANTS Servers,    \* the resource managers in the order of Middleware.java
          Budget      \* bound: transactions started and restarts of
                      \* processes, all together

Server == {Servers[i] : i \in DOMAIN Servers}
Process == Server \cup {"middleware"}
Xid == 1 .. Budget
Incarnation == 0 .. Budget + 1

ASSUME ServersAssumption ==
    /\ Servers \in Seq(Server)
    /\ \A i, j \in DOMAIN Servers : Servers[i] = Servers[j] => i = j
ASSUME NameAssumption == "middleware" \notin Server
ASSUME BudgetAssumption == Budget \in Nat \ {0}

VARIABLES inc,       \* inc[p]: p's incarnation, 0 before its first start
          up,        \* the processes that run
          registry,  \* the servers whose registry runs
          binding,   \* binding[s]: the incarnation bound in s's registry, or 0
          table,     \* table[s][x]: x's entry in s's ACTIVE_Transaction
          looked,    \* look-ups of servers that main has done
          refs,      \* refs[s]: flightRMI, carRMI, roomRMI, or 0 for null
          first_xid, \* the last identifier given out (the code's counts from 2)
          active,    \* active[x]: x's entry in the middleware
          rms,       \* rms[x]: Transaction.resourceManagers
          pc,        \* where the middleware is in the client's call
          at,        \* the next server a commit goes to
          cpc,       \* where the client is
          stub,      \* the client's reference to the middleware
          cmd,       \* the client's command
          again,     \* is this its second try?
          runs,      \* history: how often it has been run
          budget,    \* history: what is left of Budget
          acked,     \* history: acked[x]: where writes of x are acknowledged:
                     \* servers, each with its incarnation
          stored     \* history: stored[x]: where x is committed, likewise

servers == <<registry, binding, table>>
middleware == <<looked, refs, first_xid, active, rms>>
client == <<cpc, stub, cmd, again, runs>>
history == <<budget, acked, stored>>
vars == <<inc, up, servers, middleware, pc, at, client, history>>

Entry == {"none", "active", "ended"}
Start == [op |-> "start"]
Command == {Start} \cup [op : {"use"}, x : Xid, s : Server]
           \cup [op : {"commit", "abort"}, x : Xid]

TypeOK == /\ inc \in [Process -> Incarnation]
          /\ up \subseteq Process
          /\ registry \subseteq Server
          /\ \A s \in Server : {binding[s], refs[s]} \subseteq 0 .. inc[s]
          /\ table \in [Server -> [Xid -> Entry]]
          /\ looked \in 0 .. Len(Servers)
          /\ first_xid \in {0} \cup Xid
          /\ active \in [Xid -> Entry]
          /\ \A x \in Xid : active[x] = "none" <=> x > first_xid
          /\ rms \in [Xid -> SUBSET Server]
          /\ pc \in {"idle", "run", "begin", "call", "commit"}
          /\ at \in 1 .. Len(Servers) + 1
          /\ cpc \in {"connect", "ready", "send", "called"}
          /\ stub \in 0 .. inc["middleware"]
          /\ cmd \in Command
          /\ again \in BOOLEAN
          /\ runs \in 0 .. 2
          /\ budget \in 0 .. Budget
          /\ acked \in [Xid -> SUBSET (Server \X Incarnation)]
          /\ stored \in [Xid -> SUBSET (Server \X Incarnation)]

Unknown == [x \in Xid |-> "none"]
Nowhere == [x \in Xid |-> {}]

Init == /\ inc = [p \in Process |-> 0]
        /\ up = {}
        /\ registry = {}
        /\ binding = [s \in Server |-> 0]
        /\ table = [s \in Server |-> Unknown]
        /\ looked = 0
        /\ refs = [s \in Server |-> 0]
        /\ first_xid = 0
        /\ active = Unknown
        /\ rms = Nowhere
        /\ pc = "idle"
        /\ at = 1
        /\ cpc = "connect"
        /\ stub = 0
        /\ cmd = Start
        /\ again = FALSE
        /\ runs = 0
        /\ budget = Budget /\ acked = Nowhere /\ stored = Nowhere

Up(p) == p \in up
mw == inc["middleware"]
Launch(p) == /\ ~Up(p)
             /\ budget' = IF inc[p] = 0 THEN budget ELSE budget - 1
             /\ budget' >= 0
             /\ inc' = [inc EXCEPT ![p] = @ + 1]
             /\ up' = up \cup {p}

-----------------------------------------------------------------------------
(* A resource manager.  run_server.sh starts its registry, which stays.     *)
StartRegistry(s) == /\ s \notin registry
                    /\ registry' = registry \cup {s}
                    /\ UNCHANGED <<inc, up, binding, table, middleware, pc, at,
                                   client, history>>

StartServer(s) == /\ s \in registry
                  /\ Launch(s)
                  /\ binding' = [binding EXCEPT ![s] = inc'[s]]
                  /\ UNCHANGED <<registry, table, middleware, pc, at, client,
                                 acked, stored>>

(* The shutdown hook unbinds the name; a killed process leaves it bound.    *)
StopServer(s) == /\ Up(s)
                 /\ up' = up \ {s}
                 /\ table' = [table EXCEPT ![s] = Unknown]
                 /\ \/ binding' = [binding EXCEPT ![s] = 0]
                    \/ UNCHANGED binding
                 /\ UNCHANGED <<inc, registry, middleware, pc, at, client,
                                history>>

(* Fault: a reference also reaches the server that has started again.       *)
ReachableAgain(s) == Up(s) /\ refs[s] # 0

(* A call to s through the middleware's reference arrives; else it throws.  *)
Reachable(s) == Up(s) /\ refs[s] = inc[s]

-----------------------------------------------------------------------------
(* The middleware.  It can be called before it has looked up the servers.   *)
StartMiddleware == /\ Launch("middleware")
                   /\ UNCHANGED <<servers, middleware, pc, at, client, acked,
                                  stored>>

(* The client is done with its command.                                    *)
Done == cpc' = "ready" /\ cmd' = Start /\ again' = FALSE /\ runs' = 0

(* Fault: the client runs its command again after any RemoteException.      *)
LostRetried == IF again THEN Done
               ELSE cpc' = "connect" /\ again' = TRUE /\ UNCHANGED <<cmd, runs>>

(* A call that is under way ends with UnmarshalException at the client.     *)
Lost == Done

Exit == /\ up' = up \ {"middleware"}
        /\ looked' = 0
        /\ refs' = [s \in Server |-> 0]
        /\ first_xid' = 0
        /\ active' = Unknown
        /\ rms' = Nowhere
        /\ acked' = Nowhere /\ stored' = Nowhere
        /\ pc' = "idle" /\ at' = 1
        /\ IF cpc = "called" THEN Lost ELSE UNCHANGED <<cpc, cmd, again, runs>>
        /\ UNCHANGED <<inc, stub, budget>>

StopMiddleware == Up("middleware") /\ Exit /\ UNCHANGED servers

(* connectExternalServers: without the registry (RemoteException) the       *)
(* reference stays null; a name that is not bound ends the program.         *)
Found(s, n) == /\ refs' = [refs EXCEPT ![s] = n]
               /\ looked' = looked + 1
               /\ UNCHANGED <<inc, up, first_xid, active, rms, pc, at, client,
                              history>>

LookUp == /\ Up("middleware") /\ looked < Len(Servers)
          /\ LET s == Servers[looked + 1] IN
             \/ s \notin registry /\ Found(s, 0)
             \/ s \in registry /\ binding[s] # 0 /\ Found(s, binding[s])
             \/ s \in registry /\ binding[s] = 0 /\ Exit
          /\ UNCHANGED servers

-----------------------------------------------------------------------------
(* The client.                                                             *)
(* Fault: the reference of the first connection is kept.                    *)
ConnectOnce == /\ cpc = "connect" /\ Up("middleware")
               /\ stub' = IF stub = 0 THEN mw ELSE stub
               /\ cpc' = IF again THEN "send" ELSE "ready"
               /\ UNCHANGED <<inc, up, servers, middleware, pc, at, cmd, again,
                              runs, history>>

Connect == /\ cpc = "connect" /\ Up("middleware")
           /\ stub' = mw
           /\ cpc' = IF again THEN "send" ELSE "ready"
           /\ UNCHANGED <<inc, up, servers, middleware, pc, at, cmd, again,
                          runs, history>>

(* The user types a command.                                               *)
Type == /\ cpc = "ready"
        /\ \E c \in Command :
              /\ c.op # "start" => c.x <= first_xid
              /\ budget' = IF c.op = "start" THEN budget - 1 ELSE budget
              /\ cmd' = c
        /\ budget' >= 0
        /\ cpc' = "send"
        /\ UNCHANGED <<inc, up, servers, middleware, pc, at, stub, again, runs,
                       acked, stored>>

(* ConnectException means that the call was not sent: at first the client   *)
(* connects again, for as long as it takes, then it gives up.               *)
Send == /\ cpc = "send"
        /\ IF Up("middleware") /\ stub = mw
           THEN cpc' = "called" /\ pc' = "run" /\ runs' = runs + 1
                /\ UNCHANGED <<cmd, again>>
           ELSE /\ \/ again /\ Done
                   \/ /\ ~again
                      /\ cpc' = "connect" /\ again' = TRUE
                      /\ UNCHANGED <<cmd, runs>>
                /\ UNCHANGED pc
        /\ UNCHANGED <<inc, up, servers, middleware, at, stub, history>>

-----------------------------------------------------------------------------
(* The middleware runs the client's command.                               *)
Answer == /\ pc' = "idle" /\ at' = 1
          /\ Done
          /\ UNCHANGED <<inc, up, stub>>

(* Fault: the identifier is handed out before the counter is incremented.   *)
RunStartBefore == /\ pc = "run" /\ cmd.op = "start"
                  /\ first_xid' = first_xid + 1
                  /\ active' = [active EXCEPT ![first_xid] = "active"]
                  /\ Answer
                  /\ UNCHANGED <<servers, looked, refs, rms, history>>

RunStart == /\ pc = "run" /\ cmd.op = "start"
            /\ first_xid' = first_xid + 1
            /\ active' = [active EXCEPT ![first_xid'] = "active"]
            /\ Answer
            /\ UNCHANGED <<servers, looked, refs, rms, history>>

(* isValidTransaction throws.                                              *)
RunInvalid == /\ pc = "run" /\ cmd.op # "start" /\ active[cmd.x] # "active"
              /\ Answer
              /\ UNCHANGED <<servers, middleware, history>>

(* attachTransactionWithRM notes the server before it tells it.             *)
Attach == /\ pc = "run" /\ cmd.op = "use" /\ active[cmd.x] = "active"
          /\ rms' = [rms EXCEPT ![cmd.x] = @ \cup {cmd.s}]
          /\ pc' = "begin"
          /\ UNCHANGED <<inc, up, servers, looked, refs, first_xid, active, at,
                         client, history>>

Begin == /\ pc = "begin"
         /\ \/ /\ Reachable(cmd.s)
               /\ table' = IF table[cmd.s][cmd.x] = "none"
                           THEN [table EXCEPT ![cmd.s][cmd.x] = "active"]
                           ELSE table
               /\ pc' = "call"
               /\ UNCHANGED <<inc, up, at, client>>
            \/ ~Reachable(cmd.s) /\ Answer /\ UNCHANGED table
         /\ UNCHANGED <<registry, binding, middleware, history>>

Write == /\ pc = "call"
         /\ acked' = IF Reachable(cmd.s) /\ table[cmd.s][cmd.x] = "active"
                     THEN [acked EXCEPT ![cmd.x] =
                               @ \cup {<<cmd.s, inc[cmd.s]>>}]
                     ELSE acked
         /\ Answer
         /\ UNCHANGED <<registry, binding, table, middleware, budget, stored>>

Commit == /\ pc = "run" /\ cmd.op = "commit" /\ active[cmd.x] = "active"
          /\ pc' = "commit"
          /\ UNCHANGED <<inc, up, servers, middleware, at, client, history>>

(* The servers that were used, one after another; one that does not answer  *)
(* or does not know the transaction makes the call throw.                   *)
CommitAt == /\ pc = "commit" /\ at <= Len(Servers)
            /\ LET s == Servers[at]
                   x == cmd.x
               IN  \/ /\ s \notin rms[x]
                      /\ at' = at + 1
                      /\ UNCHANGED <<inc, up, pc, client, table, stored>>
                   \/ /\ s \in rms[x] /\ Reachable(s) /\ table[s][x] = "active"
                      /\ table' = [table EXCEPT ![s][x] = "ended"]
                      /\ stored' = [stored EXCEPT ![x] = @ \cup {<<s, inc[s]>>}]
                      /\ at' = at + 1
                      /\ UNCHANGED <<inc, up, pc, client>>
                   \/ /\ s \in rms[x]
                      /\ ~Reachable(s) \/ table[s][x] # "active"
                      /\ Answer
                      /\ UNCHANGED <<table, stored>>
            /\ UNCHANGED <<registry, binding, middleware, budget, acked>>

EndTransaction(x) == active' = [active EXCEPT ![x] = "ended"]

(* The Transaction object of x is garbage, and its history is not needed.   *)
Forget(x) == /\ rms' = [rms EXCEPT ![x] = {}]
             /\ acked' = [acked EXCEPT ![x] = {}]
             /\ stored' = [stored EXCEPT ![x] = {}]

EndCommit == /\ pc = "commit" /\ at > Len(Servers)
             /\ EndTransaction(cmd.x)
             /\ Forget(cmd.x)
             /\ Answer
             /\ UNCHANGED <<servers, looked, refs, first_xid, budget>>

(* abort tells the first of the servers that x has used, if there is one.   *)
FirstOf(x) == {Servers[i] : i \in {j \in DOMAIN Servers :
                  /\ Servers[j] \in rms[x]
                  /\ \A h \in 1 .. j - 1 : Servers[h] \notin rms[x]}}
AbortThrows(x) ==
    \E s \in FirstOf(x) : ~Reachable(s) \/ table[s][x] = "none"

AbortTransaction(x) ==
    /\ ~AbortThrows(x)
    /\ table' = [s \in Server |-> IF s \in FirstOf(x)
                                  THEN [table[s] EXCEPT ![x] = "ended"]
                                  ELSE table[s]]
    /\ EndTransaction(x)

RunAbort == /\ pc = "run" /\ cmd.op = "abort" /\ active[cmd.x] = "active"
            /\ \/ AbortTransaction(cmd.x) /\ Forget(cmd.x)
               \/ /\ AbortThrows(cmd.x)
                  /\ UNCHANGED <<table, active, rms, acked, stored>>
            /\ Answer
            /\ UNCHANGED <<registry, binding, looked, refs, first_xid, budget>>

(* Fault: a transaction that has used no server is not ended.               *)
ReapUsed(x) ==
    /\ Up("middleware") /\ active[x] = "active" /\ rms[x] # {}
    /\ AbortTransaction(x)
    /\ IF cpc = "called" /\ cmd.op # "start" /\ cmd.x = x
       THEN UNCHANGED <<rms, acked, stored>>
       ELSE Forget(x)
    /\ UNCHANGED <<inc, up, registry, binding, looked, refs, first_xid,
                   pc, at, client, budget>>

(* The time-to-live thread of the middleware ends a transaction.            *)
Reap(x) ==
    /\ Up("middleware") /\ active[x] = "active"
    /\ AbortTransaction(x)
    /\ IF cpc = "called" /\ cmd.op # "start" /\ cmd.x = x
       THEN UNCHANGED <<rms, acked, stored>>
       ELSE Forget(x)
    /\ UNCHANGED <<inc, up, registry, binding, looked, refs, first_xid,
                   pc, at, client, budget>>

Run == \/ RunStart \/ RunInvalid \/ Attach \/ Begin \/ Write
       \/ Commit \/ CommitAt \/ EndCommit \/ RunAbort

Next == \/ \E s \in Server : StartRegistry(s) \/ StartServer(s) \/ StopServer(s)
        \/ StartMiddleware \/ StopMiddleware \/ LookUp
        \/ Connect \/ Type \/ Send
        \/ Run
        \/ \E x \in Xid : Reap(x)

Spec == Init /\ [][Next]_vars

(* What the programs do without the user goes on: a command that has been   *)
(* typed (one thread at a time), and the time-to-live thread.  An abort that *)
(* throws restarts its loop, but has refreshed the time stamp of that       *)
(* transaction, so that the loop gets to the others.                        *)
Fairness == /\ WF_vars(Connect \/ Send \/ Run)
            /\ \A x \in Xid : WF_vars(Reap(x))

FairSpec == Spec /\ Fairness

-----------------------------------------------------------------------------
(* Though the client runs a command again after a ConnectException, and the *)
(* middleware may stop at any point of a call, it is run at most once.      *)
AtMostOnce == runs <= 1

(* When commit reports success, the servers have committed all the writes   *)
(* that were acknowledged: none of them has started again, and forgotten    *)
(* what the transaction had written before it used that server again.       *)
CommittedIsStored ==
    pc = "commit" /\ at > Len(Servers) => acked[cmd.x] \subseteq stored[cmd.x]

(* A command that was not sent because the middleware had stopped reaches   *)
(* the middleware that has been started again, if that goes on running.     *)
RetryReaches ==
    [](/\ cpc = (IF again THEN "connect" ELSE "send")
       /\ []Up("middleware")
       => <>(runs = 1))

(* A transaction that is left alone is ended by the time-to-live thread if  *)
(* the servers go on running and the middleware had found them when the     *)
(* transaction was started: each server that it counts as used has heard of *)
(* it, so that no abort throws.                                             *)
LeftAlone(x) == <>[][Type => cmd'.op = "start" \/ cmd'.x # x]_vars

EndsIfServersStay ==
    \A x \in Xid :
        /\ LeftAlone(x)
        /\ <>[](\A s \in Server : Reachable(s))
        /\ [](active[x] = "active" => looked = Len(Servers))
        => [](active[x] = "active" => <>(active[x] # "active"))
=============================================================================
