-------------------------- MODULE DeploymentProofs --------------------------
(* Theorems about Deployment for any number of servers, transactions and   *)
(* restarts.                                                               *)
EXTENDS Deployment, TLAPS

-----------------------------------------------------------------------------
(* A command is run at most once.                                          *)

(* A command has been run when the client is in the call, and only then.   *)
RunWhenCalled == /\ runs \in {0, 1}
                 /\ cpc # "called" => runs = 0

LEMMA RunWhenCalledNext ==
    ASSUME RunWhenCalled, [Next]_vars
    PROVE  RunWhenCalled'
<1> USE DEF RunWhenCalled
<1>1. CASE UNCHANGED client
  BY <1>1 DEF client
<1>2. CASE Done
  BY <1>2 DEF Done
<1>3. ASSUME NEW s \in Server, StartRegistry(s) \/ StartServer(s) \/ StopServer(s)
      PROVE  UNCHANGED client
  BY <1>3 DEF StartRegistry, StartServer, StopServer
<1>4. CASE StartMiddleware
  BY <1>4, <1>1 DEF StartMiddleware
<1>5. CASE Exit
  BY <1>5, <1>2 DEF Exit, Lost
<1>6. CASE LookUp
  BY <1>6, <1>1, <1>5 DEF LookUp, Found
<1>7. CASE Connect \/ Type
  BY <1>7 DEF Connect, Type
<1>8. CASE Send
  BY <1>8, <1>2 DEF Send
<1>9. CASE Run
  BY <1>9, <1>1, <1>2 DEF Run, RunStart, RunInvalid, Attach, Begin, Write, Commit,
     CommitAt, EndCommit, RunAbort, Answer, client
<1>10. ASSUME NEW x \in Xid, Reap(x) PROVE UNCHANGED client
  BY <1>10 DEF Reap
<1>11. CASE UNCHANGED vars
  BY <1>11, <1>1 DEF vars
<1> QED
  BY <1>1, <1>3, <1>4, <1>5, <1>6, <1>7, <1>8, <1>9, <1>10, <1>11
     DEF Next, StopMiddleware

(* Client.java runs a command again after a ConnectException, in which case *)
(* it has not been run: nothing is run twice, whoever stops and starts.     *)
THEOREM RunAtMostOnce == Spec => []AtMostOnce
<1>1. Init => RunWhenCalled
  BY DEF Init, RunWhenCalled
<1>2. RunWhenCalled /\ [Next]_vars => RunWhenCalled'
  BY RunWhenCalledNext
<1>3. RunWhenCalled => AtMostOnce
  BY DEF RunWhenCalled, AtMostOnce
<1> QED BY <1>1, <1>2, <1>3, PTL DEF Spec

-----------------------------------------------------------------------------
(* Commit.                                                                 *)

Types == /\ inc \in [Process -> Nat]
         /\ binding \in [Server -> Nat]
         /\ looked \in 0 .. Len(Servers)
         /\ refs \in [Server -> Nat]
         /\ rms \in [Xid -> SUBSET Server]
         /\ at \in Nat \ {0}
         /\ cmd \in Command
         /\ acked \in [Xid -> SUBSET (Server \X Nat)]
         /\ stored \in [Xid -> SUBSET (Server \X Nat)]

(* What runs has been started, and has its incarnation.                    *)
Started == \A p \in up : p \in Process /\ inc[p] # 0

(* A server has a reference only after its look-up, which happens once.     *)
LookedUp == \A i \in DOMAIN Servers : refs[Servers[i]] # 0 => i <= looked

(* The middleware works while the client waits, on the client's command.   *)
Serving == /\ pc # "idle" => cpc = "called"
           /\ pc \in {"begin", "call"} => cmd.op = "use"
           /\ IF pc = "commit" THEN cmd.op = "commit" ELSE at = 1

(* The server that is being called counts as used.                         *)
Noted == pc \in {"begin", "call"} => cmd.s \in rms[cmd.x]

(* Every acknowledged write was made at the incarnation that the middleware *)
(* still refers to.                                                        *)
Acknowledged == \A x \in Xid : \A w \in acked[x] :
                   w[1] \in rms[x] /\ w[2] = refs[w[1]] /\ w[2] # 0

(* The servers that a commit has passed have committed.                    *)
Passed == pc = "commit" =>
             \A i \in DOMAIN Servers :
                i < at /\ Servers[i] \in rms[cmd.x] =>
                   /\ refs[Servers[i]] # 0
                   /\ <<Servers[i], refs[Servers[i]]>> \in stored[cmd.x]

Inv == /\ Types /\ Started /\ LookedUp
       /\ Serving /\ Noted /\ Acknowledged /\ Passed

used == <<looked, refs, rms, acked, stored>>   \* what the commit is about

LEMMA ServersType ==
    /\ Len(Servers) \in Nat
    /\ DOMAIN Servers = 1 .. Len(Servers)
    /\ \A i \in DOMAIN Servers : Servers[i] \in Server
    /\ \A s \in Server : s \in Process
  BY ServersAssumption DEF Server, Process

LEMMA CommandType ==
    ASSUME NEW c \in Command, c.op # "start"
    PROVE  c.x \in Xid /\ (c.op = "use" => c.s \in Server)
  BY DEF Command, Start

(* A command that has been answered leaves nothing to show.                *)
LEMMA AnswerStep ==
    ASSUME Inv, Answer,
           looked' = looked, refs' = refs, binding' = binding,
           rms' \in [Xid -> SUBSET Server],
           acked' \in [Xid -> SUBSET (Server \X Nat)],
           stored' \in [Xid -> SUBSET (Server \X Nat)],
           Acknowledged'
    PROVE  Inv'
<1> USE DEF Inv, Answer, Done
<1>1. Types'
  BY DEF Types, Command
<1>2. Started' /\ LookedUp'
  BY DEF Started, LookedUp
<1>3. Serving' /\ Noted' /\ Passed'
  BY DEF Serving, Noted, Passed
<1> QED BY <1>1, <1>2, <1>3

(* A transaction that has ended is forgotten.                              *)
LEMMA ForgetStep ==
    ASSUME Inv, NEW x \in Xid, Forget(x), refs' = refs
    PROVE  /\ rms' \in [Xid -> SUBSET Server]
           /\ acked' \in [Xid -> SUBSET (Server \X Nat)]
           /\ stored' \in [Xid -> SUBSET (Server \X Nat)]
           /\ Acknowledged'
           /\ \A y \in Xid \ {x} : rms'[y] = rms[y] /\ stored'[y] = stored[y]
<1> USE DEF Inv, Forget
<1>1. /\ rms' \in [Xid -> SUBSET Server]
      /\ acked' \in [Xid -> SUBSET (Server \X Nat)]
      /\ stored' \in [Xid -> SUBSET (Server \X Nat)]
  BY DEF Types
<1>2. \A y \in Xid \ {x} : /\ rms'[y] = rms[y]
                           /\ acked'[y] = acked[y]
                           /\ stored'[y] = stored[y]
  BY DEF Types
<1>3. acked'[x] = {}
  BY DEF Types
<1>4. Acknowledged'
  BY <1>2, <1>3 DEF Acknowledged
<1> QED BY <1>1, <1>2, <1>4

(* The end of the middleware.                                              *)
LEMMA ExitStep ==
    ASSUME Inv, Exit, UNCHANGED servers
    PROVE  Inv'
<1> USE DEF Inv, Exit, servers
<1>1. cmd' \in Command
  BY DEF Lost, Done, Types, Command
<1>2. Types'
  BY <1>1, ServersType DEF Types, Nowhere
<1>3. Started'
  BY DEF Started
<1>4. LookedUp'
  BY ServersType DEF LookedUp
<1>5. Serving' /\ Noted' /\ Passed'
  BY DEF Serving, Noted, Passed
<1>6. Acknowledged'
  BY DEF Acknowledged, Nowhere
<1> QED BY <1>2, <1>3, <1>4, <1>5, <1>6

(* Steps that leave alone what a commit is about.                          *)
LEMMA FrameStep ==
    ASSUME Inv, UNCHANGED used, UNCHANGED <<pc, at>>,
           inc' \in [Process -> Nat], binding' \in [Server -> Nat], Started',
           \/ UNCHANGED <<cpc, cmd>>
           \/ cpc # "called" /\ cmd' \in Command
    PROVE  Inv'
<1> USE DEF Inv, used
<1>1. Types'
  BY DEF Types
<1>2. LookedUp' /\ Acknowledged'
  BY DEF LookedUp, Acknowledged
<1>3. Serving' /\ Noted' /\ Passed'
  BY DEF Serving, Noted, Passed
<1> QED BY <1>1, <1>2, <1>3

LEMMA ProcessStep ==
    ASSUME Inv,
           \/ StartMiddleware
           \/ \E s \in Server : StartRegistry(s) \/ StartServer(s) \/ StopServer(s)
    PROVE  Inv'
<1> USE DEF Inv, Types
<1>1. ASSUME NEW p \in Process, Launch(p)
      PROVE  Started' /\ inc' \in [Process -> Nat]
  BY <1>1 DEF Launch, Up, Started
<1>2. CASE StartMiddleware
  <2>1. Started' /\ inc' \in [Process -> Nat]
    BY <1>1, <1>2 DEF StartMiddleware, Process
  <2> QED BY <2>1, <1>2, FrameStep
       DEF StartMiddleware, servers, middleware, client, used
<1>3. ASSUME NEW s \in Server, StartRegistry(s) PROVE Inv'
  <2>1. Started'
    BY <1>3 DEF StartRegistry, Started
  <2> QED BY <1>3, <2>1, FrameStep DEF StartRegistry, middleware, client, history, used
<1>4. ASSUME NEW s \in Server, StartServer(s) PROVE Inv'
  <2>1. Started' /\ inc' \in [Process -> Nat]
    BY <1>1, <1>4, ServersType DEF StartServer
  <2>2. binding' \in [Server -> Nat]
    BY <2>1, <1>4, ServersType DEF StartServer
  <2> QED BY <1>4, <2>1, <2>2, FrameStep DEF StartServer, middleware, client, used
<1>5. ASSUME NEW s \in Server, StopServer(s) PROVE Inv'
  <2>1. Started'
    BY <1>5 DEF StopServer, Started
  <2>2. binding' \in [Server -> Nat]
    BY <1>5 DEF StopServer
  <2> QED BY <1>5, <2>1, <2>2, FrameStep DEF StopServer, middleware, client, history, used
<1> QED BY <1>2, <1>3, <1>4, <1>5

LEMMA ClientStep ==
    ASSUME Inv, Connect \/ Type \/ Send
    PROVE  Inv'
<1> USE DEF Inv
<1>1. CASE Connect \/ Type
  <2>1. Started' /\ inc' \in [Process -> Nat] /\ binding' \in [Server -> Nat]
    BY <1>1 DEF Connect, Type, servers, Started, Types
  <2>2. UNCHANGED used /\ UNCHANGED <<pc, at>>
    BY <1>1 DEF Connect, Type, middleware, history, used
  <2>3. cpc # "called" /\ cmd' \in Command
    BY <1>1 DEF Connect, Type, Types
  <2> QED BY <2>1, <2>2, <2>3, FrameStep
<1>2. CASE Send
  <2>1. cmd' \in Command
    BY <1>2 DEF Send, Done, Types, Command
  <2>2. Types'
    BY <1>2, <2>1 DEF Send, servers, middleware, history, Types
  <2>3. Started' /\ LookedUp' /\ Acknowledged'
    BY <1>2 DEF Send, middleware, history, Started, LookedUp, Acknowledged
  <2>4. Serving' /\ Noted' /\ Passed'
    BY <1>2 DEF Send, Serving, Noted, Passed
  <2> QED BY <2>2, <2>3, <2>4
<1> QED BY <1>1, <1>2

(* A look-up concerns a server that no write and no commit has reached.    *)
LEMMA LookUpStep ==
    ASSUME Inv, LookUp
    PROVE  Inv'
<1> USE DEF Inv
<1>1. CASE Exit
  BY <1>1, ExitStep DEF LookUp
<1>2. ASSUME NEW n \in Nat, Found(Servers[looked + 1], n) PROVE Inv'
  <2> DEFINE s == Servers[looked + 1]
  <2>1. looked + 1 \in DOMAIN Servers /\ s \in Server
    BY ServersType DEF LookUp, Types
  <2>2. refs[s] = 0
    BY <2>1 DEF LookedUp, Types
  <2>3. refs' = [refs EXCEPT ![s] = n] /\ looked' = looked + 1
    BY <1>2 DEF Found
  <2>4. /\ UNCHANGED <<inc, up, binding, rms, pc, at, cpc, cmd, acked, stored>>
    BY <1>2 DEF Found, LookUp, servers, client, history
  <2>5. \A t \in Server : refs[t] # 0 => refs'[t] = refs[t]
    BY <2>1, <2>2, <2>3 DEF Types
  <2>6. Types'
    BY <2>1, <2>3, <2>4, ServersType DEF Types, LookUp
  <2>7. Started' /\ Serving' /\ Noted'
    BY <2>4 DEF Started, Serving, Noted
  <2>8. LookedUp'
    <3> SUFFICES ASSUME NEW i \in DOMAIN Servers, refs'[Servers[i]] # 0
                 PROVE  i <= looked'
      BY DEF LookedUp
    <3>1. CASE i = looked + 1
      BY <3>1, <2>3 DEF Types
    <3>2. CASE i # looked + 1
      <4>1. Servers[i] # s /\ Servers[i] \in Server
        BY <3>2, <2>1, ServersAssumption, ServersType
      <4>2. refs'[Servers[i]] = refs[Servers[i]]
        BY <4>1, <2>3 DEF Types
      <4> QED BY <4>2, <2>3, ServersType DEF LookedUp, Types
    <3> QED BY <3>1, <3>2
  <2>9. Acknowledged'
    <3> SUFFICES ASSUME NEW x \in Xid, NEW w \in acked[x]
                 PROVE  w[1] \in rms[x] /\ w[2] = refs'[w[1]] /\ w[2] # 0
      BY <2>4 DEF Acknowledged
    <3>1. w[1] \in rms[x] /\ w[2] = refs[w[1]] /\ w[2] # 0
      BY DEF Acknowledged
    <3>2. w[1] \in Server
      BY DEF Types
    <3> QED BY <3>1, <3>2, <2>5
  <2>10. Passed'
    <3> SUFFICES ASSUME pc = "commit", NEW i \in DOMAIN Servers,
                        i < at, Servers[i] \in rms[cmd.x]
                 PROVE  /\ refs'[Servers[i]] # 0
                        /\ <<Servers[i], refs'[Servers[i]]>> \in stored[cmd.x]
      BY <2>4 DEF Passed
    <3> QED BY <2>5, ServersType DEF Passed
  <2> QED BY <2>6, <2>7, <2>8, <2>9, <2>10
<1>3. Servers[looked + 1] \in Server
  BY ServersType DEF LookUp, Types
<1> QED BY <1>1, <1>2, <1>3 DEF LookUp, Types

LEMMA CommitAtStep ==
    ASSUME Inv, CommitAt
    PROVE  Inv'
<1> USE DEF Inv
<1>0. pc = "commit" /\ cpc = "called" /\ cmd.op = "commit" /\ at \in DOMAIN Servers
  BY ServersType DEF CommitAt, Serving, Types
<1>1. PICK s \in Server, x \in Xid : s = Servers[at] /\ x = cmd.x
  BY <1>0, CommandType, ServersType DEF Types
<1>2. CASE Answer /\ UNCHANGED stored
  BY <1>2, AnswerStep DEF CommitAt, middleware, Acknowledged, Types
<1>3. CASE /\ at' = at + 1
           /\ UNCHANGED <<inc, up, pc, client>>
           /\ \/ s \notin rms[x] /\ UNCHANGED stored
              \/ /\ s \in rms[x] /\ Reachable(s)
                 /\ stored' = [stored EXCEPT ![x] = @ \cup {<<s, inc[s]>>}]
  <2>1. UNCHANGED <<looked, refs, rms, acked, inc, up, binding, pc, cpc, cmd>>
    BY <1>3 DEF CommitAt, middleware, client
  <2>2. <<s, inc[s]>> \in Server \X Nat
    BY ServersType DEF Types
  <2>3. stored' \in [Xid -> SUBSET (Server \X Nat)]
    <3>1. stored \in [Xid -> SUBSET (Server \X Nat)]
      BY DEF Types
    <3>2. \/ stored' = stored
          \/ stored' = [stored EXCEPT ![x] = stored[x] \cup {<<s, inc[s]>>}]
      BY <1>3
    <3>3. stored[x] \cup {<<s, inc[s]>>} \in SUBSET (Server \X Nat)
      BY <2>2, <3>1
    <3> QED BY <3>1, <3>2, <3>3
  <2>4. Types'
    BY <1>3, <2>1, <2>3 DEF Types
  <2>5. Started' /\ LookedUp' /\ Noted' /\ Acknowledged'
    BY <2>1 DEF Started, LookedUp, Noted, Acknowledged
  <2>6. Serving'
    BY <1>0, <2>1 DEF Serving
  <2>7. s \in rms[x] => refs[s] # 0 /\ <<s, refs[s]>> \in stored'[x]
    BY <1>3, ServersType DEF Reachable, Up, Started, Types
  <2>8. stored[x] \subseteq stored'[x]
    BY <1>3 DEF Types
  <2>9. Passed'
    <3> SUFFICES ASSUME NEW i \in DOMAIN Servers, i < at + 1, Servers[i] \in rms[x]
                 PROVE  /\ refs[Servers[i]] # 0
                        /\ <<Servers[i], refs[Servers[i]]>> \in stored'[x]
      BY <1>1, <1>3, <2>1 DEF Passed
    <3>1. i = at \/ i < at
      BY ServersType DEF Types
    <3> QED BY <3>1, <1>0, <1>1, <2>7, <2>8 DEF Passed
  <2> QED BY <2>4, <2>5, <2>6, <2>9
<1> QED BY <1>1, <1>2, <1>3 DEF CommitAt

LEMMA RunStep ==
    ASSUME Inv, Run
    PROVE  Inv'
<1> USE DEF Inv
<1>0. cmd.op # "start" => cmd.x \in Xid /\ (cmd.op = "use" => cmd.s \in Server)
  BY CommandType DEF Types
<1>1. CASE RunStart \/ RunInvalid
  BY <1>1, AnswerStep
     DEF RunStart, RunInvalid, servers, middleware, history, Types, Acknowledged
<1>2. CASE Attach
  <2>1. /\ cmd.x \in Xid /\ cmd.s \in Server
        /\ rms' = [rms EXCEPT ![cmd.x] = @ \cup {cmd.s}]
        /\ pc = "run" /\ pc' = "begin" /\ cmd.op = "use"
        /\ UNCHANGED <<inc, up, binding, looked, refs, acked, stored, at, cpc, cmd>>
    BY <1>0, <1>2 DEF Attach, servers, history, client
  <2>2. rms' \in [Xid -> SUBSET Server] /\ \A x \in Xid : rms[x] \subseteq rms'[x]
    BY <2>1 DEF Types
  <2>3. cmd.s \in rms'[cmd.x]
    BY <2>1 DEF Types
  <2>4. Types' /\ Started' /\ LookedUp'
    BY <2>1, <2>2 DEF Types, Started, LookedUp
  <2>5. Serving' /\ Noted' /\ Passed'
    BY <2>1, <2>3 DEF Serving, Noted, Passed
  <2>6. Acknowledged'
    BY <2>1, <2>2 DEF Acknowledged
  <2> QED BY <2>4, <2>5, <2>6
<1>3. CASE Begin
  <2>1. CASE Answer
    BY <1>3, <2>1, AnswerStep DEF Begin, middleware, history, Types, Acknowledged
  <2>2. CASE pc' = "call" /\ UNCHANGED <<inc, up, at, client>>
    <3>1. /\ pc = "begin"
          /\ UNCHANGED <<inc, up, binding, looked, refs, rms, acked, stored, at,
                         cpc, cmd>>
      BY <1>3, <2>2 DEF Begin, middleware, history, client
    <3>2. Types' /\ Started' /\ LookedUp' /\ Acknowledged'
      BY <3>1 DEF Types, Started, LookedUp, Acknowledged
    <3>3. Serving' /\ Noted' /\ Passed'
      BY <3>1, <2>2 DEF Serving, Noted, Passed
    <3> QED BY <3>2, <3>3
  <2> QED BY <1>3, <2>1, <2>2 DEF Begin
<1>4. CASE Write
  <2>1. cmd.x \in Xid /\ cmd.s \in Server /\ cmd.s \in rms[cmd.x]
    BY <1>0, <1>4 DEF Write, Serving, Noted
  <2>2. Answer /\ UNCHANGED <<looked, refs, binding, rms, stored>>
    BY <1>4 DEF Write, middleware
  <2>3. \/ UNCHANGED acked
        \/ /\ Reachable(cmd.s)
           /\ acked' = [acked EXCEPT ![cmd.x] = @ \cup {<<cmd.s, inc[cmd.s]>>}]
    BY <1>4 DEF Write
  <2>4. acked' \in [Xid -> SUBSET (Server \X Nat)]
    BY <2>1, <2>3, ServersType DEF Types
  <2>5. Reachable(cmd.s) => inc[cmd.s] = refs[cmd.s] /\ inc[cmd.s] # 0
    BY DEF Reachable, Up, Started
  <2>6. \A x \in Xid : \A w \in acked'[x] :
           \/ w \in acked[x]
           \/ x = cmd.x /\ w = <<cmd.s, inc[cmd.s]>> /\ Reachable(cmd.s)
    BY <2>1, <2>3 DEF Types
  <2>7. Acknowledged'
    BY <2>1, <2>2, <2>5, <2>6 DEF Acknowledged
  <2> QED BY <2>2, <2>4, <2>7, AnswerStep DEF Types
<1>5. CASE Commit
  <2>1. /\ pc = "run" /\ pc' = "commit" /\ cmd.op = "commit" /\ at = 1
        /\ UNCHANGED <<inc, up, binding, looked, refs, rms, acked, stored, at,
                       cpc, cmd>>
    BY <1>5 DEF Commit, servers, middleware, history, client, Serving
  <2>2. Types' /\ Started' /\ LookedUp' /\ Acknowledged'
    BY <2>1 DEF Types, Started, LookedUp, Acknowledged
  <2>3. Serving' /\ Noted'
    BY <2>1 DEF Serving, Noted
  <2>4. Passed'
    BY <2>1, ServersType DEF Passed
  <2> QED BY <2>2, <2>3, <2>4
<1>6. CASE CommitAt
  BY <1>6, CommitAtStep
<1>7. CASE EndCommit
  <2>1. cmd.x \in Xid /\ Forget(cmd.x) /\ Answer
    BY <1>0, <1>7 DEF EndCommit, Serving
  <2>2. looked' = looked /\ refs' = refs /\ binding' = binding
    BY <1>7 DEF EndCommit, servers
  <2> QED BY <2>1, <2>2, ForgetStep, AnswerStep
<1>8. CASE RunAbort
  <2>1. /\ cmd.x \in Xid /\ Answer
        /\ looked' = looked /\ refs' = refs /\ binding' = binding
    BY <1>0, <1>8 DEF RunAbort
  <2>2. CASE Forget(cmd.x)
    BY <2>1, <2>2, ForgetStep, AnswerStep
  <2>3. CASE UNCHANGED <<rms, acked, stored>>
    BY <2>1, <2>3, AnswerStep DEF Types, Acknowledged
  <2> QED BY <1>8, <2>2, <2>3 DEF RunAbort
<1> QED BY <1>1, <1>2, <1>3, <1>4, <1>5, <1>6, <1>7, <1>8 DEF Run

(* The time-to-live thread does not touch the call that is being made.     *)
LEMMA ReapStep ==
    ASSUME Inv, NEW x \in Xid, Reap(x)
    PROVE  Inv'
<1> USE DEF Inv
<1>1. UNCHANGED <<inc, up, binding, looked, refs, pc, at, cpc, cmd>>
  BY DEF Reap, client
<1>2. Started'
  BY <1>1 DEF Started
<1>3. CASE UNCHANGED <<rms, acked, stored>>
  BY <1>1, <1>2, <1>3, FrameStep DEF used, Types
<1>4. CASE Forget(x) /\ ~(cpc = "called" /\ cmd.op # "start" /\ cmd.x = x)
  <2>1. pc \in {"begin", "call", "commit"} => cmd.x \in Xid \ {x}
    BY <1>4, CommandType DEF Serving, Types
  <2>2. /\ rms' \in [Xid -> SUBSET Server]
        /\ acked' \in [Xid -> SUBSET (Server \X Nat)]
        /\ stored' \in [Xid -> SUBSET (Server \X Nat)]
        /\ Acknowledged'
        /\ \A y \in Xid \ {x} : rms'[y] = rms[y] /\ stored'[y] = stored[y]
    BY <1>1, <1>4, ForgetStep
  <2>3. Types' /\ LookedUp' /\ Serving'
    BY <1>1, <2>2 DEF Types, LookedUp, Serving
  <2>4. Noted' /\ Passed'
    BY <1>1, <2>1, <2>2 DEF Noted, Passed
  <2> QED BY <1>2, <2>2, <2>3, <2>4
<1> QED BY <1>3, <1>4 DEF Reap

LEMMA InvNext ==
    ASSUME Inv, [Next]_vars
    PROVE  Inv'
<1>1. CASE StopMiddleware
  BY <1>1, ExitStep DEF StopMiddleware
<1>2. CASE UNCHANGED vars
  <2>1. Started'
    BY <1>2 DEF vars, Inv, Started
  <2> QED BY <1>2, <2>1, FrameStep
       DEF vars, servers, middleware, history, client, used, Inv, Types
<1> QED BY <1>1, <1>2, ProcessStep, ClientStep, LookUpStep, RunStep, ReapStep DEF Next

LEMMA InvInit == Init => Inv
<1> SUFFICES ASSUME Init PROVE Inv
  OBVIOUS
<1> USE DEF Init
<1>1. Types
  BY ServersType DEF Types, Command, Nowhere
<1>2. Started /\ Serving /\ Noted /\ Passed
  BY DEF Started, Serving, Noted, Passed
<1>3. LookedUp
  BY ServersType DEF LookedUp
<1>4. Acknowledged
  BY DEF Acknowledged, Nowhere
<1> QED BY <1>1, <1>2, <1>3, <1>4 DEF Inv

(* When commit reports success, every acknowledged write of the transaction *)
(* is committed, though servers stop and start again and lose the           *)
(* transaction's copies, because the middleware never looks a server up     *)
(* again: it cannot reach one that has forgotten something.                *)
THEOREM SuccessIsStored == Spec => []CommittedIsStored
<1>1. Inv => CommittedIsStored
  <2> SUFFICES ASSUME Inv, pc = "commit", at > Len(Servers), NEW w \in acked[cmd.x]
               PROVE  w \in stored[cmd.x]
    BY DEF CommittedIsStored
  <2> USE DEF Inv
  <2>1. cmd.x \in Xid
    BY CommandType DEF Serving, Types
  <2>2. w \in Server \X Nat /\ w[1] \in rms[cmd.x] /\ w[2] = refs[w[1]]
    BY <2>1 DEF Types, Acknowledged
  <2>3. PICK i \in DOMAIN Servers : w[1] = Servers[i]
    BY <2>2 DEF Server
  <2>4. i < at
    BY ServersType DEF Types
  <2>5. <<w[1], w[2]>> \in stored[cmd.x]
    BY <2>2, <2>3, <2>4 DEF Passed
  <2> QED BY <2>2, <2>5
<1>2. Inv /\ [Next]_vars => Inv'
  BY InvNext
<1> QED BY <1>1, <1>2, InvInit, PTL DEF Spec

-----------------------------------------------------------------------------
(* The types, with the bounds that Budget sets.                             *)

(* A start that has been typed is paid for and has yet to be run.           *)
StartTyped == cmd.op = "start" /\ (cpc \in {"send", "called"} \/ again)

Paid == /\ inc \in [Process -> Nat] /\ budget \in Nat /\ first_xid \in Nat
        /\ \A p \in Process : inc[p] + budget <= Budget + 1
        /\ first_xid + budget <= Budget
        /\ StartTyped => first_xid + 1 + budget <= Budget

References == /\ up \subseteq Process /\ registry \subseteq Server
              /\ binding \in [Server -> Nat] /\ refs \in [Server -> Nat]
              /\ \A s \in Server : binding[s] <= inc[s] /\ refs[s] <= inc[s]
              /\ stub \in 0 .. inc["middleware"]

Tables == table \in [Server -> [Xid -> Entry]]

(* The middleware knows just the transactions it has started.               *)
Transactions == /\ active \in [Xid -> Entry]
                /\ \A x \in Xid : active[x] = "none" <=> x > first_xid
                /\ pc = "commit" => cmd.x <= first_xid

Places == /\ pc \in {"idle", "run", "begin", "call", "commit"}
          /\ cpc \in {"connect", "ready", "send", "called"}
          /\ again \in BOOLEAN
          /\ at <= Len(Servers) + 1

Recorded == /\ acked \in [Xid -> SUBSET (Server \X Incarnation)]
            /\ stored \in [Xid -> SUBSET (Server \X Incarnation)]

AllTypes == /\ Inv /\ RunWhenCalled /\ Paid /\ References /\ Tables
            /\ Transactions /\ Places /\ Recorded

ServerActions(s) == StartRegistry(s) \/ StartServer(s) \/ StopServer(s)

LEMMA PaidNext ==
    ASSUME AllTypes, [Next]_vars PROVE Paid'
<1> USE BudgetAssumption DEF AllTypes
<1>0. Paid /\ Serving
  BY DEF Inv
<1>1. ASSUME NEW p \in Process, Launch(p), UNCHANGED <<first_xid, client>>
      PROVE  Paid'
  BY <1>0, <1>1 DEF Launch, Paid, StartTyped, client
<1>2. ASSUME NEW s \in Server, ServerActions(s) PROVE Paid'
  <2>1. CASE StartServer(s)
    BY <1>1, <2>1, ServersType DEF StartServer, middleware
  <2>2. CASE StartRegistry(s) \/ StopServer(s)
    BY <1>0, <2>2 DEF StartRegistry, StopServer, Paid, StartTyped, client,
                      middleware, history
  <2> QED BY <1>2, <2>1, <2>2 DEF ServerActions
<1>3. CASE StartMiddleware
  BY <1>1, <1>3 DEF StartMiddleware, middleware, Process
<1>4. CASE Exit
  BY <1>0, <1>4 DEF Exit, Lost, Done, Paid, StartTyped
<1>5. CASE LookUp
  BY <1>0, <1>4, <1>5 DEF LookUp, Found, Paid, StartTyped, client, history
<1>6. CASE Connect \/ Send
  BY <1>0, <1>6 DEF Connect, Send, Done, Paid, StartTyped, middleware, history
<1>7. CASE Type
  BY <1>0, <1>7 DEF Type, Paid, StartTyped, middleware, Places
<1>8. CASE Answer /\ UNCHANGED <<first_xid, budget>>
  BY <1>0, <1>8 DEF Answer, Done, Paid, StartTyped
<1>9. CASE RunStart
  BY <1>0, <1>9 DEF RunStart, Answer, Done, Paid, StartTyped, Serving, history
<1>10. CASE UNCHANGED <<inc, first_xid, budget, client>>
  BY <1>0, <1>10 DEF Paid, StartTyped, client
<1>11. CASE Run
  BY <1>8, <1>9, <1>10, <1>11 DEF Run, RunInvalid, Attach, Begin, Write, Commit,
     CommitAt, EndCommit, RunAbort, middleware, history, client
<1>12. ASSUME NEW x \in Xid, Reap(x) PROVE Paid'
  BY <1>10, <1>12 DEF Reap
<1>13. CASE UNCHANGED vars
  BY <1>10, <1>13 DEF vars, middleware, history
<1> QED BY <1>2, <1>3, <1>4, <1>5, <1>6, <1>7, <1>11, <1>12, <1>13
        DEF Next, ServerActions, StopMiddleware

LEMMA ReferencesNext ==
    ASSUME AllTypes, [Next]_vars PROVE References'
<1> USE DEF AllTypes
<1>0. References /\ Paid
  OBVIOUS
<1>1. ASSUME NEW p \in Process, Launch(p)
      PROVE  /\ up' \subseteq Process
             /\ inc'[p] = inc[p] + 1
             /\ \A q \in Process : inc[q] <= inc'[q]
             /\ \A q \in Process : inc[q] \in Nat /\ inc'[q] \in Nat
  BY <1>0, <1>1 DEF Launch, References, Paid
<1>2. ASSUME NEW s \in Server, StartServer(s) PROVE References'
  <2>1. /\ up' \subseteq Process
        /\ \A q \in Process : inc[q] <= inc'[q]
        /\ \A q \in Process : inc[q] \in Nat /\ inc'[q] \in Nat
    BY <1>1, <1>2, ServersType DEF StartServer
  <2>2. /\ binding' = [binding EXCEPT ![s] = inc'[s]]
        /\ UNCHANGED <<registry, refs, stub>>
    BY <1>2 DEF StartServer, middleware, client
  <2>3. s \in Process /\ "middleware" \in Process /\ Server \subseteq Process
    BY ServersType DEF Process
  <2> QED BY <1>0, <2>1, <2>2, <2>3 DEF References
<1>3. CASE StartMiddleware
  <2>1. /\ up' \subseteq Process
        /\ \A q \in Process : inc[q] <= inc'[q]
        /\ \A q \in Process : inc[q] \in Nat /\ inc'[q] \in Nat
    BY <1>1, <1>3 DEF StartMiddleware, Process
  <2>2. UNCHANGED <<registry, binding, refs, stub>>
    BY <1>3 DEF StartMiddleware, servers, middleware, client
  <2>3. "middleware" \in Process /\ Server \subseteq Process
    BY ServersType DEF Process
  <2> QED BY <1>0, <2>1, <2>2, <2>3 DEF References
<1>4. ASSUME NEW s \in Server, StartRegistry(s) \/ StopServer(s)
      PROVE  References'
  <2>1. inc[s] \in Nat
    BY <1>0, ServersType DEF Paid
  <2> QED BY <1>0, <1>4, <2>1 DEF StartRegistry, StopServer, References, middleware, client
<1>5. CASE Exit /\ UNCHANGED servers
  <2>1. \A s \in Server : inc[s] \in Nat
    BY <1>0, ServersType DEF Paid
  <2> QED BY <1>0, <1>5, <2>1 DEF Exit, servers, References
<1>6. ASSUME NEW s \in Server, NEW n \in {0, binding[s]}, Found(s, n),
             UNCHANGED servers
      PROVE  References'
  <2>1. n <= inc[s] /\ n \in Nat
    BY <1>0, <1>6, ServersType DEF References, Paid
  <2> QED BY <1>0, <1>6, <2>1 DEF Found, servers, References, client
<1>7. CASE LookUp
  <2>1. looked + 1 \in DOMAIN Servers
    BY <1>7, ServersType DEF LookUp, Inv, Types
  <2>2. Servers[looked + 1] \in Server
    BY <2>1, ServersType
  <2> QED BY <2>2, <1>5, <1>6, <1>7, <2>1 DEF LookUp
<1>8. CASE Connect
  <2>1. inc["middleware"] \in Nat
    BY <1>0 DEF Paid, Process
  <2> QED BY <1>0, <1>8, <2>1 DEF Connect, mw, References, servers, middleware
<1>9. CASE UNCHANGED <<inc, up, registry, binding, refs, stub>>
  BY <1>0, <1>9 DEF References
<1>10. CASE Type \/ Send \/ UNCHANGED vars
  BY <1>9, <1>10 DEF Type, Send, vars, servers, middleware, client
<1>11. CASE Run
  BY <1>9, <1>11 DEF Run, RunStart, RunInvalid, Attach, Begin, Write, Commit,
     CommitAt, EndCommit, RunAbort, Answer, servers, middleware, client
<1>12. ASSUME NEW x \in Xid, Reap(x) PROVE References'
  BY <1>9, <1>12 DEF Reap, client
<1> QED BY <1>2, <1>3, <1>4, <1>5, <1>7, <1>8, <1>10, <1>11, <1>12
        DEF Next, StopMiddleware

LEMMA TablesNext ==
    ASSUME AllTypes, [Next]_vars PROVE Tables'
<1> USE DEF AllTypes
<1>0. Tables /\ \A e \in {"none", "active", "ended"} : e \in Entry
  BY DEF Entry
<1>1. ASSUME NEW s \in Server, StopServer(s) PROVE Tables'
  <2>1. Unknown \in [Xid -> Entry]
    BY <1>0 DEF Unknown
  <2> QED BY <1>0, <1>1, <2>1 DEF StopServer, Tables
<1>2. ASSUME NEW s \in Server, NEW x \in Xid, NEW e \in Entry,
             table' = [table EXCEPT ![s][x] = e]
      PROVE  Tables'
  <2>1. [table[s] EXCEPT ![x] = e] \in [Xid -> Entry]
    BY <1>0 DEF Tables
  <2> QED BY <1>0, <1>2, <2>1 DEF Tables
<1>3. CASE UNCHANGED table
  BY <1>0, <1>3 DEF Tables
<1>4. CASE Begin
  <2>1. cmd.op = "use" /\ cmd.x \in Xid /\ cmd.s \in Server
    BY <1>4, CommandType DEF Begin, Inv, Serving, Types
  <2> QED BY <1>0, <1>2, <1>3, <1>4, <2>1 DEF Begin
<1>5. CASE CommitAt
  <2>1. cmd.x \in Xid /\ Servers[at] \in Server
    BY <1>5, CommandType, ServersType DEF CommitAt, Inv, Serving, Types
  <2> QED BY <1>0, <1>2, <1>3, <1>5, <2>1 DEF CommitAt
<1>6. ASSUME NEW x \in Xid, AbortTransaction(x) PROVE Tables'
  <2>1. \A s \in Server : [table[s] EXCEPT ![x] = "ended"] \in [Xid -> Entry]
    BY <1>0 DEF Tables
  <2> QED BY <1>0, <1>6, <2>1 DEF AbortTransaction, Tables
<1>7. CASE RunAbort
  <2>1. cmd.x \in Xid
    BY <1>7, CommandType DEF RunAbort, Inv, Types
  <2> QED BY <1>3, <1>6, <1>7, <2>1 DEF RunAbort
<1>8. ASSUME NEW x \in Xid, Reap(x) PROVE Tables'
  BY <1>6, <1>8 DEF Reap
<1>9. CASE Run
  BY <1>3, <1>4, <1>5, <1>7, <1>9 DEF Run, RunStart, RunInvalid, Attach, Write,
     Commit, EndCommit, servers
<1>10. ASSUME NEW s \in Server, StartRegistry(s) \/ StartServer(s) PROVE Tables'
  BY <1>3, <1>10 DEF StartRegistry, StartServer
<1>11. CASE \/ StartMiddleware \/ StopMiddleware \/ LookUp \/ Connect \/ Type
            \/ Send \/ UNCHANGED vars
  BY <1>3, <1>11 DEF StartMiddleware, StopMiddleware, LookUp, Connect, Type, Send,
     servers, vars
<1> QED BY <1>1, <1>8, <1>9, <1>10, <1>11 DEF Next

LEMMA TransactionsNext ==
    ASSUME AllTypes, [Next]_vars PROVE Transactions'
<1> USE DEF AllTypes
<1>0. /\ Transactions /\ Paid /\ Serving
      /\ \A e \in {"none", "active", "ended"} : e \in Entry
  BY DEF Entry, Inv
<1>1. CASE Exit
  BY <1>0, <1>1 DEF Exit, Transactions, Unknown, Xid
<1>2. CASE RunStart
  <2>1. first_xid + 1 \in Xid
    <3>1. StartTyped
      BY <1>0, <1>2 DEF RunStart, Serving, StartTyped
    <3> QED BY <1>0, <3>1, BudgetAssumption DEF Paid, Xid
  <2>2. /\ first_xid' = first_xid + 1 /\ first_xid \in Nat
        /\ active' = [active EXCEPT ![first_xid + 1] = "active"]
        /\ pc' = "idle"
    BY <1>0, <1>2 DEF RunStart, Answer, Paid
  <2>3. active' \in [Xid -> Entry]
    BY <1>0, <2>1, <2>2 DEF Transactions
  <2>4. ASSUME NEW x \in Xid PROVE active'[x] = "none" <=> x > first_xid'
    BY <1>0, <2>1, <2>2 DEF Transactions, Xid
  <2> QED BY <2>2, <2>3, <2>4 DEF Transactions
<1>3. ASSUME NEW x \in Xid, EndTransaction(x), active[x] # "none",
             first_xid' = first_xid,
             pc' = "idle" \/ UNCHANGED <<pc, cmd>>
      PROVE  Transactions'
  <2>1. active' = [active EXCEPT ![x] = "ended"]
    BY <1>3 DEF EndTransaction
  <2>2. active' \in [Xid -> Entry]
    BY <1>0, <2>1 DEF Transactions
  <2>3. \A y \in Xid : active'[y] = "none" <=> active[y] = "none"
    BY <1>0, <1>3, <2>1 DEF Transactions
  <2> QED BY <1>0, <1>3, <2>2, <2>3 DEF Transactions
<1>4. ASSUME UNCHANGED <<active, first_xid>>,
             pc' # "commit" \/ UNCHANGED <<pc, cmd>>
      PROVE  Transactions'
  BY <1>0, <1>4 DEF Transactions
<1>5. CASE Commit
  <2>1. cmd.x \in Xid /\ active[cmd.x] = "active" /\ first_xid \in Nat
    BY <1>0, <1>5, CommandType DEF Commit, Inv, Types, Paid
  <2>2. cmd.x <= first_xid
    BY <1>0, <2>1 DEF Transactions, Xid
  <2> QED BY <1>0, <1>5, <2>2 DEF Commit, Transactions, middleware, client
<1>6. CASE EndCommit
  <2>1. cmd.x \in Xid /\ cmd.x <= first_xid /\ first_xid \in Nat
    BY <1>0, <1>6, CommandType DEF EndCommit, Inv, Types, Serving, Transactions, Paid
  <2>2. active[cmd.x] # "none"
    BY <1>0, <2>1 DEF Transactions, Xid
  <2> QED BY <1>3, <1>6, <2>1, <2>2 DEF EndCommit, Answer
<1>7. CASE RunAbort
  <2>1. cmd.x \in Xid
    BY <1>7, CommandType DEF RunAbort, Inv, Types
  <2> QED BY <1>3, <1>4, <1>7, <2>1 DEF RunAbort, Answer, AbortTransaction
<1>8. ASSUME NEW x \in Xid, Reap(x) PROVE Transactions'
  BY <1>3, <1>8 DEF Reap, AbortTransaction, client
<1>9. CASE Run
  BY <1>2, <1>4, <1>5, <1>6, <1>7, <1>9 DEF Run, RunInvalid, Attach, Begin, Write,
     CommitAt, Answer, middleware, client
<1>10. ASSUME NEW s \in Server, ServerActions(s) PROVE Transactions'
  BY <1>4, <1>10 DEF ServerActions, StartRegistry, StartServer, StopServer,
     middleware, client
<1>11. CASE \/ StartMiddleware \/ LookUp \/ Connect \/ UNCHANGED vars
  BY <1>1, <1>4, <1>11 DEF StartMiddleware, LookUp, Found, Connect, middleware,
     client, vars
<1>12. CASE Type \/ Send
  <2>1. cpc # "called"
    BY <1>12 DEF Type, Send
  <2>2. pc # "commit"
    BY <1>0, <2>1 DEF Serving
  <2> QED BY <1>4, <1>12, <2>2 DEF Type, Send, middleware
<1> QED BY <1>1, <1>8, <1>9, <1>10, <1>11, <1>12
        DEF Next, ServerActions, StopMiddleware

LEMMA PlacesNext ==
    ASSUME AllTypes, [Next]_vars PROVE Places'
<1> USE DEF AllTypes
<1>0. Places /\ at \in Nat /\ Len(Servers) \in Nat
  BY ServersType DEF Inv, Types
<1>1. CASE UNCHANGED <<pc, cpc, again, at>>
  BY <1>0, <1>1 DEF Places
<1>2. CASE Answer
  <2>1. pc' = "idle" /\ cpc' = "ready" /\ again' = FALSE /\ at' = 1
    BY <1>2 DEF Answer, Done
  <2>2. at' <= Len(Servers) + 1
    BY <1>0, <2>1
  <2>3. again' \in BOOLEAN
    BY <2>1
  <2> QED BY <2>1, <2>2, <2>3 DEF Places
<1>3. CASE Exit
  <2>1. pc' = "idle" /\ at' = 1
    BY <1>3 DEF Exit
  <2>2. at' <= Len(Servers) + 1
    BY <1>0, <2>1
  <2>3. CASE cpc = "called"
    <3>1. cpc' = "ready" /\ again' = FALSE
      BY <1>3, <2>3 DEF Exit, Lost, Done
    <3> QED BY <2>1, <2>2, <3>1 DEF Places
  <2>4. CASE cpc # "called"
    <3>1. cpc' = cpc /\ again' = again
      BY <1>3, <2>4 DEF Exit
    <3> QED BY <1>0, <2>1, <2>2, <3>1 DEF Places
  <2> QED BY <2>3, <2>4
<1>4. CASE Connect \/ Type \/ Send
  BY <1>0, <1>4 DEF Connect, Type, Send, Done, Places
<1>5. CASE Attach \/ Commit
  BY <1>0, <1>5 DEF Attach, Commit, client, Places
<1>6. CASE Begin
  BY <1>0, <1>2, <1>6 DEF Begin, client, Places
<1>7. CASE CommitAt
  BY <1>0, <1>2, <1>7 DEF CommitAt, client, Places
<1>8. CASE Run
  BY <1>2, <1>5, <1>6, <1>7, <1>8 DEF Run, RunStart, RunInvalid, Write, EndCommit,
     RunAbort
<1>9. ASSUME NEW s \in Server, ServerActions(s) PROVE Places'
  BY <1>1, <1>9 DEF ServerActions, StartRegistry, StartServer, StopServer, client
<1>10. ASSUME NEW x \in Xid, Reap(x) PROVE Places'
  BY <1>1, <1>10 DEF Reap, client
<1>11. CASE StartMiddleware \/ LookUp \/ UNCHANGED vars
  BY <1>1, <1>3, <1>11 DEF StartMiddleware, LookUp, Found, client, vars
<1> QED BY <1>3, <1>4, <1>8, <1>9, <1>10, <1>11
        DEF Next, ServerActions, StopMiddleware

LEMMA RecordedNext ==
    ASSUME AllTypes, [Next]_vars PROVE Recorded'
<1> USE DEF AllTypes
<1>0. Recorded
  OBVIOUS
<1>1. \A s \in Server : <<s, inc[s]>> \in Server \X Incarnation
  BY ServersType, BudgetAssumption DEF Paid, Incarnation
<1>2. CASE UNCHANGED <<acked, stored>>
  BY <1>0, <1>2 DEF Recorded
<1>3. CASE Exit
  BY <1>3 DEF Exit, Nowhere, Recorded
<1>4. ASSUME NEW x \in Xid, Forget(x) PROVE Recorded'
  BY <1>0, <1>4 DEF Forget, Recorded
<1>5. CASE Write
  <2>1. cmd.x \in Xid /\ cmd.s \in Server
    BY <1>5, CommandType DEF Write, Inv, Serving, Types
  <2>2. acked[cmd.x] \cup {<<cmd.s, inc[cmd.s]>>} \subseteq Server \X Incarnation
    BY <1>0, <1>1, <2>1 DEF Recorded
  <2>3. \/ acked' = acked
        \/ acked' = [acked EXCEPT ![cmd.x] = acked[cmd.x] \cup {<<cmd.s, inc[cmd.s]>>}]
    BY <1>5 DEF Write
  <2>4. stored' = stored
    BY <1>5 DEF Write
  <2> QED BY <1>0, <2>1, <2>2, <2>3, <2>4 DEF Recorded
<1>6. CASE CommitAt
  <2> DEFINE s == Servers[at]
  <2>1. cmd.x \in Xid /\ s \in Server
    BY <1>6, CommandType, ServersType DEF CommitAt, Inv, Serving, Types
  <2>2. stored[cmd.x] \cup {<<s, inc[s]>>} \subseteq Server \X Incarnation
    BY <1>0, <1>1, <2>1 DEF Recorded
  <2>3. \/ stored' = stored
        \/ stored' = [stored EXCEPT ![cmd.x] = stored[cmd.x] \cup {<<s, inc[s]>>}]
    BY <1>6 DEF CommitAt
  <2>4. acked' = acked
    BY <1>6 DEF CommitAt
  <2> QED BY <1>0, <2>1, <2>2, <2>3, <2>4 DEF Recorded
<1>7. CASE EndCommit \/ RunAbort
  <2>1. cmd.x \in Xid
    BY <1>7, CommandType DEF EndCommit, RunAbort, Inv, Serving, Types
  <2> QED BY <1>2, <1>4, <1>7, <2>1 DEF EndCommit, RunAbort
<1>8. CASE Run
  BY <1>2, <1>5, <1>6, <1>7, <1>8 DEF Run, RunStart, RunInvalid, Attach, Begin,
     Commit, history
<1>9. ASSUME NEW s \in Server, ServerActions(s) PROVE Recorded'
  BY <1>2, <1>9 DEF ServerActions, StartRegistry, StartServer, StopServer, history
<1>10. ASSUME NEW x \in Xid, Reap(x) PROVE Recorded'
  BY <1>2, <1>4, <1>10 DEF Reap
<1>11. CASE \/ StartMiddleware \/ LookUp \/ Connect \/ Type \/ Send
            \/ UNCHANGED vars
  BY <1>2, <1>3, <1>11 DEF StartMiddleware, LookUp, Found, Connect, Type, Send,
     history, vars
<1> QED BY <1>3, <1>8, <1>9, <1>10, <1>11
        DEF Next, ServerActions, StopMiddleware

LEMMA AllTypesInit == Init => AllTypes
<1> SUFFICES ASSUME Init PROVE AllTypes
  OBVIOUS
<1>1. Inv /\ RunWhenCalled
  BY InvInit DEF Init, RunWhenCalled
<1>2. Paid
  BY BudgetAssumption DEF Init, Paid, StartTyped
<1>3. References
  BY ServersType DEF Init, References, Process
<1>4. Tables /\ Transactions
  BY DEF Init, Tables, Transactions, Unknown, Entry, Xid
<1>5. Places
  <2>1. at <= Len(Servers) + 1
    BY ServersType DEF Init
  <2> QED BY <2>1 DEF Init, Places
<1>6. Recorded
  BY DEF Init, Recorded, Nowhere
<1> QED BY <1>1, <1>2, <1>3, <1>4, <1>5, <1>6 DEF AllTypes

LEMMA AllTypesImplyTypeOK == AllTypes => TypeOK
<1> SUFFICES ASSUME AllTypes PROVE TypeOK
  OBVIOUS
<1> USE DEF AllTypes
<1>1. inc \in [Process -> Incarnation]
  BY BudgetAssumption DEF Paid, Incarnation
<1>2. \A s \in Server : {binding[s], refs[s]} \subseteq 0 .. inc[s]
  BY ServersType DEF References, Paid
<1>3. first_xid \in {0} \cup Xid /\ budget \in 0 .. Budget
  BY BudgetAssumption DEF Paid, Xid
<1>4. at \in 1 .. Len(Servers) + 1 /\ looked \in 0 .. Len(Servers) /\ cmd \in Command
      /\ rms \in [Xid -> SUBSET Server]
  BY ServersType DEF Places, Inv, Types
<1>5. runs \in 0 .. 2
  BY DEF RunWhenCalled
<1>6. table \in [Server -> [Xid -> Entry]]
  BY DEF Tables
<1>7. active \in [Xid -> Entry] /\ \A x \in Xid : active[x] = "none" <=> x > first_xid
  BY DEF Transactions
<1> QED BY <1>1, <1>2, <1>3, <1>4, <1>5, <1>6, <1>7
        DEF References, Places, Recorded, TypeOK

(* However processes stop and start: no reference is newer than the process *)
(* it is for, the middleware has an entry for just the transactions it has  *)
(* started since, and Budget bounds incarnations and transactions.          *)
THEOREM TypeCorrect == Spec => []TypeOK
<1>1. AllTypes /\ [Next]_vars => AllTypes'
  BY InvNext, RunWhenCalledNext, PaidNext, ReferencesNext, TablesNext,
     TransactionsNext, PlacesNext, RecordedNext DEF AllTypes
<1> QED BY <1>1, AllTypesInit, AllTypesImplyTypeOK, PTL DEF Spec
=============================================================================
