--------------------------- MODULE MiddlewareProofs ---------------------------
(* Theorems about Middleware for any number of clients, transactions and   *)
(* keys, whichever transactions a client makes calls for and however long  *)
(* a call takes.                                                           *)
EXTENDS Middleware, TLAPS

-----------------------------------------------------------------------------
(* What calls and private copies are made of.                              *)

LEMMA NoCallType == NoCall \in Call
  BY OpAssumption DEF NoCall

LEMMA CallType ==
    ASSUME NEW c \in Call
    PROVE  /\ c = [xid |-> c.xid, op |-> c.op]
           /\ c.xid \in Xid
           /\ c.op \in Op
           /\ c.op.lock \in Key
           /\ c.op.type \in {"READ", "WRITE"}
           /\ c.op.uses \subseteq Key
           /\ c.op.late \in BOOLEAN
           /\ c.op.writes \in BOOLEAN
           /\ Len(c.op.rms) \in {1, 3}
           /\ \A i \in 1 .. Len(c.op.rms) :
                 c.op.rms[i] \in RM /\ CallOrder(c.op)[i] \in RM
<1>1. c.op \in Operation /\ c.xid \in Xid /\ c.op \in Op
  BY OpAssumption DEF Call
<1>2. c.op.rms \in {<<rm>> : rm \in RM} \cup {AllRMs}
  BY <1>1 DEF Operation
<1>3. CASE c.op.rms = AllRMs
  BY <1>1, <1>3 DEF Operation, AllRMs, RM, Call, CallOrder
<1>4. CASE \E rm \in RM : c.op.rms = <<rm>>
  BY <1>1, <1>4 DEF Operation, Call, CallOrder, AllRMs
<1> QED BY <1>2, <1>3, <1>4

LEMMA NewCallType ==
    ASSUME NEW x \in Xid
    PROVE  /\ \A o \in Op : [xid |-> x, op |-> o] \in Call
           /\ EndCall(x) \in Call
           /\ EndCall(x).xid = x
  BY NoCallType DEF Call, EndCall

LEMMA AllRMsType == \A i \in 1 .. 3 : AllRMs[i] \in RM
  BY DEF AllRMs, RM

LEMMA CopiesType == \A c : c \in Copies <=> \E S \in SUBSET Key : c \in [S -> Value]
  BY DEF Copies

LEMMA CopiesElements ==
    ASSUME NEW c \in Copies
    PROVE  /\ DOMAIN c \subseteq Key
           /\ c \in [DOMAIN c -> Value]
           /\ \A k \in DOMAIN c : c[k] \subseteq Xid
  BY CopiesType DEF Value

(* What x sees of a key at rm: its own copy if it has one.                 *)
Sees(rm, x, k) == IF k \in DOMAIN work[rm][x] THEN work[rm][x][k] ELSE store[rm][k]

LEMMA ReadType ==
    ASSUME TypeOK, NEW rm \in RM, NEW x \in Xid, NEW K \in SUBSET Key
    PROVE  /\ Read(rm, x, K) \in Copies
           /\ DOMAIN Read(rm, x, K) = DOMAIN work[rm][x] \cup K
           /\ \A k \in DOMAIN Read(rm, x, K) : Read(rm, x, K)[k] = Sees(rm, x, k)
<1>1. work[rm][x] \in Copies /\ store[rm] \in [Key -> Value]
  BY DEF TypeOK
<1>2. DOMAIN work[rm][x] \subseteq Key /\ \A k \in DOMAIN work[rm][x] : work[rm][x][k] \in Value
  BY <1>1, CopiesElements
<1>3. Read(rm, x, K) \in [DOMAIN work[rm][x] \cup K -> Value]
  BY <1>1, <1>2 DEF Read
<1>4. DOMAIN work[rm][x] \cup K \in SUBSET Key
  BY <1>2
<1> QED BY <1>2, <1>3, <1>4, CopiesType DEF Read, Sees

-----------------------------------------------------------------------------
(* Types.                                                                  *)

(* A thread calls the resource managers of its operation, no more.         *)
StepInCall == \A t \in Thread :
    pc[t] \in {"getLock", "attach", "begin", "call"} => step[t] <= Len(op(t).rms)

Types == TypeOK /\ StepInCall

LEMMA RmOfType ==
    ASSUME Types, NEW t \in Thread,
           pc[t] \in {"attach", "begin", "call", "commit", "abort"}
    PROVE  rmOf(t) \in RM
<1>1. step[t] \in 1 .. 3 /\ call[t] \in Call
  BY DEF Types, TypeOK
<1>2. CASE pc[t] \in {"commit", "abort"}
  BY <1>1, <1>2, AllRMsType DEF rmOf
<1>3. CASE pc[t] \in {"attach", "begin", "call"}
  BY <1>1, <1>3, CallType DEF Types, StepInCall, rmOf, op
<1> QED BY <1>2, <1>3

(* Where a thread goes on, and with which call.                            *)
LEMMA GotoType ==
    ASSUME Types, NEW t \in Thread, NEW l \in Label, NEW n \in 1 .. 3, Goto(t, l, n),
           NEW c \in Call, call' = [call EXCEPT ![t] = c],
           l \in {"getLock", "attach", "begin", "call"} => n <= Len(c.op.rms)
    PROVE  /\ pc' \in [Thread -> Label]
           /\ step' \in [Thread -> 1 .. 3]
           /\ call' \in [Thread -> Call]
           /\ StepInCall'
  BY DEF Types, TypeOK, StepInCall, Goto, op

LEMMA GotoSameCall ==
    ASSUME Types, NEW t \in Thread, NEW l \in Label, NEW n \in 1 .. 3, Goto(t, l, n),
           UNCHANGED call,
           l \in {"getLock", "attach", "begin", "call"} => n <= Len(op(t).rms)
    PROVE  /\ pc' \in [Thread -> Label]
           /\ step' \in [Thread -> 1 .. 3]
           /\ call' \in [Thread -> Call]
           /\ StepInCall'
<1>1. call' = [call EXCEPT ![t] = call[t]] /\ call[t] \in Call
  BY DEF Types, TypeOK
<1> QED BY <1>1, GotoType DEF op

LEMMA ReturnType ==
    ASSUME Types, NEW t \in Thread, Return(t)
    PROVE  /\ pc' \in [Thread -> Label]
           /\ step' \in [Thread -> 1 .. 3]
           /\ call' \in [Thread -> Call]
           /\ StepInCall'
<1>1. Goto(t, "idle", 1) /\ "idle" \in Label /\ 1 \in 1 .. 3
  BY DEF Return, Label
<1> QED BY <1>1, GotoType, NoCallType DEF Return

-----------------------------------------------------------------------------
LEMMA ExecuteControl ==
    ASSUME Types, NEW t \in Thread, Execute(t)
    PROVE  /\ pc[t] = "call"
           /\ UNCHANGED <<active, rms, expired, overtaken, held, table, store, up>>
           /\ \/ Return(t)
              \/ /\ step[t] < Len(op(t).rms)
                 /\ \/ Goto(t, "call", step[t] + 1)
                       /\ ~(op(t).late /\ step[t] = 1)
                    \/ Goto(t, "getLock", step[t] + 1)
                       /\ op(t).late /\ step[t] = 1
                 /\ UNCHANGED call
  BY DEF Execute, managed

LEMMA TypeInit == Init => Types
<1> SUFFICES ASSUME Init PROVE Types
  OBVIOUS
<1>1. [k \in {} |-> {}] \in [{} -> Value]
  OBVIOUS
<1>2. [k \in {} |-> {}] \in Copies
  BY <1>1, CopiesType
<1>3. work \in [RM -> [Xid -> Copies]]
  BY <1>2 DEF Init
<1>4. TypeOK
  BY <1>3, NoCallType DEF Init, TypeOK, Entry, Value, Label
<1>5. StepInCall
  BY DEF Init, StepInCall
<1> QED BY <1>4, <1>5 DEF Types

LEMMA ControlType ==
    ASSUME Types, [Next]_vars
    PROVE  /\ pc' \in [Thread -> Label]
           /\ step' \in [Thread -> 1 .. 3]
           /\ call' \in [Thread -> Call]
           /\ StepInCall'
<1> DEFINE Goal == /\ pc' \in [Thread -> Label]
                   /\ step' \in [Thread -> 1 .. 3]
                   /\ call' \in [Thread -> Call]
                   /\ StepInCall'
<1> HIDE DEF Goal
<1>1. ASSUME UNCHANGED <<pc, call, step>> PROVE Goal
  <2>1. pc' = pc /\ call' = call /\ step' = step
    BY <1>1
  <2>2. StepInCall'
    BY <2>1 DEF Types, StepInCall, op
  <2> QED BY <2>1, <2>2 DEF Goal, Types, TypeOK
<1>2. ASSUME NEW t \in Thread, Return(t) PROVE Goal
  BY <1>2, ReturnType DEF Goal
<1>3. ASSUME NEW t \in Thread, NEW x \in Xid, NEW l \in {"commit", "abort"},
             Goto(t, l, 1), call' = [call EXCEPT ![t] = EndCall(x)]
      PROVE  Goal
  <2>1. EndCall(x) \in Call
    BY NewCallType
  <2>2. l \in Label /\ 1 \in 1 .. 3 /\ l \notin {"getLock", "attach", "begin", "call"}
    BY DEF Label
  <2> QED BY <1>3, <2>1, <2>2, GotoType DEF Goal
<1>4. ASSUME NEW t \in Thread, NEW l \in Label, NEW n \in 1 .. 3, Goto(t, l, n), UNCHANGED call,
             l \in {"getLock", "attach", "begin", "call"} => n <= Len(op(t).rms)
      PROVE  Goal
  BY <1>4, GotoSameCall DEF Goal
<1>5. ASSUME NEW t \in Thread
      PROVE  /\ step[t] \in 1 .. 3 /\ Len(op(t).rms) \in {1, 3}
             /\ step[t] < Len(op(t).rms) =>
                   step[t] + 1 \in 1 .. 3 /\ step[t] + 1 <= Len(op(t).rms)
             /\ pc[t] \in {"getLock", "attach", "begin", "call"} => step[t] <= Len(op(t).rms)
  <2>1. /\ step[t] \in 1 .. 3 /\ call[t] \in Call
        /\ pc[t] \in {"getLock", "attach", "begin", "call"} => step[t] <= Len(op(t).rms)
    BY DEF Types, TypeOK, StepInCall
  <2>2. Len(op(t).rms) \in {1, 3}
    BY <2>1, CallType DEF op
  <2>3. \A s \in 1 .. 3, n \in {1, 3} : s < n => s + 1 \in 1 .. 3 /\ s + 1 <= n
    OBVIOUS
  <2> QED BY <2>1, <2>2, <2>3
<1>6. ASSUME NEW t \in Client, Ask(t) PROVE Goal
  <2>1. t \in Thread /\ Serves[t] \subseteq Xid
    BY ServesAssumption DEF Thread
  <2>2. CASE Start(t)
    BY <2>2, <1>1 DEF Start
  <2>3. CASE Invoke(t)
    <3>1. PICK x \in Serves[t], o \in Op :
             call' = [call EXCEPT ![t] = [xid |-> x, op |-> o]]
      BY <2>3 DEF Invoke
    <3> DEFINE c == [xid |-> x, op |-> o]
               l == "refresh"
    <3>2. c \in Call
      BY <2>1, NewCallType
    <3>3. /\ 1 \in 1 .. 3 /\ l \in Label
          /\ l \notin {"getLock", "attach", "begin", "call"}
      BY DEF Label
    <3>4. Goto(t, l, 1) /\ call' = [call EXCEPT ![t] = c]
      BY <2>3, <3>1 DEF Invoke
    <3> HIDE DEF c, l
    <3> QED BY <2>1, <3>2, <3>3, <3>4, GotoType DEF Goal
  <2>4. CASE Commit(t) \/ Abort(t)
    BY <2>1, <2>4, <1>3 DEF Commit, Abort
  <2> QED BY <1>6, <2>2, <2>3, <2>4 DEF Ask
<1>7. ASSUME NEW t \in Thread, Advance(t) PROVE Goal
  <2>1. CASE GetLock(t) \/ Refused(t)
    BY <2>1, <1>4, <1>5 DEF GetLock, Refused, Label
  <2>2. CASE AbortRefused(t) \/ Attach(t)
    BY <2>2, <1>2, <1>4, <1>5 DEF AbortRefused, Attach, Label
  <2>3. CASE Begin(t)
    <3>1. CASE Return(t)
      BY <3>1, <1>2
    <3>2. CASE step[t] = Len(op(t).rms) /\ Goto(t, "call", 1) /\ UNCHANGED call
      BY <3>2, <1>4, <1>5 DEF Label
    <3>3. CASE step[t] # Len(op(t).rms) /\ Goto(t, "attach", step[t] + 1) /\ UNCHANGED call
      <4>1. pc[t] = "begin"
        BY <2>3 DEF Begin
      <4>2. step[t] + 1 \in 1 .. 3 /\ step[t] + 1 <= Len(op(t).rms)
        BY <3>3, <4>1, <1>5
      <4> QED BY <3>3, <4>2, <1>4 DEF Label
    <3> QED BY <2>3, <3>1, <3>2, <3>3 DEF Begin
  <2>4. CASE Execute(t)
    <3>1. CASE Return(t)
      BY <3>1, <1>2
    <3>2. ASSUME NEW l \in {"call", "getLock"}, step[t] < Len(op(t).rms),
                 Goto(t, l, step[t] + 1), UNCHANGED call
          PROVE  Goal
      <4>1. step[t] + 1 \in 1 .. 3 /\ step[t] + 1 <= Len(op(t).rms)
        BY <3>2, <1>5
      <4> QED BY <3>2, <4>1, <1>4 DEF Label
    <3> QED BY <2>4, <3>1, <3>2, ExecuteControl
  <2>5. CASE CommitAt(t)
    BY <2>5, <1>2, <1>4, <1>5 DEF CommitAt, Label
  <2>6. CASE AbortAt(t)
    BY <2>6, <1>2, <1>4, <1>5 DEF AbortAt, Label
  <2>7. CASE End(t) \/ UnlockAll(t)
    BY <2>7, <1>2, <1>4 DEF End, UnlockAll, Label
  <2>8. CASE Refresh(t)
    <3> DEFINE l == IF op(t).late THEN "attach" ELSE "getLock"
    <3>1. l \in Label /\ Goto(t, l, 1) /\ UNCHANGED call
      BY <2>8 DEF Refresh, Label
    <3>2. 1 \in 1 .. 3 /\ 1 <= Len(op(t).rms)
      BY <1>5
    <3> HIDE DEF l
    <3> QED BY <3>1, <3>2, <1>4
  <2> QED BY <1>7, <2>1, <2>2, <2>3, <2>4, <2>5, <2>6, <2>7, <2>8 DEF Advance
<1>8. ASSUME NEW x \in Xid, Reap(x) \/ Expire(x) PROVE Goal
  BY <1>8, <1>1, <1>3 DEF Reap, Expire, Thread
<1>9. CASE Crash \/ UNCHANGED vars
  BY <1>9, <1>1 DEF Crash, vars, Goal
<1> QED BY <1>6, <1>7, <1>8, <1>9 DEF Next, Goal

-----------------------------------------------------------------------------
(* What the steps of a transaction do to the resource managers' state, read *)
(* entry by entry.                                                         *)

LEMMA Update ==
    ASSUME NEW A, NEW B, NEW C, NEW f \in [A -> [B -> C]],
           NEW a \in A, NEW b \in B, NEW c \in C,
           NEW g, g = [f EXCEPT ![a][b] = c]
    PROVE  /\ g \in [A -> [B -> C]]
           /\ \A i \in A, j \in B : g[i][j] = IF i = a /\ j = b THEN c ELSE f[i][j]
  OBVIOUS

LEMMA ThreadType ==
    ASSUME Types, NEW t \in Thread
    PROVE  /\ xid(t) \in Xid
           /\ op(t) \in Op
           /\ op(t).uses \subseteq Key
           /\ Wanted(t) \in Lock
           /\ AllRMs[step[t]] \in RM
  BY CallType, AllRMsType DEF Types, TypeOK, xid, op, Wanted, Lock

(* Two tables are read alike, with one entry changed where P holds.        *)
Becomes(f, g, P, a, b, c) ==
    \A i \in RM, j \in Xid : g[i][j] = IF P /\ i = a /\ j = b THEN c ELSE f[i][j]

LEMMA BeginEffect ==
    ASSUME Types, NEW t \in Thread, Begin(t)
    PROVE  /\ pc[t] = "begin" /\ rmOf(t) \in RM
           /\ UNCHANGED <<active, rms, expired, overtaken, held, work, store, up>>
           /\ table' \in [RM -> [Xid -> Entry]]
           /\ Becomes(table, table',
                      rmOf(t) \in up /\ table[rmOf(t)][xid(t)] = "none",
                      rmOf(t), xid(t), "active")
           /\ \/ rmOf(t) \notin up /\ Return(t)
              \/ /\ rmOf(t) \in up /\ UNCHANGED call
                 /\ Goto(t, "call", 1) \/ Goto(t, "attach", step[t] + 1)
<1>1. /\ pc[t] = "begin"
      /\ UNCHANGED <<active, rms, expired, overtaken, held, work, store, up>>
      /\ \/ rmOf(t) \notin up /\ Return(t) /\ UNCHANGED table
         \/ /\ rmOf(t) \in up /\ UNCHANGED call
            /\ table' = IF table[rmOf(t)][xid(t)] = "none"
                        THEN [table EXCEPT ![rmOf(t)][xid(t)] = "active"]
                        ELSE table
            /\ Goto(t, "call", 1) \/ Goto(t, "attach", step[t] + 1)
  BY DEF Begin, Throws, managed
<1>2. rmOf(t) \in RM /\ xid(t) \in Xid
  BY <1>1, RmOfType, ThreadType
<1>3. table \in [RM -> [Xid -> Entry]] /\ "active" \in Entry
  BY DEF Types, TypeOK, Entry
<1>4. CASE table' = [table EXCEPT ![rmOf(t)][xid(t)] = "active"] /\ rmOf(t) \in up
           /\ table[rmOf(t)][xid(t)] = "none"
  <2>1. table' \in [RM -> [Xid -> Entry]]
    BY <1>2, <1>3, <1>4, Update
  <2>2. Becomes(table, table', TRUE, rmOf(t), xid(t), "active")
    BY <1>2, <1>3, <1>4, Update DEF Becomes
  <2> QED BY <1>1, <1>2, <1>4, <2>1, <2>2 DEF Becomes
<1>5. CASE table' = table /\ ~(rmOf(t) \in up /\ table[rmOf(t)][xid(t)] = "none")
  BY <1>1, <1>2, <1>3, <1>5 DEF Becomes
<1> QED BY <1>1, <1>4, <1>5

(* c is what x may have copied at rm after the operation of t: it copies    *)
(* what it uses, and may put x into the copies.                            *)
After(t, rm, x, c) ==
    /\ c \in Copies
    /\ DOMAIN c = DOMAIN work[rm][x] \cup op(t).uses
    /\ \A k \in DOMAIN c :
          \/ c[k] = Sees(rm, x, k)
          \/ /\ k \in op(t).uses
             /\ op(t).writes
             /\ \/ c[k] = Sees(rm, x, k) \cup {x}
                \/ op(t).late /\ c[k] = {x}

LEMMA ExecuteEffect ==
    ASSUME Types, NEW t \in Thread, Execute(t)
    PROVE  \/ UNCHANGED work
           \/ /\ rmOf(t) \in RM \cap up
              /\ table[rmOf(t)][xid(t)] = "active"
              /\ work' \in [RM -> [Xid -> Copies]]
              /\ \E c : /\ After(t, rmOf(t), xid(t), c)
                        /\ Becomes(work, work', TRUE, rmOf(t), xid(t), c)
<1> DEFINE rm == rmOf(t)
           x == xid(t)
           copy == Read(rm, x, op(t).uses)
           blind == op(t).late /\ step[t] = 1
           written == [k \in DOMAIN copy |->
                          IF k \notin op(t).uses THEN copy[k]
                          ELSE IF blind THEN {x} ELSE copy[k] \cup {x}]
<1>1. rm \in RM /\ x \in Xid /\ op(t).uses \subseteq Key
  BY RmOfType, ThreadType DEF Execute
<1>2. /\ copy \in Copies
      /\ DOMAIN copy = DOMAIN work[rm][x] \cup op(t).uses
      /\ \A k \in DOMAIN copy : copy[k] = Sees(rm, x, k)
  BY <1>1, ReadType DEF Types
<1>3. \/ UNCHANGED work
      \/ /\ rm \in up /\ table[rm][x] = "active"
         /\ \/ work' = [work EXCEPT ![rm][x] = copy]
            \/ op(t).writes /\ work' = [work EXCEPT ![rm][x] = written]
  BY DEF Execute
<1>4. After(t, rm, x, copy)
  BY <1>2 DEF After
<1>5. ASSUME op(t).writes PROVE After(t, rm, x, written)
  <2>1. copy \in [DOMAIN copy -> Value] /\ DOMAIN copy \in SUBSET Key
    BY <1>2, CopiesElements
  <2>2. written \in [DOMAIN copy -> Value]
    BY <1>1, <2>1 DEF Value
  <2>3. written \in Copies
    BY <2>1, <2>2, CopiesType
  <2> QED BY <1>2, <1>5, <2>2, <2>3 DEF After
<1>6. ASSUME NEW c \in Copies, work' = [work EXCEPT ![rm][x] = c]
      PROVE  work' \in [RM -> [Xid -> Copies]] /\ Becomes(work, work', TRUE, rm, x, c)
  <2> HIDE DEF rm, x
  <2>1. work \in [RM -> [Xid -> Copies]]
    BY DEF Types, TypeOK
  <2> QED BY <1>1, <1>6, <2>1, Update DEF Becomes
<1>7. \A c : After(t, rm, x, c) => c \in Copies
  BY DEF After
<1> HIDE DEF rm, x, copy, written
<1>8. \/ UNCHANGED work
      \/ /\ rm \in RM \cap up
         /\ table[rm][x] = "active"
         /\ work' \in [RM -> [Xid -> Copies]]
         /\ \E c : /\ After(t, rm, x, c)
                   /\ Becomes(work, work', TRUE, rm, x, c)
  BY <1>1, <1>3, <1>4, <1>5, <1>6, <1>7
<1> QED BY <1>8 DEF rm, x

Commits(t) == /\ AllRMs[step[t]] \in rms[xid(t)] \cap up
              /\ table[AllRMs[step[t]]][xid(t)] = "active"

LEMMA CommitAtEffect ==
    ASSUME Types, NEW t \in Thread, CommitAt(t)
    PROVE  /\ pc[t] = "commit"
           /\ UNCHANGED <<active, rms, expired, overtaken, held, work, up>>
           /\ table' \in [RM -> [Xid -> Entry]]
           /\ Becomes(table, table', Commits(t), AllRMs[step[t]], xid(t), "committed")
           /\ store' \in [RM -> [Key -> Value]]
           /\ \A rm \in RM, k \in Key :
                 store'[rm][k] = IF /\ Commits(t) /\ rm = AllRMs[step[t]]
                                    /\ k \in DOMAIN work[rm][xid(t)]
                                 THEN work[rm][xid(t)][k] ELSE store[rm][k]
           /\ \/ /\ Commits(t) \/ AllRMs[step[t]] \notin rms[xid(t)]
                 /\ UNCHANGED call
                 /\ IF step[t] = 3 THEN Goto(t, "committed", 1)
                    ELSE Goto(t, "commit", step[t] + 1)
              \/ ~Commits(t) /\ AllRMs[step[t]] \in rms[xid(t)] /\ Return(t)
<1> DEFINE rm == AllRMs[step[t]]
           x == xid(t)
<1>1. /\ pc[t] = "commit"
      /\ UNCHANGED <<active, rms, expired, overtaken, held, work, up>>
      /\ \/ /\ Commits(t) /\ UNCHANGED call
            /\ store' = [store EXCEPT ![rm] = WriteBack(rm, x)]
            /\ table' = [table EXCEPT ![rm][x] = "committed"]
            /\ IF step[t] = 3 THEN Goto(t, "committed", 1)
               ELSE Goto(t, "commit", step[t] + 1)
         \/ /\ ~Commits(t) /\ UNCHANGED <<store, table>>
            /\ \/ /\ rm \notin rms[x] /\ UNCHANGED call
                  /\ IF step[t] = 3 THEN Goto(t, "committed", 1)
                     ELSE Goto(t, "commit", step[t] + 1)
               \/ rm \in rms[x] /\ Return(t)
  BY DEF CommitAt, Commits, managed
<1>2. rm \in RM /\ x \in Xid
  BY ThreadType
<1>3. /\ table \in [RM -> [Xid -> Entry]] /\ "committed" \in Entry
      /\ store \in [RM -> [Key -> Value]]
      /\ work[rm][x] \in Copies
  BY <1>2 DEF Types, TypeOK, Entry
<1>4. WriteBack(rm, x) \in [Key -> Value]
  BY <1>2, <1>3, CopiesElements DEF WriteBack, Value
<1>5. ASSUME NEW k \in Key
      PROVE  WriteBack(rm, x)[k] = IF k \in DOMAIN work[rm][x] THEN work[rm][x][k]
                                   ELSE store[rm][k]
  BY DEF WriteBack
<1> HIDE DEF rm, x
<1>6. CASE Commits(t) /\ store' = [store EXCEPT ![rm] = WriteBack(rm, x)]
           /\ table' = [table EXCEPT ![rm][x] = "committed"]
  <2>1. /\ table' \in [RM -> [Xid -> Entry]]
        /\ Becomes(table, table', Commits(t), rm, x, "committed")
    BY <1>2, <1>3, <1>6, Update DEF Becomes
  <2>2. /\ store' \in [RM -> [Key -> Value]]
        /\ \A q \in RM, k \in Key :
              store'[q][k] = IF q = rm /\ k \in DOMAIN work[q][x]
                             THEN work[q][x][k] ELSE store[q][k]
    BY <1>2, <1>3, <1>4, <1>5, <1>6
  <2> QED BY <1>1, <1>6, <2>1, <2>2 DEF rm, x
<1>7. CASE ~Commits(t) /\ UNCHANGED <<store, table>>
  BY <1>1, <1>3, <1>7 DEF Becomes, rm, x
<1> QED BY <1>1, <1>6, <1>7

Aborts(t) == /\ AllRMs[step[t]] \in rms[xid(t)] \cap up
             /\ table[AllRMs[step[t]]][xid(t)] # "none"

LEMMA AbortAtEffect ==
    ASSUME Types, NEW t \in Thread, AbortAt(t)
    PROVE  /\ pc[t] = "abort"
           /\ UNCHANGED <<active, rms, expired, overtaken, held, work, store, up>>
           /\ table' \in [RM -> [Xid -> Entry]]
           /\ Becomes(table, table',
                      Aborts(t) /\ table[AllRMs[step[t]]][xid(t)] = "active",
                      AllRMs[step[t]], xid(t), "aborted")
           /\ \/ /\ Aborts(t) \/ AllRMs[step[t]] \notin rms[xid(t)]
                 /\ UNCHANGED call
                 /\ IF Aborts(t) \/ step[t] = 3 THEN Goto(t, "aborted", 1)
                    ELSE Goto(t, "abort", step[t] + 1)
              \/ ~Aborts(t) /\ AllRMs[step[t]] \in rms[xid(t)] /\ Return(t)
<1> DEFINE rm == AllRMs[step[t]]
           x == xid(t)
           e == IF table[rm][x] = "active" THEN "aborted" ELSE table[rm][x]
<1>1. /\ pc[t] = "abort"
      /\ UNCHANGED <<active, rms, expired, overtaken, held, work, store, up>>
      /\ \/ /\ Aborts(t) /\ UNCHANGED call
            /\ table' = [table EXCEPT ![rm][x] = e]
            /\ Goto(t, "aborted", 1)
         \/ /\ ~Aborts(t) /\ UNCHANGED table
            /\ \/ /\ rm \notin rms[x] /\ UNCHANGED call
                  /\ IF step[t] = 3 THEN Goto(t, "aborted", 1)
                     ELSE Goto(t, "abort", step[t] + 1)
               \/ rm \in rms[x] /\ Return(t)
  BY DEF AbortAt, Aborts, managed
<1>2. rm \in RM /\ x \in Xid
  BY ThreadType
<1>3. table \in [RM -> [Xid -> Entry]] /\ e \in Entry
  BY <1>2 DEF Types, TypeOK, Entry
<1> HIDE DEF rm, x
<1>4. CASE Aborts(t) /\ table' = [table EXCEPT ![rm][x] = e]
  <2>1. /\ table' \in [RM -> [Xid -> Entry]]
        /\ Becomes(table, table', TRUE, rm, x, e)
    <3> HIDE DEF e
    <3> QED BY <1>2, <1>3, <1>4, Update DEF Becomes
  <2>2. Becomes(table, table', Aborts(t) /\ table[rm][x] = "active", rm, x, "aborted")
    BY <1>4, <2>1 DEF Becomes
  <2> QED BY <1>1, <1>4, <2>1, <2>2 DEF rm, x
<1>5. CASE ~Aborts(t) /\ UNCHANGED table
  BY <1>1, <1>3, <1>5 DEF Becomes, rm, x
<1> QED BY <1>1, <1>4, <1>5

LEMMA DataType ==
    ASSUME Types, [Next]_vars
    PROVE  /\ active' \in [Xid -> Entry]
           /\ rms' \in [Xid -> SUBSET RM]
           /\ expired' \in [Xid -> BOOLEAN]
           /\ held' \subseteq Lock
           /\ table' \in [RM -> [Xid -> Entry]]
           /\ work' \in [RM -> [Xid -> Copies]]
           /\ store' \in [RM -> [Key -> Value]]
           /\ up' \subseteq RM
           /\ overtaken' \subseteq Xid
<1> DEFINE Goal == /\ active' \in [Xid -> Entry]
                   /\ rms' \in [Xid -> SUBSET RM]
                   /\ expired' \in [Xid -> BOOLEAN]
                   /\ held' \subseteq Lock
                   /\ table' \in [RM -> [Xid -> Entry]]
                   /\ work' \in [RM -> [Xid -> Copies]]
                   /\ store' \in [RM -> [Key -> Value]]
                   /\ up' \subseteq RM
                   /\ overtaken' \subseteq Xid
<1> USE DEF Types, TypeOK, managed, data
<1>2. ASSUME NEW t \in Client PROVE t \in Thread /\ Serves[t] \subseteq Xid
  BY ServesAssumption DEF Thread
<1>3. ASSUME NEW t \in Client, Start(t) PROVE Goal
  BY <1>2, <1>3 DEF Start, Entry
<1>4. ASSUME NEW t \in Client, Invoke(t) \/ Commit(t) \/ Abort(t) PROVE Goal
  BY <1>2, <1>4 DEF Invoke, Commit, Abort, IsValid
<1>5. ASSUME NEW t \in Thread, GetLock(t) \/ Refused(t) \/ UnlockAll(t) PROVE Goal
  BY ThreadType, <1>5 DEF GetLock, Refused, UnlockAll
<1>6. ASSUME NEW t \in Thread, AbortRefused(t) PROVE Goal
  BY ThreadType, <1>6 DEF AbortRefused, IsValid
<1>13. ASSUME NEW t \in Thread, Refresh(t) PROVE Goal
  BY ThreadType, <1>13 DEF Refresh
<1>12. ASSUME NEW t \in Thread, Attach(t) PROVE Goal
  <2>1. rmOf(t) \in RM /\ xid(t) \in Xid
    BY <1>12, RmOfType, ThreadType DEF Attach
  <2> QED BY <1>12, <2>1 DEF Attach
<1>7. ASSUME NEW t \in Thread, Execute(t) PROVE Goal
  BY <1>7, ExecuteEffect, ExecuteControl
<1>8. ASSUME NEW t \in Thread, Begin(t) \/ CommitAt(t) \/ AbortAt(t) PROVE Goal
  BY <1>8, BeginEffect, CommitAtEffect, AbortAtEffect
<1>9. ASSUME NEW t \in Thread, End(t) PROVE Goal
  BY <1>9, ThreadType DEF End, Ended, Entry
<1>10. ASSUME NEW x \in Xid, Reap(x) \/ Expire(x) PROVE Goal
  <2>1. \A t \in Client : xid(t) \in Xid
    BY <1>2, ThreadType
  <2> QED BY <1>10, <2>1 DEF Reap, Expire, IsValid
<1>11. CASE Crash \/ UNCHANGED vars
  BY <1>11 DEF Crash, vars
<1> QED BY <1>3, <1>4, <1>5, <1>6, <1>7, <1>8, <1>9, <1>10, <1>11, <1>12,
            <1>13
        DEF Next, Ask, Advance

LEMMA TypesNext == ASSUME Types, [Next]_vars PROVE Types'
<1>1. TypeOK'
  BY ControlType, DataType DEF TypeOK
<1> QED BY <1>1, ControlType DEF Types

(* The types of the middleware's and the resource managers' state.          *)
THEOREM TypeCorrect == Spec => []TypeOK
<1>1. Init => Types
  BY TypeInit
<1>2. Types /\ [Next]_vars => Types'
  BY TypesNext
<1>3. Types => TypeOK
  BY DEF Types
<1> QED BY <1>1, <1>2, <1>3, PTL DEF Spec

-----------------------------------------------------------------------------
(* Dirty reads.                                                            *)

LEMMA DataSteps ==
    ASSUME Types, [Next]_vars
    PROVE  \/ UNCHANGED <<table, work, store>>
           \/ \E t \in Thread : Begin(t) \/ Execute(t) \/ CommitAt(t) \/ AbortAt(t)
<1> USE DEF data
<1>1. ASSUME NEW t \in Client, Ask(t) PROVE UNCHANGED <<table, work, store>>
  BY <1>1 DEF Ask, Start, Invoke, Commit, Abort
<1>2. ASSUME NEW t \in Thread,
             \/ Refresh(t) \/ GetLock(t) \/ Refused(t) \/ AbortRefused(t) \/ Attach(t)
             \/ End(t) \/ UnlockAll(t)
      PROVE  UNCHANGED <<table, work, store>>
  BY <1>2 DEF Refresh, GetLock, Refused, AbortRefused, Attach, End, UnlockAll
<1>3. ASSUME NEW x \in Xid, Reap(x) \/ Expire(x) PROVE UNCHANGED <<table, work, store>>
  BY <1>3 DEF Reap, Expire
<1>4. CASE Crash \/ UNCHANGED vars
  BY <1>4 DEF Crash, vars
<1> QED BY <1>1, <1>2, <1>3, <1>4 DEF Next, Advance

(* An entry of a resource manager's table does not change once it has ended. *)
LEMMA TableStep ==
    ASSUME Types, [Next]_vars, NEW rm \in RM, NEW x \in Xid
    PROVE  /\ table[rm][x] = "committed" => table'[rm][x] = "committed"
           /\ table[rm][x] = "aborted" => table'[rm][x] = "aborted"
<1>1. ASSUME NEW t \in Thread, Begin(t) \/ Execute(t) \/ CommitAt(t) \/ AbortAt(t)
      PROVE  table[rm][x] \in Ended => table'[rm][x] = table[rm][x]
  BY <1>1, BeginEffect, ExecuteControl, CommitAtEffect, AbortAtEffect
     DEF Becomes, Ended, Commits
<1> QED BY <1>1, DataSteps DEF Ended

LEMMA NoDirtyReadNext == ASSUME Types, NoDirtyRead, [Next]_vars PROVE NoDirtyRead'
<1>1. ASSUME NEW rm \in RM PROVE Committed(rm) \subseteq Committed(rm)'
  BY <1>1, TableStep DEF Committed
<1>2. ASSUME UNCHANGED <<work, store>> PROVE NoDirtyRead'
  BY <1>1, <1>2 DEF NoDirtyRead
<1>3. ASSUME NEW t \in Thread, Execute(t) PROVE NoDirtyRead'
  <2>1. CASE UNCHANGED work
    BY <1>2, <1>3, <2>1, ExecuteControl
  <2>2. CASE ~UNCHANGED work
    <3> DEFINE r == rmOf(t)
               y == xid(t)
    <3>1. PICK c : After(t, r, y, c) /\ Becomes(work, work', TRUE, r, y, c)
      BY <1>3, <2>2, ExecuteEffect
    <3>2. UNCHANGED <<table, store>> /\ c \in Copies
      BY <1>3, <3>1, ExecuteControl DEF After
    <3>3. r \in RM /\ y \in Xid
      BY <1>3, RmOfType, ThreadType, ExecuteControl
    <3> HIDE DEF r, y
    <3>4. ASSUME NEW k \in Key PROVE Sees(r, y, k) \subseteq Committed(r) \cup {y}
      BY <3>3 DEF Sees, NoDirtyRead
    <3>5. ASSUME NEW k \in Key, k \in DOMAIN c PROVE c[k] \subseteq Committed(r) \cup {y}
      BY <3>1, <3>4, <3>5 DEF After
    <3> SUFFICES ASSUME NEW rm \in RM, NEW k \in Key, NEW x \in Xid,
                        k \in DOMAIN work'[rm][x]
                 PROVE  work'[rm][x][k] \subseteq Committed(rm)' \cup {x}
      BY <1>1, <3>2 DEF NoDirtyRead
    <3>6. CASE rm = r /\ x = y
      BY <1>1, <3>1, <3>5, <3>6 DEF Becomes
    <3>7. CASE ~(rm = r /\ x = y)
      BY <1>1, <3>1, <3>7 DEF Becomes, NoDirtyRead
    <3> QED BY <3>6, <3>7
  <2> QED BY <2>1, <2>2
<1>4. ASSUME NEW t \in Thread, CommitAt(t) PROVE NoDirtyRead'
  <2> DEFINE r == AllRMs[step[t]]
             y == xid(t)
  <2>1. /\ UNCHANGED work
        /\ \A rm \in RM, k \in Key :
              store'[rm][k] = IF Commits(t) /\ rm = r /\ k \in DOMAIN work[rm][y]
                              THEN work[rm][y][k] ELSE store[rm][k]
        /\ Becomes(table, table', Commits(t), r, y, "committed")
        /\ r \in RM /\ y \in Xid
    BY <1>4, CommitAtEffect, ThreadType
  <2> HIDE DEF r, y
  <2>2. \A rm \in RM : Commits(t) /\ rm = r => y \in Committed(rm)'
    BY <2>1 DEF Becomes, Committed
  <2>3. ASSUME NEW rm \in RM, NEW k \in Key PROVE store'[rm][k] \subseteq Committed(rm)'
    <3>1. CASE Commits(t) /\ rm = r /\ k \in DOMAIN work[rm][y]
      BY <1>1, <2>1, <2>2, <3>1 DEF NoDirtyRead, Committed
    <3>2. CASE ~(Commits(t) /\ rm = r /\ k \in DOMAIN work[rm][y])
      BY <1>1, <2>1, <3>2 DEF NoDirtyRead
    <3> QED BY <3>1, <3>2
  <2> QED BY <1>1, <2>1, <2>3 DEF NoDirtyRead
<1>5. ASSUME NEW t \in Thread, Begin(t) \/ AbortAt(t) PROVE NoDirtyRead'
  BY <1>2, <1>5, BeginEffect, AbortAtEffect
<1> QED BY <1>2, <1>3, <1>4, <1>5, DataSteps

(* However many clients make calls for a transaction, and commit or abort   *)
(* it while its calls are under way, nobody reads what a transaction wrote  *)
(* before it has committed there.                                          *)
THEOREM NoDirtyReads == Spec => []NoDirtyRead
<1>1. Init => NoDirtyRead
  BY DEF Init, NoDirtyRead, Committed
<1>2. Types /\ NoDirtyRead /\ [Next]_vars => Types' /\ NoDirtyRead'
  BY TypesNext, NoDirtyReadNext
<1> QED BY <1>1, <1>2, TypeInit, PTL DEF Spec

-----------------------------------------------------------------------------
(* The lock service as the middleware uses it.                             *)

LEMMA GotoAt ==
    ASSUME Types, NEW t \in Thread, NEW l, NEW n, Goto(t, l, n)
    PROVE  /\ pc'[t] = l /\ step'[t] = n
           /\ \A u \in Thread \ {t} : pc'[u] = pc[u] /\ step'[u] = step[u]
  BY DEF Types, TypeOK, Goto

LEMMA ReturnAt ==
    ASSUME Types, NEW t \in Thread, Return(t)
    PROVE  /\ pc'[t] = "idle" /\ step'[t] = 1 /\ call'[t] = NoCall
           /\ \A u \in Thread \ {t} :
                 pc'[u] = pc[u] /\ step'[u] = step[u] /\ call'[u] = call[u]
  BY GotoAt DEF Types, TypeOK, Return

(* A step of one thread leaves the others where they are.                  *)
LEMMA OtherThreads ==
    ASSUME Types, NEW t \in Thread, NEW u \in Thread, u # t,
           Advance(t) \/ (t \in Client /\ Ask(t)) \/ (t = Reaper /\ \E x \in Xid : Reap(x))
    PROVE  pc'[u] = pc[u] /\ step'[u] = step[u] /\ call'[u] = call[u]
<1>1. ASSUME NEW l, NEW n, Goto(t, l, n) PROVE pc'[u] = pc[u] /\ step'[u] = step[u]
  BY <1>1, GotoAt
<1>2. ASSUME Return(t) PROVE pc'[u] = pc[u] /\ step'[u] = step[u] /\ call'[u] = call[u]
  BY <1>2, ReturnAt
<1>3. ASSUME NEW c, call' = [call EXCEPT ![t] = c] PROVE call'[u] = call[u]
  BY <1>3 DEF Types, TypeOK
<1>4. ASSUME Ask(t) PROVE pc'[u] = pc[u] /\ step'[u] = step[u] /\ call'[u] = call[u]
  BY <1>4, <1>1, <1>3 DEF Ask, Start, Invoke, Commit, Abort
<1>5. ASSUME Refresh(t) \/ GetLock(t) \/ Refused(t) \/ End(t) \/ UnlockAll(t)
      PROVE  pc'[u] = pc[u] /\ step'[u] = step[u] /\ call'[u] = call[u]
  BY <1>5, <1>1, <1>2 DEF Refresh, GetLock, Refused, End, UnlockAll
<1>6. ASSUME AbortRefused(t) \/ Attach(t)
      PROVE  pc'[u] = pc[u] /\ step'[u] = step[u] /\ call'[u] = call[u]
  BY <1>6, <1>1, <1>2 DEF AbortRefused, Attach
<1>7. ASSUME Begin(t) \/ Execute(t)
      PROVE  pc'[u] = pc[u] /\ step'[u] = step[u] /\ call'[u] = call[u]
  BY <1>7, <1>1, <1>2, BeginEffect, ExecuteControl
<1>8. ASSUME CommitAt(t) \/ AbortAt(t)
      PROVE  pc'[u] = pc[u] /\ step'[u] = step[u] /\ call'[u] = call[u]
  BY <1>8, <1>1, <1>2, CommitAtEffect, AbortAtEffect
<1>9. ASSUME t = Reaper, NEW x \in Xid, Reap(x)
      PROVE  pc'[u] = pc[u] /\ step'[u] = step[u] /\ call'[u] = call[u]
  BY <1>9, <1>1, <1>3 DEF Reap
<1> QED BY <1>4, <1>5, <1>6, <1>7, <1>8, <1>9 DEF Advance

(* An operation asks for its lock at its first step; a late one at its      *)
(* second.                                                                 *)
LockStep == \A t \in Thread : pc[t] = "getLock" => step[t] = IF op(t).late THEN 2 ELSE 1

LEMMA LockStepNext == ASSUME Types, LockStep, [Next]_vars PROVE LockStep'
<1> SUFFICES ASSUME NEW u \in Thread, pc'[u] = "getLock"
             PROVE  step'[u] = IF op(u)'.late THEN 2 ELSE 1
  BY DEF LockStep
<1> DEFINE Goal == step'[u] = IF op(u)'.late THEN 2 ELSE 1
<1> HIDE DEF Goal
<1>1. ASSUME pc'[u] = pc[u] /\ step'[u] = step[u] /\ call'[u] = call[u] PROVE Goal
  BY <1>1 DEF LockStep, op, Goal
<1>2. CASE u \in Client /\ Ask(u)
  <2>1. CASE Start(u)
    BY <2>1, <1>1 DEF Start
  <2>2. ~(Invoke(u) \/ Commit(u) \/ Abort(u))
    BY GotoAt DEF Invoke, Commit, Abort
  <2> QED BY <1>2, <2>1, <2>2 DEF Ask
<1>3. CASE Advance(u)
  <2>1. ASSUME NEW l, NEW n, Goto(u, l, n) PROVE pc'[u] = l /\ step'[u] = n
    BY <2>1, GotoAt
  <2>2. ~Return(u)
    BY ReturnAt
  <2>3. ~(GetLock(u) \/ Refused(u) \/ AbortRefused(u) \/ Attach(u) \/ End(u) \/ UnlockAll(u))
    BY <2>1, <2>2 DEF GetLock, Refused, AbortRefused, Attach, End, UnlockAll
  <2>4. ~(Begin(u) \/ CommitAt(u) \/ AbortAt(u))
    BY <2>1, <2>2, BeginEffect, CommitAtEffect, AbortAtEffect
  <2>5. CASE Execute(u)
    <3>1. step'[u] = step[u] + 1 /\ op(u).late /\ step[u] = 1 /\ UNCHANGED call
      BY <2>1, <2>2, <2>5, ExecuteControl
    <3> QED BY <3>1 DEF Goal, op
  <2>6. CASE Refresh(u)
    <3>1. step'[u] = 1 /\ ~op(u).late /\ UNCHANGED call
      BY <2>1, <2>6 DEF Refresh
    <3> QED BY <3>1 DEF Goal, op
  <2> QED BY <1>3, <2>3, <2>4, <2>5, <2>6 DEF Advance
<1>4. ASSUME NEW t \in Thread, t # u, Advance(t) \/ (t \in Client /\ Ask(t)) PROVE Goal
  BY <1>4, <1>1, OtherThreads
<1>5. ASSUME NEW x \in Xid, Reap(x) PROVE Goal
  <2>1. CASE u = Reaper
    BY <2>1, <1>5, GotoAt DEF Reap
  <2>2. CASE u # Reaper
    BY <2>2, <1>1, <1>5, OtherThreads DEF Thread
  <2> QED BY <2>1, <2>2
<1>6. ASSUME NEW x \in Xid, Expire(x) PROVE Goal
  BY <1>1, <1>6 DEF Expire
<1>7. CASE Crash \/ UNCHANGED vars
  BY <1>1, <1>7 DEF Crash, vars, Goal
<1>8. Client \subseteq Thread
  BY DEF Thread
<1> QED BY <1>2, <1>3, <1>4, <1>5, <1>6, <1>7, <1>8 DEF Next, Goal

LEMMA SameView ==
    ASSUME NEW t \in Thread,
           \/ pc'[t] = pc[t] /\ step'[t] = step[t] /\ call'[t] = call[t]
           \/ pc[t] # "getLock" /\ pc'[t] # "getLock" /\ outcome[t] = "none"
                /\ pc'[t] # "refused" /\ ~Granted(t)'
    PROVE  pending'[t] = pending[t] /\ outcome'[t] = outcome[t]
<1>1. CASE pc'[t] = pc[t] /\ step'[t] = step[t] /\ call'[t] = call[t]
  BY <1>1 DEF pending, outcome, Granted, Wanted, op, xid
<1>2. CASE pc[t] # "getLock" /\ pc'[t] # "getLock" /\ outcome[t] = "none"
             /\ pc'[t] # "refused" /\ ~Granted(t)'
  BY <1>2 DEF pending, outcome
<1> QED BY <1>1, <1>2

LEMMA ViewUpdate ==
    ASSUME NEW t \in Thread, NEW r, NEW o,
           \A u \in Thread \ {t} : pending'[u] = pending[u] /\ outcome'[u] = outcome[u],
           pending'[t] = r, outcome'[t] = o
    PROVE  /\ pending' = [pending EXCEPT ![t] = r]
           /\ outcome' = [outcome EXCEPT ![t] = o]
  BY DEF pending, outcome

(* A thread that leaves the service alone, or drops the answer it had.      *)
LEMMA ForgetRefines ==
    ASSUME Types, NEW t \in Thread, UNCHANGED held,
           pc[t] # "getLock", pc'[t] \notin {"getLock", "refused"}, ~Granted(t)',
           \A u \in Thread \ {t} :
              pc'[u] = pc[u] /\ step'[u] = step[u] /\ call'[u] = call[u]
    PROVE  Locks!SNext
<1>1. pending[t] = {} /\ pending'[t] = {} /\ outcome'[t] = "none"
  BY DEF pending, outcome
<1>2. /\ pending' = [pending EXCEPT ![t] = {}]
      /\ outcome' = [outcome EXCEPT ![t] = "none"]
  BY <1>1, SameView, ViewUpdate
<1>3. UNCHANGED pending
  BY <1>1, <1>2 DEF pending
<1>4. Locks!Forget(t)
  BY <1>1, <1>2, <1>3 DEF Locks!Forget
<1> QED BY <1>4 DEF Locks!SNext

LEMMA RefreshRefines ==
    ASSUME Types, NEW t \in Thread, Refresh(t)
    PROVE  Locks!SNext
<1>1. /\ pc[t] = "refresh" /\ UNCHANGED <<held, call>>
      /\ pc'[t] = (IF op(t).late THEN "attach" ELSE "getLock")
  BY GotoAt DEF Refresh
<1>2. \A u \in Thread \ {t} :
         pc'[u] = pc[u] /\ step'[u] = step[u] /\ call'[u] = call[u]
  BY OtherThreads DEF Advance
<1>3. CASE op(t).late
  BY <1>1, <1>2, <1>3, ForgetRefines DEF Granted, op
<1>4. CASE ~op(t).late
  <2>1. pending[t] = {} /\ pending'[t] = {Wanted(t)} /\ outcome'[t] = "none"
    BY <1>1, <1>4 DEF pending, outcome, Granted, Wanted, xid, op
  <2>2. /\ pending' = [pending EXCEPT ![t] = {Wanted(t)}]
        /\ outcome' = [outcome EXCEPT ![t] = "none"]
    BY <1>2, <2>1, SameView, ViewUpdate
  <2>3. Locks!Request(t, Wanted(t))
    BY <1>1, <2>1, <2>2 DEF Locks!Request
  <2> QED BY <2>3, ThreadType DEF Locks!SNext, Locks!Lock, Lock
<1> QED BY <1>3, <1>4

LEMMA GetLockRefines ==
    ASSUME Types, LockStep, NEW t \in Thread, GetLock(t)
    PROVE  Locks!SNext
<1> DEFINE l == Wanted(t)
<1>1. /\ pc[t] = "getLock" /\ UNCHANGED call
      /\ pc'[t] = (IF op(t).late THEN "call" ELSE "attach")
      /\ step'[t] = step[t] /\ step[t] = (IF op(t).late THEN 2 ELSE 1)
  BY GotoAt DEF GetLock, LockStep
<1>2. Granted(t)'
  BY <1>1 DEF Granted, op
<1>3. /\ l \in pending[t] /\ pending'[t] = {} /\ outcome'[t] = "granted"
  BY <1>1, <1>2 DEF pending, outcome
<1>4. \A u \in Thread \ {t} :
         pc'[u] = pc[u] /\ step'[u] = step[u] /\ call'[u] = call[u]
  BY OtherThreads DEF Advance
<1>5. Locks!Answer(t, l, "granted")
  BY <1>3, <1>4, SameView, ViewUpdate DEF Locks!Answer
<1>6. \A h : /\ Locks!Clash(h, l) <=> Clash(h, l)
             /\ Locks!Covers(h, l) <=> Covers(h, l)
             /\ Locks!Covers(l, h) <=> Covers(l, h)
  BY DEF Locks!Clash, Locks!Covers, Clash, Covers
<1>7. CASE (\E h \in held : Covers(h, l)) /\ UNCHANGED held
  <2>1. Locks!Redundant(t, l)
    BY <1>5, <1>6, <1>7 DEF Locks!Redundant
  <2> QED BY <2>1, ThreadType DEF Locks!SNext, Locks!Lock, Lock
<1>8. CASE /\ \A h \in held : ~Clash(h, l)
           /\ held' = {h \in held : ~Covers(l, h)} \cup {l}
  <2>1. Locks!Acquire(t, l)
    BY <1>5, <1>6, <1>8 DEF Locks!Acquire
  <2> QED BY <2>1, ThreadType DEF Locks!SNext, Locks!Lock, Lock
<1> QED BY <1>7, <1>8 DEF GetLock

LEMMA RefusedRefines ==
    ASSUME Types, NEW t \in Thread, Refused(t)
    PROVE  Locks!SNext
<1> DEFINE l == Wanted(t)
<1>1. pc[t] = "getLock" /\ pc'[t] = "refused" /\ UNCHANGED held
  BY GotoAt DEF Refused
<1>2. l \in pending[t] /\ pending'[t] = {} /\ outcome'[t] = "refused"
  BY <1>1 DEF pending, outcome, Granted
<1>3. \A u \in Thread \ {t} :
         pc'[u] = pc[u] /\ step'[u] = step[u] /\ call'[u] = call[u]
  BY OtherThreads DEF Advance
<1>4. Locks!Refuse(t, l)
  BY <1>1, <1>2, <1>3, SameView, ViewUpdate DEF Locks!Refuse, Locks!Answer
<1> QED BY <1>4, ThreadType DEF Locks!SNext, Locks!Lock, Lock

LEMMA UnlockAllRefines ==
    ASSUME Types, NEW t \in Thread, UnlockAll(t)
    PROVE  Locks!SNext
<1> DEFINE x == xid(t)
<1>1. /\ pc[t] = "unlock" /\ pc'[t] = "idle"
      /\ held' = {h \in held : h.xid # x}
  BY ReturnAt DEF UnlockAll
<1>2. pending[t] = {} /\ pending'[t] = {} /\ outcome'[t] = "none"
  BY <1>1 DEF pending, outcome, Granted
<1>3. \A u \in Thread \ {t} :
         pc'[u] = pc[u] /\ step'[u] = step[u] /\ call'[u] = call[u]
  BY OtherThreads DEF Advance
<1>4. /\ pending' = [pending EXCEPT ![t] = {}]
      /\ outcome' = [outcome EXCEPT ![t] = "none"]
  BY <1>2, <1>3, SameView, ViewUpdate
<1>5. UNCHANGED pending
  BY <1>2, <1>4 DEF pending
<1>6. Locks!ReleaseAll(t, x)
  BY <1>1, <1>2, <1>4, <1>5 DEF Locks!ReleaseAll
<1> QED BY <1>6, ThreadType DEF Locks!SNext

(* Every other step of a call.                                             *)
LEMMA CallStepRefines ==
    ASSUME Types, NEW t \in Thread,
           \/ AbortRefused(t) \/ Attach(t) \/ Begin(t) \/ Execute(t)
           \/ CommitAt(t) \/ AbortAt(t) \/ End(t)
    PROVE  Locks!SNext \/ UNCHANGED <<held, pending, outcome>>
<1>1. /\ pc[t] # "getLock" /\ UNCHANGED held
      /\ \A u \in Thread \ {t} :
            pc'[u] = pc[u] /\ step'[u] = step[u] /\ call'[u] = call[u]
  <2>1. pc[t] # "getLock" /\ UNCHANGED held
    BY BeginEffect, ExecuteControl, CommitAtEffect, AbortAtEffect
       DEF AbortRefused, Attach, End, Ended
  <2> QED BY <2>1, OtherThreads DEF Advance
<1>2. ASSUME Return(t) PROVE Locks!SNext
  <2>1. pc'[t] = "idle"
    BY <1>2, ReturnAt
  <2> QED BY <1>1, <2>1, ForgetRefines DEF Granted
<1>3. ASSUME NEW l \in {"abort", "begin", "commit", "committed", "aborted", "unlock"}, NEW n,
             Goto(t, l, n)
      PROVE  Locks!SNext
  <2>1. pc'[t] = l
    BY <1>3, GotoAt
  <2> QED BY <1>1, <2>1, ForgetRefines DEF Granted
<1>4. CASE AbortRefused(t) \/ Attach(t) \/ End(t)
  BY <1>2, <1>3, <1>4 DEF AbortRefused, Attach, End
<1>5. CASE CommitAt(t) \/ AbortAt(t)
  BY <1>2, <1>3, <1>5, CommitAtEffect, AbortAtEffect
<1>6. CASE Begin(t)
  <2>1. CASE Goto(t, "call", 1)
    <3>1. pc'[t] = "call" /\ step'[t] = 1
      BY <2>1, GotoAt
    <3> QED BY <1>1, <3>1, ForgetRefines DEF Granted
  <2>2. CASE Goto(t, "attach", step[t] + 1)
    <3>1. pc'[t] = "attach" /\ step'[t] = step[t] + 1
      BY <2>2, GotoAt
    <3>2. step'[t] # 1
      BY <3>1 DEF Types, TypeOK
    <3> QED BY <1>1, <3>1, <3>2, ForgetRefines DEF Granted
  <2> QED BY <1>2, <1>6, <2>1, <2>2, BeginEffect
<1>7. CASE Execute(t)
  <2>1. CASE Goto(t, "call", step[t] + 1) /\ ~(op(t).late /\ step[t] = 1) /\ UNCHANGED call
    <3>1. pc'[t] = "call" /\ step'[t] = step[t] + 1 /\ op(t)' = op(t)
      BY <2>1, GotoAt DEF op
    <3>2. ~(op(t).late /\ step'[t] = 2)
      BY <2>1, <3>1 DEF Types, TypeOK
    <3> QED BY <1>1, <3>1, <3>2, ForgetRefines DEF Granted
  <2>2. CASE Goto(t, "getLock", step[t] + 1) /\ op(t).late /\ step[t] = 1 /\ UNCHANGED call
    <3>1. pc[t] = "call" /\ pc'[t] = "getLock" /\ UNCHANGED held
      BY <1>7, <2>2, GotoAt, ExecuteControl
    <3>2. pending[t] = {} /\ pending'[t] = {Wanted(t)} /\ outcome'[t] = "none"
      BY <2>2, <3>1 DEF pending, outcome, Granted, Wanted, xid, op
    <3>3. /\ pending' = [pending EXCEPT ![t] = {Wanted(t)}]
          /\ outcome' = [outcome EXCEPT ![t] = "none"]
      BY <1>1, <3>2, SameView, ViewUpdate
    <3>4. Locks!Request(t, Wanted(t))
      BY <3>1, <3>2, <3>3 DEF Locks!Request
    <3> QED BY <3>4, ThreadType DEF Locks!SNext, Locks!Lock, Lock
  <2> QED BY <1>2, <1>7, <2>1, <2>2, ExecuteControl
<1> QED BY <1>4, <1>5, <1>6, <1>7

(* Every step of the middleware is one that the lock service allows, or     *)
(* nothing to it.  With the refinement proved for LockManager, what is      *)
(* proved of the service's locks holds of the code's.                      *)
THEOREM LockServiceRefinement == Spec => ImplementsLockService
<1>1. Init => Locks!SInit
  BY DEF Init, Locks!SInit, pending, outcome, Granted
<1>2. Init => LockStep
  BY DEF Init, LockStep
<1>3. Types /\ LockStep /\ Types' /\ [Next]_vars => [Locks!SNext]_Locks!svars
  <2> SUFFICES ASSUME Types, LockStep, Types', [Next]_vars
               PROVE  Locks!SNext \/ UNCHANGED <<held, pending, outcome>>
    BY DEF Locks!svars
  <2>1. ASSUME UNCHANGED <<held, pc, call, step>> PROVE UNCHANGED <<held, pending, outcome>>
    BY <2>1 DEF pending, outcome, Granted, Wanted, op, xid
  <2>2. ASSUME NEW t \in Client, Invoke(t) \/ Commit(t) \/ Abort(t) PROVE Locks!SNext
    <3>1. t \in Thread /\ Ask(t)
      BY <2>2 DEF Thread, Ask
    <3>2. pc[t] = "idle" /\ pc'[t] \in {"refresh", "commit", "abort"} /\ UNCHANGED held
      BY <2>2, <3>1, GotoAt DEF Invoke, Commit, Abort
    <3> QED BY <3>1, <3>2, OtherThreads, ForgetRefines DEF Granted
  <2>3. ASSUME NEW x \in Xid, Reap(x) PROVE Locks!SNext
    <3>1. /\ Reaper \in Thread /\ pc[Reaper] = "idle" /\ pc'[Reaper] = "abort"
          /\ UNCHANGED held
      BY <2>3, GotoAt DEF Reap, Thread
    <3> QED BY <2>3, <3>1, OtherThreads, ForgetRefines DEF Granted
  <2>4. CASE \/ \E t \in Client : Start(t)
             \/ \E x \in Xid : Expire(x)
             \/ Crash \/ UNCHANGED vars
    BY <2>4, <2>1 DEF Start, Expire, Crash, vars
  <2> QED BY <2>2, <2>3, <2>4, RefreshRefines, GetLockRefines, RefusedRefines,
             UnlockAllRefines, CallStepRefines DEF Next, Ask, Advance
<1>4. Types /\ LockStep /\ [Next]_vars => Types' /\ LockStep'
  BY TypesNext, LockStepNext
<1> QED BY <1>1, <1>2, <1>3, <1>4, TypeInit, PTL
        DEF Spec, ImplementsLockService, Locks!SSpec

=============================================================================
