----------------------- MODULE MiddlewareAtomicityProofs -----------------------
(* Theorems about how transactions end in Middleware: everywhere alike, as   *)
(* long as the resource managers they have used answer, and as in            *)
(* TransactionStore as long as all do.                                     *)
EXTENDS MiddlewareIsolationProofs

(* The inductive invariant: commit and abort, while the servers that a       *)
(* transaction has used answer.                                            *)

(* A resource manager is noted before it hears of a transaction.            *)
Noted == /\ \A rm \in RM, x \in Xid : table[rm][x] # "none" => rm \in rms[x]
         /\ \A t \in Thread : pc[t] = "begin" => rmOf(t) \in rms[xid(t)]

Heard == \A rm \in up, x \in Xid :
            rm \in rms[x] /\ table[rm][x] = "none" =>
                \E t \in Thread : pc[t] = "begin" /\ xid(t) = x /\ rmOf(t) = rm

(* A live transaction is committed where the commit under way has passed,    *)
(* and nowhere aborted but by the abort under way.                         *)
Ending ==
    \A rm \in RM, x \in Xid : active[x] = "active" /\ rms[x] \subseteq up =>
        /\ table[rm][x] = "committed" =>
              \E t \in Thread : xid(t) = x /\ pc[t] \in {"commit", "committed"}
        /\ table[rm][x] = "aborted" =>
              \E t \in Thread : xid(t) = x /\ pc[t] = "aborted"

Passed ==
    \A t \in Thread :
        /\ pc[t] = "commit" =>
              \A i \in 1 .. 3 : AllRMs[i] \in rms[xid(t)] =>
                  /\ i < step[t] => table[AllRMs[i]][xid(t)] = "committed"
                  /\ rms[xid(t)] \subseteq up =>
                        (table[AllRMs[i]][xid(t)] = "committed" => i < step[t])
        /\ pc[t] = "committed" =>
              \A rm \in rms[xid(t)] : table[rm][xid(t)] = "committed"

Outcomes == Noted /\ Heard /\ Ending /\ Passed /\ AllOrNothing

-----------------------------------------------------------------------------
(* What a step does to the tables.                                         *)

LEMMA AllRMsOrder ==
    /\ \A rm \in RM : \E i \in 1 .. 3 : AllRMs[i] = rm
    /\ \A i, j \in 1 .. 3 : AllRMs[i] = AllRMs[j] => i = j
<1>1. AllRMs[1] = "Flight" /\ AllRMs[2] = "Car" /\ AllRMs[3] = "Room"
  BY DEF AllRMs
<1>2. \A i \in 1 .. 3 : i = 1 \/ i = 2 \/ i = 3
  OBVIOUS
<1>3. 1 \in 1 .. 3 /\ 2 \in 1 .. 3 /\ 3 \in 1 .. 3
  OBVIOUS
<1>4. \A rm \in RM : \E i \in 1 .. 3 : AllRMs[i] = rm
  BY <1>1, <1>3 DEF RM
<1>5. \A i, j \in 1 .. 3 : AllRMs[i] = AllRMs[j] => i = j
  BY <1>1, <1>2
<1> QED BY <1>4, <1>5

LEMMA UpStep == ASSUME Types, [Next]_vars PROVE up' \subseteq up
<1>1. ASSUME NEW t \in Client, Ask(t) PROVE UNCHANGED up
  BY <1>1 DEF Ask, Start, Invoke, Commit, Abort
<1>2. ASSUME NEW t \in Thread, Advance(t) PROVE UNCHANGED up
  BY <1>2, BeginEffect, ExecuteControl, CommitAtEffect, AbortAtEffect
     DEF Advance, Refresh, GetLock, Refused, AbortRefused, Attach, End, UnlockAll
<1>3. ASSUME NEW x \in Xid, Reap(x) \/ Expire(x) PROVE UNCHANGED up
  BY <1>3 DEF Reap, Expire
<1>4. CASE Crash \/ UNCHANGED vars
  BY <1>4 DEF Crash, vars
<1> QED BY <1>1, <1>2, <1>3, <1>4 DEF Next

LEMMA AttachEffect ==
    ASSUME Types, NEW t \in Thread, Attach(t)
    PROVE  /\ pc[t] = "attach" /\ UNCHANGED <<active, table, work, store, held, up>>
           /\ rmOf(t) \in RM
           /\ \/ Return(t) /\ UNCHANGED rms
              \/ /\ pc'[t] = "begin" /\ xid(t)' = xid(t) /\ rmOf(t)' = rmOf(t)
                 /\ rms'[xid(t)] = rms[xid(t)] \cup {rmOf(t)}
                 /\ \A y \in Xid \ {xid(t)} : rms'[y] = rms[y]
<1>1. pc[t] = "attach" /\ UNCHANGED <<active, table, work, store, held, up>>
  BY DEF Attach, data
<1>2. rmOf(t) \in RM /\ xid(t) \in Xid
  BY <1>1, RmOfType, ThreadType
<1>3. CASE Return(t) /\ UNCHANGED rms
  BY <1>1, <1>2, <1>3
<1>4. CASE /\ rms' = [rms EXCEPT ![xid(t)] = @ \cup {rmOf(t)}]
           /\ Goto(t, "begin", step[t]) /\ UNCHANGED call
  <2>1. pc'[t] = "begin" /\ step'[t] = step[t] /\ call'[t] = call[t]
    BY <1>4, GotoAt
  <2>2. xid(t)' = xid(t) /\ rmOf(t)' = rmOf(t)
    BY <1>1, <2>1 DEF xid, rmOf, op
  <2> QED BY <1>1, <1>2, <1>4, <2>1, <2>2 DEF Types, TypeOK
<1> QED BY <1>3, <1>4 DEF Attach

(* A resource manager is noted for a transaction and never forgotten.       *)
LEMMA RmsStep ==
    ASSUME Types, [Next]_vars, NEW x \in Xid
    PROVE  \/ rms'[x] = rms[x]
           \/ \E t \in Thread :
                 /\ Attach(t) /\ xid(t) = x
                 /\ pc'[t] = "begin" /\ xid(t)' = x /\ rmOf(t)' = rmOf(t)
                 /\ rms'[x] = rms[x] \cup {rmOf(t)}
<1>1. ASSUME NEW t \in Client, Ask(t) PROVE UNCHANGED rms
  BY <1>1 DEF Ask, Start, Invoke, Commit, Abort, managed
<1>2. ASSUME NEW t \in Thread, Advance(t) PROVE UNCHANGED rms \/ Attach(t)
  BY <1>2, BeginEffect, ExecuteControl, CommitAtEffect, AbortAtEffect
     DEF Advance, Refresh, GetLock, Refused, AbortRefused, End, UnlockAll, managed
<1>3. ASSUME NEW y \in Xid, Reap(y) \/ Expire(y) PROVE UNCHANGED rms
  BY <1>3 DEF Reap, Expire
<1>4. CASE Crash \/ UNCHANGED vars
  BY <1>4 DEF Crash, vars, managed
<1>5. ASSUME NEW t \in Thread, Attach(t), rms'[x] # rms[x]
      PROVE  /\ xid(t) = x
             /\ pc'[t] = "begin" /\ xid(t)' = x /\ rmOf(t)' = rmOf(t)
             /\ rms'[x] = rms[x] \cup {rmOf(t)}
  BY <1>5, AttachEffect
<1> QED BY <1>1, <1>2, <1>3, <1>4, <1>5 DEF Next

-----------------------------------------------------------------------------
(* Commit and abort: the proof.                                            *)

LEMMA RmOfSame ==
    ASSUME NEW u \in Thread, pc'[u] = pc[u], step'[u] = step[u], call'[u] = call[u]
    PROVE  xid(u)' = xid(u) /\ rmOf(u)' = rmOf(u)
  BY DEF xid, rmOf, op

LEMMA NotedNext == ASSUME Workers, Noted, [Next]_vars PROVE Noted'
<1> USE DEF Workers
<1>1. ASSUME NEW x \in Xid PROVE rms[x] \subseteq rms'[x]
  BY <1>1, RmsStep
<1>2. ASSUME NEW rm \in RM, NEW x \in Xid, table'[rm][x] # "none" PROVE rm \in rms'[x]
  <2>1. CASE table'[rm][x] = table[rm][x]
    BY <1>1, <1>2, <2>1 DEF Noted
  <2>2. ASSUME NEW t \in Thread, xid(t) = x, Begin(t), rmOf(t) = rm PROVE rm \in rms[x]
    BY <2>2, BeginEffect DEF Noted
  <2>3. table[rm][x] = "active" => rm \in rms[x]
    BY DEF Noted
  <2> QED BY <1>1, <2>1, <2>2, <2>3, TableSteps
<1>3. ASSUME NEW u \in Thread, pc'[u] = "begin" PROVE rmOf(u)' \in rms'[xid(u)']
  <2>1. CASE pc'[u] = pc[u] /\ step'[u] = step[u] /\ call'[u] = call[u]
    BY <1>1, <1>3, <2>1, RmOfSame, ThreadType DEF Noted
  <2>2. CASE Advance(u)
    <3>1. Attach(u)
      BY <1>3, <2>2, GotoAt, ReturnAt, BeginEffect, ExecuteControl, CommitAtEffect,
         AbortAtEffect
         DEF Advance, Refresh, GetLock, Refused, AbortRefused, End, UnlockAll
    <3>2. pc'[u] # "idle"
      BY <1>3
    <3> QED BY <3>1, <3>2, AttachEffect, ReturnAt
  <2>3. pc[u] # "idle"
    BY <1>3, FromIdle
  <2> QED BY <2>1, <2>2, <2>3, ThreadStep
<1> QED BY <1>2, <1>3 DEF Noted

LEMMA HeardNext == ASSUME Workers, Heard, [Next]_vars PROVE Heard'
<1> USE DEF Workers
<1> SUFFICES ASSUME NEW rm \in up', NEW x \in Xid,
                    rm \in rms'[x], table'[rm][x] = "none"
             PROVE  \E t \in Thread : pc'[t] = "begin" /\ xid(t)' = x /\ rmOf(t)' = rm
  BY DEF Heard
<1>1. rm \in up /\ rm \in RM /\ table[rm][x] = "none"
  BY UpStep, TableSteps DEF Types, TypeOK
<1>2. CASE rm \in rms[x]
  <2>1. PICK t \in Thread : pc[t] = "begin" /\ xid(t) = x /\ rmOf(t) = rm
    BY <1>1, <1>2 DEF Heard
  <2>2. ~Begin(t)
    BY <1>1, <2>1, BeginEffect DEF Becomes
  <2>3. ~Advance(t)
    BY <2>1, <2>2, ExecuteControl, CommitAtEffect, AbortAtEffect
       DEF Advance, Refresh, GetLock, Refused, AbortRefused, Attach, End, UnlockAll, Ended
  <2> QED BY <2>1, <2>3, ThreadStep, RmOfSame
<1>3. CASE rm \notin rms[x]
  BY <1>3, RmsStep
<1> QED BY <1>2, <1>3

(* A commit under way goes on: no resource manager refuses it.              *)
LEMMA CommitGoesOn ==
    ASSUME OwnTransactions, Workers, Heard, Ending, Passed,
           NEW t \in Thread, CommitAt(t), rms[xid(t)] \subseteq up
    PROVE  /\ Commits(t) \/ AllRMs[step[t]] \notin rms[xid(t)]
           /\ UNCHANGED call
           /\ IF step[t] = 3 THEN Goto(t, "committed", 1)
              ELSE Goto(t, "commit", step[t] + 1)
<1> DEFINE rm == AllRMs[step[t]]
           x == xid(t)
<1> USE DEF Workers
<1>1. /\ pc[t] = "commit" /\ rm \in RM /\ x \in Xid /\ step[t] \in 1 .. 3
      /\ table[rm][x] \in Entry /\ Busy(t) /\ ~Early(t)
  BY CommitAtEffect, ThreadType DEF Busy, Early, Types, TypeOK
<1>2. ASSUME rm \in rms[x], table[rm][x] # "active" PROVE FALSE
  <2>1. CASE table[rm][x] = "committed"
    BY <1>1, <1>2, <2>1 DEF Passed
  <2>2. ASSUME NEW s \in Thread, xid(s) = x, pc[s] \in {"begin", "aborted"} PROVE FALSE
    BY <1>1, <2>2, Alone DEF Busy, Early
  <2>3. active[x] = "active"
    BY <1>1 DEF LiveCalls
  <2>4. table[rm][x] # "none"
    BY <1>1, <1>2, <2>2 DEF Heard
  <2>5. table[rm][x] # "aborted"
    BY <1>1, <2>2, <2>3 DEF Ending
  <2> QED BY <1>1, <1>2, <2>1, <2>4, <2>5 DEF Entry
<1>3. Commits(t) \/ rm \notin rms[x]
  BY <1>1, <1>2 DEF Commits
<1> QED BY <1>3, CommitAtEffect DEF Commits

LEMMA EndingNext ==
    ASSUME OwnTransactions, Workers, Unbegun, Heard, Ending, Passed, [Next]_vars
    PROVE  Ending'
<1> USE DEF Workers
<1> SUFFICES ASSUME NEW rm \in RM, NEW x \in Xid,
                    active'[x] = "active", rms'[x] \subseteq up'
             PROVE  /\ table'[rm][x] = "committed" =>
                          \E t \in Thread : xid(t)' = x /\ pc'[t] \in {"commit", "committed"}
                    /\ table'[rm][x] = "aborted" =>
                          \E t \in Thread : xid(t)' = x /\ pc'[t] = "aborted"
  BY DEF Ending
<1>0. rms[x] \subseteq up
  BY UpStep, RmsStep
<1>1. ASSUME NEW t \in Thread, CommitAt(t), xid(t) = x
      PROVE  xid(t)' = x /\ pc'[t] \in {"commit", "committed"}
  <2>1. pc'[t] \in {"commit", "committed"} /\ UNCHANGED call
    BY <1>1, <1>0, CommitGoesOn, GotoAt
  <2> QED BY <1>1, <2>1 DEF xid
<1>2. ASSUME NEW t \in Thread, AbortAt(t), Aborts(t), xid(t) = x
      PROVE  xid(t)' = x /\ pc'[t] = "aborted"
  <2>1. pc'[t] = "aborted" /\ UNCHANGED call
    BY <1>2, AbortAtEffect, GotoAt DEF Aborts
  <2> QED BY <1>2, <2>1 DEF xid
<1>3. ASSUME NEW t \in Thread, xid(t) = x, pc[t] \in Ended
      PROVE  xid(t)' = x /\ pc'[t] = pc[t]
  <2>1. ~End(t)
    BY <1>3, EndEffect DEF Ended
  <2>2. ~Advance(t)
    BY <1>3, <2>1, BeginEffect, ExecuteControl, CommitAtEffect, AbortAtEffect
       DEF Advance, Refresh, GetLock, Refused, AbortRefused, Attach, UnlockAll, Ended
  <2> QED BY <1>3, <2>2, ThreadStep DEF xid, Ended
<1>4. ASSUME NEW t \in Thread, xid(t) = x, pc[t] = "commit", ~CommitAt(t)
      PROVE  xid(t)' = x /\ pc'[t] = pc[t]
  <2>1. ~Advance(t)
    BY <1>4, BeginEffect, ExecuteControl, CommitAtEffect, AbortAtEffect
       DEF Advance, Refresh, GetLock, Refused, AbortRefused, Attach, End, UnlockAll, Ended
  <2> QED BY <1>4, <2>1, ThreadStep DEF xid
<1>5. CASE table'[rm][x] = table[rm][x]
  <2>1. CASE active[x] = "active"
    <3>1. ASSUME table[rm][x] = "committed"
          PROVE  \E t \in Thread : xid(t)' = x /\ pc'[t] \in {"commit", "committed"}
      <4>1. PICK t \in Thread : xid(t) = x /\ pc[t] \in {"commit", "committed"}
        BY <1>0, <2>1, <3>1 DEF Ending
      <4> QED BY <4>1, <1>1, <1>3, <1>4 DEF Ended
    <3>2. ASSUME table[rm][x] = "aborted"
          PROVE  \E t \in Thread : xid(t)' = x /\ pc'[t] = "aborted"
      <4>1. PICK t \in Thread : xid(t) = x /\ pc[t] = "aborted"
        BY <1>0, <2>1, <3>2 DEF Ending
      <4> QED BY <4>1, <1>3 DEF Ended
    <3> QED BY <1>5, <3>1, <3>2
  <2>2. CASE active[x] # "active"
    BY <1>5, <2>2, ActiveStep DEF Unbegun
  <2> QED BY <2>1, <2>2
<1>6. CASE table'[rm][x] # table[rm][x]
  BY <1>1, <1>2, <1>6, TableSteps
<1> QED BY <1>5, <1>6

(* Nobody else touches the tables of a transaction that is worked for.       *)
LEMMA OthersStay ==
    ASSUME OwnTransactions, Workers, [Next]_vars,
           NEW t \in Client, Busy(t), ~Early(t), ~Advance(t), NEW x \in Xid, xid(t) = x
    PROVE  rms'[x] = rms[x] /\ \A rm \in RM : table'[rm][x] = table[rm][x]
<1> USE DEF Workers
<1>0. t \in Thread
  BY ClientThread
<1>1. ASSUME NEW s \in Thread, xid(s) = x, Attach(s) \/ Begin(s) \/ CommitAt(s) \/ AbortAt(s)
      PROVE  FALSE
  <2>1. Busy(s) /\ s # t
    BY <1>1, BeginEffect, CommitAtEffect, AbortAtEffect DEF Attach, Busy, Advance
  <2> QED BY <1>1, <1>0, <2>1, Alone
<1> QED BY <1>1, RmsStep, TableSteps

(* Where a commit stands.                                                  *)
LEMMA PassedNext ==
    ASSUME OwnTransactions, Workers, Heard, Ending, Passed, [Next]_vars
    PROVE  Passed'
<1> USE DEF Workers
<1> SUFFICES ASSUME NEW t \in Thread
             PROVE  /\ pc'[t] = "commit" =>
                          \A i \in 1 .. 3 : AllRMs[i] \in rms'[xid(t)'] =>
                              /\ i < step'[t] => table'[AllRMs[i]][xid(t)'] = "committed"
                              /\ rms'[xid(t)'] \subseteq up' =>
                                    (table'[AllRMs[i]][xid(t)'] = "committed" => i < step'[t])
                    /\ pc'[t] = "committed" =>
                          \A rm \in rms'[xid(t)'] : table'[rm][xid(t)'] = "committed"
  BY DEF Passed
<1>1. \A x \in Xid : rms[x] \subseteq RM
  BY DEF Types, TypeOK
<1>2. CASE pc[t] = "idle" /\ pc'[t] = "commit"
  <2>1. t \in Client /\ Commit(t)
    <3>1. ASSUME t \in Client, Abort(t) \/ Invoke(t) PROVE FALSE
      BY <1>2, <3>1, GotoAt DEF Abort, Invoke
    <3> QED BY <1>2, <3>1, FromIdle
  <2> DEFINE x == xid(t)'
  <2>2. /\ x \in Serves[t] /\ active[x] = "active" /\ pc[Reaper] = "idle"
        /\ UNCHANGED <<rms, table, up>>
    BY <2>1, AskControl
  <2>6. step'[t] = 1
    BY <2>1, GotoAt DEF Commit
  <2>3. x \in Xid
    BY <2>1, <2>2, ClientThread
  <2> HIDE DEF x
  <2>4. ASSUME NEW rm \in RM, table[rm][x] = "committed", rms[x] \subseteq up PROVE FALSE
    <3>1. PICK s \in Thread : xid(s) = x /\ pc[s] \in {"commit", "committed"}
      BY <2>2, <2>3, <2>4 DEF Ending
    <3>2. s \in Client /\ s # t /\ x \in Serves[s]
      BY <1>2, <2>2, <3>1 DEF Thread, Clients, Busy
    <3> QED BY <2>1, <2>2, <3>2 DEF OwnTransactions
  <2>5. \A i \in 1 .. 3 : AllRMs[i] \in RM /\ ~(i < 1)
    BY AllRMsType
  <2> QED BY <1>2, <2>2, <2>4, <2>5, <2>6 DEF x
<1>3. ASSUME CommitAt(t), pc'[t] \in {"commit", "committed"}
      PROVE  /\ pc'[t] = "commit" =>
                  \A i \in 1 .. 3 : AllRMs[i] \in rms'[xid(t)'] =>
                      /\ i < step'[t] => table'[AllRMs[i]][xid(t)'] = "committed"
                      /\ rms'[xid(t)'] \subseteq up' =>
                            (table'[AllRMs[i]][xid(t)'] = "committed" => i < step'[t])
             /\ pc'[t] = "committed" =>
                  \A rm \in rms'[xid(t)'] : table'[rm][xid(t)'] = "committed"
  <2> DEFINE x == xid(t)
             n == step[t]
  <2>1. /\ pc[t] = "commit" /\ n \in 1 .. 3 /\ x \in Xid /\ UNCHANGED <<rms, up>>
        /\ AllRMs[n] \in RM
        /\ Becomes(table, table', Commits(t), AllRMs[n], x, "committed")
    BY <1>3, CommitAtEffect, ThreadType DEF Types, TypeOK
  <2>2. /\ Commits(t) \/ AllRMs[n] \notin rms[x]
        /\ xid(t)' = x
        /\ IF n = 3 THEN pc'[t] = "committed" ELSE pc'[t] = "commit" /\ step'[t] = n + 1
    BY <1>3, CommitAtEffect, GotoAt, ReturnAt DEF xid
  <2>3. \A i \in 1 .. 3 : AllRMs[i] \in rms[x] =>
           /\ i < n => table[AllRMs[i]][x] = "committed"
           /\ rms[x] \subseteq up => (table[AllRMs[i]][x] = "committed" => i < n)
    BY <2>1 DEF Passed
  <2> HIDE DEF x, n
  <2>4. ASSUME NEW i \in 1 .. 3, AllRMs[i] \in rms[x]
        PROVE  /\ i < n + 1 => table'[AllRMs[i]][x] = "committed"
               /\ rms[x] \subseteq up => (table'[AllRMs[i]][x] = "committed" => i < n + 1)
    <3>1. AllRMs[i] = AllRMs[n] <=> i = n
      BY <2>1, AllRMsOrder
    <3>2. /\ i = n \/ i < n => table'[AllRMs[i]][x] = "committed"
          /\ rms[x] \subseteq up =>
                (table'[AllRMs[i]][x] = "committed" => i = n \/ i < n)
      BY <2>1, <2>2, <2>3, <2>4, <3>1, AllRMsType DEF Becomes
    <3>3. i < n + 1 <=> (i = n \/ i < n)
      BY <2>1
    <3> QED BY <3>2, <3>3
  <2>5. ASSUME n = 3, NEW rm \in rms[x] PROVE table'[rm][x] = "committed"
    <3>1. PICK i \in 1 .. 3 : AllRMs[i] = rm
      BY <1>1, <2>1, <2>5, AllRMsOrder
    <3>2. i < n + 1
      BY <2>5
    <3> QED BY <2>4, <2>5, <3>1, <3>2
  <2> QED BY <2>1, <2>2, <2>4, <2>5
<1>4. CASE ~CommitAt(t) /\ pc[t] # "idle" /\ pc'[t] \in {"commit", "committed"}
  <2>1. ~Advance(t)
    BY <1>4, GotoAt, ReturnAt, BeginEffect, ExecuteControl, AbortAtEffect, AttachEffect
       DEF Advance, Refresh, GetLock, Refused, AbortRefused, End, UnlockAll
  <2>2. pc'[t] = pc[t] /\ step'[t] = step[t] /\ xid(t)' = xid(t)
    BY <1>4, <2>1, ThreadStep DEF xid
  <2>3. xid(t) \in Xid /\ Busy(t) /\ ~Early(t)
    BY <1>4, <2>2, ThreadType DEF Busy, Early
  <2>4. t \in Client
    BY <1>4, <2>2 DEF Reaping, Busy, Thread
  <2>5. rms'[xid(t)] = rms[xid(t)] /\ \A rm \in RM : table'[rm][xid(t)] = table[rm][xid(t)]
    BY <2>1, <2>3, <2>4, OthersStay
  <2>6. rms'[xid(t)'] \subseteq up' => rms[xid(t)] \subseteq up
    BY <2>2, <2>5, UpStep
  <2> QED BY <1>1, <2>2, <2>3, <2>5, <2>6, AllRMsType DEF Passed
<1>5. CASE pc[t] = "idle" /\ pc'[t] # "commit"
  BY <1>5, FromIdle
<1> QED BY <1>2, <1>3, <1>4, <1>5

LEMMA AllOrNothingNext ==
    ASSUME OwnTransactions, Workers, Unbegun, Noted, Ending, Passed, AllOrNothing,
           [Next]_vars
    PROVE  AllOrNothing'
<1> USE DEF Workers
<1> SUFFICES ASSUME NEW rm \in RM, NEW x \in Xid
             PROVE  /\ active'[x] = "committed" /\ (\E k \in Key : Wrote(rm, x, k)')
                          => table'[rm][x] = "committed"
                    /\ active'[x] = "aborted" /\ rms'[x] \subseteq up'
                          => table'[rm][x] # "committed"
  BY DEF AllOrNothing
<1>0. rms'[x] \subseteq up' => rms[x] \subseteq up
  BY UpStep, RmsStep
<1>1. CASE active'[x] = active[x]
  <2> SUFFICES ASSUME active[x] \in Ended
               PROVE  work'[rm][x] = work[rm][x] /\ table'[rm][x] = table[rm][x]
    BY <1>1, <1>0 DEF AllOrNothing, Wrote, Ended
  <2>1. ASSUME NEW t \in Thread, xid(t) = x
        PROVE  pc[t] \notin {"begin", "call", "commit", "abort"}
    BY <2>1 DEF LiveCalls, Busy, Early, Ended
  <2>2. ASSUME NEW t \in Thread, xid(t) = x, Begin(t) \/ CommitAt(t) \/ AbortAt(t) PROVE FALSE
    BY <2>1, <2>2, BeginEffect, CommitAtEffect, AbortAtEffect
  <2> QED BY <2>1, <2>2, WorkStep, TableSteps
<1>2. ASSUME NEW t \in Client, Start(t), active'[x] # active[x]
      PROVE  active'[x] = "active"
  BY <1>2, StartEffect
<1>3. ASSUME NEW t \in Thread, End(t), active'[x] # active[x]
      PROVE  /\ active'[x] = "committed" /\ (\E k \in Key : Wrote(rm, x, k)')
                   => table'[rm][x] = "committed"
             /\ active'[x] = "aborted" /\ rms'[x] \subseteq up'
                   => table'[rm][x] # "committed"
  <2>1. /\ xid(t) = x /\ active[x] = "active" /\ active'[x] = pc[t] /\ pc[t] \in Ended
        /\ UNCHANGED <<table, work>> /\ Busy(t)
    BY <1>3, EndEffect DEF Busy, Ended
  <2>2. ASSUME pc[t] = "committed", NEW k \in Key, Wrote(rm, x, k)
        PROVE  table[rm][x] = "committed"
    <3>1. table[rm][x] # "none"
      BY <2>2 DEF Unbegun, Wrote
    <3> QED BY <2>1, <2>2, <3>1 DEF Noted, Passed
  <2>3. ASSUME pc[t] = "aborted", table[rm][x] = "committed", rms[x] \subseteq up PROVE FALSE
    <3>1. PICK s \in Thread : xid(s) = x /\ pc[s] \in {"commit", "committed"}
      BY <2>1, <2>3 DEF Ending
    <3> QED BY <2>1, <2>3, <3>1, Alone DEF Busy, Early, Ended
  <2> QED BY <1>0, <2>1, <2>2, <2>3 DEF Wrote
<1> QED BY <1>1, <1>2, <1>3, ActiveSteps

LEMMA OutcomesInit == Init => Outcomes
<1> SUFFICES ASSUME Init PROVE Outcomes
  OBVIOUS
<1>1. /\ \A t \in Thread : pc[t] = "idle"
      /\ \A x \in Xid : rms[x] = {} /\ active[x] = "none"
      /\ \A rm \in RM, x \in Xid : table[rm][x] = "none"
  BY DEF Init
<1> QED BY <1>1 DEF Outcomes, Noted, Heard, Ending, Passed, AllOrNothing

LEMMA OutcomesNext ==
    ASSUME Assumptions, Workers, Copying, Outcomes, [Next]_vars
    PROVE  Outcomes'
  BY NotedNext, HeardNext, EndingNext, PassedNext, AllOrNothingNext
     DEF Assumptions, Copying, Outcomes

(* The inductive invariant of the theorems on transactions.                *)
Inv == Workers /\ Copying /\ NoLostUpdate /\ Outcomes

LEMMA InvInit == Init => Inv
<1>1. Init => NoLostUpdate
  BY DEF Init, NoLostUpdate
<1> QED BY <1>1, WorkersInit, CopyingInit, OutcomesInit DEF Inv

LEMMA InvNext == ASSUME Assumptions, Inv, [Next]_vars PROVE Inv'
  BY WorkersNext, CopyingNext, NoLostUpdateNext, OutcomesNext DEF Inv

(* What the middleware has committed is committed wherever it has written,   *)
(* whatever has stopped: a commit under way is not overtaken.  What it has   *)
(* aborted is committed nowhere, as long as the resource managers that this *)
(* transaction has used answer.                                            *)
THEOREM EndsEverywhere == ASSUME Assumptions PROVE Spec => []AllOrNothing
<1>1. Inv /\ [Next]_vars => Inv'
  BY InvNext, Assumptions
<1>2. Inv => AllOrNothing
  BY DEF Inv, Outcomes, AllOrNothing
<1> QED BY <1>1, <1>2, InvInit, PTL DEF Spec

-----------------------------------------------------------------------------
(* The transactional store.                                                *)

LEMMA DbIs == \A rm \in RM, k \in LockedKeys :
    /\ <<rm, k>> \in Cell
    /\ db[<<rm, k>>] = {y \in store[rm][k] : active[y] = "committed"}
  BY DEF db, Cell

LEMMA CellIs == \A c \in Cell : \E rm \in RM, k \in LockedKeys : c = <<rm, k>>
  BY DEF Cell

LEMMA ViewIs ==
    ASSUME NEW x \in Xid
    PROVE  /\ DOMAIN view[x] \subseteq Cell
           /\ \A rm \in RM, k \in LockedKeys :
                 /\ <<rm, k>> \in DOMAIN view[x] <=>
                       active[x] = "active" /\ k \in DOMAIN work[rm][x]
                 /\ <<rm, k>> \in DOMAIN view[x] => view[x][<<rm, k>>] = work[rm][x][k]
  BY DEF view, Cell

LEMMA ViewOf ==
    /\ view = [x \in Xid |-> view[x]]
    /\ \A x \in Xid : view[x] = [c \in DOMAIN view[x] |-> view[x][c]]
  BY DEF view

LEMMA ViewBecomes ==
    ASSUME NEW x \in Xid, NEW v, view'[x] = v,
           \A y \in Xid \ {x} : view'[y] = view[y]
    PROVE  view' = [view EXCEPT ![x] = v]
<1>1. view = [y \in Xid |-> view[y]] /\ view' = [y \in Xid |-> view'[y]]
  BY DEF view
<1> HIDE DEF view
<1> QED BY <1>1

LEMMA DbSame ==
    ASSUME \A rm \in RM, k \in LockedKeys :
              {y \in store'[rm][k] : active'[y] = "committed"}
                 = {y \in store[rm][k] : active[y] = "committed"}
    PROVE  UNCHANGED db
  BY DEF db, Cell, LockedKeys

LEMMA ViewSame ==
    ASSUME NEW x \in Xid, active'[x] = active[x],
           \A rm \in RM : work'[rm][x] = work[rm][x]
    PROVE  view'[x] = view[x]
  BY DEF view, Cell, LockedKeys

(* What is stored is committed to all resource managers, where x has a lock. *)
LEMMA Clean ==
    ASSUME Inv, up = RM, NEW rm \in RM, NEW k \in LockedKeys, NEW x \in Xid,
           Holds(x, k, FALSE), NEW y \in store[rm][k], y # x
    PROVE  active[y] = "committed"
<1> USE DEF Inv, Workers, Copying, Outcomes
<1>1. k \in Key
  BY DEF LockedKeys
<1>2. y \in Xid /\ table[rm][y] = "committed" /\ Wrote(rm, y, k)
  BY <1>1 DEF NoDirtyRead, Committed, Written
<1>3. active[y] \in Entry /\ active[y] # "none" /\ active[y] # "aborted"
  BY <1>2 DEF Unbegun, AllOrNothing, Types, TypeOK, RM
<1>4. ASSUME active[y] = "active" PROVE FALSE
  <2>1. Holds(y, k, TRUE)
    BY <1>2, <1>4 DEF CopiesLocked, Wrote
  <2> QED BY <2>1 DEF Holds, NoClash, Clash
<1> QED BY <1>3, <1>4 DEF Entry

LEMMA StartRefines ==
    ASSUME Inv, NEW t \in Client, Start(t)
    PROVE  \E x \in Xid : Store!Begin(x)
<1> USE DEF Inv, Workers
<1>1. PICK x \in Xid : active[x] = "none" /\ active' = [active EXCEPT ![x] = "active"]
  BY ClientThread DEF Start
<1>2. UNCHANGED <<work, store, up>>
  BY DEF Start, data
<1>3. \A y \in Xid : active'[y] = IF y = x THEN "active" ELSE active[y]
  BY <1>1 DEF Types, TypeOK
<1>4. UNCHANGED db
  BY <1>1, <1>2, <1>3, DbSame DEF Types, TypeOK, LockedKeys, Value
<1>5. view'[x] = view[x]
  BY <1>1, <1>2 DEF view, Cell, LockedKeys, Copying, Unbegun
<1>6. UNCHANGED view
  BY <1>2, <1>3, <1>5, ViewSame, ViewOf DEF view
<1> QED BY <1>1, <1>2, <1>4, <1>6 DEF Store!Begin

LEMMA CommitAtRefines ==
    ASSUME Inv, NEW t \in Thread, CommitAt(t)
    PROVE  UNCHANGED <<active, db, view, up>>
<1> USE DEF Inv, Workers
<1> DEFINE x == xid(t)
<1>1. /\ UNCHANGED <<active, work, up>> /\ x \in Xid /\ active[x] = "active"
  BY CommitAtEffect, ThreadType DEF LiveCalls, Busy, Early
<1>2. ASSUME NEW rm \in RM, NEW k \in LockedKeys
      PROVE  {y \in store'[rm][k] : active[y] = "committed"}
                = {y \in store[rm][k] : active[y] = "committed"}
  <2>1. CASE store'[rm][k] = store[rm][k]
    BY <2>1
  <2>2. CASE k \in DOMAIN work[rm][x] /\ store'[rm][k] = work[rm][x][k]
    <3>1. work[rm][x][k] \ {x} = store[rm][k] \ {x}
      BY <1>1, <2>2 DEF Copying, Agrees
    <3> QED BY <1>1, <2>2, <3>1
  <2> QED BY <2>1, <2>2, CommitAtEffect DEF LockedKeys
<1>3. UNCHANGED db
  BY <1>1, <1>2, DbSame
<1>4. UNCHANGED view
  BY <1>1 DEF view, Cell, LockedKeys
<1> QED BY <1>1, <1>3, <1>4

LEMMA ExecuteRefines ==
    ASSUME Assumptions, Inv, up = RM, NEW t \in Thread, Execute(t)
    PROVE  \/ UNCHANGED <<active, db, view, up>>
           \/ \E x \in Xid : Store!Use(x)
<1> USE DEF Inv, Workers
<1> DEFINE x == xid(t)
           rm == rmOf(t)
<1>1. /\ pc[t] = "call" /\ UNCHANGED <<active, store, up>>
      /\ x \in Xid /\ active[x] = "active"
  BY ExecuteControl, ThreadType DEF LiveCalls, Busy, Early
<1>2. UNCHANGED db
  BY <1>1 DEF db, Cell, LockedKeys
<1>3. CASE UNCHANGED work
  <2>1. UNCHANGED view
    BY <1>1, <1>3 DEF view, Cell, LockedKeys
  <2> QED BY <1>1, <1>2, <2>1
<1>4. CASE ~UNCHANGED work
  <2>1. PICK c : /\ After(t, rm, x, c)
                 /\ Becomes(work, work', TRUE, rm, x, c)
                 /\ table[rm][x] = "active" /\ rm \in RM
    BY <1>4, ExecuteEffect
  <2> HIDE DEF x, rm
  <2>2. /\ work'[rm][x] = c
        /\ \A q \in RM : q # rm => work'[q][x] = work[q][x]
        /\ \A q \in RM, y \in Xid : y # x => work'[q][y] = work[q][y]
    BY <1>1, <2>1 DEF Becomes
  <2>3. view' = [view EXCEPT ![x] = view'[x]]
    <3>1. \A y \in Xid \ {x} : view'[y] = view[y]
      BY <1>1, <2>2, ViewSame
    <3> QED BY <1>1, <3>1, ViewBecomes
  <2>4. ASSUME NEW k \in LockedKeys, k \in DOMAIN c
        PROVE  \/ k \in DOMAIN work[rm][x] /\ c[k] \in {work[rm][x][k], work[rm][x][k] \cup {x}}
               \/ /\ k \notin DOMAIN work[rm][x]
                  /\ c[k] \in {db[<<rm, k>>], db[<<rm, k>>] \cup {x}}
    <3>1. k \in op(t).uses => op(t).lock = k /\ ~op(t).late
      BY ThreadType DEF LockedKeys
    <3>2. c[k] \in {Sees(rm, x, k), Sees(rm, x, k) \cup {x}}
      BY <2>1, <2>4, <3>1 DEF After
    <3>3. CASE k \in DOMAIN work[rm][x]
      BY <3>2, <3>3 DEF Sees
    <3>4. CASE k \notin DOMAIN work[rm][x]
      <4>1. k \in op(t).uses
        BY <2>1, <2>4, <3>4 DEF After
      <4>2. PICK h \in held : Covers(h, Wanted(t))
        BY <1>1, <3>1, <4>1 DEF Copying, Locked, x
      <4>3. Holds(x, k, FALSE)
        BY <3>1, <4>1, <4>2 DEF Holds, Covers, Wanted, x
      <4>4. x \notin store[rm][k]
        BY <1>1, <2>1 DEF Copying, NoDirtyRead, Committed, LockedKeys
      <4>5. store[rm][k] = db[<<rm, k>>]
        <5>1. \A y \in store[rm][k] : active[y] = "committed"
          BY <1>1, <2>1, <4>3, <4>4, Clean
        <5>2. {y \in store[rm][k] : active[y] = "committed"} = store[rm][k]
          BY <5>1
        <5> QED BY <2>1, <5>2, DbIs
      <4> QED BY <3>2, <3>4, <4>5 DEF Sees
    <3> QED BY <3>3, <3>4
  <2>5. DOMAIN work[rm][x] \subseteq DOMAIN c
    BY <2>1 DEF After
  <2>6. ASSUME NEW q \in RM, NEW k \in LockedKeys
        PROVE  /\ <<q, k>> \in DOMAIN view'[x] <=> k \in DOMAIN work'[q][x]
               /\ <<q, k>> \in DOMAIN view'[x] => view'[x][<<q, k>>] = work'[q][x][k]
    BY <1>1 DEF view, Cell, LockedKeys
  <2>7. DOMAIN view'[x] \subseteq Cell
    BY <1>1 DEF view, Cell, LockedKeys
  <2>8. DOMAIN view[x] \subseteq DOMAIN view'[x]
    <3>1. ASSUME NEW q \in RM, NEW k \in LockedKeys, <<q, k>> \in DOMAIN view[x]
          PROVE  <<q, k>> \in DOMAIN view'[x]
      BY <1>1, <2>2, <2>5, <2>6, <3>1, ViewIs
    <3> QED BY <1>1, <3>1, ViewIs, CellIs
  <2>9. ASSUME NEW q \in RM, NEW k \in LockedKeys, <<q, k>> \in DOMAIN view'[x]
        PROVE  view'[x][<<q, k>>] \in {Store!Seen(x, <<q, k>>), Store!Seen(x, <<q, k>>) \cup {x}}
    <3>1. CASE q = rm
      BY <1>1, <2>2, <2>4, <2>6, <2>9, <3>1, ViewIs DEF Store!Seen
    <3>2. CASE q # rm
      BY <1>1, <2>2, <2>6, <2>9, <3>2, ViewIs DEF Store!Seen
    <3> QED BY <3>1, <3>2
  <2>10. \A d \in DOMAIN view'[x] :
            view'[x][d] \in {Store!Seen(x, d), Store!Seen(x, d) \cup {x}}
    BY <2>7, <2>9, CellIs
  <2>11. Store!Use(x)
    BY <1>1, <1>2, <2>3, <2>7, <2>8, <2>10 DEF Store!Use
  <2> QED BY <1>1, <2>11
<1> QED BY <1>3, <1>4

LEMMA EndRefines ==
    ASSUME Inv, up = RM, NEW t \in Thread, End(t)
    PROVE  \E x \in Xid : Store!Commit(x) \/ Store!Abort(x)
<1> USE DEF Inv, Workers
<1> DEFINE x == xid(t)
<1>1. /\ x \in Xid /\ Busy(t) /\ active[x] = "active" /\ pc[t] \in Ended
      /\ active' = [active EXCEPT ![x] = pc[t]]
      /\ UNCHANGED <<work, store, up>>
  BY EndEffect, ThreadType DEF End, data, Busy, Ended
<1> HIDE DEF x
<1>2. \A y \in Xid : active'[y] = IF y = x THEN pc[t] ELSE active[y]
  BY <1>1 DEF Types, TypeOK
<1>3. view' = [view EXCEPT ![x] = Store!Nothing]
  <2>1. \A y \in Xid \ {x} : view'[y] = view[y]
    BY <1>1, <1>2, ViewSame
  <2>2. view'[x] = Store!Nothing
    BY <1>1, <1>2 DEF view, Cell, LockedKeys, Store!Nothing, Ended
  <2> QED BY <1>1, <2>1, <2>2, ViewBecomes
<1>4. CASE pc[t] = "aborted"
  <2>1. UNCHANGED db
    BY <1>1, <1>2, <1>4, DbSame DEF Types, TypeOK, LockedKeys, Value
  <2> QED BY <1>1, <1>3, <1>4, <2>1 DEF Store!Abort, Store!End
<1>5. CASE pc[t] = "committed"
  <2>1. ASSUME NEW rm \in RM, NEW k \in LockedKeys
        PROVE  /\ k \in Key /\ store[rm][k] \subseteq Xid
               /\ x \in store[rm][k] <=> Wrote(rm, x, k)
    <3>1. k \in Key
      BY DEF LockedKeys
    <3>2. store[rm][k] \subseteq Xid
      BY <3>1 DEF Types, TypeOK, Value
    <3>3. ASSUME Wrote(rm, x, k) PROVE x \in store[rm][k]
      <4>1. table[rm][x] # "none"
        BY <1>1, <3>3 DEF Copying, Unbegun, Wrote
      <4>2. table[rm][x] = "committed"
        BY <1>1, <1>5, <4>1 DEF Outcomes, Noted, Passed, x
      <4> QED BY <1>1, <3>3, <4>2 DEF NoLostUpdate
    <3> QED BY <1>1, <3>1, <3>2, <3>3 DEF Copying, Written
  <2>2. ASSUME NEW rm \in RM, NEW k \in LockedKeys, k \in DOMAIN work[rm][x]
        PROVE  /\ work[rm][x][k] \ {x} = db[<<rm, k>>]
               /\ db'[<<rm, k>>] = work[rm][x][k]
    <3>1. Holds(x, k, FALSE) /\ work[rm][x][k] \ {x} = store[rm][k] \ {x}
      BY <1>1, <2>2 DEF Copying, CopiesLocked, Agrees
    <3>2. \A y \in store[rm][k] : y # x => active[y] = "committed"
      BY <1>1, <3>1, Clean
    <3>3. db[<<rm, k>>] = store[rm][k] \ {x}
      BY <1>1, <3>2, DbIs
    <3>4. db'[<<rm, k>>] = store[rm][k]
      <4>1. db'[<<rm, k>>] = {y \in store[rm][k] : active'[y] = "committed"}
        BY <1>1 DEF db, Cell, LockedKeys
      <4>2. \A y \in store[rm][k] : active'[y] = "committed"
        BY <1>2, <1>5, <2>1, <3>2
      <4>3. {y \in store[rm][k] : active'[y] = "committed"} = store[rm][k]
        BY <4>2
      <4> QED BY <4>1, <4>3
    <3>5. x \in store[rm][k] <=> x \in work[rm][x][k]
      BY <2>1, <2>2 DEF Wrote
    <3>6. \A A, B : A \ {x} = B \ {x} /\ (x \in A <=> x \in B) => A = B
      OBVIOUS
    <3> QED BY <3>1, <3>3, <3>4, <3>5, <3>6
  <2>3. ASSUME NEW rm \in RM, NEW k \in LockedKeys, k \notin DOMAIN work[rm][x]
        PROVE  db'[<<rm, k>>] = db[<<rm, k>>]
    <3>1. x \notin store[rm][k]
      BY <2>1, <2>3 DEF Wrote
    <3>2. db'[<<rm, k>>] = {y \in store[rm][k] : active'[y] = "committed"}
      BY <1>1 DEF db, Cell, LockedKeys
    <3> QED BY <1>2, <2>1, <3>1, <3>2, DbIs
  <2>4. \A c \in DOMAIN view[x] : view[x][c] \ {x} = db[c]
    <3>1. ASSUME NEW rm \in RM, NEW k \in LockedKeys, <<rm, k>> \in DOMAIN view[x]
          PROVE  view[x][<<rm, k>>] \ {x} = db[<<rm, k>>]
      <4>1. k \in DOMAIN work[rm][x] /\ view[x][<<rm, k>>] = work[rm][x][k]
        BY <1>1, <3>1, ViewIs
      <4> QED BY <2>2, <4>1
    <3> QED BY <1>1, <3>1, ViewIs, CellIs
  <2>5. db' = [c \in Cell |-> Store!Seen(x, c)]
    <3>1. ASSUME NEW rm \in RM, NEW k \in LockedKeys
          PROVE  db'[<<rm, k>>] = Store!Seen(x, <<rm, k>>)
      <4>1. CASE k \in DOMAIN work[rm][x]
        BY <1>1, <2>2, <4>1, ViewIs DEF Store!Seen
      <4>2. CASE k \notin DOMAIN work[rm][x]
        BY <1>1, <2>3, <4>2, ViewIs DEF Store!Seen
      <4> QED BY <4>1, <4>2
    <3>2. \A c \in Cell : db'[c] = Store!Seen(x, c)
      BY <3>1, CellIs
    <3>3. db' = [c \in Cell |-> db'[c]]
      BY DEF db, Cell, LockedKeys
    <3> QED BY <3>2, <3>3
  <2> QED BY <1>1, <1>3, <1>5, <2>4, <2>5 DEF Store!Commit, Store!End
<1> QED BY <1>1, <1>4, <1>5 DEF Ended

(* Everything else is not seen in the store.                               *)
LEMMA OtherSteps ==
    ASSUME Types, [Next]_vars
    PROVE  \/ UNCHANGED <<active, work, store>>
           \/ \E t \in Client : Start(t)
           \/ \E t \in Thread : Execute(t) \/ CommitAt(t) \/ End(t)
<1>1. ASSUME NEW t \in Thread, Begin(t) \/ AbortAt(t) PROVE UNCHANGED <<active, work, store>>
  BY <1>1, BeginEffect, AbortAtEffect
<1> QED BY <1>1, ActiveSteps, DataSteps

LEMMA StoreInit == Init => Store!Init
<1> SUFFICES ASSUME Init PROVE Store!Init
  OBVIOUS
<1>1. db = [c \in Cell |-> {}]
  BY DEF Init, db, Cell, LockedKeys
<1>2. \A x \in Xid : view[x] = Store!Nothing
  BY DEF Init, view, Cell, Store!Nothing
<1>3. view = [x \in Xid |-> Store!Nothing]
  BY <1>2, ViewOf
<1> QED BY <1>1, <1>3 DEF Store!Init, Init

LEMMA StoreNext ==
    ASSUME Assumptions, Inv, [Next]_vars
    PROVE  Store!Next \/ UNCHANGED <<active, db, view, up = RM>>
<1> USE DEF Inv, Workers
<1>1. CASE up' # RM
  BY <1>1 DEF Store!Next, Store!Fail
<1>2. CASE up' = RM
  <2>1. up = RM
    BY <1>2, UpStep DEF Types, TypeOK
  <2>2. CASE UNCHANGED <<active, work, store>>
    <3>1. UNCHANGED db /\ UNCHANGED view
      BY <2>2 DEF db, view, Cell, LockedKeys
    <3> QED BY <1>2, <2>1, <2>2, <3>1
  <2>3. ASSUME NEW t \in Client, Start(t) PROVE Store!Next
    BY <2>3, StartRefines DEF Store!Next
  <2>4. ASSUME NEW t \in Thread, Execute(t)
        PROVE  Store!Next \/ UNCHANGED <<active, db, view, up = RM>>
    BY <1>2, <2>1, <2>4, ExecuteRefines DEF Store!Next
  <2>5. ASSUME NEW t \in Thread, CommitAt(t) PROVE UNCHANGED <<active, db, view, up = RM>>
    BY <1>2, <2>1, <2>5, CommitAtRefines
  <2>6. ASSUME NEW t \in Thread, End(t) PROVE Store!Next
    BY <2>1, <2>6, EndRefines DEF Store!Next
  <2> QED BY <2>2, <2>3, <2>4, <2>5, <2>6, OtherSteps
<1> QED BY <1>1, <1>2

(* The travel system is the transactional store that it is meant to be:      *)
(* transactions work on private views and take effect at once, everywhere    *)
(* and in an order in which they could have run one by one, as long as all    *)
(* resource managers answer.                                               *)
THEOREM StoreRefinement == ASSUME Assumptions PROVE Spec => ImplementsTransactionStore
<1>1. Inv /\ [Next]_vars => Inv' /\ [Store!Next]_(Store!vars)
  BY InvNext, StoreNext, Assumptions DEF Store!vars
<1> QED BY <1>1, InvInit, StoreInit, PTL DEF Spec, ImplementsTransactionStore, Store!Spec
=============================================================================
