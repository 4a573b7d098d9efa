-------------------------- MODULE NativePool_proofs --------------------------
(* Proofs about NativePool, for any number of queries, workers and chunks, *)
(* any batch size and any faults: a query that succeeds has one partial    *)
(* per chunk under its own plan, and the pool implements ChunkScan.  The   *)
(* lemmas first show, action by action, that the channels keep the order   *)
(* the queries rely on (ProtocolInv), then that no chunk is lost or done   *)
(* twice (ScanInv), and last that each step is one of the abstract scan.   *)
EXTENDS NativePool, Channels, FiniteSetTheorems, TLAPS

-----------------------------------------------------------------------------
(* CHANNELS                                                                *)

(* A worker's reply keeps the type of the replies.                         *)
LEMMA ReplyTypes ==
  ASSUME CallTypes, NEW q \in Callers, NEW t \in Threads, NEW r \in Answers
  PROVE  [reply EXCEPT ![q][t] = r] \in [Callers -> [Threads -> Answers]]
<1>1. reply \in [Callers -> [Threads -> Answers]]
  BY DEF CallTypes
<1>2. [reply[q] EXCEPT ![t] = r] \in [Threads -> Answers]
  BY <1>1
<1> QED
  BY <1>1, <1>2

(* A worker answers the command at the head of its channel                 *)
LEMMA PopStep ==
  ASSUME ProtocolInv, NEW t \in Threads, inbox[t] # <<>>, NEW r \in {"ok", "err"}, Reply(t, r),
         UNCHANGED <<call, mutex, sent, size, alive>>,
         \/ UNCHANGED sql /\ (Command(t).type = "execute" \/ r = "err")
         \/ /\ Command(t).type = "prepare"
            /\ \E s \in Callers \cup {None} :
                sql' = [sql EXCEPT ![t] = s] /\ (r = "ok" => s = Command(t).by)
  PROVE  ProtocolInv' /\ ~Executing(t)'
<1> DEFINE p == Command(t).by
<1>1. /\ inbox[t] \in Seq(Commands) /\ inbox \in [Threads -> Seq(Commands)]
      /\ reply \in [Callers -> [Threads -> Answers]]
      /\ sql \in [Threads -> Callers \cup {None}]
  BY DEF ProtocolInv, WorkerTypes, CallTypes
<1>2. /\ Tail(inbox[t]) \in Seq(Commands) /\ Len(Tail(inbox[t])) = Len(inbox[t]) - 1
      /\ DOMAIN Tail(inbox[t]) = 1 .. Len(inbox[t]) - 1
      /\ \A i \in 1 .. Len(inbox[t]) - 1 : Tail(inbox[t])[i] = inbox[t][i + 1]
      /\ Head(inbox[t]) = inbox[t][1] /\ Head(inbox[t]) \in Commands
      /\ DOMAIN inbox[t] = 1 .. Len(inbox[t]) /\ Len(inbox[t]) \in Nat \ {0}
      /\ Tail(inbox[t]) = <<>> <=> Len(inbox[t]) = 1
  BY <1>1, Popped, Zenon
<1>3. p \in Callers /\ p = inbox[t][1].by /\ Command(t).type = inbox[t][1].type
  BY <1>2 DEF Command, Commands
<1>4. reply[p][t] = "wait"
  BY <1>2, <1>3 DEF ProtocolInv, RepliesInv
<1>5. /\ reply' = [reply EXCEPT ![p][t] = r] /\ reply' \in [Callers -> [Threads -> Answers]]
      /\ \A q \in Callers, u \in Threads : reply'[q][u] = IF q = p /\ u = t THEN r ELSE reply[q][u]
  <2>1. reply' = [reply EXCEPT ![p][t] = r] /\ r \in Answers
    BY DEF Reply, Answers
  <2>2. reply' \in [Callers -> [Threads -> Answers]]
    BY <2>1, <1>3, ReplyTypes DEF ProtocolInv
  <2> QED
    BY <1>1, <2>1, <2>2
<1>6. inbox' = [inbox EXCEPT ![t] = Tail(inbox[t])] /\ inbox' \in [Threads -> Seq(Commands)]
  BY <1>1, <1>2, Replaced DEF Reply
<1>7. CallTypes' /\ WorkerTypes'
  BY <1>1, <1>5, <1>6, ZenonT(60) DEF ProtocolInv, CallTypes, WorkerTypes
<1>8. CallsInv'
  BY <1>3, <1>5 DEF ProtocolInv, CallsInv
<1>9. RepliesInv'
  <2> SUFFICES ASSUME NEW u \in Threads PROVE
         /\ alive[u] => u <= size
         /\ inbox'[u] # <<>> => alive[u]
         /\ \A i, j \in DOMAIN inbox'[u] : inbox'[u][i].by = inbox'[u][j].by => i = j
         /\ \A q \in Callers :
             /\ reply'[q][u] = "wait" <=> \E i \in DOMAIN inbox'[u] : inbox'[u][i].by = q
             /\ u > sent[q] => reply'[q][u] = "none"
    BY DEF RepliesInv
  <2>1. CASE u # t
    BY <2>1, <1>1, <1>5, <1>6 DEF ProtocolInv, RepliesInv
  <2>2. CASE u = t
    <3>1. inbox'[t] = Tail(inbox[t])
      BY <1>1, <1>6
    <3>2. \A i, j \in DOMAIN inbox[t] : inbox[t][i].by = inbox[t][j].by => i = j
      BY DEF ProtocolInv, RepliesInv
    <3>3. \A i, j \in DOMAIN Tail(inbox[t]) : Tail(inbox[t])[i].by = Tail(inbox[t])[j].by => i = j
      <4> SUFFICES ASSUME NEW i \in 1 .. Len(inbox[t]) - 1, NEW j \in 1 .. Len(inbox[t]) - 1,
                         Tail(inbox[t])[i].by = Tail(inbox[t])[j].by
                  PROVE  i = j
        BY <1>2
      <4>1. inbox[t][i + 1].by = inbox[t][j + 1].by
        BY <1>2
      <4>2. i + 1 \in DOMAIN inbox[t] /\ j + 1 \in DOMAIN inbox[t]
        BY <1>2
      <4>3. i + 1 = j + 1
        BY <4>1, <4>2, <3>2, Zenon
      <4> QED
        BY <4>3
    <3>4. ASSUME NEW q \in Callers PROVE
            reply'[q][t] = "wait" <=> \E i \in DOMAIN Tail(inbox[t]) : Tail(inbox[t])[i].by = q
      <4>1. CASE q = p
        <5>1. reply'[q][t] # "wait"
          BY <1>5, <4>1
        <5>2. ASSUME NEW k \in 1 .. Len(inbox[t]) - 1, Tail(inbox[t])[k].by = q
              PROVE  FALSE
          <6>1. inbox[t][k + 1].by = inbox[t][1].by
            BY <5>2, <1>2, <1>3, <4>1
          <6>2. k + 1 \in DOMAIN inbox[t] /\ 1 \in DOMAIN inbox[t]
            BY <1>2
          <6>3. k + 1 = 1
            BY <6>1, <6>2, <3>2, Zenon
          <6> QED
            BY <6>3
        <5> QED
          BY <5>1, <5>2, <1>2
      <4>2. CASE q # p
        <5>1. reply'[q][t] = "wait" <=> \E i \in DOMAIN inbox[t] : inbox[t][i].by = q
          BY <1>5, <4>2 DEF ProtocolInv, RepliesInv
        <5>2. ASSUME NEW i \in DOMAIN inbox[t], inbox[t][i].by = q
              PROVE  \E k \in DOMAIN Tail(inbox[t]) : Tail(inbox[t])[k].by = q
          <6>1. i # 1
            BY <5>2, <1>3, <4>2
          <6>2. i - 1 \in 1 .. Len(inbox[t]) - 1 /\ (i - 1) + 1 = i
            BY <6>1, <1>2
          <6> QED
            BY <6>2, <5>2, <1>2
        <5>3. ASSUME NEW k \in DOMAIN Tail(inbox[t]), Tail(inbox[t])[k].by = q
              PROVE  \E i \in DOMAIN inbox[t] : inbox[t][i].by = q
          <6>1. k \in 1 .. Len(inbox[t]) - 1 /\ k + 1 \in DOMAIN inbox[t]
            BY <1>2
          <6>2. inbox[t][k + 1].by = q
            BY <6>1, <5>3, <1>2
          <6> QED
            BY <6>1, <6>2
        <5> QED
          BY <5>1, <5>2, <5>3
      <4> QED
        BY <4>1, <4>2
    <3>5. alive[t] /\ t <= size
      BY DEF ProtocolInv, RepliesInv
    <3>6. \A q \in Callers : t > sent[q] => reply'[q][t] = "none"
      BY <1>3, <1>4, <1>5 DEF ProtocolInv, RepliesInv
    <3> QED
      BY <2>2, <3>1, <3>3, <3>4, <3>5, <3>6
  <2> QED
    BY <2>1, <2>2
<1>10. \A i \in DOMAIN Tail(inbox[t]) : Tail(inbox[t])[i].type = "prepare"
  <2> SUFFICES ASSUME NEW i \in 1 .. Len(inbox[t]) - 1 PROVE inbox[t][i + 1].type = "prepare"
    BY <1>2
  <2>1. i + 1 \in DOMAIN inbox[t] /\ i + 1 # 1
    BY <1>2
  <2> QED
    BY <2>1 DEF ProtocolInv, OrderInv
<1>11. ~Executing(t)'
  <2>1. SUFFICES ASSUME Tail(inbox[t]) # <<>> PROVE Head(Tail(inbox[t])).type = "prepare"
    BY <1>1, <1>6 DEF Executing, Command
  <2>2. Head(Tail(inbox[t])) = Tail(inbox[t])[1] /\ 1 \in DOMAIN Tail(inbox[t])
    BY <1>2, <2>1, Popped
  <2> QED
    BY <2>2, <1>10
<1>12. sql' \in [Threads -> Callers \cup {None}] /\ \A u \in Threads \ {t} : sql'[u] = sql[u]
  BY <1>1
<1>13. ASSUME NEW q \in Callers, call[q] \in {"prepare", "execute"},
             NEW i \in DOMAIN Tail(inbox[t]), Tail(inbox[t])[i].by = q
      PROVE  i = Len(Tail(inbox[t])) /\ Tail(inbox[t])[i].type = call[q]
  <2>1. /\ i \in 1 .. Len(inbox[t]) - 1
        /\ i + 1 \in DOMAIN inbox[t]
        /\ Tail(inbox[t])[i] = inbox[t][i + 1]
    BY <1>2, <1>13
  <2>2. i + 1 = Len(inbox[t]) /\ inbox[t][i + 1].type = call[q]
    BY <2>1, <1>13 DEF ProtocolInv, OrderInv
  <2> QED
    BY <2>1, <2>2, <1>2
<1>14. ASSUME NEW q \in Callers, Ready(t, q)'
      PROVE  Tail(inbox[t]) = <<>> /\ sql'[t] = q
  <2>1. alive[t]
    BY DEF ProtocolInv, RepliesInv
  <2>2. CASE q = p
    <3>1. sent[p] >= t
      BY <1>3, <1>4, SMTT(60) DEF ProtocolInv, RepliesInv, CallTypes, Threads
    <3>2. call[p] = "prepare" /\ r = "ok"
      BY <1>3, <1>5, <1>14, <2>2, <3>1 DEF Ready, ProtocolInv, CallTypes, Threads
    <3>3. 1 = Len(inbox[t]) /\ inbox[t][1].type = "prepare"
      BY <1>2, <1>3, <3>2 DEF ProtocolInv, OrderInv
    <3>4. sql' = [sql EXCEPT ![t] = p]
      BY <1>3, <3>2, <3>3
    <3> QED
      BY <1>1, <1>2, <2>2, <3>3, <3>4
  <2>3. CASE q # p
    <3>1. Ready(t, q)
      BY <1>5, <1>14, <2>3 DEF Ready
    <3> QED
      BY <2>1, <3>1 DEF ProtocolInv, OrderInv
  <2> QED
    BY <2>2, <2>3
<1>15. OrderInv'
  <2> SUFFICES ASSUME NEW u \in Threads PROVE
        /\ \A i \in DOMAIN inbox'[u] : i # 1 => inbox'[u][i].type = "prepare"
        /\ Executing(u)' => sql'[u] = Command(u)'.by
        /\ \A q \in Callers :
             /\ call'[q] \in {"prepare", "execute"} =>
                  \A i \in DOMAIN inbox'[u] :
                    inbox'[u][i].by = q => i = Len(inbox'[u]) /\ inbox'[u][i].type = call'[q]
             /\ alive'[u] /\ Ready(u, q)' => inbox'[u] = <<>> /\ sql'[u] = q
    BY DEF OrderInv
  <2>1. CASE u # t
    <3>1. inbox'[u] = inbox[u] /\ sql'[u] = sql[u] /\ \A q \in Callers : reply'[q][u] = reply[q][u]
      BY <1>1, <1>5, <1>6, <1>12, <2>1
    <3> QED
      BY <3>1 DEF ProtocolInv, OrderInv, Executing, Command, Ready
  <2>2. CASE u = t
    <3>1. inbox'[t] = Tail(inbox[t])
      BY <1>1, <1>6
    <3> QED
      BY <1>10, <1>11, <1>13, <1>14, <2>2, <3>1
  <2> QED
    BY <2>1, <2>2
<1> QED
  BY <1>7, <1>8, <1>9, <1>11, <1>15 DEF ProtocolInv

-----------------------------------------------------------------------------
(* THE PROTOCOL, STEP BY STEP                                              *)

(* The holder of the mutex is the only query at work.                      *)
LEMMA OnlyHolder ==
  ASSUME ProtocolInv, NEW q \in Callers, NEW r \in Callers, q # r, mutex = q
  PROVE  call[r] \in {"idle", "ok", "error"}
BY DEF ProtocolInv, CallsInv, CallTypes, Calls

(* A query that has not sent anything has no command in any channel.       *)
LEMMA NothingSent ==
  ASSUME ProtocolInv, NEW q \in Callers, sent[q] = 0, NEW t \in Threads
  PROVE  reply[q][t] = "none" /\ \A i \in DOMAIN inbox[t] : inbox[t][i].by # q
<1>1. reply[q][t] = "none"
  BY PoolAssumption DEF ProtocolInv, RepliesInv, Threads
<1> QED
  BY <1>1 DEF ProtocolInv, RepliesInv

(* The mutex is taken: nothing has been sent yet.                          *)
LEMMA LockProtocol ==
  ASSUME ProtocolInv, NEW q \in Callers, Lock(q)
  PROVE  ProtocolInv'
<1>1. CallTypes' /\ WorkerTypes'
  BY SMT DEF ProtocolInv, CallTypes, WorkerTypes, Lock, Calls, threadVars
<1>2. CallsInv'
  BY PoolAssumption DEF ProtocolInv, CallTypes, CallsInv, Lock
<1>3. RepliesInv'
  BY DEF ProtocolInv, RepliesInv, Lock, threadVars
<1>4. OrderInv'
  <2>1. /\ UNCHANGED <<inbox, sql, alive, reply, sent>>
        /\ \A r \in Callers : call'[r] \in {"prepare", "execute"} => call'[r] = call[r]
        /\ \A r \in Callers : call'[r] = "prepare" => call[r] = "prepare"
        /\ \A r \in Callers : call'[r] = "execute" => call[r] = "execute"
    BY DEF ProtocolInv, CallTypes, Lock, threadVars
  <2> QED
    BY <2>1 DEF ProtocolInv, OrderInv, Ready, Executing, Command
<1> QED
  BY <1>1, <1>2, <1>3, <1>4 DEF ProtocolInv

(* The pool has the right size; workers may still run old commands.        *)
LEMMA ReuseProtocol ==
  ASSUME ProtocolInv, NEW q \in Callers, Reuse(q)
  PROVE  ProtocolInv'
<1>1. CallTypes' /\ WorkerTypes'
  BY SMT DEF ProtocolInv, CallTypes, WorkerTypes, Reuse, Calls, threadVars
<1>2. CallsInv'
  BY PoolAssumption DEF ProtocolInv, CallTypes, WorkerTypes, CallsInv, Reuse
<1>3. RepliesInv'
  BY DEF ProtocolInv, RepliesInv, Reuse, threadVars
<1>4. OrderInv'
  <2>1. /\ UNCHANGED <<inbox, sql, alive, reply, sent>> /\ sent[q] = 0 /\ call'[q] = "prepare"
        /\ \A r \in Callers \ {q} : call'[r] = call[r]
    BY DEF ProtocolInv, CallTypes, CallsInv, Reuse, threadVars
  <2>2. \A t \in Threads : /\ reply[q][t] = "none"
                           /\ \A i \in DOMAIN inbox[t] : inbox[t][i].by # q
    BY <2>1, NothingSent
  <2> QED
    BY <2>1, <2>2 DEF ProtocolInv, OrderInv, Ready, Executing, Command
<1> QED
  BY <1>1, <1>2, <1>3, <1>4 DEF ProtocolInv

(* The new pool has empty channels and no plans; nobody waits.             *)
LEMMA RecreateProtocol ==
  ASSUME ProtocolInv, NEW q \in Callers, Recreate(q)
  PROVE  ProtocolInv' /\ \A t \in Threads : inbox[t] = <<>> /\ inbox'[t] = <<>>
<1>1. CallTypes'
  BY SMT DEF ProtocolInv, CallTypes, Recreate, Calls
<1>2. WorkerTypes'
  <2>1. <<>> \in Seq(Commands) /\ Want[q] \in 0 .. MaxSize
    BY PoolAssumption
  <2>2. inbox' \in [Threads -> Seq(Commands)]
    BY <2>1 DEF Recreate
  <2> QED
    BY <2>1, <2>2 DEF WorkerTypes, Recreate
<1>3. \A t \in Threads : inbox[t] = <<>> /\ inbox'[t] = <<>>
  BY SMT DEF ProtocolInv, WorkerTypes, RepliesInv, Recreate, Pool, Threads
<1>4. CallsInv'
  <2>1. mutex = q /\ sent[q] = 0
    BY DEF ProtocolInv, CallsInv, Recreate
  <2>2. \A r \in Callers \ {q} : call[r] \in {"idle", "ok", "error"}
    BY <2>1, OnlyHolder
  <2>3. /\ call'[q] = "prepare" /\ UNCHANGED <<mutex, sent, reply>>
        /\ \A r \in Callers \ {q} : call'[r] = call[r]
    BY DEF ProtocolInv, CallTypes, Recreate
  <2>4. size' = Want[q] /\ 0 <= size'
    BY PoolAssumption DEF Recreate
  <2> QED
    BY <2>1, <2>2, <2>3, <2>4 DEF ProtocolInv, CallsInv
<1>5. \A r \in Callers, t \in Threads : reply[r][t] # "wait"
  BY <1>3 DEF ProtocolInv, RepliesInv
<1>6. RepliesInv'
  <2>1. UNCHANGED <<sent, reply>> /\ \A t \in Threads : alive'[t] => t <= size'
    BY DEF Recreate
  <2>2. \A t \in Threads : DOMAIN inbox'[t] = {}
    BY <1>3
  <2> QED
    BY <1>3, <1>5, <2>1, <2>2 DEF ProtocolInv, RepliesInv
<1>7. OrderInv'
  <2>1. /\ UNCHANGED <<reply, sent>> /\ sent[q] = 0 /\ call'[q] = "prepare" /\ mutex = q
        /\ \A r \in Callers \ {q} : call'[r] = call[r]
    BY DEF ProtocolInv, CallTypes, CallsInv, Recreate
  <2>2. \A t \in Threads : reply[q][t] = "none"
    BY <2>1, NothingSent
  <2>3. \A r \in Callers, t \in Threads : ~Ready(t, r)'
    BY <2>1, <2>2, OnlyHolder DEF Ready
  <2> QED
    BY <1>3, <2>3 DEF OrderInv, Executing
<1> QED
  BY <1>1, <1>2, <1>3, <1>4, <1>6, <1>7 DEF ProtocolInv

(* All workers have answered, those outside the pool have nothing to       *)
(* answer.                                                                 *)
LEMMA AllAnswered ==
  ASSUME ProtocolInv, NEW q \in Callers, call[q] \in {"prepare", "execute"}, Answered(q)
  PROVE  \A t \in Threads :
           /\ reply[q][t] # "wait"
           /\ \A i \in DOMAIN inbox[t] : inbox[t][i].by # q
           /\ alive[t] => t \in Pool
<1>1. \A t \in Threads : t \in Pool \/ t > size
  BY PoolAssumption DEF ProtocolInv, WorkerTypes, Pool, Threads
<1>2. \A t \in Threads : t > size => reply[q][t] = "none"
  BY DEF ProtocolInv, RepliesInv, Answered
<1>3. \A t \in Threads : reply[q][t] # "wait"
  BY <1>1, <1>2 DEF Answered
<1>4. \A t \in Threads : alive[t] => t \in Pool
  BY <1>1, PoolAssumption DEF ProtocolInv, RepliesInv, WorkerTypes, Threads, Pool
<1> QED
  BY <1>3, <1>4 DEF ProtocolInv, RepliesInv

(* A query that gives up leaves its commands; that is all.                 *)
LEMMA GiveUpProtocol ==
  ASSUME ProtocolInv, NEW q \in Callers, mutex = q, NEW a \in {"ok", "error"}, Return(q, a),
         UNCHANGED <<sent, reply, size, alive, inbox, sql>>,
         a = "ok" => \A t \in Threads : reply[q][t] # "wait"
  PROVE  ProtocolInv'
<1>1. CallTypes' /\ WorkerTypes'
  BY SMT DEF ProtocolInv, CallTypes, WorkerTypes, Return, Calls
<1>2. \A r \in Callers : call'[r] \in {"idle", "ok", "error"} /\ (r # q => call'[r] = call[r])
  BY OnlyHolder DEF ProtocolInv, CallTypes, Return
<1>3. call'[q] = a /\ mutex' = None
  BY DEF ProtocolInv, CallTypes, Return
<1>4. CallsInv'
  BY <1>2, <1>3, PoolAssumption DEF ProtocolInv, CallsInv
<1>5. RepliesInv'
  BY DEF ProtocolInv, RepliesInv
<1>6. OrderInv'
  BY <1>2 DEF ProtocolInv, OrderInv, Ready, Executing, Command
<1> QED
  BY <1>1, <1>4, <1>5, <1>6 DEF ProtocolInv

(* Every worker holds the plan, and the channels are empty: the query may  *)
(* send its Execute commands.                                              *)
LEMMA PreparedProtocol ==
  ASSUME ProtocolInv, NEW q \in Callers, Prepared(q)
  PROVE  ProtocolInv'
<1>1. mutex = q /\ call[q] = "prepare"
  BY DEF ProtocolInv, CallsInv, Prepared
<1>2. CASE \A t \in Pool : reply[q][t] = "ok"
  <2>1. /\ call' = [call EXCEPT ![q] = "execute"]
        /\ reply' = [reply EXCEPT ![q] = NoReplies]
        /\ sent' = [sent EXCEPT ![q] = 0]
        /\ UNCHANGED <<mutex, size, alive, inbox, sql>>
    BY <1>2 DEF Prepared, threadVars
  <2>2. /\ NoReplies \in [Threads -> Answers] /\ 0 \in 0 .. MaxSize
        /\ \A t \in Threads : NoReplies[t] = "none"
    BY PoolAssumption DEF NoReplies, Answers
  <2>3. CallTypes' /\ WorkerTypes'
    BY <2>1, <2>2, SMT DEF ProtocolInv, CallTypes, WorkerTypes, Calls
  <2>4. /\ call'[q] = "execute" /\ sent'[q] = 0 /\ \A t \in Threads : reply'[q][t] = "none"
        /\ \A r \in Callers \ {q} : call'[r] = call[r] /\ sent'[r] = sent[r] /\ reply'[r] = reply[r]
    BY <2>1, <2>2 DEF ProtocolInv, CallTypes
  <2>5. \A t \in Threads :
           /\ reply[q][t] # "wait"
           /\ \A i \in DOMAIN inbox[t] : inbox[t][i].by # q
           /\ alive[t] => t \in Pool
    BY <1>1, AllAnswered DEF Prepared
  <2>6. CallsInv'
    BY <1>1, <2>1, <2>4, PoolAssumption DEF ProtocolInv, CallsInv, WorkerTypes
  <2>7. RepliesInv'
    BY <2>1, <2>4, <2>5 DEF ProtocolInv, RepliesInv
  <2>8. \A t \in Threads : alive[t] => Ready(t, q)
    BY <1>1, <1>2, <2>5 DEF Ready
  <2>9. OrderInv'
    BY <2>1, <2>4, <2>5, <2>8 DEF ProtocolInv, OrderInv, Ready, Executing, Command
  <2> QED
    BY <2>3, <2>6, <2>7, <2>9 DEF ProtocolInv
<1>3. CASE ~\A t \in Pool : reply[q][t] = "ok"
  BY <1>1, <1>3, GiveUpProtocol DEF Prepared, threadVars
<1> QED
  BY <1>2, <1>3

(* The query returns with the result or the error.                         *)
LEMMA ExecutedProtocol ==
  ASSUME ProtocolInv, NEW q \in Callers, Executed(q)
  PROVE  ProtocolInv'
<1>1. mutex = q /\ call[q] = "execute"
  BY DEF ProtocolInv, CallsInv, Executed
<1>2. \A t \in Threads : reply[q][t] # "wait"
  BY <1>1, AllAnswered DEF Executed
<1>3. \E a \in {"ok", "error"} : Return(q, a)
  BY DEF Executed
<1> QED
  BY <1>1, <1>2, <1>3, GiveUpProtocol DEF Executed, threadVars

(* Steps inside a command do not concern the protocol.                     *)
LEMMA QuietProtocol ==
  ASSUME ProtocolInv, UNCHANGED <<call, mutex, sent, reply, size, alive, inbox, sql>>
  PROVE  ProtocolInv'
BY DEF ProtocolInv, CallTypes, WorkerTypes, CallsInv, RepliesInv, OrderInv, Ready, Executing, Command

(* A dead thread has no commands, and nobody waits for it.                 *)
LEMMA DieProtocol ==
  ASSUME ProtocolInv, NEW t \in Threads, Die(t)
  PROVE  ProtocolInv'
<1>1. /\ \A q \in Callers, u \in Threads :
           reply'[q][u] = IF u = t /\ reply[q][t] = "wait" THEN "err" ELSE reply[q][u]
      /\ reply' \in [Callers -> [Threads -> Answers]]
  <2>1. reply \in [Callers -> [Threads -> Answers]]
    BY DEF ProtocolInv, CallTypes
  <2>2. \A q \in Callers : [reply[q] EXCEPT ![t] = "err"] \in [Threads -> Answers]
    BY <2>1 DEF Answers
  <2>3. reply' = [q \in Callers |->
                 IF reply[q][t] = "wait" THEN [reply[q] EXCEPT ![t] = "err"] ELSE reply[q]]
    BY DEF Die
  <2> QED
    BY <2>1, <2>2, <2>3
<1>2. /\ inbox' = [inbox EXCEPT ![t] = <<>>] /\ alive' = [alive EXCEPT ![t] = FALSE]
      /\ inbox'[t] = <<>> /\ alive'[t] = FALSE
      /\ \A u \in Threads \ {t} : inbox'[u] = inbox[u] /\ alive'[u] = alive[u]
      /\ UNCHANGED <<call, mutex, sent, size, sql>>
  BY DEF ProtocolInv, WorkerTypes, Die
<1>3. CallTypes' /\ WorkerTypes'
  <2>1. <<>> \in Seq(Commands)
    OBVIOUS
  <2>2. inbox' \in [Threads -> Seq(Commands)] /\ alive' \in [Threads -> BOOLEAN]
    BY <1>2, <2>1 DEF ProtocolInv, WorkerTypes
  <2> QED
    BY <1>1, <1>2, <2>2 DEF ProtocolInv, CallTypes, WorkerTypes
<1>4. CallsInv'
  BY <1>1, <1>2 DEF ProtocolInv, CallsInv
<1>5. RepliesInv'
  BY <1>1, <1>2 DEF ProtocolInv, RepliesInv
<1>6. OrderInv'
  BY <1>1, <1>2 DEF ProtocolInv, OrderInv, Ready, Executing, Command
<1> QED
  BY <1>3, <1>4, <1>5, <1>6 DEF ProtocolInv

(* The command goes to the end of the channel.                             *)
LEMMA SendProtocol ==
  ASSUME ProtocolInv, NEW q \in Callers, Send(q)
  PROVE  ProtocolInv'
<1>a. PICK t \in Threads : t = sent[q] + 1
  BY PoolAssumption DEF ProtocolInv, CallTypes, WorkerTypes, Send, Threads, Pool
<1>b. PICK e : e = [type |-> call[q], by |-> q]
  OBVIOUS
<1>1. /\ t = sent[q] + 1 /\ e = [type |-> call[q], by |-> q] /\ e.type = call[q] /\ e.by = q
      /\ t \in Pool /\ t <= size /\ t \in 0 .. MaxSize
      /\ call[q] \in {"prepare", "execute"} /\ mutex = q
  BY <1>a, <1>b, PoolAssumption DEF ProtocolInv, CallTypes, WorkerTypes, CallsInv, Send, Threads, Pool
<1>2. CASE ~alive[t]
  BY <1>1, <1>2, GiveUpProtocol DEF Send
<1>3. CASE alive[t]
  <2>1. /\ inbox' = [inbox EXCEPT ![t] = Append(inbox[t], e)]
        /\ reply' = [reply EXCEPT ![q][t] = "wait"]
        /\ sent' = [sent EXCEPT ![q] = t]
        /\ UNCHANGED <<call, mutex, size, alive, sql>>
    BY <1>1, <1>3 DEF Send
  <2>2. inbox \in [Threads -> Seq(Commands)] /\ inbox[t] \in Seq(Commands) /\ e \in Commands
    BY <1>1 DEF ProtocolInv, WorkerTypes, Commands
  <2>3. /\ Append(inbox[t], e) \in Seq(Commands) /\ Append(inbox[t], e) # <<>>
        /\ DOMAIN Append(inbox[t], e) = 1 .. Len(inbox[t]) + 1
        /\ Len(Append(inbox[t], e)) = Len(inbox[t]) + 1
        /\ \A i \in 1 .. Len(inbox[t]) : Append(inbox[t], e)[i] = inbox[t][i]
        /\ Append(inbox[t], e)[Len(inbox[t]) + 1] = e
        /\ DOMAIN inbox[t] = 1 .. Len(inbox[t]) /\ Len(inbox[t]) \in Nat
        /\ inbox[t] # <<>> => Head(Append(inbox[t], e)) = Head(inbox[t])
        /\ inbox[t] = <<>> => Head(Append(inbox[t], e)) = e
    BY <2>2, Appended
  <2>4. /\ inbox' \in [Threads -> Seq(Commands)] /\ inbox'[t] = Append(inbox[t], e)
        /\ \A u \in Threads \ {t} : inbox'[u] = inbox[u]
    BY <1>1, <2>1, <2>2, <2>3, Replaced
  <2>5. /\ reply' \in [Callers -> [Threads -> Answers]]
        /\ \A r \in Callers, u \in Threads :
             reply'[r][u] = IF r = q /\ u = t THEN "wait" ELSE reply[r][u]
    <3>1. reply \in [Callers -> [Threads -> Answers]] /\ "wait" \in Answers
      BY DEF ProtocolInv, CallTypes, Answers
    <3>2. reply' \in [Callers -> [Threads -> Answers]]
      BY <1>1, <2>1, <3>1, ReplyTypes DEF ProtocolInv
    <3> QED
      BY <1>1, <2>1, <3>1, <3>2
  <2>6. /\ sent' \in [Callers -> 0 .. MaxSize]
        /\ sent'[q] = t
        /\ \A r \in Callers \ {q} : sent'[r] = sent[r]
    BY <1>1, <2>1 DEF ProtocolInv, CallTypes
  <2>7. CallTypes' /\ WorkerTypes'
    BY <2>1, <2>4, <2>5, <2>6 DEF ProtocolInv, CallTypes, WorkerTypes
  <2>8. \A r \in Callers \ {q} : call[r] \in {"idle", "ok", "error"}
    BY <1>1, OnlyHolder
  <2>9. CallsInv'
    BY <1>1, <2>1, <2>5, <2>6, <2>8, ZenonT(60) DEF ProtocolInv, CallsInv
  <2>10. \A i \in DOMAIN inbox[t] : inbox[t][i].by # q
    <3>1. reply[q][t] = "none"
      BY <1>1 DEF ProtocolInv, RepliesInv, CallTypes
    <3> QED
      BY <1>1, <3>1 DEF ProtocolInv, RepliesInv
  <2>11. \A i \in DOMAIN inbox'[t] :
           \/ i \in DOMAIN inbox[t] /\ inbox'[t][i] = inbox[t][i] /\ i # Len(inbox'[t])
           \/ i = Len(inbox[t]) + 1 /\ i = Len(inbox'[t]) /\ inbox'[t][i] = e
    BY <2>3, <2>4
  <2>12. RepliesInv'
    <3> SUFFICES ASSUME NEW u \in Threads PROVE
         /\ alive[u] => u <= size
         /\ inbox'[u] # <<>> => alive[u]
         /\ \A i, j \in DOMAIN inbox'[u] : inbox'[u][i].by = inbox'[u][j].by => i = j
         /\ \A r \in Callers :
             /\ reply'[r][u] = "wait" <=> \E i \in DOMAIN inbox'[u] : inbox'[u][i].by = r
             /\ u > sent'[r] => reply'[r][u] = "none"
      BY <2>1 DEF RepliesInv
    <3>1. CASE u # t
      <4>1. inbox'[u] = inbox[u] /\ \A r \in Callers : reply'[r][u] = reply[r][u]
        BY <2>4, <2>5, <3>1
      <4>2. \A r \in Callers : u > sent'[r] => u > sent[r]
        BY <1>1, <2>6 DEF ProtocolInv, CallTypes, Threads
      <4> QED
        BY <4>1, <4>2 DEF ProtocolInv, RepliesInv
    <3>2. CASE u = t
      <4>1. \A i, j \in DOMAIN inbox[t] : inbox[t][i].by = inbox[t][j].by => i = j
        BY <1>1 DEF ProtocolInv, RepliesInv
      <4>2. \A i, j \in DOMAIN inbox'[t] : inbox'[t][i].by = inbox'[t][j].by => i = j
        BY <1>1, <2>10, <2>11, <4>1
      <4>3. ASSUME NEW r \in Callers PROVE
              reply'[r][t] = "wait" <=> \E i \in DOMAIN inbox'[t] : inbox'[t][i].by = r
        <5>1. CASE r = q
          <6>1. Len(inbox[t]) + 1 \in DOMAIN inbox'[t] /\ inbox'[t][Len(inbox[t]) + 1].by = q
            BY <1>1, <2>3, <2>4
          <6> QED
            BY <1>1, <2>5, <5>1, <6>1
        <5>2. CASE r # q
          <6>1. reply'[r][t] = "wait" <=> \E i \in DOMAIN inbox[t] : inbox[t][i].by = r
            BY <1>1, <2>5, <5>2 DEF ProtocolInv, RepliesInv
          <6>2. \A i \in DOMAIN inbox[t] : i \in DOMAIN inbox'[t] /\ inbox'[t][i] = inbox[t][i]
            BY <2>3, <2>4
          <6> QED
            BY <1>1, <2>11, <5>2, <6>1, <6>2
        <5> QED
          BY <5>1, <5>2
      <4>4. \A r \in Callers : t > sent'[r] => reply'[r][t] = "none"
        BY <1>1, <2>5, <2>6 DEF ProtocolInv, RepliesInv, CallTypes
      <4> QED
        BY <1>1, <1>3, <3>2, <4>2, <4>3, <4>4
    <3> QED
      BY <3>1, <3>2
  <2>13. call[q] = "execute" => inbox[t] = <<>> /\ sql[t] = q
    <3>1. call[q] = "execute" => Ready(t, q)
      BY <1>1 DEF Ready, ProtocolInv, CallTypes
    <3> QED
      BY <1>1, <1>3, <3>1 DEF ProtocolInv, OrderInv
  <2>14. OrderInv'
    <3> SUFFICES ASSUME NEW u \in Threads PROVE
          /\ \A i \in DOMAIN inbox'[u] : i # 1 => inbox'[u][i].type = "prepare"
          /\ Executing(u)' => sql[u] = Command(u)'.by
          /\ \A r \in Callers :
               /\ call[r] \in {"prepare", "execute"} =>
                    \A i \in DOMAIN inbox'[u] :
                      inbox'[u][i].by = r => i = Len(inbox'[u]) /\ inbox'[u][i].type = call[r]
               /\ alive[u] /\ Ready(u, r)' => inbox'[u] = <<>> /\ sql[u] = r
      BY <2>1 DEF OrderInv
    <3>1. \A r \in Callers : Ready(u, r)' => r = q /\ u # t /\ Ready(u, q)
      <4> SUFFICES ASSUME NEW r \in Callers, Ready(u, r)' PROVE r = q /\ u # t /\ Ready(u, q)
        OBVIOUS
      <4>0. \/ call[r] = "prepare" /\ reply'[r][u] = "ok"
            \/ call[r] = "execute" /\ sent'[r] < u
        BY <2>1 DEF Ready
      <4>1. r = q
        BY <2>8, <4>0
      <4>2. CASE call[q] = "prepare" /\ reply'[q][u] = "ok"
        BY <2>5, <4>1, <4>2 DEF Ready
      <4>3. CASE call[q] = "execute" /\ sent'[q] < u
        <5>1. sent[q] \in Nat /\ u \in Nat
          BY PoolAssumption DEF ProtocolInv, CallTypes, Threads
        <5>2. sent[q] + 1 < u
          BY <1>1, <2>6, <4>3
        <5>3. sent[q] < u /\ u # t
          BY <1>1, <5>1, <5>2
        <5> QED
          BY <4>1, <4>3, <5>3 DEF Ready
      <4> QED
        BY <4>0, <4>1, <4>2, <4>3
    <3>2. CASE u # t
      <4>1. inbox'[u] = inbox[u]
        BY <2>4, <3>2
      <4> QED
        BY <3>1, <4>1 DEF ProtocolInv, OrderInv, Executing, Command
    <3>3. CASE u = t
      <4>1. \A i \in DOMAIN inbox'[t] : i # 1 => inbox'[t][i].type = "prepare"
        <5> SUFFICES ASSUME NEW i \in DOMAIN inbox'[t], i # 1 PROVE inbox'[t][i].type = "prepare"
          OBVIOUS
        <5>1. CASE i \in DOMAIN inbox[t] /\ inbox'[t][i] = inbox[t][i]
          BY <1>1, <5>1 DEF ProtocolInv, OrderInv
        <5>2. CASE i = Len(inbox[t]) + 1 /\ inbox'[t][i] = e
          <6>1. inbox[t] # <<>>
            BY <2>2, <5>2
          <6> QED
            BY <1>1, <2>13, <5>2, <6>1
        <5> QED
          BY <5>1, <5>2, <2>11
      <4>2. Executing(t)' => sql[t] = Command(t)'.by
        <5>1. CASE inbox[t] = <<>>
          <6>1. Command(t)' = e
            BY <2>3, <2>4, <5>1 DEF Command
          <6> QED
            BY <1>1, <2>13, <6>1 DEF Executing
        <5>2. CASE inbox[t] # <<>>
          <6>1. Command(t)' = Command(t)
            BY <2>3, <2>4, <5>2 DEF Command
          <6>2. Executing(t) => sql[t] = Command(t).by
            BY <1>1 DEF ProtocolInv, OrderInv
          <6> QED
            BY <5>2, <6>1, <6>2 DEF Executing
        <5> QED
          BY <5>1, <5>2
      <4>3. \A r \in Callers : call[r] \in {"prepare", "execute"} =>
               \A i \in DOMAIN inbox'[t] :
                 inbox'[t][i].by = r => i = Len(inbox'[t]) /\ inbox'[t][i].type = call[r]
        <5> SUFFICES ASSUME NEW i \in DOMAIN inbox'[t], inbox'[t][i].by = q
                     PROVE  i = Len(inbox'[t]) /\ inbox'[t][i].type = call[q]
          BY <2>8
        <5> QED
          BY <1>1, <2>10, <2>11
      <4>4. \A r \in Callers : ~Ready(t, r)'
        BY <3>1, <3>3
      <4> QED
        BY <3>3, <4>1, <4>2, <4>3, <4>4
    <3> QED
      BY <3>2, <3>3
  <2> QED
    BY <2>7, <2>9, <2>12, <2>14 DEF ProtocolInv
<1> QED
  BY <1>2, <1>3

(* What is at the head of a channel.                                       *)
LEMMA HeadCommand ==
  ASSUME ProtocolInv, NEW t \in Threads, inbox[t] # <<>>
  PROVE  /\ Command(t) \in Commands /\ Command(t).by \in Callers
         /\ Command(t).type \in {"prepare", "execute"}
         /\ reply[Command(t).by][t] = "wait"
         /\ \A q \in Callers :
               call[q] \in {"prepare", "execute"} /\ Command(t).by = q => Command(t).type = call[q]
<1>1. inbox[t] \in Seq(Commands)
  BY DEF ProtocolInv, WorkerTypes
<1>2. Command(t) = inbox[t][1] /\ Command(t) \in Commands /\ 1 \in DOMAIN inbox[t]
  BY <1>1, Popped DEF Command
<1>3. Command(t).by \in Callers /\ Command(t).type \in {"prepare", "execute"}
  BY <1>2 DEF Commands
<1> QED
  BY <1>2, <1>3 DEF ProtocolInv, RepliesInv, OrderInv

(* A worker prepares: its plan is that of the command it answers.          *)
LEMMA PrepareSqlProtocol ==
  ASSUME ProtocolInv, NEW t \in Threads, PrepareSql(t)
  PROVE  ProtocolInv' /\ ~Executing(t)'
<1>1. inbox[t] # <<>> /\ Command(t).type = "prepare"
  BY DEF PrepareSql, Runs
<1>2. Command(t).by \in Callers
  BY <1>1, HeadCommand
<1>3. \E r \in {"ok", "err"}, s \in Callers \cup {None} :
        Reply(t, r) /\ sql' = [sql EXCEPT ![t] = s] /\ (r = "ok" => s = Command(t).by)
  BY <1>2, Zenon DEF PrepareSql
<1>4. UNCHANGED <<call, mutex, sent, size, alive>>
  BY DEF PrepareSql
<1> QED
  BY <1>1, <1>3, <1>4, PopStep

(* A worker answers an Execute command, with success or an error.          *)
LEMMA AnswerProtocol ==
  ASSUME ProtocolInv, NEW t \in Threads, Executing(t), ChunkFails(t) \/ Exhausted(t)
  PROVE  ProtocolInv' /\ ~Executing(t)'
<1>1. inbox[t] # <<>> /\ Command(t).type = "execute"
  BY DEF Executing
<1>2. \E r \in {"ok", "err"} : Reply(t, r)
  BY DEF ChunkFails, Exhausted
<1>3. UNCHANGED <<call, mutex, sent, size, alive, sql>>
  BY DEF ChunkFails, Exhausted
<1> QED
  BY <1>1, <1>2, <1>3, PopStep

-----------------------------------------------------------------------------
(* WHAT A COMMAND AT THE HEAD SEES                                         *)

(* Nothing that matters to the scans has changed: a worker that executed   *)
(* still does, for the same query.                                         *)
SameWork == \A u \in Threads : Executing(u) => Executing(u)' /\ Command(u)' = Command(u)

(* Chunks are numbers below NChunks, and None is not one.                  *)
LEMMA ChunkRange == None \notin Chunks /\ \A c \in Chunks : c \in Nat /\ c < NChunks
BY PoolAssumption DEF Chunks

(* A worker that executes has the plan of the query that sent the command; *)
(* that query still waits or has given up.                                 *)
LEMMA WorkerAndQuery ==
  ASSUME ProtocolInv, NEW t \in Threads, Executing(t)
  PROVE  /\ Command(t).by \in Callers /\ reply[Command(t).by][t] = "wait"
         /\ sql[t] = Command(t).by /\ alive[t] /\ Runs(t, "execute")
         /\ call[Command(t).by] \in {"execute", "error"}
<1>1. inbox[t] # <<>> /\ Command(t).type = "execute"
  BY DEF Executing
<1>2. /\ Command(t).by \in Callers /\ reply[Command(t).by][t] = "wait" /\ call[Command(t).by] # "prepare"
  BY <1>1, HeadCommand
<1>3. alive[t] /\ sql[t] = Command(t).by
  BY <1>1 DEF ProtocolInv, RepliesInv, OrderInv, Executing
<1>4. call[Command(t).by] # "ok"
  BY <1>2 DEF ProtocolInv, CallsInv
<1>5. call[Command(t).by] \notin {"idle", "pool"}
  <2> SUFFICES ASSUME call[Command(t).by] \in {"idle", "pool"} PROVE FALSE
    OBVIOUS
  <2>1. sent[Command(t).by] = 0
    BY <1>2 DEF ProtocolInv, CallsInv
  <2> QED
    BY <1>2, <2>1, NothingSent
<1> QED
  BY <1>1, <1>2, <1>3, <1>4, <1>5 DEF ProtocolInv, CallTypes, Calls, Runs

(* What workers hold is safe when it, the counters and the histories stay. *)
LEMMA ClaimsFrame ==
  ASSUME ClaimsInv, SameWork, UNCHANGED <<batch, chunk, partials, next, begun, done>>
  PROVE  ClaimsInv'
<1> SUFFICES ASSUME NEW t \in Threads PROVE
     /\ ~Executing(t)' => batch[t] = {} /\ chunk[t] = None /\ partials[t] = {}
     /\ \A q \in Callers : Executes(t, q)' =>
         /\ \A c \in batch[t] : c < next[q] /\ c \notin begun[q]
         /\ chunk[t] # None => chunk[t] \in begun[q] \ done[q]
         /\ partials[t] \subseteq done[q] \X {q}
         /\ \A u \in Threads \ {t} : Executes(u, q)' =>
              /\ batch[t] \cap batch[u] = {}
              /\ chunk[t] # None => chunk[u] # chunk[t]
  BY DEF ClaimsInv
<1>1. CASE ~Executing(t)
  BY <1>1 DEF ClaimsInv
<1>2. CASE Executing(t)
  <2>1. Executing(t)' /\ \A q \in Callers : Executes(t, q)' => Executes(t, q)
    BY <1>2 DEF SameWork, Executes
  <2>2. \A u \in Threads, q \in Callers : Executes(u, q)' =>
           Executes(u, q) \/ (batch[u] = {} /\ chunk[u] = None)
    BY DEF SameWork, Executes, ClaimsInv
  <2> QED
    BY <2>1, <2>2 DEF ClaimsInv
<1> QED
  BY <1>1, <1>2

(* Nothing is lost by a step that only sends commands.                     *)
LEMMA CompleteFrame ==
  ASSUME CompleteInv, SameWork, UNCHANGED <<batch, chunk, partials, next, done, collected>>,
         NEW q \in Callers, call[q] = "execute",
         \A t \in Threads : reply'[q][t] = reply[q][t] \/ (reply[q][t] = "none" /\ reply'[q][t] = "wait"),
         \A t \in Threads : reply'[q][t] # "err"
  PROVE  /\ \A c \in Chunks : c < next[q] =>
             c \in done[q] \/ \E t \in Threads : Executes(t, q)' /\ (c \in batch[t] \/ c = chunk[t])
         /\ \A c \in done[q] :
             <<c, q>> \in collected[q] \/ \E t \in Threads : Executes(t, q)' /\ <<c, q>> \in partials[t]
         /\ \A t \in Threads : reply'[q][t] = "ok" => next[q] >= NChunks
<1>1. \A t \in Threads : reply[q][t] # "err"
  OBVIOUS
<1>2. \A t \in Threads : Executes(t, q) => Executes(t, q)'
  BY DEF SameWork, Executes
<1> QED
  BY <1>1, <1>2, Zenon DEF CompleteInv

(* Calls, and workers that prepare, leave the scans alone.                 *)
ScanState == <<batch, chunk, partials, next, begun, done, collected>>

(* More workers that have finished leave more room to the counter.         *)
LEMMA MoreFinished ==
  ASSUME NEW S \in SUBSET Threads, NEW T \in SUBSET Threads, S \subseteq T
  PROVE  /\ Cardinality(S) \in Nat /\ Cardinality(T) \in Nat
         /\ Batch * (Cardinality(S) + 1) <= Batch * (Cardinality(T) + 1)
<1>1. IsFiniteSet(Threads)
  BY PoolAssumption, FS_Interval DEF Threads
<1>2. IsFiniteSet(T) /\ IsFiniteSet(S)
  BY <1>1, FS_Subset
<1>3. Cardinality(S) \in Nat /\ Cardinality(T) \in Nat /\ Cardinality(S) <= Cardinality(T)
  BY <1>2, FS_Subset, FS_CardinalityType
<1> QED
  BY <1>3, PoolAssumption, SMT

(* A counter that stays keeps its bound while no answer is forgotten.      *)
LEMMA CounterFrame ==
  ASSUME CounterInv, ScanTypes, UNCHANGED next,
         \A q \in Callers : next[q] = 0 \/ \A t \in Threads : reply[q][t] = "ok" => reply'[q][t] = "ok"
  PROVE  CounterInv'
<1> SUFFICES ASSUME NEW q \in Callers
             PROVE  next[q] < NChunks + Batch * (Cardinality(Finished(q)') + 1)
  BY DEF CounterInv
<1>0. next[q] \in Nat /\ next[q] < NChunks + Batch * (Cardinality(Finished(q)) + 1)
  BY DEF ScanTypes, CounterInv
<1>1. CASE next[q] = 0
  <2>1. /\ Batch * (Cardinality({}) + 1) <= Batch * (Cardinality(Finished(q)') + 1)
        /\ Cardinality(Finished(q)') \in Nat
    BY MoreFinished DEF Finished
  <2>2. Cardinality({}) = 0
    BY FS_EmptySet
  <2> QED
    BY <1>1, <2>1, <2>2, PoolAssumption, SMT
<1>2. CASE \A t \in Threads : reply[q][t] = "ok" => reply'[q][t] = "ok"
  <2>1. /\ Finished(q) \subseteq Finished(q)'
        /\ Finished(q) \in SUBSET Threads
        /\ Finished(q)' \in SUBSET Threads
    BY <1>2 DEF Finished
  <2>2. Batch * (Cardinality(Finished(q)) + 1) <= Batch * (Cardinality(Finished(q)') + 1)
        /\ Cardinality(Finished(q)') \in Nat /\ Cardinality(Finished(q)) \in Nat
    BY <2>1, MoreFinished
  <2> QED
    BY <1>0, <2>2, PoolAssumption, SMT
<1> QED
  BY <1>1, <1>2

(* The early phases of a query.                                            *)
Early == {"idle", "pool", "prepare"}

(* What the steps of calls do to phases and replies.                       *)
PhasesAdvance == \A q \in Callers : call'[q] \in Early => call[q] \in Early

ExecutesAnew ==
  \A q \in Callers : call'[q] = "execute" =>
    \/ /\ call[q] = "execute"
       /\ \A t \in Threads : reply'[q][t] = reply[q][t] \/ (reply[q][t] = "none" /\ reply'[q][t] = "wait")
    \/ next[q] = 0 /\ \A t \in Threads : reply'[q][t] = "none"

SucceedsWithAll ==
  \A q \in Callers : call'[q] = "ok" => call[q] = "ok" \/ collected[q] = {<<c, q>> : c \in Chunks}

AnswersStay ==
  \A q \in Callers : next[q] = 0 \/ \A t \in Threads : reply[q][t] = "ok" => reply'[q][t] = "ok"

(* Calls, and workers that prepare, leave the scans alone.                 *)
LEMMA CallScan ==
  ASSUME ScanInv, OwnCompleteResult, SameWork, UNCHANGED ScanState,
         PhasesAdvance, ExecutesAnew, SucceedsWithAll, AnswersStay
  PROVE  ScanInv' /\ OwnCompleteResult'
<1>1. UNCHANGED <<batch, chunk, partials, next, begun, done, collected>>
  BY DEF ScanState
<1>2. ScanTypes'
  BY <1>1 DEF ScanInv, ScanTypes
<1>3. ClaimsInv'
  BY <1>1, ClaimsFrame DEF ScanInv
<1>4. ScansInv'
  BY <1>1 DEF ScanInv, ScansInv, Early, PhasesAdvance
<1>5. CounterInv'
  BY <1>1, CounterFrame DEF ScanInv, AnswersStay
<1>6. CompleteInv'
  <2> SUFFICES ASSUME NEW q \in Callers, call'[q] = "execute", \A t \in Threads : reply'[q][t] # "err"
      PROVE  /\ \A c \in Chunks : c < next[q] =>
                 c \in done[q] \/ \E t \in Threads : Executes(t, q)' /\ (c \in batch[t] \/ c = chunk[t])
             /\ \A c \in done[q] :
                 <<c, q>> \in collected[q] \/ \E t \in Threads : Executes(t, q)' /\ <<c, q>> \in partials[t]
             /\ \A t \in Threads : reply'[q][t] = "ok" => next[q] >= NChunks
    BY <1>1, Zenon DEF CompleteInv
  <2>1. CASE /\ call[q] = "execute"
             /\ \A t \in Threads :
                   reply'[q][t] = reply[q][t] \/ (reply[q][t] = "none" /\ reply'[q][t] = "wait")
    BY <1>1, <2>1, CompleteFrame, Zenon DEF ScanInv
  <2>2. CASE next[q] = 0 /\ \A t \in Threads : reply'[q][t] = "none"
    <3>1. \A c \in Chunks : ~(c < next[q])
      BY <2>2, ChunkRange
    <3>2. \A c \in done[q] : FALSE
      BY <3>1 DEF ScanInv, ScansInv, ScanTypes
    <3> QED
      BY <2>2, <3>1, <3>2
  <2> QED
    BY <2>1, <2>2 DEF ExecutesAnew
<1>7. OwnCompleteResult'
  BY <1>1 DEF OwnCompleteResult, SucceedsWithAll
<1> QED
  BY <1>2, <1>3, <1>4, <1>5, <1>6, <1>7 DEF ScanInv

(* A query that has not sent Execute commands has a fresh counter.         *)
LEMMA EarlyIsZero ==
  ASSUME ScanInv, NEW q \in Callers, call[q] \in Early
  PROVE  next[q] = 0
BY DEF ScanInv, ScansInv, Early

(* The mutex, the pool and a failure                                       *)
LEMMA QuietCallScan ==
  ASSUME PoolInv, NEW q \in Callers, UNCHANGED <<inbox, reply>>, UNCHANGED ScanState,
         NEW p \in {"pool", "prepare", "error"}, call' = [call EXCEPT ![q] = p],
         p # "error" => call[q] \in Early
  PROVE  ScanInv' /\ OwnCompleteResult'
<1>1. SameWork
  BY DEF SameWork, Executing, Command
<1>2. PhasesAdvance /\ ExecutesAnew /\ SucceedsWithAll
  <2>1. \A r \in Callers : call'[r] = call[r] \/ (r = q /\ call'[q] = p)
    BY DEF PoolInv, ProtocolInv, CallTypes
  <2> QED
    BY <2>1 DEF PhasesAdvance, ExecutesAnew, SucceedsWithAll, Early
<1>3. AnswersStay
  BY DEF AnswersStay
<1> QED
  BY <1>1, <1>2, <1>3, CallScan DEF PoolInv

(* Taking the mutex, or the pool as it is.                                 *)
LEMMA LockScan ==
  ASSUME PoolInv, NEW q \in Callers, Lock(q) \/ Reuse(q)
  PROVE  ScanInv' /\ OwnCompleteResult'
<1>1. UNCHANGED <<inbox, reply>> /\ UNCHANGED ScanState
  BY DEF Lock, Reuse, ScanState, scanVars, threadVars
<1>2. call[q] \in Early /\ \E p \in {"pool", "prepare"} : call' = [call EXCEPT ![q] = p]
  BY DEF Lock, Reuse, Early
<1> QED
  BY <1>1, <1>2, QuietCallScan

(* A new pool: its threads have nothing to work off.                       *)
LEMMA RecreateScan ==
  ASSUME PoolInv, NEW q \in Callers, Recreate(q)
  PROVE  ScanInv' /\ OwnCompleteResult'
<1>1. SameWork
  BY RecreateProtocol DEF PoolInv, SameWork, Executing
<1>2. UNCHANGED reply /\ UNCHANGED ScanState
  BY DEF Recreate, ScanState, scanVars
<1>3. call[q] \in Early /\ call' = [call EXCEPT ![q] = "prepare"]
  BY DEF Recreate, Early
<1>4. PhasesAdvance /\ ExecutesAnew /\ SucceedsWithAll
  <2>1. \A r \in Callers : call'[r] = call[r] \/ (r = q /\ call'[q] = "prepare")
    BY <1>3 DEF PoolInv, ProtocolInv, CallTypes
  <2> QED
    BY <1>2, <1>3, <2>1 DEF PhasesAdvance, ExecutesAnew, SucceedsWithAll, Early
<1>5. AnswersStay
  BY <1>2 DEF AnswersStay
<1> QED
  BY <1>1, <1>2, <1>4, <1>5, CallScan DEF PoolInv

(* A command more in one channel, or a query that gives up.                *)
LEMMA SendScan ==
  ASSUME PoolInv, NEW q \in Callers, Send(q)
  PROVE  ScanInv' /\ OwnCompleteResult'
<1>a. PICK t \in Threads : t = sent[q] + 1
  BY PoolAssumption DEF PoolInv, ProtocolInv, CallTypes, WorkerTypes, Send, Threads, Pool
<1>1. UNCHANGED ScanState
  BY DEF Send, ScanState, scanVars
<1>2. CASE ~alive[t]
  <2>1. UNCHANGED <<inbox, reply>> /\ call' = [call EXCEPT ![q] = "error"]
    BY <1>a, <1>2 DEF Send, Return
  <2> QED
    BY <1>1, <2>1, QuietCallScan
<1>3. CASE alive[t]
  <2>1. /\ inbox' = [inbox EXCEPT ![t] = Append(inbox[t], [type |-> call[q], by |-> q])]
        /\ reply' = [reply EXCEPT ![q][t] = "wait"]
        /\ UNCHANGED call /\ call[q] \in {"prepare", "execute"}
    BY <1>a, <1>3 DEF Send
  <2>2. /\ inbox \in [Threads -> Seq(Commands)]
        /\ inbox[t] \in Seq(Commands)
        /\ [type |-> call[q], by |-> q] \in Commands
    BY <2>1 DEF PoolInv, ProtocolInv, WorkerTypes, Commands
  <2>3. /\ \A u \in Threads \ {t} : inbox'[u] = inbox[u]
        /\ inbox[t] # <<>> => inbox'[t] # <<>> /\ Head(inbox'[t]) = Head(inbox[t])
    BY <2>1, <2>2, Appended
  <2>4. SameWork
    BY <2>3 DEF SameWork, Executing, Command
  <2>5. reply[q][t] = "none"
    BY <1>a DEF PoolInv, ProtocolInv, RepliesInv, CallTypes
  <2>6. \A r \in Callers, u \in Threads :
          reply'[r][u] = reply[r][u] \/ (reply[r][u] = "none" /\ reply'[r][u] = "wait")
    <3>1. reply \in [Callers -> [Threads -> Answers]]
      BY DEF PoolInv, ProtocolInv, CallTypes
    <3> QED
      BY <2>1, <2>5, <3>1
  <2>7. PhasesAdvance /\ ExecutesAnew /\ SucceedsWithAll
    BY <2>1, <2>6 DEF PhasesAdvance, ExecutesAnew, SucceedsWithAll
  <2>8. AnswersStay
    BY <2>6 DEF AnswersStay
  <2> QED
    BY <1>1, <2>4, <2>7, <2>8, CallScan DEF PoolInv
<1> QED
  BY <1>2, <1>3

(* The query turns to its scan: no chunk has been claimed.                 *)
LEMMA PreparedScan ==
  ASSUME PoolInv, NEW q \in Callers, Prepared(q)
  PROVE  ScanInv' /\ OwnCompleteResult'
<1>1. UNCHANGED inbox /\ UNCHANGED ScanState
  BY DEF Prepared, ScanState, scanVars, threadVars
<1>2. CASE \A t \in Pool : reply[q][t] = "ok"
  <2>1. call' = [call EXCEPT ![q] = "execute"] /\ reply' = [reply EXCEPT ![q] = NoReplies]
    BY <1>2 DEF Prepared
  <2>2. next[q] = 0
    BY EarlyIsZero DEF PoolInv, Prepared, Early
  <2>3. /\ \A t \in Threads : reply'[q][t] = "none"
        /\ \A r \in Callers \ {q} : reply'[r] = reply[r] /\ call'[r] = call[r]
        /\ call'[q] = "execute"
    BY <2>1 DEF PoolInv, ProtocolInv, CallTypes, NoReplies
  <2>4. SameWork
    BY <1>1 DEF SameWork, Executing, Command
  <2>5. PhasesAdvance /\ ExecutesAnew /\ SucceedsWithAll
    BY <1>1, <2>2, <2>3 DEF PhasesAdvance, ExecutesAnew, SucceedsWithAll, Early
  <2>6. AnswersStay
    BY <2>2, <2>3 DEF AnswersStay
  <2> QED
    BY <1>1, <2>4, <2>5, <2>6, CallScan DEF PoolInv
<1>3. CASE ~\A t \in Pool : reply[q][t] = "ok"
  <2>1. UNCHANGED reply /\ call' = [call EXCEPT ![q] = "error"]
    BY <1>3 DEF Prepared, Return
  <2> QED
    BY <1>1, <2>1, QuietCallScan
<1> QED
  BY <1>2, <1>3

(* When every worker has answered ok, every chunk is scanned and the       *)
(* partials collected are those of every chunk.                            *)
LEMMA AllScanned ==
  ASSUME PoolInv, NEW q \in Callers, call[q] = "execute", Answered(q),
         \A t \in Pool : reply[q][t] = "ok"
  PROVE  done[q] = Chunks /\ collected[q] = {<<c, q>> : c \in Chunks}
<1>1. \A t \in Threads : reply[q][t] # "wait" /\ ~Executes(t, q)
  <2>1. \A t \in Threads : reply[q][t] # "wait"
    BY AllAnswered DEF PoolInv
  <2> QED
    BY <2>1, HeadCommand DEF PoolInv, Executes, Executing
<1>2. \A t \in Threads : reply[q][t] # "err"
  <2> SUFFICES ASSUME NEW t \in Threads, t \notin Pool PROVE reply[q][t] = "none"
    OBVIOUS
  <2>1. sent[q] = size /\ size \in Nat /\ t \in Nat /\ t > size
    BY PoolAssumption DEF PoolInv, ProtocolInv, WorkerTypes, Threads, Pool, Answered
  <2> QED
    BY <2>1 DEF PoolInv, ProtocolInv, RepliesInv
<1>3. next[q] >= NChunks
  <2>1. 1 \in Pool /\ 1 \in Threads
    <3>1. size = Want[q]
      BY DEF PoolInv, ProtocolInv, CallsInv
    <3> QED
      BY <3>1, PoolAssumption DEF Pool, Threads
  <2> QED
    BY <1>2, <2>1 DEF PoolInv, ScanInv, CompleteInv
<1>4. next[q] \in Nat /\ done[q] \subseteq Chunks
  BY DEF PoolInv, ScanInv, ScanTypes
<1>5. \A c \in Chunks : c \in done[q]
  <2>1. \A c \in Chunks : c < next[q]
    BY <1>3, <1>4, ChunkRange, PoolAssumption
  <2> QED
    BY <1>1, <1>2, <2>1, Zenon DEF PoolInv, ScanInv, CompleteInv
<1>6. \A c \in Chunks : <<c, q>> \in collected[q]
  BY <1>1, <1>2, <1>5, Zenon DEF PoolInv, ScanInv, CompleteInv
<1>7. collected[q] \subseteq done[q] \X {q}
  BY DEF PoolInv, ScanInv, ScansInv
<1>8. collected[q] = {<<c, q>> : c \in Chunks}
  BY <1>4, <1>6, <1>7
<1> QED
  BY <1>4, <1>5, <1>8

(* The query is told of success only after the last worker has answered.   *)
LEMMA ExecutedScan ==
  ASSUME PoolInv, NEW q \in Callers, Executed(q)
  PROVE  ScanInv' /\ OwnCompleteResult'
<1>1. UNCHANGED <<inbox, reply>> /\ UNCHANGED ScanState
  BY DEF Executed, ScanState, scanVars, threadVars
<1>2. CASE \A t \in Pool : reply[q][t] = "ok"
  <2>1. call' = [call EXCEPT ![q] = "ok"] /\ call[q] = "execute" /\ Answered(q)
    BY <1>2 DEF Executed, Return
  <2>2. collected[q] = {<<c, q>> : c \in Chunks}
    BY <1>2, <2>1, AllScanned
  <2>3. SameWork
    BY <1>1 DEF SameWork, Executing, Command
  <2>4. call'[q] = "ok" /\ \A r \in Callers \ {q} : call'[r] = call[r]
    BY <2>1 DEF PoolInv, ProtocolInv, CallTypes
  <2>5. PhasesAdvance /\ ExecutesAnew /\ SucceedsWithAll
    BY <1>1, <2>2, <2>4 DEF PhasesAdvance, ExecutesAnew, SucceedsWithAll, Early
  <2>6. AnswersStay
    BY <1>1 DEF AnswersStay
  <2> QED
    BY <1>1, <2>3, <2>5, <2>6, CallScan DEF PoolInv
<1>3. CASE ~\A t \in Pool : reply[q][t] = "ok"
  <2>1. call' = [call EXCEPT ![q] = "error"]
    BY <1>3 DEF Executed, Return
  <2> QED
    BY <1>1, <2>1, QuietCallScan
<1> QED
  BY <1>2, <1>3

(* A worker that prepares holds no chunk.                                  *)
LEMMA PrepareSqlScan ==
  ASSUME PoolInv, NEW t \in Threads, PrepareSql(t)
  PROVE  ScanInv' /\ OwnCompleteResult'
<1>p. PICK p \in Callers : p = Command(t).by /\ inbox[t] # <<>> /\ Command(t).type = "prepare"
  BY HeadCommand DEF PoolInv, PrepareSql, Runs
<1>1. UNCHANGED ScanState /\ UNCHANGED call
  BY DEF PrepareSql, ScanState, scanVars
<1>2. \E r \in {"ok", "err"} : reply' = [reply EXCEPT ![p][t] = r]
  BY <1>p DEF PrepareSql, Reply
<1>3. call[p] # "execute" /\ reply[p][t] = "wait"
  BY <1>p, HeadCommand DEF PoolInv
<1>4. /\ \A r \in Callers \ {p} : reply'[r] = reply[r]
      /\ \A u \in Threads : reply[p][u] = "ok" => reply'[p][u] = "ok"
  BY <1>2, <1>3 DEF PoolInv, ProtocolInv, CallTypes
<1>5. SameWork
  <2>1. \A u \in Threads \ {t} : inbox'[u] = inbox[u]
    BY DEF PrepareSql, Reply, PoolInv, ProtocolInv, WorkerTypes
  <2>2. ~Executing(t)
    BY <1>p DEF Executing
  <2> QED
    BY <2>1, <2>2 DEF SameWork, Executing, Command
<1>6. PhasesAdvance /\ ExecutesAnew /\ SucceedsWithAll
  BY <1>1, <1>3, <1>4 DEF PhasesAdvance, ExecutesAnew, SucceedsWithAll
<1>7. AnswersStay
  BY <1>4 DEF AnswersStay
<1> QED
  BY <1>1, <1>5, <1>6, <1>7, CallScan DEF PoolInv

-----------------------------------------------------------------------------
(* THE SCAN, STEP BY STEP                                                  *)

(* The invariant's claims about one worker.                                *)
LEMMA ClaimsOf ==
  ASSUME PoolInv, NEW t \in Threads
  PROVE  /\ batch[t] # {} \/ chunk[t] # None \/ partials[t] # {} => Executing(t)
         /\ \A q \in Callers : Executes(t, q) =>
             /\ \A c \in batch[t] : c < next[q] /\ c \notin begun[q]
             /\ chunk[t] # None => chunk[t] \in begun[q] \ done[q]
             /\ partials[t] \subseteq done[q] \X {q}
             /\ \A u \in Threads \ {t} : Executes(u, q) =>
                  /\ batch[t] \cap batch[u] = {}
                  /\ chunk[t] # None => chunk[u] # chunk[t]
BY Zenon DEF PoolInv, ScanInv, ClaimsInv

(* The counter has room for one more batch of a worker that has not        *)
(* finished.                                                               *)
LEMMA RoomToCount ==
  ASSUME PoolInv, NEW t \in Threads, NEW q \in Callers, reply[q][t] # "ok"
  PROVE  /\ next[q] \in Nat /\ next[q] + Batch \in Nat
         /\ (next[q] + Batch) % Width = next[q] + Batch
         /\ next[q] + Batch < NChunks + Batch * (Cardinality(Finished(q) \cup {t}) + 1)
<1>1. next[q] \in Nat /\ next[q] < NChunks + Batch * (Cardinality(Finished(q)) + 1)
  BY DEF PoolInv, ScanInv, ScanTypes, CounterInv
<1>2. IsFiniteSet(Threads) /\ Cardinality(Threads) = MaxSize
  <2>1. /\ IsFiniteSet(1 .. MaxSize)
        /\ Cardinality(1 .. MaxSize) = IF 1 > MaxSize THEN 0 ELSE MaxSize - 1 + 1
    BY FS_Interval, PoolAssumption
  <2> QED
    BY <2>1, PoolAssumption DEF Threads
<1>3. /\ t \notin Finished(q)
      /\ Finished(q) \in SUBSET Threads
      /\ Finished(q) \cup {t} \in SUBSET Threads
  BY DEF Finished
<1>4. IsFiniteSet(Finished(q)) /\ IsFiniteSet(Finished(q) \cup {t})
  BY <1>2, <1>3, FS_Subset
<1>5. Cardinality(Finished(q) \cup {t}) = Cardinality(Finished(q)) + 1
  BY <1>3, <1>4, FS_AddElement
<1>6. Cardinality(Finished(q) \cup {t}) <= MaxSize /\ Cardinality(Finished(q)) \in Nat
  BY <1>2, <1>3, <1>4, FS_Subset, FS_CardinalityType
<1>7. \A k \in Nat : k + 1 <= MaxSize =>
        Batch * (k + 1) + Batch = Batch * (k + 2) /\ Batch * (k + 2) <= (MaxSize + 1) * Batch
  BY PoolAssumption, SMT
<1>8. next[q] + Batch < NChunks + Batch * (Cardinality(Finished(q)) + 2)
  BY <1>1, <1>5, <1>6, <1>7, PoolAssumption, SMT
<1>9. next[q] + Batch < Width
  BY <1>1, <1>5, <1>6, <1>7, <1>8, PoolAssumption, SMT
<1>10. (next[q] + Batch) % Width = next[q] + Batch /\ next[q] + Batch \in Nat
  BY <1>1, <1>9, PoolAssumption, SMT
<1>11. Cardinality(Finished(q) \cup {t}) + 1 = Cardinality(Finished(q)) + 2
  BY <1>5, <1>6, SMT
<1> QED
  BY <1>1, <1>8, <1>10, <1>11

(* Fetch_add claims chunks that nobody has.                                *)
LEMMA ClaimBatchScan ==
  ASSUME PoolInv, NEW t \in Threads, ClaimBatch(t)
  PROVE  ScanInv' /\ OwnCompleteResult'
<1>p. PICK q \in Callers : q = Command(t).by /\ Executes(t, q)
  BY HeadCommand DEF PoolInv, ClaimBatch, Runs, Executing, Executes
<1>1. Executing(t) /\ reply[q][t] = "wait"
  BY <1>p, WorkerAndQuery DEF Executes, PoolInv
<1>n. PICK n \in Nat : n = next[q] /\ n + Batch \in Nat /\ (n + Batch) % Width = n + Batch
  BY <1>1, RoomToCount
<1>2. /\ batch[t] = {} /\ chunk[t] = None /\ n < NChunks
      /\ next' = [next EXCEPT ![q] = n + Batch]
      /\ batch' = [batch EXCEPT ![t] = {c \in Chunks : n <= c /\ c < n + Batch}]
      /\ UNCHANGED <<call, reply, inbox, collected, begun, done, chunk, partials>>
  BY <1>p, <1>n DEF ClaimBatch, callVars
<1>3. /\ next' \in [Callers -> Nat] /\ next'[q] = n + Batch
      /\ \A r \in Callers \ {q} : next'[r] = next[r]
      /\ batch' \in [Threads -> SUBSET Chunks]
      /\ batch'[t] = {c \in Chunks : n <= c /\ c < n + Batch}
      /\ \A u \in Threads \ {t} : batch'[u] = batch[u]
  BY <1>n, <1>2 DEF PoolInv, ScanInv, ScanTypes
<1>4. \A u \in Threads, r \in Callers : Executes(u, r)' <=> Executes(u, r)
  BY <1>2 DEF Executes, Executing, Command
<1>5. \A u \in Threads : Executing(u)' <=> Executing(u)
  BY <1>2 DEF Executing, Command
<1>6. ScanTypes'
  BY <1>2, <1>3 DEF PoolInv, ScanInv, ScanTypes
<1>7. \A c \in begun[q] : c < n
  BY <1>n DEF PoolInv, ScanInv, ScansInv
<1>8. begun[q] \in SUBSET Chunks /\ \A u \in Threads : batch[u] \in SUBSET Chunks
  BY DEF PoolInv, ScanInv, ScanTypes
<1>9. ClaimsInv'
  <2> SUFFICES ASSUME NEW u \in Threads PROVE
     /\ ~Executing(u) => batch'[u] = {} /\ chunk[u] = None /\ partials[u] = {}
     /\ \A r \in Callers : Executes(u, r) =>
         /\ \A c \in batch'[u] : c < next'[r] /\ c \notin begun[r]
         /\ chunk[u] # None => chunk[u] \in begun[r] \ done[r]
         /\ partials[u] \subseteq done[r] \X {r}
         /\ \A v \in Threads \ {u} : Executes(v, r) =>
              /\ batch'[u] \cap batch'[v] = {}
              /\ chunk[u] # None => chunk[v] # chunk[u]
    BY <1>2, <1>4, <1>5, ZenonT(60) DEF ClaimsInv
  <2>1. ASSUME ~Executing(u) PROVE batch'[u] = {} /\ chunk[u] = None /\ partials[u] = {}
    BY <1>1, <1>3, <2>1, ClaimsOf
  <2>2. ASSUME NEW r \in Callers, Executes(u, r), NEW c \in batch'[u]
        PROVE  c < next'[r] /\ c \notin begun[r]
    <3>1. CASE u = t
      <4>1. r = q
        BY <1>p, <2>2, <3>1 DEF Executes
      <4>2. c \in Chunks /\ n <= c /\ c < n + Batch
        BY <1>3, <2>2, <3>1
      <4> QED
        BY <1>3, <1>7, <1>8, <4>1, <4>2, ChunkRange
    <3>2. CASE u # t
      <4>1. c \in batch[u] /\ c < next[r] /\ c \notin begun[r] /\ c \in Nat
        BY <1>3, <1>8, <2>2, <3>2, ClaimsOf, ChunkRange
      <4>2. next[r] <= next'[r] /\ next[r] \in Nat /\ next'[r] \in Nat
        BY <1>n, <1>3, PoolAssumption DEF PoolInv, ScanInv, ScanTypes
      <4> QED
        BY <4>1, <4>2
    <3> QED
      BY <3>1, <3>2
  <2>3. ASSUME NEW r \in Callers, NEW v \in Threads \ {u}, Executes(u, r), Executes(v, r)
        PROVE  batch'[u] \cap batch'[v] = {}
    <3>1. CASE u # t /\ v # t
      BY <1>3, <2>3, <3>1, ClaimsOf
    <3>2. ASSUME NEW w \in Threads, w # t, Executes(w, r), Executes(t, r)
          PROVE  batch'[t] \cap batch'[w] = {}
      <4>1. r = q
        BY <1>p, <3>2 DEF Executes
      <4>2. \A c \in batch[w] : c < n /\ c \in Nat
        BY <1>n, <1>8, <3>2, <4>1, ClaimsOf, ChunkRange
      <4> QED
        BY <1>3, <3>2, <4>2
    <3> QED
      BY <2>3, <3>1, <3>2
  <2> QED
    BY <2>1, <2>2, <2>3, ClaimsOf
<1>10. ScansInv'
  <2>1. \A r \in Callers : next[r] \in Nat /\ next[r] <= next'[r] /\ begun[r] \in SUBSET Chunks
    BY <1>n, <1>3, PoolAssumption DEF PoolInv, ScanInv, ScanTypes
  <2>2. \A r \in Callers : \A c \in begun[r] : c < next'[r]
    <3> SUFFICES ASSUME NEW r \in Callers, NEW c \in begun[r] PROVE c < next'[r]
      OBVIOUS
    <3>1. c < next[r] /\ c \in Nat
      BY <2>1, ChunkRange DEF PoolInv, ScanInv, ScansInv
    <3> QED
      BY <1>3, <2>1, <3>1
  <2>3. call[q] \in {"execute", "error"}
    BY <1>p, <1>1, WorkerAndQuery DEF PoolInv
  <2> QED
    BY <1>2, <1>3, <2>2, <2>3 DEF PoolInv, ScanInv, ScansInv
<1>11. CounterInv'
  <2> SUFFICES ASSUME NEW r \in Callers PROVE next'[r] < NChunks + Batch * (Cardinality(Finished(r)) + 1)
    BY <1>2 DEF CounterInv, Finished
  <2>1. CASE r # q
    BY <1>3, <2>1 DEF PoolInv, ScanInv, CounterInv
  <2>2. CASE r = q
    <3>1. Finished(q) \in SUBSET Threads /\ {} \in SUBSET Threads
      BY DEF Finished
    <3>2. /\ Batch * (Cardinality({}) + 1) <= Batch * (Cardinality(Finished(q)) + 1)
          /\ Cardinality(Finished(q)) \in Nat
      BY <3>1, MoreFinished
    <3>3. Cardinality({}) = 0
      BY FS_EmptySet
    <3> QED
      BY <1>n, <1>2, <1>3, <2>2, <3>2, <3>3, PoolAssumption, SMT
  <2> QED
    BY <2>1, <2>2
<1>12. CompleteInv'
  <2> SUFFICES ASSUME NEW r \in Callers, call[r] = "execute", \A u \in Threads : reply[r][u] # "err"
      PROVE  /\ \A c \in Chunks : c < next'[r] =>
                 c \in done[r] \/ \E u \in Threads : Executes(u, r) /\ (c \in batch'[u] \/ c = chunk[u])
             /\ \A c \in done[r] :
                 <<c, r>> \in collected[r] \/ \E u \in Threads : Executes(u, r) /\ <<c, r>> \in partials[u]
             /\ \A u \in Threads : reply[r][u] = "ok" => next'[r] >= NChunks
    BY <1>2, <1>4, Zenon DEF CompleteInv
  <2>1. /\ \A c \in Chunks : c < next[r] =>
             c \in done[r] \/ \E u \in Threads : Executes(u, r) /\ (c \in batch[u] \/ c = chunk[u])
        /\ \A c \in done[r] :
             <<c, r>> \in collected[r] \/ \E u \in Threads : Executes(u, r) /\ <<c, r>> \in partials[u]
        /\ \A u \in Threads : reply[r][u] = "ok" => next[r] >= NChunks
    BY Zenon DEF PoolInv, ScanInv, CompleteInv
  <2>2. \A c \in Chunks, u \in Threads : c \in batch[u] \/ c = chunk[u] => c \in batch'[u] \/ c = chunk[u]
    BY <1>2, <1>3, ChunkRange
  <2>3. ASSUME NEW c \in Chunks, c < next'[r]
        PROVE  c \in done[r] \/ \E u \in Threads : Executes(u, r) /\ (c \in batch'[u] \/ c = chunk[u])
    <3>1. CASE c < next[r]
      BY <2>1, <2>2, <3>1
    <3>2. CASE ~(c < next[r])
      <4>1. r = q
        BY <1>3, <2>3, <3>2
      <4>2. c \in batch'[t]
        BY <1>n, <1>3, <2>3, <3>2, <4>1, ChunkRange
      <4> QED
        BY <1>p, <4>1, <4>2
    <3> QED
      BY <3>1, <3>2
  <2>4. next[r] \in Nat /\ next'[r] \in Nat /\ next[r] <= next'[r]
    BY <1>n, <1>3, PoolAssumption DEF PoolInv, ScanInv, ScanTypes
  <2> QED
    BY <2>1, <2>3, <2>4, PoolAssumption
<1>13. OwnCompleteResult'
  BY <1>2 DEF PoolInv, OwnCompleteResult
<1> QED
  BY <1>6, <1>9, <1>10, <1>11, <1>12, <1>13 DEF ScanInv

(* The chunk a worker begins belongs to it alone.                          *)
LEMMA BeginScan ==
  ASSUME PoolInv, NEW t \in Threads, Begin(t)
  PROVE  ScanInv' /\ OwnCompleteResult'
<1>b. PICK b \in batch[t] :
        /\ chunk[t] = None
        /\ batch' = [batch EXCEPT ![t] = @ \ {b}]
        /\ chunk' = [chunk EXCEPT ![t] = b]
        /\ begun' = [begun EXCEPT ![Command(t).by] = @ \cup {b}]
        /\ UNCHANGED <<call, reply, inbox, collected, next, done, partials>>
  BY DEF Begin, callVars
<1>0. Executing(t)
  BY <1>b, ClaimsOf
<1>p. PICK q \in Callers : q = Command(t).by /\ Executes(t, q)
  BY <1>0, WorkerAndQuery DEF PoolInv, Executes
<1>1. /\ batch \in [Threads -> SUBSET Chunks] /\ chunk \in [Threads -> Chunks \cup {None}]
      /\ begun \in [Callers -> SUBSET Chunks] /\ b \in Chunks /\ b # None
  BY <1>b, ChunkRange DEF PoolInv, ScanInv, ScanTypes
<1>2. /\ batch'[t] = batch[t] \ {b} /\ \A u \in Threads \ {t} : batch'[u] = batch[u]
      /\ chunk'[t] = b /\ \A u \in Threads \ {t} : chunk'[u] = chunk[u]
      /\ begun'[q] = begun[q] \cup {b} /\ \A r \in Callers \ {q} : begun'[r] = begun[r]
  BY <1>b, <1>p, <1>1
<1>3. b < next[q] /\ b \notin begun[q] /\ b \notin done[q]
  BY <1>b, <1>p, ClaimsOf DEF PoolInv, ScanInv, ScansInv
<1>4. \A u \in Threads, r \in Callers : Executes(u, r)' <=> Executes(u, r)
  BY <1>b DEF Executes, Executing, Command
<1>5. \A u \in Threads : Executing(u)' <=> Executing(u)
  BY <1>b DEF Executing, Command
<1>6. ScanTypes'
  BY <1>b, <1>p, <1>1 DEF PoolInv, ScanInv, ScanTypes
<1>7. \A u \in Threads \ {t} : Executes(u, q) => b \notin batch[u] /\ chunk[u] # b
  BY <1>b, <1>p, <1>1, <1>3, ClaimsOf
<1>8. ClaimsInv'
  <2> SUFFICES ASSUME NEW u \in Threads PROVE
     /\ ~Executing(u) => batch'[u] = {} /\ chunk'[u] = None /\ partials[u] = {}
     /\ \A r \in Callers : Executes(u, r) =>
         /\ \A c \in batch'[u] : c < next[r] /\ c \notin begun'[r]
         /\ chunk'[u] # None => chunk'[u] \in begun'[r] \ done[r]
         /\ partials[u] \subseteq done[r] \X {r}
         /\ \A v \in Threads \ {u} : Executes(v, r) =>
              /\ batch'[u] \cap batch'[v] = {}
              /\ chunk'[u] # None => chunk'[v] # chunk'[u]
    BY <1>b, <1>4, <1>5, ZenonT(60) DEF ClaimsInv
  <2>1. ASSUME ~Executing(u) PROVE batch'[u] = {} /\ chunk'[u] = None /\ partials[u] = {}
    BY <1>0, <1>2, <2>1, ClaimsOf
  <2>2. ASSUME NEW r \in Callers, Executes(u, r)
        PROVE  /\ \A c \in batch'[u] : c < next[r] /\ c \notin begun'[r]
               /\ chunk'[u] # None => chunk'[u] \in begun'[r] \ done[r]
               /\ partials[u] \subseteq done[r] \X {r}
    <3>1. CASE u = t
      <4>1. r = q
        BY <1>p, <2>2, <3>1 DEF Executes
      <4> QED
        BY <1>2, <1>3, <2>2, <3>1, <4>1, ClaimsOf
    <3>2. CASE u # t /\ r = q
      BY <1>2, <1>7, <2>2, <3>2, ClaimsOf
    <3>3. CASE u # t /\ r # q
      BY <1>2, <2>2, <3>3, ClaimsOf
    <3> QED
      BY <3>1, <3>2, <3>3
  <2>3. ASSUME NEW r \in Callers, NEW v \in Threads \ {u}, Executes(u, r), Executes(v, r)
        PROVE  /\ batch'[u] \cap batch'[v] = {}
               /\ chunk'[u] # None => chunk'[v] # chunk'[u]
    <3>0. (u = t \/ v = t) => r = q
      BY <1>p, <2>3 DEF Executes
    <3>1. batch[u] \cap batch[v] = {} /\ (chunk[u] # None => chunk[v] # chunk[u])
      BY <2>3, ClaimsOf
    <3>2. batch'[u] \subseteq batch[u] /\ batch'[v] \subseteq batch[v]
      BY <1>2
    <3>3. chunk'[u] # None => chunk'[v] # chunk'[u]
      BY <1>1, <1>2, <1>7, <2>3, <3>0, <3>1
    <3> QED
      BY <3>1, <3>2, <3>3
  <2> QED
    BY <2>1, <2>2, <2>3
<1>9. ScansInv'
  BY <1>b, <1>2, <1>3 DEF PoolInv, ScanInv, ScansInv
<1>10. CounterInv'
  BY <1>b DEF PoolInv, ScanInv, CounterInv, Finished
<1>11. CompleteInv'
  <2>1. \A c \in Chunks, u \in Threads : c \in batch[u] \/ c = chunk[u] => c \in batch'[u] \/ c = chunk'[u]
    BY <1>b, <1>1, <1>2, ChunkRange
  <2> QED
    BY <1>b, <1>4, <2>1, ZenonT(60) DEF PoolInv, ScanInv, CompleteInv
<1>12. OwnCompleteResult'
  BY <1>b DEF PoolInv, OwnCompleteResult
<1> QED
  BY <1>6, <1>8, <1>9, <1>10, <1>11, <1>12 DEF ScanInv

(* ... and is scanned once, under the query's own plan.                    *)
LEMMA SucceedScan ==
  ASSUME PoolInv, NEW t \in Threads, Succeed(t)
  PROVE  ScanInv' /\ OwnCompleteResult'
<1>b. PICK b : b = chunk[t] /\ b # None
  BY DEF Succeed
<1>0. Executing(t)
  BY <1>b, ClaimsOf
<1>p. PICK q \in Callers : q = Command(t).by /\ Executes(t, q) /\ sql[t] = q /\ reply[q][t] = "wait"
  BY <1>0, WorkerAndQuery DEF PoolInv, Executes
<1>a. /\ done' = [done EXCEPT ![q] = @ \cup {b}]
      /\ partials' = [partials EXCEPT ![t] = @ \cup {<<b, q>>}]
      /\ chunk' = [chunk EXCEPT ![t] = None]
      /\ UNCHANGED <<call, reply, inbox, collected, next, begun, batch>>
  BY <1>b, <1>p DEF Succeed, callVars
<1>1. /\ partials \in [Threads -> SUBSET Partials] /\ chunk \in [Threads -> Chunks \cup {None}]
      /\ done \in [Callers -> SUBSET Chunks] /\ b \in Chunks
  BY <1>b DEF PoolInv, ScanInv, ScanTypes
<1>2. /\ partials'[t] = partials[t] \cup {<<b, q>>} /\ \A u \in Threads \ {t} : partials'[u] = partials[u]
      /\ chunk'[t] = None /\ \A u \in Threads \ {t} : chunk'[u] = chunk[u]
      /\ done'[q] = done[q] \cup {b} /\ \A r \in Callers \ {q} : done'[r] = done[r]
  BY <1>a, <1>p, <1>1
<1>3. b \in begun[q]
  BY <1>b, <1>p, ClaimsOf
<1>4. \A u \in Threads, r \in Callers : Executes(u, r)' <=> Executes(u, r)
  BY <1>a DEF Executes, Executing, Command
<1>5. \A u \in Threads : Executing(u)' <=> Executing(u)
  BY <1>a DEF Executing, Command
<1>6. ScanTypes'
  <2>1. <<b, q>> \in Partials
    BY <1>1 DEF Partials
  <2> QED
    BY <1>a, <1>p, <1>1, <2>1 DEF PoolInv, ScanInv, ScanTypes
<1>7. \A u \in Threads \ {t} : Executes(u, q) => chunk[u] # b
  BY <1>b, <1>p, ClaimsOf
<1>8. ClaimsInv'
  <2> SUFFICES ASSUME NEW u \in Threads PROVE
     /\ ~Executing(u) => batch[u] = {} /\ chunk'[u] = None /\ partials'[u] = {}
     /\ \A r \in Callers : Executes(u, r) =>
         /\ \A c \in batch[u] : c < next[r] /\ c \notin begun[r]
         /\ chunk'[u] # None => chunk'[u] \in begun[r] \ done'[r]
         /\ partials'[u] \subseteq done'[r] \X {r}
         /\ \A v \in Threads \ {u} : Executes(v, r) =>
              /\ batch[u] \cap batch[v] = {}
              /\ chunk'[u] # None => chunk'[v] # chunk'[u]
    BY <1>a, <1>4, <1>5, ZenonT(60) DEF ClaimsInv
  <2>1. ASSUME ~Executing(u) PROVE batch[u] = {} /\ chunk'[u] = None /\ partials'[u] = {}
    BY <1>0, <1>2, <2>1, ClaimsOf
  <2>2. ASSUME NEW r \in Callers, Executes(u, r)
        PROVE  /\ \A c \in batch[u] : c < next[r] /\ c \notin begun[r]
               /\ chunk'[u] # None => chunk'[u] \in begun[r] \ done'[r]
               /\ partials'[u] \subseteq done'[r] \X {r}
    <3>1. CASE u = t
      <4>1. r = q
        BY <1>p, <2>2, <3>1 DEF Executes
      <4> QED
        BY <1>2, <1>3, <2>2, <3>1, <4>1, ClaimsOf
    <3>2. CASE u # t /\ r = q
      BY <1>2, <1>7, <2>2, <3>2, ClaimsOf
    <3>3. CASE u # t /\ r # q
      BY <1>2, <2>2, <3>3, ClaimsOf
    <3> QED
      BY <3>1, <3>2, <3>3
  <2>3. ASSUME NEW r \in Callers, NEW v \in Threads \ {u}, Executes(u, r), Executes(v, r)
        PROVE  /\ batch[u] \cap batch[v] = {}
               /\ chunk'[u] # None => chunk'[v] # chunk'[u]
    <3>1. batch[u] \cap batch[v] = {} /\ (chunk[u] # None => chunk[v] # chunk[u])
      BY <2>3, ClaimsOf
    <3> QED
      BY <1>2, <3>1
  <2> QED
    BY <2>1, <2>2, <2>3
<1>9. ScansInv'
  BY <1>a, <1>2, <1>3 DEF PoolInv, ScanInv, ScansInv
<1>10. CounterInv'
  BY <1>a DEF PoolInv, ScanInv, CounterInv, Finished
<1>11. CompleteInv'
  <2> SUFFICES ASSUME NEW r \in Callers, call[r] = "execute", \A u \in Threads : reply[r][u] # "err"
      PROVE  /\ \A c \in Chunks : c < next[r] =>
                 c \in done'[r] \/ \E u \in Threads : Executes(u, r) /\ (c \in batch[u] \/ c = chunk'[u])
             /\ \A c \in done'[r] :
                 <<c, r>> \in collected[r] \/ \E u \in Threads : Executes(u, r) /\ <<c, r>> \in partials'[u]
             /\ \A u \in Threads : reply[r][u] = "ok" => next[r] >= NChunks
    BY <1>a, <1>4, Zenon DEF CompleteInv
  <2>1. /\ \A c \in Chunks : c < next[r] =>
             c \in done[r] \/ \E u \in Threads : Executes(u, r) /\ (c \in batch[u] \/ c = chunk[u])
        /\ \A c \in done[r] :
             <<c, r>> \in collected[r] \/ \E u \in Threads : Executes(u, r) /\ <<c, r>> \in partials[u]
        /\ \A u \in Threads : reply[r][u] = "ok" => next[r] >= NChunks
    BY Zenon DEF PoolInv, ScanInv, CompleteInv
  <2>2. \A c \in Chunks, u \in Threads :
          Executes(u, r) /\ c = chunk[u] => c = chunk'[u] \/ c \in done'[r]
    BY <1>b, <1>p, <1>2 DEF Executes
  <2>3. \A u \in Threads : partials[u] \subseteq partials'[u]
    BY <1>2
  <2>4. done[r] \subseteq done'[r] /\ \A c \in done'[r] : c \in done[r] \/ (r = q /\ c = b)
    BY <1>2
  <2>5. <<b, q>> \in partials'[t]
    BY <1>2
  <2>6. \A c \in done'[r] :
          <<c, r>> \in collected[r] \/ \E u \in Threads : Executes(u, r) /\ <<c, r>> \in partials'[u]
    BY <1>p, <2>1, <2>3, <2>4, <2>5
  <2> QED
    BY <2>1, <2>2, <2>4, <2>6
<1>12. OwnCompleteResult'
  BY <1>a DEF PoolInv, OwnCompleteResult
<1> QED
  BY <1>6, <1>8, <1>9, <1>10, <1>11, <1>12 DEF ScanInv

(* A worker that stops executing drops what it held.                       *)
Stops(t) ==
  /\ batch'[t] = {} /\ chunk'[t] = None /\ partials'[t] = {} /\ ~Executing(t)'
  /\ \A u \in Threads \ {t} :
       /\ batch'[u] = batch[u] /\ chunk'[u] = chunk[u] /\ partials'[u] = partials[u]
       /\ inbox'[u] = inbox[u]

(* The claims of the others stay when a worker stops.                      *)
LEMMA StopClaims ==
  ASSUME PoolInv, NEW t \in Threads, Stops(t), UNCHANGED <<begun, done>>,
         \A q \in Callers : next'[q] \in Nat /\ next[q] <= next'[q]
  PROVE  ClaimsInv'
<1> SUFFICES ASSUME NEW u \in Threads PROVE
     /\ ~Executing(u)' => batch'[u] = {} /\ chunk'[u] = None /\ partials'[u] = {}
     /\ \A r \in Callers : Executes(u, r)' =>
         /\ \A c \in batch'[u] : c < next'[r] /\ c \notin begun[r]
         /\ chunk'[u] # None => chunk'[u] \in begun[r] \ done[r]
         /\ partials'[u] \subseteq done[r] \X {r}
         /\ \A v \in Threads \ {u} : Executes(v, r)' =>
              /\ batch'[u] \cap batch'[v] = {}
              /\ chunk'[u] # None => chunk'[v] # chunk'[u]
  BY Zenon DEF ClaimsInv
<1>1. CASE u = t
  BY <1>1, Zenon DEF Stops, Executes
<1>2. CASE u # t
  <2>1. \A v \in Threads \ {t} : /\ Executing(v)' <=> Executing(v)
                                 /\ \A r \in Callers : Executes(v, r)' <=> Executes(v, r)
    BY DEF Stops, Executes, Executing, Command
  <2>2. batch'[u] = batch[u] /\ chunk'[u] = chunk[u] /\ partials'[u] = partials[u]
    BY <1>2 DEF Stops
  <2>3. ASSUME NEW r \in Callers, Executes(u, r), NEW c \in batch[u] PROVE c < next'[r]
    <3>1. c < next[r] /\ c \in Nat /\ next[r] \in Nat
      BY <2>3, ClaimsOf, ChunkRange DEF PoolInv, ScanInv, ScanTypes
    <3>2. next[r] <= next'[r] /\ next'[r] \in Nat
      OBVIOUS
    <3> QED
      BY <3>1, <3>2
  <2>4. \A r \in Callers, v \in Threads \ {u} :
        Executes(v, r)' /\ v # t => Executes(v, r) /\ batch'[v] = batch[v] /\ chunk'[v] = chunk[v]
    BY <2>1 DEF Stops
  <2>5. \A r \in Callers : ~Executes(t, r)'
    BY DEF Stops, Executes
  <2> QED
    BY <1>2, <2>1, <2>2, <2>3, <2>4, <2>5, ClaimsOf
<1> QED
  BY <1>1, <1>2

(* The types, when a worker stops.                                         *)
LEMMA StopTypes ==
  ASSUME PoolInv, NEW t \in Threads, Stops(t), UNCHANGED <<begun, done>>,
         batch' \in [Threads -> SUBSET Chunks], chunk' \in [Threads -> Chunks \cup {None}],
         partials' \in [Threads -> SUBSET Partials],
         next' \in [Callers -> Nat], collected' \in [Callers -> SUBSET Partials]
  PROVE  ScanTypes'
BY DEF PoolInv, ScanInv, ScanTypes

(* What the other queries have is where it was.                            *)
LEMMA StopComplete ==
  ASSUME CompleteInv, UNCHANGED <<next, done, collected>>, NEW r \in Callers, call[r] = "execute",
         reply'[r] = reply[r], \A u \in Threads : reply'[r][u] # "err",
         \A u \in Threads : Executes(u, r) =>
           Executes(u, r)' /\ batch'[u] = batch[u] /\ chunk'[u] = chunk[u] /\ partials'[u] = partials[u]
  PROVE  /\ \A c \in Chunks : c < next'[r] =>
              c \in done'[r] \/ \E u \in Threads : Executes(u, r)' /\ (c \in batch'[u] \/ c = chunk'[u])
         /\ \A c \in done'[r] :
              <<c, r>> \in collected'[r] \/ \E u \in Threads : Executes(u, r)' /\ <<c, r>> \in partials'[u]
         /\ \A u \in Threads : reply'[r][u] = "ok" => next'[r] >= NChunks
<1>1. /\ \A c \in Chunks : c < next[r] =>
           c \in done[r] \/ \E u \in Threads : Executes(u, r) /\ (c \in batch[u] \/ c = chunk[u])
      /\ \A c \in done[r] :
           <<c, r>> \in collected[r] \/ \E u \in Threads : Executes(u, r) /\ <<c, r>> \in partials[u]
      /\ \A u \in Threads : reply[r][u] = "ok" => next[r] >= NChunks
  BY Zenon DEF CompleteInv
<1> QED
  BY <1>1

(* A chunk fails: the query will be told.                                  *)
LEMMA ChunkFailsScan ==
  ASSUME PoolInv, NEW t \in Threads, ChunkFails(t)
  PROVE  ScanInv' /\ OwnCompleteResult'
<1>0. Executing(t)
  BY ClaimsOf DEF ChunkFails
<1>p. PICK q \in Callers : q = Command(t).by /\ Executes(t, q) /\ reply[q][t] = "wait"
  BY <1>0, WorkerAndQuery DEF PoolInv, Executes
<1>1. /\ reply' = [reply EXCEPT ![q][t] = "err"]
      /\ inbox' = [inbox EXCEPT ![t] = Tail(@)]
      /\ batch' = [batch EXCEPT ![t] = {}] /\ chunk' = [chunk EXCEPT ![t] = None]
      /\ partials' = [partials EXCEPT ![t] = {}]
      /\ UNCHANGED <<call, collected, next, begun, done>>
  BY <1>p DEF ChunkFails, Reply, scanVars
<1>2. Stops(t)
  <2>1. ~Executing(t)'
    BY <1>0, AnswerProtocol DEF PoolInv
  <2> QED
    BY <1>1, <2>1 DEF Stops, PoolInv, ProtocolInv, WorkerTypes, ScanInv, ScanTypes
<1>3. /\ reply'[q][t] = "err" /\ \A r \in Callers \ {q} : reply'[r] = reply[r]
      /\ \A u \in Threads : reply'[q][u] = "ok" <=> reply[q][u] = "ok"
  BY <1>1, <1>p DEF PoolInv, ProtocolInv, CallTypes
<1>4. ScanTypes'
  BY <1>1 DEF PoolInv, ScanInv, ScanTypes
<1>5. ClaimsInv'
  BY <1>1, <1>2, StopClaims DEF PoolInv, ScanInv, ScanTypes
<1>6. ScansInv'
  BY <1>1 DEF PoolInv, ScanInv, ScansInv
<1>7. CounterInv'
  BY <1>1, <1>3, CounterFrame DEF PoolInv, ScanInv
<1>8. CompleteInv'
  <2> SUFFICES ASSUME NEW r \in Callers, call'[r] = "execute", \A u \in Threads : reply'[r][u] # "err"
      PROVE  /\ \A c \in Chunks : c < next'[r] =>
                 c \in done'[r] \/ \E u \in Threads : Executes(u, r)' /\ (c \in batch'[u] \/ c = chunk'[u])
             /\ \A c \in done'[r] :
                 <<c, r>> \in collected'[r] \/ \E u \in Threads : Executes(u, r)' /\ <<c, r>> \in partials'[u]
             /\ \A u \in Threads : reply'[r][u] = "ok" => next'[r] >= NChunks
    BY Zenon DEF CompleteInv
  <2>1. \A s \in Callers, u \in Threads : s # q /\ Executes(u, s) =>
        Executes(u, s)' /\ batch'[u] = batch[u] /\ chunk'[u] = chunk[u] /\ partials'[u] = partials[u]
    BY <1>2, <1>p DEF Stops, Executes, Executing, Command
  <2>2. r # q /\ reply'[r] = reply[r]
    BY <1>3
  <2> QED
    BY <1>1, <2>1, <2>2, StopComplete DEF PoolInv, ScanInv
<1>9. OwnCompleteResult'
  BY <1>1 DEF PoolInv, OwnCompleteResult
<1> QED
  BY <1>4, <1>5, <1>6, <1>7, <1>8, <1>9 DEF ScanInv

(* A thread dies: all that wait for it are told.                           *)
LEMMA DieScan ==
  ASSUME PoolInv, NEW t \in Threads, Die(t)
  PROVE  ScanInv' /\ OwnCompleteResult'
<1>1. /\ inbox' = [inbox EXCEPT ![t] = <<>>]
      /\ batch' = [batch EXCEPT ![t] = {}] /\ chunk' = [chunk EXCEPT ![t] = None]
      /\ partials' = [partials EXCEPT ![t] = {}]
      /\ UNCHANGED <<call, collected, next, begun, done>>
      /\ reply' = [q \in Callers |->
                 IF reply[q][t] = "wait" THEN [reply[q] EXCEPT ![t] = "err"] ELSE reply[q]]
  BY DEF Die, scanVars
<1>2. Stops(t)
  BY <1>1 DEF Stops, PoolInv, ProtocolInv, WorkerTypes, ScanInv, ScanTypes, Executing
<1>3. /\ \A r \in Callers : reply[r][t] = "wait" => reply'[r][t] = "err"
      /\ \A r \in Callers : reply[r][t] # "wait" => reply'[r] = reply[r]
      /\ \A r \in Callers, u \in Threads : reply[r][u] = "ok" => reply'[r][u] = "ok"
  BY <1>1 DEF PoolInv, ProtocolInv, CallTypes
<1>4. ScanTypes'
  BY <1>1 DEF PoolInv, ScanInv, ScanTypes
<1>5. ClaimsInv'
  BY <1>1, <1>2, StopClaims DEF PoolInv, ScanInv, ScanTypes
<1>6. ScansInv'
  BY <1>1 DEF PoolInv, ScanInv, ScansInv
<1>7. CounterInv'
  BY <1>1, <1>3, CounterFrame DEF PoolInv, ScanInv
<1>8. CompleteInv'
  <2> SUFFICES ASSUME NEW r \in Callers, call'[r] = "execute", \A u \in Threads : reply'[r][u] # "err"
      PROVE  /\ \A c \in Chunks : c < next'[r] =>
                 c \in done'[r] \/ \E u \in Threads : Executes(u, r)' /\ (c \in batch'[u] \/ c = chunk'[u])
             /\ \A c \in done'[r] :
                 <<c, r>> \in collected'[r] \/ \E u \in Threads : Executes(u, r)' /\ <<c, r>> \in partials'[u]
             /\ \A u \in Threads : reply'[r][u] = "ok" => next'[r] >= NChunks
    BY Zenon DEF CompleteInv
  <2>1. \A s \in Callers : Executes(t, s) => reply[s][t] = "wait"
    BY WorkerAndQuery DEF PoolInv, Executes
  <2>2. \A s \in Callers, u \in Threads : ~Executes(t, s) /\ Executes(u, s) =>
        Executes(u, s)' /\ batch'[u] = batch[u] /\ chunk'[u] = chunk[u] /\ partials'[u] = partials[u]
    BY <1>2 DEF Stops, Executes, Executing, Command
  <2>3. reply'[r] = reply[r] /\ ~Executes(t, r)
    BY <1>3, <2>1
  <2> QED
    BY <1>1, <2>2, <2>3, StopComplete DEF PoolInv, ScanInv
<1>9. OwnCompleteResult'
  BY <1>1 DEF PoolInv, OwnCompleteResult
<1> QED
  BY <1>4, <1>5, <1>6, <1>7, <1>8, <1>9 DEF ScanInv

(* No chunk is left: the partials go to the query.                         *)
LEMMA ExhaustedScan ==
  ASSUME PoolInv, NEW t \in Threads, Exhausted(t)
  PROVE  ScanInv' /\ OwnCompleteResult'
<1>0. Executing(t)
  BY DEF Exhausted, Runs, Executing
<1>p. PICK q \in Callers :
      q = Command(t).by /\ Executes(t, q) /\ reply[q][t] = "wait" /\ call[q] \in {"execute", "error"}
  BY <1>0, WorkerAndQuery DEF PoolInv, Executes
<1>n. PICK n \in Nat : /\ n = next[q] /\ n + Batch \in Nat /\ (n + Batch) % Width = n + Batch
                       /\ n + Batch < NChunks + Batch * (Cardinality(Finished(q) \cup {t}) + 1)
  BY <1>p, RoomToCount
<1>1. /\ reply' = [reply EXCEPT ![q][t] = "ok"]
      /\ inbox' = [inbox EXCEPT ![t] = Tail(@)]
      /\ next' = [next EXCEPT ![q] = n + Batch] /\ n >= NChunks
      /\ collected' = [collected EXCEPT ![q] = @ \cup partials[t]]
      /\ partials' = [partials EXCEPT ![t] = {}]
      /\ batch[t] = {} /\ chunk[t] = None
      /\ UNCHANGED <<call, begun, done, batch, chunk>>
  BY <1>p, <1>n DEF Exhausted, Reply
<1>2. Stops(t)
  <2>1. ~Executing(t)'
    BY <1>0, AnswerProtocol DEF PoolInv
  <2> QED
    BY <1>1, <2>1 DEF Stops, PoolInv, ProtocolInv, WorkerTypes, ScanInv, ScanTypes
<1>3. /\ reply'[q][t] = "ok" /\ \A r \in Callers \ {q} : reply'[r] = reply[r]
      /\ \A u \in Threads \ {t} : reply'[q][u] = reply[q][u]
  BY <1>1, <1>p DEF PoolInv, ProtocolInv, CallTypes
<1>4. /\ next' \in [Callers -> Nat] /\ next'[q] = n + Batch /\ \A r \in Callers \ {q} : next'[r] = next[r]
      /\ collected'[q] = collected[q] \cup partials[t]
      /\ \A r \in Callers \ {q} : collected'[r] = collected[r]
      /\ collected' \in [Callers -> SUBSET Partials]
      /\ partials' \in [Threads -> SUBSET Partials]
  BY <1>1, <1>n DEF PoolInv, ScanInv, ScanTypes
<1>5. ScanTypes'
  BY <1>1, <1>4 DEF PoolInv, ScanInv, ScanTypes
<1>6. \A r \in Callers : next'[r] \in Nat /\ next[r] \in Nat /\ next[r] <= next'[r]
  BY <1>n, <1>4, PoolAssumption DEF PoolInv, ScanInv, ScanTypes
<1>7. ClaimsInv'
  BY <1>1, <1>2, <1>6, StopClaims
<1>8. ScansInv'
  <2>1. partials[t] \subseteq done[q] \X {q}
    BY <1>p, ClaimsOf
  <2>2. \A r \in Callers : \A c \in begun[r] : c < next'[r]
    <3> SUFFICES ASSUME NEW r \in Callers, NEW c \in begun[r] PROVE c < next'[r]
      OBVIOUS
    <3>1. c < next[r] /\ c \in Nat
      BY ChunkRange DEF PoolInv, ScanInv, ScansInv, ScanTypes
    <3> QED
      BY <1>6, <3>1
  <2> QED
    BY <1>1, <1>4, <1>p, <2>1, <2>2 DEF PoolInv, ScanInv, ScansInv
<1>9. CounterInv'
  <2> SUFFICES ASSUME NEW r \in Callers PROVE next'[r] < NChunks + Batch * (Cardinality(Finished(r)') + 1)
    BY DEF CounterInv
  <2>1. CASE r # q
    <3>1. Finished(r)' = Finished(r) /\ next'[r] = next[r]
      BY <1>3, <1>4, <2>1 DEF Finished
    <3> QED
      BY <3>1 DEF PoolInv, ScanInv, CounterInv
  <2>2. CASE r = q
    <3>1. Finished(q)' = Finished(q) \cup {t}
      BY <1>3 DEF Finished
    <3> QED
      BY <1>n, <1>4, <2>2, <3>1
  <2> QED
    BY <2>1, <2>2
<1>10. CompleteInv'
  <2> SUFFICES ASSUME NEW r \in Callers, call[r] = "execute", \A u \in Threads : reply'[r][u] # "err"
      PROVE  /\ \A c \in Chunks : c < next'[r] =>
                 c \in done[r] \/ \E u \in Threads : Executes(u, r)' /\ (c \in batch[u] \/ c = chunk[u])
             /\ \A c \in done[r] :
                 <<c, r>> \in collected'[r] \/ \E u \in Threads : Executes(u, r)' /\ <<c, r>> \in partials'[u]
             /\ \A u \in Threads : reply'[r][u] = "ok" => next'[r] >= NChunks
    BY <1>1, Zenon DEF CompleteInv
  <2>0. \A u \in Threads : reply[r][u] # "err"
    BY <1>p, <1>3
  <2>1. /\ \A c \in Chunks : c < next[r] =>
             c \in done[r] \/ \E u \in Threads : Executes(u, r) /\ (c \in batch[u] \/ c = chunk[u])
        /\ \A c \in done[r] :
             <<c, r>> \in collected[r] \/ \E u \in Threads : Executes(u, r) /\ <<c, r>> \in partials[u]
        /\ \A u \in Threads : reply[r][u] = "ok" => next[r] >= NChunks
    BY <2>0, Zenon DEF PoolInv, ScanInv, CompleteInv
  <2>2. \A u \in Threads \ {t} : (Executes(u, r) => Executes(u, r)') /\ partials'[u] = partials[u]
    BY <1>2 DEF Stops, Executes, Executing, Command
  <2>3. Executes(t, r) => r = q
    BY <1>p DEF Executes
  <2>4. \A c \in Chunks : c < next'[r] => c < next[r]
    BY <1>n, <1>1, <1>4, <1>6, ChunkRange, PoolAssumption
  <2>5. \A c \in Chunks, u \in Threads : Executes(u, r) /\ (c \in batch[u] \/ c = chunk[u]) => u # t
    BY <1>1, ChunkRange
  <2>6. /\ collected[r] \subseteq collected'[r]
        /\ (Executes(t, r) => partials[t] \subseteq collected'[r])
    BY <1>4, <2>3
  <2>7. \A c \in done[r] :
          <<c, r>> \in collected'[r] \/ \E u \in Threads : Executes(u, r)' /\ <<c, r>> \in partials'[u]
    BY <2>1, <2>2, <2>6
  <2>8. \A u \in Threads : reply'[r][u] = "ok" => next'[r] >= NChunks
    BY <1>n, <1>1, <1>3, <1>4, <1>6, <2>1, PoolAssumption
  <2> QED
    BY <2>1, <2>2, <2>4, <2>5, <2>7, <2>8
<1>11. OwnCompleteResult'
  <2>1. call[q] # "ok"
    BY <1>p
  <2> QED
    BY <1>1, <1>4, <2>1 DEF PoolInv, OwnCompleteResult
<1> QED
  BY <1>5, <1>7, <1>8, <1>9, <1>10, <1>11 DEF ScanInv

-----------------------------------------------------------------------------
(* THE INVARIANT                                                           *)

(* The initial state satisfies the inductive invariant.                    *)
LEMMA PoolInit == Init => PoolInv
<1> SUFFICES ASSUME Init PROVE PoolInv
  OBVIOUS
<1>1. <<>> \in Seq(Commands) /\ DOMAIN <<>> = {} /\ 0 \in 0 .. MaxSize
  BY PoolAssumption
<1>2. NoReplies \in [Threads -> Answers] /\ \A t \in Threads : NoReplies[t] = "none"
  BY DEF NoReplies, Answers
<1>3. CallTypes /\ WorkerTypes /\ ScanTypes
  BY <1>1, <1>2 DEF Init, CallTypes, WorkerTypes, ScanTypes, Calls
<1>4. CallsInv
  BY <1>2, PoolAssumption DEF Init, CallsInv
<1>5. \A t \in Threads : inbox[t] = <<>> /\ ~Executing(t)
  BY DEF Init, Executing
<1>6. RepliesInv
  BY <1>1, <1>2, <1>5 DEF Init, RepliesInv
<1>7. OrderInv
  BY <1>1, <1>2, <1>5 DEF Init, OrderInv, Ready
<1>8. ClaimsInv
  BY <1>5 DEF Init, ClaimsInv, Executes
<1>9. ScansInv
  BY DEF Init, ScansInv
<1>10. CounterInv
  <2> SUFFICES ASSUME NEW q \in Callers PROVE 0 < NChunks + Batch * (Cardinality(Finished(q)) + 1)
    BY DEF Init, CounterInv
  <2>1. /\ Batch * (Cardinality({}) + 1) <= Batch * (Cardinality(Finished(q)) + 1)
        /\ Cardinality(Finished(q)) \in Nat
    BY MoreFinished DEF Finished
  <2>2. Cardinality({}) = 0
    BY FS_EmptySet
  <2> QED
    BY <2>1, <2>2, PoolAssumption, SMT
<1>11. CompleteInv /\ OwnCompleteResult
  BY DEF Init, CompleteInv, OwnCompleteResult
<1> QED
  BY <1>3, <1>4, <1>6, <1>7, <1>8, <1>9, <1>10, <1>11 DEF PoolInv, ProtocolInv, ScanInv

(* Every step preserves it.                                                *)
LEMMA PoolStep == PoolInv /\ [Next]_vars => PoolInv'
<1> SUFFICES ASSUME PoolInv, [Next]_vars PROVE PoolInv'
  OBVIOUS
<1>0. ProtocolInv
  BY DEF PoolInv
<1>1. ASSUME NEW q \in Callers, Lock(q) PROVE PoolInv'
  BY <1>0, <1>1, LockProtocol, LockScan DEF PoolInv
<1>2. ASSUME NEW q \in Callers, Reuse(q) PROVE PoolInv'
  BY <1>0, <1>2, ReuseProtocol, LockScan DEF PoolInv
<1>3. ASSUME NEW q \in Callers, Recreate(q) PROVE PoolInv'
  BY <1>0, <1>3, RecreateProtocol, RecreateScan DEF PoolInv
<1>4. ASSUME NEW q \in Callers, Send(q) PROVE PoolInv'
  BY <1>0, <1>4, SendProtocol, SendScan DEF PoolInv
<1>5. ASSUME NEW q \in Callers, Prepared(q) PROVE PoolInv'
  BY <1>0, <1>5, PreparedProtocol, PreparedScan DEF PoolInv
<1>6. ASSUME NEW q \in Callers, Executed(q) PROVE PoolInv'
  BY <1>0, <1>6, ExecutedProtocol, ExecutedScan DEF PoolInv
<1>7. ASSUME NEW t \in Threads, PrepareSql(t) PROVE PoolInv'
  BY <1>0, <1>7, PrepareSqlProtocol, PrepareSqlScan DEF PoolInv
<1>8. ASSUME NEW t \in Threads, ClaimBatch(t) \/ Begin(t) \/ Succeed(t) PROVE PoolInv'
  <2>1. ProtocolInv'
    <3>1. UNCHANGED <<call, mutex, sent, reply, size, alive, inbox, sql>>
      BY <1>8 DEF ClaimBatch, Begin, Succeed, callVars
    <3> QED
      BY <1>0, <3>1, QuietProtocol
  <2> QED
    BY <1>8, <2>1, ClaimBatchScan, BeginScan, SucceedScan DEF PoolInv
<1>9. ASSUME NEW t \in Threads, ChunkFails(t) \/ Exhausted(t) PROVE PoolInv'
  <2>1. Executing(t)
    BY <1>9, ClaimsOf DEF ChunkFails, Exhausted, Runs, Executing
  <2> QED
    BY <1>0, <1>9, <2>1, AnswerProtocol, ChunkFailsScan, ExhaustedScan DEF PoolInv
<1>10. ASSUME NEW t \in Threads, Die(t) PROVE PoolInv'
  BY <1>0, <1>10, DieProtocol, DieScan DEF PoolInv
<1>11. CASE UNCHANGED vars
  <2>1. /\ UNCHANGED <<call, mutex, sent, reply, size, alive, inbox, sql>>
        /\ UNCHANGED ScanState
    BY <1>11 DEF vars, callVars, scanVars, threadVars, ScanState
  <2>2. SameWork /\ PhasesAdvance /\ ExecutesAnew /\ SucceedsWithAll
    BY <2>1 DEF SameWork, Executing, Command, PhasesAdvance, ExecutesAnew, SucceedsWithAll
  <2>3. AnswersStay
    BY <2>1 DEF AnswersStay
  <2> QED
    BY <1>0, <2>1, <2>2, <2>3, QuietProtocol, CallScan DEF PoolInv
<1> QED
  BY <1>1, <1>2, <1>3, <1>4, <1>5, <1>6, <1>7, <1>8, <1>9, <1>10, <1>11
     DEF Next, CallStep, ThreadStep

(* The inductive invariant of the thread pool: at most one command of a    *)
(* query per channel, a worker executes under the plan of the query that   *)
(* asked, no chunk is held twice, no chunk is lost without an error, and   *)
(* the shared counter does not wrap.                                       *)
THEOREM PoolInductive == Spec => []PoolInv
BY PoolInit, PoolStep, PTL DEF Spec

(* query_sql_parallel returns success only with exactly one partial per    *)
(* chunk of the file, each computed under the SQL of this query, whatever  *)
(* commands earlier failed queries left in the channels and whichever      *)
(* threads died.                                                           *)
THEOREM PoolResultComplete == Spec => []OwnCompleteResult
<1>1. PoolInv => OwnCompleteResult
  BY DEF PoolInv
<1> QED
  BY <1>1, PoolInductive, PTL

-----------------------------------------------------------------------------
(* THE SCANS                                                               *)

(* A step that begins, finishes and answers nothing is no step of the      *)
(* scan.                                                                   *)
LEMMA ScanStutters ==
  ASSUME NEW q \in Callers,
         begun'[q] = begun[q], done'[q] = done[q], call'[q] = call[q],
         chunk' = chunk,
         \A t \in Threads : chunk[t] # None => Head(inbox'[t]) = Head(inbox[t])
  PROVE  UNCHANGED Scan(q)!vars
<1>1. Claimed(q)' = Claimed(q) BY DEF Claimed, Command
<1>2. Outcome(q)' = Outcome(q) BY DEF Outcome
<1> QED BY <1>1, <1>2 DEF Scan!vars

(* The scan begins with every chunk unclaimed.                             *)
LEMMA ScanInits == Init => \A q \in Callers : Scan(q)!Init
<1> SUFFICES ASSUME Init, NEW q \in Callers PROVE Scan(q)!Init
    OBVIOUS
<1>1. begun[q] = {} /\ done[q] = {} /\ call[q] = "idle" BY DEF Init
<1>2. Claimed(q) = [t \in Threads |-> None] BY DEF Init, Claimed
<1>3. Outcome(q) = "running" BY <1>1 DEF Outcome
<1> QED BY <1>1, <1>2, <1>3 DEF Scan!Init

(* A chunk a worker holds is one its query has begun and not finished; it  *)
(* is the worker's claim in that query's scan, and in no other.            *)
LEMMA HeldClaim ==
  ASSUME PoolInv, NEW q \in Callers, NEW t \in Threads, chunk[t] # None
  PROVE  /\ Executing(t) /\ Command(t).by \in Callers
         /\ chunk[t] \in Chunks
         /\ chunk[t] \in begun[Command(t).by] \ done[Command(t).by]
         /\ Claimed(q)[t] = IF Command(t).by = q THEN chunk[t] ELSE None
<1>1. ClaimsInv /\ ScanTypes /\ WorkerTypes BY DEF PoolInv, ScanInv, ProtocolInv
<1>2. Executing(t) BY <1>1 DEF ClaimsInv
<1>3. Command(t) \in Commands
  <2>1. inbox[t] \in Seq(Commands) /\ inbox[t] # <<>> BY <1>1, <1>2 DEF WorkerTypes, Executing
  <2> QED BY <2>1 DEF Command
<1>4. Command(t).by \in Callers BY <1>3 DEF Commands
<1>5. Executes(t, Command(t).by) BY <1>2 DEF Executes
<1>6. chunk[t] \in begun[Command(t).by] \ done[Command(t).by] BY <1>1, <1>4, <1>5 DEF ClaimsInv
<1>7. chunk[t] \in Chunks BY <1>1 DEF ScanTypes
<1> QED BY <1>2, <1>4, <1>6, <1>7 DEF Claimed

(* The command a worker has begun stays the first in its channel unless    *)
(* the step removes it                                                     *)
(* A step of another query is no step of this query's scan.                *)
LEMMA ScanStuttersQuiet ==
  ASSUME PoolInv, NEW q \in Callers, call'[q] = call[q], UNCHANGED <<scanVars, chunk, inbox>>
  PROVE  UNCHANGED Scan(q)!vars
BY ScanStutters DEF scanVars

(* The query returns: the scan fails, or completes with every chunk.       *)
LEMMA ScanEnds ==
  ASSUME NEW q \in Callers, UNCHANGED <<scanVars, chunk, inbox>>,
         Outcome(q) = "running",
         \/ Outcome(q)' = "failed"
         \/ Outcome(q)' = "complete" /\ done[q] = Chunks
  PROVE  Scan(q)!Next
<1>1. Claimed(q)' = Claimed(q) BY DEF Claimed, Command
<1>2. begun'[q] = begun[q] /\ done'[q] = done[q] BY DEF scanVars
<1>3. CASE Outcome(q)' = "failed"
  <2>1. Scan(q)!Fail BY <1>1, <1>2, <1>3 DEF Scan!Fail
  <2> QED BY <2>1 DEF Scan!Next
<1>4. CASE Outcome(q)' = "complete" /\ done[q] = Chunks
  <2>1. Scan(q)!Complete BY <1>1, <1>2, <1>4 DEF Scan!Complete
  <2> QED BY <2>1 DEF Scan!Next
<1> QED BY <1>3, <1>4

(* A worker without a chunk takes the command from its channel.            *)
LEMMA ScanStuttersIdle ==
  ASSUME PoolInv, NEW q \in Callers, NEW t \in Threads, chunk[t] = None,
         UNCHANGED <<call, begun, done, chunk>>,
         \A u \in Threads \ {t} : inbox'[u] = inbox[u]
  PROVE  UNCHANGED Scan(q)!vars
<1>1. \A u \in Threads : chunk[u] # None => Head(inbox'[u]) = Head(inbox[u]) OBVIOUS
<1> QED BY <1>1, ScanStutters

(* A worker drops its chunk, which the scan of its query loses.            *)
LEMMA ScanLoses ==
  ASSUME PoolInv, NEW q \in Callers, NEW t \in Threads,
         UNCHANGED <<call, scanVars>>,
         chunk' = [chunk EXCEPT ![t] = None],
         \A u \in Threads \ {t} : inbox'[u] = inbox[u]
  PROVE  [Scan(q)!Next]_(Scan(q)!vars)
<1>1. begun'[q] = begun[q] /\ done'[q] = done[q] BY DEF scanVars
<1>2. Outcome(q)' = Outcome(q) BY DEF Outcome
<1>3. chunk \in [Threads -> Chunks \cup {None}] BY DEF PoolInv, ScanInv, ScanTypes
<1>4. Claimed(q)' = [Claimed(q) EXCEPT ![t] = None]
  BY <1>3 DEF Claimed, Command
<1>5. CASE Claimed(q)[t] = None
  <2>1. Claimed(q)' = Claimed(q) BY <1>4, <1>5 DEF Claimed
  <2> QED BY <1>1, <1>2, <2>1 DEF Scan!vars
<1>6. CASE Claimed(q)[t] # None
  <2>1. Scan(q)!Lose(t) BY <1>1, <1>2, <1>4, <1>6 DEF Scan!Lose
  <2> QED BY <2>1 DEF Scan!Next
<1> QED BY <1>5, <1>6

(* A query that goes on has not told its caller anything.                  *)
LEMMA SameOutcome ==
  ASSUME NEW p \in Callers, NEW q \in Callers, call \in [Callers -> Calls],
         NEW a, a \notin {"ok", "error"}, call' = [call EXCEPT ![p] = a],
         call[p] \notin {"ok", "error"}
  PROVE  Outcome(q)' = Outcome(q)
<1>1. CASE p = q
  BY <1>1 DEF Outcome
<1>2. CASE p # q
  <2>1. call'[q] = call[q]
    BY <1>2
  <2> QED
    BY <2>1 DEF Outcome
<1> QED
  BY <1>1, <1>2

(* A step of a query is a step of its own scan, or of none.                *)
LEMMA CallRefines ==
  ASSUME PoolInv, NEW q \in Callers, NEW p \in Callers, CallStep(p) \/ Lock(p)
  PROVE  [Scan(q)!Next]_(Scan(q)!vars)
<1>0. call \in [Callers -> Calls] /\ inbox \in [Threads -> Seq(Commands)]
  BY DEF PoolInv, ProtocolInv, CallTypes, WorkerTypes
<1>1. ASSUME UNCHANGED <<scanVars, chunk, inbox>>, NEW a \in Calls \ {"ok", "error"},
             call' = [call EXCEPT ![p] = a], call[p] \notin {"ok", "error"}
      PROVE  UNCHANGED Scan(q)!vars
  <2>1. Outcome(q)' = Outcome(q)
    BY <1>0, <1>1, SameOutcome
  <2>2. Claimed(q)' = Claimed(q) /\ begun' = begun /\ done' = done
    BY <1>1 DEF Claimed, Command, scanVars
  <2> QED
    BY <2>1, <2>2 DEF Scan!vars
<1>2. ASSUME NEW a \in {"ok", "error"}, Return(p, a), UNCHANGED <<scanVars, chunk, inbox>>,
             call[p] \in {"prepare", "execute"}, a = "ok" => done[p] = Chunks
      PROVE  [Scan(q)!Next]_(Scan(q)!vars)
  <2>1. CASE p = q
    <3>1. Outcome(q) = "running"
      BY <1>2, <2>1 DEF Outcome
    <3>2. Outcome(q)' = IF a = "ok" THEN "complete" ELSE "failed"
      <4>1. call'[q] = a
        BY <1>0, <1>2, <2>1 DEF Return
      <4> QED
        BY <1>2, <4>1 DEF Outcome
    <3> QED
      BY <1>2, <2>1, <3>1, <3>2, ScanEnds
  <2>2. CASE p # q
    <3>1. call'[q] = call[q]
      BY <1>0, <1>2, <2>2 DEF Return
    <3> QED
      BY <1>2, <3>1, ScanStuttersQuiet
  <2> QED
    BY <2>1, <2>2
<1>3. CASE Lock(p)
  <2>1. /\ UNCHANGED <<scanVars, chunk, inbox>> /\ "pool" \in Calls \ {"ok", "error"}
        /\ call' = [call EXCEPT ![p] = "pool"] /\ call[p] \notin {"ok", "error"}
    BY <1>3 DEF Lock, threadVars, Calls
  <2> QED
    BY <1>1, <2>1
<1>4. CASE Reuse(p)
  <2>1. /\ UNCHANGED <<scanVars, chunk, inbox>> /\ "prepare" \in Calls \ {"ok", "error"}
        /\ call' = [call EXCEPT ![p] = "prepare"] /\ call[p] \notin {"ok", "error"}
    BY <1>4 DEF Reuse, threadVars, Calls
  <2> QED
    BY <1>1, <2>1
<1>5. CASE Recreate(p)
  <2>1. \A t \in Threads : chunk[t] = None
    <3> SUFFICES ASSUME NEW t \in Threads, chunk[t] # None PROVE FALSE
      OBVIOUS
    <3>1. inbox[t] # <<>>
      BY HeldClaim DEF Executing
    <3>2. alive[t] /\ t \in Pool
      <4>1. alive[t] /\ t <= size
        BY <3>1 DEF PoolInv, ProtocolInv, RepliesInv
      <4>2. size \in Nat /\ t \in Nat /\ 1 <= t
        BY PoolAssumption DEF PoolInv, ProtocolInv, WorkerTypes, Threads
      <4> QED
        BY <4>1, <4>2 DEF Pool
    <3> QED
      BY <1>5, <3>1, <3>2 DEF Recreate
  <2>2. /\ UNCHANGED <<begun, done, chunk>>
        /\ call' = [call EXCEPT ![p] = "prepare"] /\ call[p] = "pool"
    BY <1>5 DEF Recreate, scanVars
  <2>3. Claimed(q)' = Claimed(q)
    BY <2>1, <2>2 DEF Claimed
  <2>4. Outcome(q)' = Outcome(q)
    BY <1>0, <2>2, SameOutcome DEF Calls
  <2> QED
    BY <2>2, <2>3, <2>4 DEF Scan!vars
<1>6. CASE Send(p)
  <2> DEFINE t == sent[p] + 1
  <2>1. t \in Pool /\ UNCHANGED <<scanVars, chunk>> /\ call[p] \in {"prepare", "execute"}
    BY <1>6 DEF Send, threadVars
  <2>2. CASE alive[t]
    <3>1. UNCHANGED call /\ \E m : inbox' = [inbox EXCEPT ![t] = Append(@, m)]
      BY <1>6, <2>2 DEF Send
    <3>2. ASSUME NEW u \in Threads, chunk[u] # None
          PROVE  Head(inbox'[u]) = Head(inbox[u])
      <4>1. inbox[u] # <<>> /\ inbox[u] \in Seq(Commands)
        BY <1>0, <3>2, HeldClaim DEF Executing
      <4>2. inbox'[u] = inbox[u] \/ \E m : inbox'[u] = Append(inbox[u], m)
        BY <1>0, <3>1
      <4> QED
        BY <4>1, <4>2
    <3> QED
      BY <2>1, <3>1, <3>2, ScanStutters DEF scanVars
  <2>3. CASE ~alive[t]
    <3>1. Return(p, "error") /\ UNCHANGED inbox
      BY <1>6, <2>3 DEF Send
    <3> QED
      BY <1>2, <2>1, <3>1
  <2> QED
    BY <2>2, <2>3
<1>7. CASE Prepared(p)
  <2>1. call[p] = "prepare" /\ UNCHANGED <<scanVars, chunk, inbox>>
    BY <1>7 DEF Prepared, threadVars
  <2>2. CASE \A t \in Pool : reply[p][t] = "ok"
    <3>1. call' = [call EXCEPT ![p] = "execute"] /\ "execute" \in Calls \ {"ok", "error"}
      BY <1>7, <2>2 DEF Prepared, Calls
    <3> QED
      BY <1>1, <2>1, <3>1
  <2>3. CASE ~\A t \in Pool : reply[p][t] = "ok"
    <3>1. Return(p, "error")
      BY <1>7, <2>3 DEF Prepared
    <3> QED
      BY <1>2, <2>1, <3>1
  <2> QED
    BY <2>2, <2>3
<1>8. CASE Executed(p)
  <2>1. call[p] = "execute" /\ Answered(p) /\ UNCHANGED <<scanVars, chunk, inbox>>
    BY <1>8 DEF Executed, threadVars
  <2>2. CASE \A t \in Pool : reply[p][t] = "ok"
    <3>1. Return(p, "ok")
      BY <1>8, <2>2 DEF Executed
    <3>2. done[p] = Chunks
      BY <2>1, <2>2, AllScanned
    <3> QED
      BY <1>2, <2>1, <3>1, <3>2
  <2>3. CASE ~\A t \in Pool : reply[p][t] = "ok"
    <3>1. Return(p, "error")
      BY <1>8, <2>3 DEF Executed
    <3> QED
      BY <1>2, <2>1, <3>1
  <2> QED
    BY <2>2, <2>3
<1> QED
  BY <1>3, <1>4, <1>5, <1>6, <1>7, <1>8 DEF CallStep

(* A step of a worker is a step of the scan it works for.                  *)
LEMMA ThreadRefines ==
  ASSUME PoolInv, NEW q \in Callers, NEW t \in Threads, ThreadStep(t) \/ Die(t)
  PROVE  [Scan(q)!Next]_(Scan(q)!vars)
<1>0. /\ chunk \in [Threads -> Chunks \cup {None}] /\ inbox \in [Threads -> Seq(Commands)]
      /\ begun \in [Callers -> SUBSET Chunks] /\ done \in [Callers -> SUBSET Chunks]
      /\ batch \in [Threads -> SUBSET Chunks]
  BY DEF PoolInv, ProtocolInv, WorkerTypes, ScanInv, ScanTypes
<1>1. CASE PrepareSql(t)
  <2>1. chunk[t] = None
    BY <1>1, HeldClaim DEF PrepareSql, Runs, Executing
  <2>2. UNCHANGED <<call, begun, done, chunk>> /\ \A u \in Threads \ {t} : inbox'[u] = inbox[u]
    BY <1>0, <1>1 DEF PrepareSql, Reply, scanVars
  <2> QED
    BY <2>1, <2>2, ScanStuttersIdle
<1>2. CASE ClaimBatch(t)
  <2>1. UNCHANGED <<call, begun, done, chunk, inbox>>
    BY <1>2 DEF ClaimBatch, callVars
  <2> QED
    BY <2>1, ScanStutters
<1>3. CASE Exhausted(t)
  <2>1. chunk[t] = None
    BY <1>3 DEF Exhausted
  <2>2. UNCHANGED <<call, begun, done, chunk>> /\ \A u \in Threads \ {t} : inbox'[u] = inbox[u]
    BY <1>0, <1>3 DEF Exhausted, Reply
  <2> QED
    BY <2>1, <2>2, ScanStuttersIdle
<1>4. CASE ChunkFails(t)
  <2>1. UNCHANGED <<call, scanVars>> /\ chunk' = [chunk EXCEPT ![t] = None]
        /\ \A u \in Threads \ {t} : inbox'[u] = inbox[u]
    BY <1>0, <1>4 DEF ChunkFails, Reply
  <2> QED
    BY <2>1, ScanLoses
<1>5. CASE Die(t)
  <2>1. UNCHANGED <<call, scanVars>> /\ chunk' = [chunk EXCEPT ![t] = None]
        /\ \A u \in Threads \ {t} : inbox'[u] = inbox[u]
    BY <1>0, <1>5 DEF Die
  <2> QED
    BY <2>1, ScanLoses
<1>6. CASE Succeed(t)
  <2>1. chunk[t] # None /\ chunk' = [chunk EXCEPT ![t] = None]
        /\ done' = [done EXCEPT ![Command(t).by] = @ \cup {chunk[t]}]
        /\ UNCHANGED <<call, begun, inbox>>
    BY <1>6 DEF Succeed, callVars
  <2>2. /\ Command(t).by \in Callers
        /\ Claimed(q)[t] = IF Command(t).by = q THEN chunk[t] ELSE None
    BY <2>1, HeldClaim
  <2>3. Claimed(q)' = [Claimed(q) EXCEPT ![t] = None]
    BY <1>0, <2>1 DEF Claimed, Command
  <2>4. Outcome(q)' = Outcome(q) /\ begun'[q] = begun[q]
    BY <2>1 DEF Outcome
  <2>5. CASE Command(t).by = q
    <3>1. Scan(q)!Finish(t)
      BY <1>0, <2>1, <2>2, <2>3, <2>4, <2>5 DEF Scan!Finish
    <3> QED
      BY <3>1 DEF Scan!Next
  <2>6. CASE Command(t).by # q
    <3>1. done'[q] = done[q]
      BY <1>0, <2>1, <2>2, <2>6
    <3>2. Claimed(q)' = Claimed(q)
      BY <2>2, <2>3, <2>6 DEF Claimed
    <3> QED
      BY <2>4, <3>1, <3>2 DEF Scan!vars
  <2> QED
    BY <2>5, <2>6
<1>7. CASE Begin(t)
  <2>1. PICK c \in batch[t] :
          /\ chunk[t] = None
          /\ chunk' = [chunk EXCEPT ![t] = c]
          /\ begun' = [begun EXCEPT ![Command(t).by] = @ \cup {c}]
          /\ UNCHANGED <<call, done, inbox>>
    BY <1>7 DEF Begin, callVars
  <2>2. /\ Command(t).by \in Callers /\ c \in Chunks /\ c # None
        /\ c \notin begun[Command(t).by]
    <3>0. Executing(t)
      BY <2>1, ClaimsOf
    <3>1. Command(t).by \in Callers /\ Executes(t, Command(t).by)
      BY <3>0, HeadCommand DEF PoolInv, Executes, Executing
    <3>2. c \notin begun[Command(t).by]
      BY <2>1, <3>1, ClaimsOf
    <3> QED
      BY <1>0, <2>1, <3>1, <3>2, ChunkRange
  <2>3. Outcome(q)' = Outcome(q) /\ done'[q] = done[q]
    BY <2>1 DEF Outcome
  <2>4. Claimed(q)[t] = None
    BY <2>1 DEF Claimed
  <2>5. CASE Command(t).by = q
    <3>1. Claimed(q)' = [Claimed(q) EXCEPT ![t] = c]
      BY <1>0, <2>1, <2>2, <2>5 DEF Claimed, Command
    <3>2. c \in Chunks \ begun[q] /\ Chunks \ begun'[q] = (Chunks \ begun[q]) \ {c}
      BY <1>0, <2>1, <2>2, <2>5
    <3>3. Scan(q)!Claim(t, c)
      BY <2>3, <2>4, <3>1, <3>2 DEF Scan!Claim
    <3> QED
      BY <2>2, <3>3 DEF Scan!Next
  <2>6. CASE Command(t).by # q
    <3>1. begun'[q] = begun[q]
      BY <1>0, <2>1, <2>2, <2>6
    <3>2. Claimed(q)' = Claimed(q)
      BY <1>0, <2>1, <2>6 DEF Claimed, Command
    <3> QED
      BY <2>3, <3>1, <3>2 DEF Scan!vars
  <2> QED
    BY <2>5, <2>6
<1> QED
  BY <1>1, <1>2, <1>3, <1>4, <1>5, <1>6, <1>7 DEF ThreadStep

(* execute_chunks implements, for each query, the abstract scan ChunkScan: *)
(* every step of the pool is a step of the query's scan or leaves it       *)
(* alone. A batch claimed by fetch_add is claimed from the scan chunk by   *)
(* chunk, as its chunks begin.                                             *)
THEOREM PoolImplementsScans == Spec => ImplementsScans
<1>1. ASSUME PoolInv, [Next]_vars
      PROVE  \A q \in Callers : [Scan(q)!Next]_(Scan(q)!vars)
  <2> SUFFICES ASSUME NEW q \in Callers PROVE [Scan(q)!Next]_(Scan(q)!vars)
    OBVIOUS
  <2>1. CASE Next
    BY <1>1, <2>1, CallRefines, ThreadRefines DEF Next
  <2>2. CASE UNCHANGED vars
    <3>1. call'[q] = call[q] /\ UNCHANGED <<scanVars, chunk, inbox>>
      BY <2>2 DEF vars, callVars, threadVars
    <3> QED
      BY <1>1, <3>1, ScanStuttersQuiet
  <2> QED
    BY <1>1, <2>1, <2>2
<1>2. Init => \A q \in Callers : Scan(q)!Init
  BY ScanInits
<1> QED
  BY <1>1, <1>2, PoolInductive, PTL DEF Spec, ImplementsScans
=============================================================================
