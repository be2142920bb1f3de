--------------------------- MODULE AaeRunnerProofs ---------------------------
(***************************************************************************)
(* Proofs about AaeRunner, for every set of operations and any mix of      *)
(* tabs: the Compress tab is never unlocked under a running compression,   *)
(* and a cancel stops a neighbour at most.                                 *)
(***************************************************************************)
EXTENDS AaeRunner, TLAPS

-----------------------------------------------------------------------------
(* Queues.                                                                 *)

\* The rest of a queue without repetitions has none, and not its head.
LEMMA TailOnce ==
  ASSUME NEW q \in Seq(Op), q # <<>>, Once(q)
  PROVE  /\ Head(q) \in Op /\ Tail(q) \in Seq(Op) /\ Once(Tail(q))
         /\ \A i \in 1..Len(Tail(q)) : Tail(q)[i] # Head(q) /\ \E j \in 1..Len(q) : Tail(q)[i] = q[j]
BY DEF Once

\* A queue stays without repetitions when something new joins it.
LEMMA AppendOnce ==
  ASSUME NEW q \in Seq(Op), NEW op \in Op, Once(q), \A i \in 1..Len(q) : q[i] # op
  PROVE  /\ Append(q, op) \in Seq(Op) /\ Once(Append(q, op))
         /\ \A i \in 1..Len(Append(q, op)) :
              Append(q, op)[i] = op \/ \E j \in 1..Len(q) : Append(q, op)[i] = q[j]
BY DEF Once

-----------------------------------------------------------------------------
(* The invariant.                                                          *)

\* The handles that are stored are those of operations.
LEMMA HandlesStep ==
  ASSUME TypeOK, [Next]_vars
  PROVE  HandlesOK'
<1> USE DEF HandlesOK, look
<1>1. HandlesOK /\ click \in {Idle} \cup ({"submitted", "flagged"} \X Op) /\ current \in [Screens -> Op \cup {None}]
  BY DEF TypeOK
<1>2. CASE UNCHANGED vars
  BY <1>1, <1>2 DEF vars
<1>3. ASSUME NEW op \in Op, Submit(op) PROVE HandlesOK'
  <2>1. current["test"] \in Op \cup {None}
    BY <1>1 DEF Screens
  <2> QED
    BY <1>1, <1>3, <2>1 DEF Submit
<1>4. CASE Store
  <2>1. click[2] \in Op
    BY <1>1, <1>4 DEF Store, Idle
  <2> QED
    BY <1>1, <1>4, <2>1 DEF Store
<1>5. CASE CancelFuture \/ Callback \/ Take \/ \E s \in Screens : CancelClick(s)
  BY <1>1, <1>5 DEF CancelFuture, Callback, Take, CancelClick
<1>6. ASSUME NEW op \in Op, Begin(op) \/ End(op) \/ Stop(op) \/ Throws(op) PROVE HandlesOK'
  BY <1>1, <1>6 DEF Begin, End, Stop, Throws, Post, Forget
<1> QED
  BY <1>2, <1>3, <1>4, <1>5, <1>6 DEF Next, Worker

\* Nothing is queued at the start.
LEMMA InitRunner == Init => QInv
BY DEF Init, QInv, TypeOK, HandlesOK, Once, In, CompressExclusive, Pending, Idle, Screens

\* A submission joins the queue, and a compression only an idle tab.
LEMMA SubmitRunner ==
  ASSUME QInv, HandlesOK', NEW op \in Op, Submit(op)
  PROVE  QInv'
<1> USE OpsOK DEF QInv, TypeOK, Submit
<1>1. \A i \in 1..Len(executor) : executor[i] # op
  BY DEF In
<1>2. Screen(TabOf(op)) \in Screens
  BY DEF Screen, Screens
<1>3. TypeOK'
  BY <1>2 DEF Idle
<1>4. Once(executor)' /\ In(executor, "queued")'
  BY <1>1, AppendOnce DEF In, Once
<1>5. Once(handler)' /\ In(handler, "posted")'
  BY DEF In, Once
<1>6. CompressExclusive'
  BY <1>2 DEF CompressExclusive, Pending, Enabled, Screen, Screens, TabOf
<1> QED
  BY <1>3, <1>4, <1>5, <1>6

\* Storing a handle and cancelling move no operation.
LEMMA CancelRunner ==
  ASSUME QInv, HandlesOK', Store \/ CancelFuture \/ \E s \in Screens : CancelClick(s)
  PROVE  QInv'
<1> USE OpsOK DEF QInv, TypeOK
<1>1. CASE Store
  <2>1. click[2] \in Op /\ click' = Idle
    BY <1>1 DEF Store, Idle
  <2>2. TypeOK'
    BY <1>1, <2>1 DEF Store, Screens
  <2> QED
    BY <1>1, <2>2 DEF Store, Once, In, CompressExclusive, Pending
<1>2. CASE CancelFuture
  BY <1>2 DEF CancelFuture, Once, In, CompressExclusive, Pending, TabOf, Idle, Screens
<1>3. ASSUME NEW s \in Screens, CancelClick(s) PROVE QInv'
  BY <1>3 DEF CancelClick, Once, In, CompressExclusive, Pending, TabOf, Idle, Screens
<1> QED
  BY <1>1, <1>2, <1>3

\* A callback unlocks a tab that has no other operation pending.
LEMMA CallbackRunner ==
  ASSUME QInv, HandlesOK', Callback
  PROVE  QInv'
<1> USE OpsOK DEF QInv, TypeOK, Callback
<1> DEFINE op == Head(handler)
<1>1. op \in Op /\ handler' \in Seq(Op) /\ Once(handler')
      /\ \A i \in 1..Len(handler') : handler'[i] # op /\ \E j \in 1..Len(handler) : handler'[i] = handler[j]
  BY TailOnce
<1>2. phase[op] = "posted"
  BY <1>1 DEF In
<1>3. TypeOK'
  BY <1>1 DEF Idle, Screen, Screens
<1>4. In(handler, "posted")'
  BY <1>1, <1>3 DEF In
<1>5. Once(executor)' /\ In(executor, "queued")'
  BY <1>1, <1>2 DEF In, Once
<1>6. CompressExclusive'
  BY <1>1, <1>2 DEF CompressExclusive, Pending, Screen, Screens, TabOf
<1> QED
  BY <1>1, <1>3, <1>4, <1>5, <1>6 DEF Once

\* The worker only moves the operation it takes or holds.
LEMMA WorkerRunner ==
  ASSUME QInv, HandlesOK', Worker
  PROVE  QInv'
<1> USE OpsOK DEF QInv, TypeOK
<1>1. CASE Take
  <2> DEFINE op == Head(executor)
  <2>0. executor \in Seq(Op) /\ executor # <<>> /\ Once(executor) /\ executor' = Tail(executor)
    BY <1>1 DEF Take
  <2>1. op \in Op /\ executor' \in Seq(Op) /\ Once(executor')
        /\ \A i \in 1..Len(executor') : executor'[i] # op /\ \E j \in 1..Len(executor) : executor'[i] = executor[j]
    BY <2>0, TailOnce
  <2> USE <1>1 DEF Take
  <2>2. phase[op] = "queued"
    BY <2>1 DEF In
  <2>3. TypeOK'
    BY <2>1
  <2>4. In(executor, "queued")'
    BY <2>1, <2>3 DEF In
  <2>5. Once(handler)' /\ In(handler, "posted")'
    BY <2>1, <2>2 DEF In, Once
  <2>6. CompressExclusive'
    BY <2>1, <2>2 DEF CompressExclusive, Pending, TabOf
  <2> QED
    BY <2>1, <2>3, <2>4, <2>5, <2>6 DEF Once
<1>2. ASSUME NEW op \in Op, phase[op] \in {"taken", "working"}, Post(op) PROVE QInv'
  <2> USE <1>2 DEF Post
  <2>1. \A i \in 1..Len(handler) : handler[i] # op
    BY DEF In
  <2>2. TypeOK'
    OBVIOUS
  <2>3. Once(handler)' /\ In(handler, "posted")'
    BY <2>1, AppendOnce DEF In, Once
  <2>4. Once(executor)' /\ In(executor, "queued")'
    BY DEF In, Once
  <2>5. CompressExclusive'
    BY DEF CompressExclusive, Pending, TabOf
  <2> QED
    BY <2>2, <2>3, <2>4, <2>5
<1>3. ASSUME NEW op \in Op, NEW ph \in {"working", "lost"}, phase[op] \in {"taken", "working"},
             phase' = [phase EXCEPT ![op] = ph],
             UNCHANGED <<executor, cancelled, revoked, current, busy, handler, click>>
      PROVE  QInv'
  <2> USE <1>3
  <2>1. TypeOK'
    <3>1. phase' \in [Op -> {"new", "queued", "taken", "working", "posted", "done", "lost"}]
      OBVIOUS
    <3> QED
      BY <3>1, SMTT(30)
  <2>2. Once(handler)' /\ In(handler, "posted")' /\ Once(executor)' /\ In(executor, "queued")'
    BY DEF Once, In
  <2>3. CompressExclusive'
    BY DEF CompressExclusive, Pending, TabOf
  <2> QED
    BY <2>1, <2>2, <2>3
<1> QED
  BY <1>1, <1>2, <1>3 DEF Worker, Begin, End, Stop, SeesCancel, Throws

\* Every step keeps the queues in order.
LEMMA QueueStep == QInv /\ [Next]_vars => QInv'
<1> SUFFICES ASSUME QInv, [Next]_vars PROVE QInv'
  OBVIOUS
<1>1. CASE UNCHANGED vars
  BY <1>1 DEF vars, look, HandlesOK, QInv, TypeOK, Once, In, CompressExclusive, Pending
<1>2. HandlesOK'
  BY HandlesStep DEF QInv
<1> QED
  BY <1>1, <1>2, SubmitRunner, CancelRunner, CallbackRunner, WorkerRunner DEF Next

\* Nothing is locked or revoked at the start.
LEMMA InitAll == Init => RInv
<1> SUFFICES ASSUME Init PROVE RInv
  OBVIOUS
<1>1. RevokedWasFlagged /\ LockedForAReason
  BY DEF Init, RevokedWasFlagged, LockedForAReason, Idle, Screens
<1> QED
  BY <1>1, InitRunner DEF RInv

\* A future is cancelled only after its flag is set, and the flags stay.
LEMMA RevokedStep ==
  ASSUME RInv, Next
  PROVE  RevokedWasFlagged'
<1> USE DEF RInv, QInv, TypeOK, RevokedWasFlagged
<1>0. click # Idle => click[2] \in Op
  BY DEF Idle
<1>1. ASSUME NEW op \in Op, Submit(op) PROVE RevokedWasFlagged'
  BY <1>1 DEF Submit, Idle
<1>2. CASE Store
  BY <1>2 DEF Store, Idle
<1>3. CASE CancelFuture
  BY <1>0, <1>3 DEF CancelFuture, Idle
<1>4. ASSUME NEW s \in Screens, CancelClick(s) PROVE RevokedWasFlagged'
  <2>1. current[s] \in Op
    BY <1>4 DEF CancelClick
  <2> QED
    BY <1>4, <2>1 DEF CancelClick
<1>5. CASE Callback
  BY <1>5, TailOnce DEF Callback
<1>6. CASE Take
  BY <1>6, TailOnce DEF Take
<1>7. ASSUME NEW op \in Op, Begin(op) \/ End(op) \/ Stop(op) \/ Throws(op) PROVE RevokedWasFlagged'
  BY <1>7 DEF Begin, End, Stop, SeesCancel, Throws, Post
<1> QED
  BY <1>1, <1>2, <1>3, <1>4, <1>5, <1>6, <1>7 DEF Next, Worker

\* An operation a tab is locked for either stays one, or its callback unlocks
\* the tab.
LEMMA LockStep ==
  ASSUME RInv, Next, \A op \in Op : phase'[op] = "lost" => cancelled'[op] \/ MayThrow
  PROVE  LockedForAReason'
<1> USE DEF RInv, QInv, TypeOK
<1> DEFINE Reason(op) == Pending(op) \/ (phase[op] = "lost" /\ (cancelled[op] \/ MayThrow))
<1> SUFFICES ASSUME NEW s \in Screens, busy'[s]
             PROVE  \E op \in Op : Screen(TabOf(op)) = s /\ Reason(op)'
  BY DEF LockedForAReason, TabOf
<1>1. CASE \E op \in Op : Submit(op) /\ Screen(TabOf(op)) = s
  BY <1>1 DEF Submit, Pending
<1>2. CASE busy[s] /\ ~Callback
  <2>1. PICK op \in Op : Screen(TabOf(op)) = s /\ Reason(op)
    BY <1>2 DEF LockedForAReason
  <2>2. phase'[op] = "lost" => cancelled'[op] \/ MayThrow
    OBVIOUS
  <2>3. Pending(op)' \/ phase'[op] = "lost"
    <3>1. ASSUME NEW o \in Op, Submit(o) PROVE Pending(op)' \/ phase'[op] = "lost"
      BY <2>1, <3>1 DEF Submit, Pending
    <3>2. CASE Store \/ CancelFuture \/ \E t \in Screens : CancelClick(t)
      BY <2>1, <3>2 DEF Store, CancelFuture, CancelClick, Pending
    <3>3. CASE Take
      BY <2>1, <3>3 DEF Take, Pending
    <3>4. ASSUME NEW o \in Op, Begin(o) \/ End(o) \/ Stop(o) \/ Throws(o) PROVE Pending(op)' \/ phase'[op] = "lost"
      BY <2>1, <3>4 DEF Begin, End, Stop, SeesCancel, Throws, Post, Pending
    <3> QED
      BY <1>2, <3>1, <3>2, <3>3, <3>4 DEF Next, Worker
  <2> QED
    BY <2>1, <2>2, <2>3
<1>3. CASE Callback
  <2>1. busy[s] /\ s # Screen(TabOf(Head(handler)))
    BY <1>3 DEF Callback
  <2>2. PICK op \in Op : Screen(TabOf(op)) = s /\ Reason(op)
    BY <2>1 DEF LockedForAReason
  <2>3. op # Head(handler) /\ phase'[op] = phase[op] /\ cancelled' = cancelled
    BY <1>3, <2>1, <2>2 DEF Callback
  <2> QED
    BY <2>2, <2>3 DEF Pending
<1>4. busy[s] \/ (\E op \in Op : Submit(op) /\ Screen(TabOf(op)) = s)
  BY DEF Next, Submit, Store, CancelFuture, Callback, CancelClick, Worker, Take, Begin, End, Stop, SeesCancel, Throws, Post
<1> QED
  BY <1>1, <1>2, <1>3, <1>4

\* Every step keeps the invariant.
LEMMA RunnerStep == RInv /\ [Next]_vars => RInv'
<1> SUFFICES ASSUME RInv, [Next]_vars PROVE RInv'
  OBVIOUS
<1>1. CASE UNCHANGED vars
  <2>1. QInv'
    BY QueueStep DEF RInv
  <2>2. RevokedWasFlagged' /\ LockedForAReason'
    BY <1>1 DEF vars, RInv, RevokedWasFlagged, LockedForAReason, Pending
  <2> QED
    BY <2>1, <2>2 DEF RInv
<1>2. CASE Next
  <2>1. RevokedWasFlagged'
    BY <1>2, RevokedStep
  <2>2. \A op \in Op : phase'[op] = "lost" => cancelled'[op] \/ MayThrow
    BY <2>1 DEF RevokedWasFlagged
  <2> QED
    BY <1>2, <2>1, <2>2, QueueStep, LockStep DEF RInv
<1> QED
  BY <1>1, <1>2

\* The state keeps its types.
THEOREM TypeCorrect == Spec => []TypeOK
<1>1. RInv => TypeOK
  BY DEF RInv, QInv
<1> QED
  BY <1>1, InitAll, RunnerStep, PTL DEF Spec

\* Two compressions never overlap, and the Compress tab is locked while one
\* is queued, running or waiting to report (setCompressBusy, doCompress).
THEOREM CompressIsExclusive == Spec => []CompressExclusive
<1>1. RInv => CompressExclusive
  BY DEF RInv, QInv
<1> QED
  BY <1>1, InitAll, RunnerStep, PTL DEF Spec

\* A tab stays locked only for an operation that reports, or that was
\* cancelled in the queue or died of an Error (setTestBusy, cancel, run).
THEOREM LockedTabsHaveAReason == Spec => []LockedForAReason
<1>1. RInv => LockedForAReason
  BY DEF RInv
<1> QED
  BY <1>1, InitAll, RunnerStep, PTL DEF Spec

-----------------------------------------------------------------------------
(* Whom a cancel stops.                                                    *)

\* Nobody waits at the start.
LEMMA InitLine == Init => Line
BY DEF Init, Line, Active, Idle, Screens

\* Who is submitted waits behind all others.
LEMMA SubmitLine ==
  ASSUME QInv, Line, NEW op \in Op, Submit(op)
  PROVE  Line'
<1> USE DEF QInv, TypeOK
<1>1. /\ executor \in Seq(Op) /\ executor' = Append(executor, op)
      /\ phase[op] = "new" /\ phase' = [phase EXCEPT ![op] = "queued"]
      /\ current' = current /\ since' = since /\ last' = [last EXCEPT ![op] = current["test"]]
  BY DEF Submit
<1>2. /\ \A i \in 1..Len(executor) : i \in 1..Len(executor') /\ executor'[i] = executor[i]
      /\ Len(executor') \in 1..Len(executor') /\ executor'[Len(executor')] = op
      /\ \A i \in 1..Len(executor) : i < Len(executor')
  BY <1>1
<1>3. \A q \in Op : phase'[q] = "queued" => \E i \in 1..Len(executor') : executor'[i] = q
  BY <1>1, <1>2 DEF Line
<1>4. ASSUME NEW q \in Op, q # op, Active(q)' PROVE Behind(q, op)'
  <2>1. phase'[q] = phase[q] /\ phase'[op] = "queued"
    BY <1>1, <1>4
  <2>2. phase[q] = "queued" => \E i \in 1..Len(executor) : executor[i] = q
    BY DEF Line
  <2> QED
    BY <1>2, <2>1, <2>2 DEF Behind
<1>5. ASSUME NEW q \in Op, NEW x \in since'[q], x # q, Active(q)' PROVE Behind(q, x)'
  <2>1. q # op /\ x \in Op
    BY <1>1, <1>5 DEF Line, HandlesOK
  <2>2. Active(q) /\ phase'[q] = phase[q]
    BY <1>1, <1>5, <2>1 DEF Active
  <2>3. Behind(q, x)
    BY <1>1, <1>5, <2>1, <2>2 DEF Line
  <2>4. phase'[x] = "queued"
    BY <1>1, <2>1, <2>3 DEF Behind
  <2> QED
    BY <1>2, <2>2, <2>3, <2>4 DEF Behind
<1>6. click' = Idle \/ click' = <<"submitted", op>>
  BY DEF Submit
<1>7. ASSUME NEW q \in Op, NEW x \in Op, x # q, Active(q)', click' = <<"submitted", x>> PROVE Behind(q, x)'
  BY <1>4, <1>6, <1>7 DEF Idle
<1>8. /\ current'["test"] = None \/ TabOf(current'["test"]) = "test"
      /\ \A q \in Op : last'[q] = None \/ TabOf(last'[q]) = "test"
      /\ \A q \in Op : \A x \in since'[q] : TabOf(x) = "test"
      /\ \A q \in Op : phase'[q] = "new" => since'[q] = {}
  BY <1>1 DEF Line, HandlesOK, TabOf
<1> QED
  BY <1>3, <1>5, <1>7, <1>8 DEF Line, TabOf

\* Who is stored while others are before it waits behind them.
LEMMA StoreLine ==
  ASSUME QInv, Line, Store
  PROVE  Line'
<1> USE DEF QInv, TypeOK
<1>1. PICK x \in Op : click = <<"submitted", x>> /\ x = click[2]
  BY DEF Store, Idle
<1>2. /\ UNCHANGED <<phase, executor, last>> /\ click' = Idle
      /\ current' = [current EXCEPT ![TabOf(x)] = x]
      /\ since' = [op \in Op |-> IF TabOf(x) = "test" /\ phase[op] \in {"queued", "taken", "working"}
                                THEN since[op] \cup {x} ELSE since[op]]
  BY <1>1 DEF Store
<1>3. ASSUME NEW q \in Op, NEW y \in since'[q], y # q, Active(q)' PROVE Behind(q, y)'
  <2>1. Active(q) /\ (y \in since[q] \/ y = x) /\ y \in Op
    BY <1>2, <1>3 DEF Active, HandlesOK
  <2>2. Behind(q, y)
    BY <1>1, <1>3, <2>1 DEF Line
  <2> QED
    BY <1>2, <2>2 DEF Behind
<1>4. /\ current'["test"] = None \/ TabOf(current'["test"]) = "test"
      /\ \A q \in Op : last'[q] = None \/ TabOf(last'[q]) = "test"
  BY <1>2 DEF Line, TabOf, Screens
<1>5. /\ \A q \in Op : \A y \in since'[q] : TabOf(y) = "test"
      /\ \A q \in Op : phase'[q] = "new" => since'[q] = {}
  BY <1>2 DEF Line, TabOf
<1>6. \A q \in Op : phase'[q] = "queued" => \E i \in 1..Len(executor') : executor'[i] = q
  BY <1>2 DEF Line
<1>7. \A y : click' # <<"submitted", y>>
  BY <1>2 DEF Idle
<1> QED
  BY <1>3, <1>4, <1>5, <1>6, <1>7 DEF Line

\* The worker takes the first, who waits behind nobody.
LEMMA TakeLine ==
  ASSUME QInv, Line, Take
  PROVE  Line'
<1> USE DEF QInv, TypeOK
<1>1. PICK x \in Op : x = Head(executor)
  BY TailOnce DEF Take
<1>2. /\ executor \in Seq(Op) /\ executor # <<>> /\ Once(executor) /\ executor' = Tail(executor)
      /\ UNCHANGED <<click, current, last, since>>
  BY DEF Take, look
<1>3. phase'[x] \in {"taken", "lost"} /\ \A q \in Op : q # x => phase'[q] = phase[q]
  BY <1>1 DEF Take
<1>4. /\ 1 \in 1..Len(executor) /\ executor[1] = x
      /\ \A i \in 1..Len(executor) : executor[i] = x => i = 1
  BY <1>1, <1>2 DEF Once
<1>5. phase[x] = "queued"
  BY <1>4 DEF In
<1>6. \A i \in 1..Len(executor) : i # 1 => i - 1 \in 1..Len(executor') /\ executor'[i - 1] = executor[i]
  BY <1>2
<1>7. ASSUME NEW q \in Op, NEW y \in Op, Active(q)', Behind(q, y) PROVE Behind(q, y)'
  <2>1. y # x
    <3>1. SUFFICES ASSUME y = x PROVE FALSE
      OBVIOUS
    <3>2. phase[q] \notin {"taken", "working"}
      BY DEF Take, Free
    <3>3. phase[q] = "queued"
      BY <1>3, <1>5, <1>7, <3>2 DEF Active
    <3>4. PICK i \in 1..Len(executor) : \E j \in 1..Len(executor) : i < j /\ executor[j] = x
      BY <1>7, <3>1, <3>3 DEF Behind
    <3> QED
      BY <1>4, <3>4
  <2>2. phase'[y] = "queued"
    BY <1>3, <1>7, <2>1 DEF Behind
  <2>3. CASE q = x
    BY <1>3, <2>2, <2>3 DEF Behind
  <2>4. CASE q # x
    <3>1. phase'[q] = phase[q]
      BY <1>3, <2>4
    <3>2. CASE phase[q] # "queued"
      BY <2>2, <3>1, <3>2 DEF Behind
    <3>3. CASE phase[q] = "queued"
      <4>1. PICK i \in 1..Len(executor) : executor[i] = q /\ \E j \in 1..Len(executor) : i < j /\ executor[j] = y
        BY <1>7, <3>3 DEF Behind
      <4>2. PICK j \in 1..Len(executor) : i < j /\ executor[j] = y
        BY <4>1
      <4>3. i # 1 /\ j # 1
        BY <1>4, <2>4, <4>1, <4>2
      <4>4. i - 1 \in 1..Len(executor') /\ j - 1 \in 1..Len(executor') /\ i - 1 < j - 1
            /\ executor'[i - 1] = q /\ executor'[j - 1] = y
        BY <1>2, <1>6, <4>1, <4>2, <4>3
      <4> QED
        BY <2>2, <4>4 DEF Behind
    <3> QED
      BY <3>2, <3>3
  <2> QED
    BY <2>3, <2>4
<1>8. \A q \in Op : Active(q)' => Active(q)
  BY <1>3, <1>5 DEF Active
<1>9. \A q \in Op : phase'[q] = "queued" => \E i \in 1..Len(executor') : executor'[i] = q
  <2> SUFFICES ASSUME NEW q \in Op, phase'[q] = "queued"
               PROVE  \E i \in 1..Len(executor') : executor'[i] = q
    OBVIOUS
  <2>1. q # x /\ phase[q] = "queued"
    BY <1>3
  <2>2. PICK i \in 1..Len(executor) : executor[i] = q
    BY <2>1 DEF Line
  <2>3. i # 1
    BY <1>4, <2>1, <2>2
  <2> QED
    BY <1>6, <2>2, <2>3
<1>10. \A q \in Op : phase'[q] = "new" => since'[q] = {}
  BY <1>2, <1>3, <1>5 DEF Line
<1>11. \A q \in Op, y \in Op :
         Active(q)' /\ q # y /\ (y \in since'[q] \/ click' = <<"submitted", y>>) => Behind(q, y)'
  BY <1>2, <1>7, <1>8 DEF Line
<1>12. since \in [Op -> SUBSET Op]
  BY DEF HandlesOK
<1> QED
  BY <1>2, <1>9, <1>10, <1>11, <1>12 DEF Line, TabOf

\* Who works or has worked is behind nobody either.
LEMMA WorkLine ==
  ASSUME QInv, Line, NEW op \in Op, Begin(op) \/ End(op) \/ Stop(op) \/ Throws(op)
  PROVE  Line'
<1> USE DEF QInv, TypeOK
<1>1. /\ UNCHANGED <<executor, click, current>>
      /\ phase[op] \in {"taken", "working"} /\ phase'[op] \in {"working", "posted", "lost"}
      /\ \A q \in Op : q # op => phase'[q] = phase[q]
  BY DEF Begin, End, Stop, SeesCancel, Throws, Post
<1>2. /\ \A q \in Op : since'[q] = since[q] \/ since'[q] = {}
      /\ \A q \in Op : last'[q] = last[q] \/ last'[q] = None
  BY DEF Begin, End, Stop, Throws, Post, Forget, look, HandlesOK
<1>3. \A q \in Op : Active(q)' => Active(q)
  BY <1>1 DEF Active
<1>4. ASSUME NEW q \in Op, NEW y \in Op, Active(q)', Behind(q, y) PROVE Behind(q, y)'
  BY <1>1, <1>4 DEF Behind
<1>5. \A q \in Op, y \in Op :
        Active(q)' /\ q # y /\ (y \in since'[q] \/ click' = <<"submitted", y>>) => Behind(q, y)'
  BY <1>1, <1>2, <1>3, <1>4 DEF Line
<1>6. \A q \in Op : phase'[q] = "queued" => \E i \in 1..Len(executor') : executor'[i] = q
  BY <1>1 DEF Line
<1>7. \A q \in Op : phase'[q] = "new" => since'[q] = {}
  BY <1>1, <1>2 DEF Line
<1>8. /\ current'["test"] # None => TabOf(current'["test"]) = "test"
      /\ \A q \in Op : last'[q] # None => TabOf(last'[q]) = "test"
  <2>1. current["test"] # None => TabOf(current["test"]) = "test"
    BY DEF Line
  <2>2. \A q \in Op : last[q] # None => TabOf(last[q]) = "test"
    BY DEF Line
  <2>3. \A q \in Op : last'[q] # None => TabOf(last'[q]) = "test"
    BY <1>2, <2>2 DEF TabOf
  <2> QED
    BY <1>1, <2>1, <2>3 DEF TabOf
<1>9. \A q \in Op : \A y \in since'[q] : TabOf(y) = "test"
  BY <1>2 DEF Line, TabOf
<1>10. \A q \in Op : since'[q] \subseteq Op
  BY <1>2 DEF HandlesOK
<1> QED
  BY <1>5, <1>6, <1>7, <1>8, <1>9, <1>10 DEF Line, TabOf

LEMMA LineStep ==
  ASSUME QInv, Line, [Next]_vars
  PROVE  Line'
<1>1. CASE UNCHANGED vars
  BY <1>1 DEF vars, look, Line, Active, Behind, TabOf
<1>2. CASE CancelFuture \/ Callback \/ \E s \in Screens : CancelClick(s)
  <2> USE DEF QInv, TypeOK
  <2>1. UNCHANGED <<executor, current, last, since>>
    BY <1>2 DEF CancelFuture, Callback, CancelClick, look
  <2>2. \A y \in Op : click' # <<"submitted", y>> \/ click' = click
    BY <1>2 DEF CancelFuture, Callback, CancelClick, Idle
  <2>3. \A q \in Op : phase'[q] = phase[q] \/ (phase[q] = "posted" /\ phase'[q] = "done")
    BY <1>2, TailOnce DEF CancelFuture, Callback, CancelClick, In
  <2>4. \A q, y \in Op : Active(q)' /\ Behind(q, y) => Active(q) /\ Behind(q, y)'
    BY <2>1, <2>3 DEF Active, Behind
  <2>5. \A q \in Op : Active(q)' => Active(q)
    BY <2>3 DEF Active
  <2>6. since \in [Op -> SUBSET Op]
    BY DEF HandlesOK
  <2>7. \A q, y \in Op :
          Active(q)' /\ q # y /\ (y \in since'[q] \/ click' = <<"submitted", y>>) => Behind(q, y)'
    BY <2>1, <2>2, <2>4, <2>5 DEF Line
  <2>8. \A q \in Op : /\ phase'[q] = "queued" => \E i \in 1..Len(executor') : executor'[i] = q
                      /\ phase'[q] = "new" => since'[q] = {}
    BY <2>1, <2>3 DEF Line
  <2> QED
    BY <2>1, <2>6, <2>7, <2>8 DEF Line, TabOf
<1> QED
  BY <1>1, <1>2, SubmitLine, StoreLine, TakeLine, WorkLine DEF Next, Worker

\* A test that is not cancelled itself can only stop for the cancel of a
\* test that waits behind it or of the one before it, a compression not at
\* all, whatever is submitted and cancelled, and whichever of the stored
\* handles the worker sees (progressBridge, startTestOp, runCompressJob).
THEOREM CancelsStopNeighbours == Spec => []OnlyNeighboursStop
<1>1. RInv /\ Line => OnlyNeighboursStop
  <2> SUFFICES ASSUME RInv, Line, NEW op \in Op, SeesCancel(op), ~cancelled[op]
               PROVE  /\ TabOf(op) = "test"
                      /\ \E q \in Op : TabOf(q) = "test" /\ cancelled[q]
                                      /\ (q = last[op] \/ phase[q] = "queued")
    BY DEF OnlyNeighboursStop
  <2> USE DEF RInv, QInv, TypeOK, HandlesOK
  <2>1. PICK q \in Looks(op) : cancelled[q]
    BY DEF SeesCancel
  <2>2. TabOf(op) = "test" /\ (q \in since[op] \/ (q = last[op] /\ q # None))
    BY <2>1, OpsOK DEF Looks, TabOf
  <2>3. CASE q = last[op] /\ q # None
    BY <2>1, <2>2, <2>3 DEF Line
  <2>4. CASE q \in since[op]
    <3>1. q # op /\ q \in Op /\ TabOf(q) = "test"
      BY <2>1, <2>4 DEF Line
    <3>2. Behind(op, q)
      BY <2>4, <3>1 DEF Line, Active, SeesCancel
    <3> QED
      BY <2>1, <2>2, <3>1, <3>2 DEF Behind
  <2> QED
    BY <2>2, <2>3, <2>4
<1>2. Init => RInv /\ Line
  BY InitAll, InitLine
<1>3. RInv /\ Line /\ [Next]_vars => (RInv /\ Line)'
  BY RunnerStep, LineStep DEF RInv
<1> QED
  BY <1>1, <1>2, <1>3, PTL DEF Spec
=============================================================================
