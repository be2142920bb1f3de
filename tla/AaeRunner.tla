------------------------------ MODULE AaeRunner ------------------------------
(***************************************************************************)
(* The operation runner (AaeRunner.java) and what the two tabs of the      *)
(* application keep about their operations (MainActivity.java).            *)
(*                                                                         *)
(* The UI thread submits operations to an executor with one worker thread, *)
(* may cancel them, and runs their "done" callbacks from its own queue.    *)
(* Submitting and cancelling are several writes each, which the worker can *)
(* see half done; callbacks and clicks run one after the other.            *)
(***************************************************************************)
EXTENDS Naturals, Sequences, FiniteSets

CONSTANTS
  Op,         \* the operations submitted in a behaviour
  Tab,        \* where an operation comes from, see TabOf
  None,       \* no operation
  MayThrow    \* may a job end with an Error (not an Exception)?

\* "test": a button of the test tab.  "pick": the copy of a picked archive,
\* which shares that tab's busy state but is not its current operation.
\* "compress": the Compress button.
TabOf(op) == Tab[op]
Screen(tab) == IF tab = "compress" THEN "compress" ELSE "test"

ASSUME OpsOK ==
  /\ Tab \in [Op -> {"test", "pick", "compress"}]
  /\ None \notin Op
  /\ MayThrow \in BOOLEAN

VARIABLES
  phase,      \* "new", "queued", "taken", "working", "posted", "done", "lost"
  executor,   \* the executor's queue
  cancelled,  \* OpHandle.cancelled
  revoked,    \* the future was cancelled before the worker took the task
  current,    \* currentOp and compressOp
  busy,       \* the tab shows a running operation and enables Cancel
  handler,    \* done callbacks posted to the UI thread
  click,      \* what the UI thread is in the middle of, <<step, op>>
  last,       \* currentOp as it was when the operation was submitted
  since       \* the handles stored in it since then; both until its job ends

look == <<last, since>>
vars == <<phase, executor, cancelled, revoked, current, busy, handler, click, look>>

Screens == {"test", "compress"}
Idle == <<"idle", None>>
Pending(op) == phase[op] \in {"queued", "taken", "working", "posted"}

\* The handles that were stored.
HandlesOK == last \in [Op -> Op \cup {None}] /\ since \in [Op -> SUBSET Op]

TypeOK ==
  /\ phase \in [Op -> {"new", "queued", "taken", "working", "posted", "done", "lost"}]
  /\ executor \in Seq(Op)
  /\ cancelled \in [Op -> BOOLEAN]
  /\ revoked \in [Op -> BOOLEAN]
  /\ current \in [Screens -> Op \cup {None}]
  /\ busy \in [Screens -> BOOLEAN]
  /\ handler \in Seq(Op)
  /\ click \in {Idle} \cup ({"submitted", "flagged"} \X Op)
  /\ HandlesOK

Init ==
  /\ phase = [op \in Op |-> "new"]
  /\ executor = <<>>
  /\ cancelled = [op \in Op |-> FALSE]
  /\ revoked = [op \in Op |-> FALSE]
  /\ current = [s \in Screens |-> None]
  /\ busy = [s \in Screens |-> FALSE]
  /\ handler = <<>>
  /\ click = Idle
  /\ last = [op \in Op |-> None]
  /\ since = [op \in Op |-> {}]

-----------------------------------------------------------------------------
(* The UI thread.                                                          *)

\* Slip: Compress left enabled.
EnabledAlways(op) == op \in Op

\* Only Compress is disabled while its tab is busy; the buttons of the test
\* tab, and the picker, can be used at any time.
Enabled(op) == TabOf(op) = "compress" => ~busy["compress"]

\* set...Busy(true) and EXEC.submit: the worker may take the task before the
\* UI thread has stored the handle.
Submit(op) ==
  /\ click = Idle
  /\ phase[op] = "new"
  /\ Enabled(op)
  /\ phase' = [phase EXCEPT ![op] = "queued"]
  /\ executor' = Append(executor, op)
  /\ busy' = [busy EXCEPT ![Screen(TabOf(op))] = TRUE]
  /\ click' = IF TabOf(op) = "pick" THEN Idle ELSE <<"submitted", op>>
  /\ last' = [last EXCEPT ![op] = current["test"]]
  /\ UNCHANGED <<cancelled, revoked, current, handler, since>>

\* currentOp = AaeRunner.submit(...): the handle is stored.
Store ==
  /\ click[1] = "submitted"
  /\ current' = [current EXCEPT ![TabOf(click[2])] = click[2]]
  /\ since' = [op \in Op |-> IF TabOf(click[2]) = "test" /\ phase[op] \in {"queued", "taken", "working"}
                            THEN since[op] \cup {click[2]} ELSE since[op]]
  /\ click' = Idle
  /\ UNCHANGED <<phase, executor, cancelled, revoked, busy, handler, last>>

\* Slip: a pick makes the tab busy when there is no current operation.
CancelClickUnchecked(s) ==
  /\ click = Idle
  /\ busy[s]
  /\ cancelled' = [cancelled EXCEPT ![current[s]] = TRUE]
  /\ click' = <<"flagged", current[s]>>
  /\ UNCHANGED <<phase, executor, revoked, current, busy, handler, look>>

\* Cancel is enabled while the tab is busy: first the flag ...
CancelClick(s) ==
  /\ click = Idle
  /\ busy[s]
  /\ current[s] # None
  /\ cancelled' = [cancelled EXCEPT ![current[s]] = TRUE]
  /\ click' = <<"flagged", current[s]>>
  /\ UNCHANGED <<phase, executor, revoked, current, busy, handler, look>>

\* ... then Future.cancel(true), which a task that has not been taken never
\* survives and a running one sees as an interrupt.
CancelFuture ==
  /\ click[1] = "flagged"
  /\ revoked' = [revoked EXCEPT ![click[2]] = @ \/ phase[click[2]] = "queued"]
  /\ click' = Idle
  /\ UNCHANGED <<phase, executor, cancelled, current, busy, handler, look>>

\* Slip: the busy state ended by onDone only, and not for a cancelled operation.
CallbackOnSuccess ==
  /\ click = Idle
  /\ handler # <<>>
  /\ phase' = [phase EXCEPT ![Head(handler)] = "done"]
  /\ busy' = [busy EXCEPT ![Screen(TabOf(Head(handler)))] = @ /\ cancelled[Head(handler)]]
  /\ handler' = Tail(handler)
  /\ UNCHANGED <<executor, cancelled, revoked, current, click, look>>

\* The callback of an operation: onDone or onFail, both end the busy state.
Callback ==
  /\ click = Idle
  /\ handler # <<>>
  /\ phase' = [phase EXCEPT ![Head(handler)] = "done"]
  /\ busy' = [busy EXCEPT ![Screen(TabOf(Head(handler)))] = FALSE]
  /\ handler' = Tail(handler)
  /\ UNCHANGED <<executor, cancelled, revoked, current, click, look>>

-----------------------------------------------------------------------------
(* The worker thread.                                                      *)

Free == \A op \in Op : phase[op] \notin {"taken", "working"}

\* Slip: the worker stops at the first revoked task.
TakeStuck ==
  /\ Free
  /\ executor # <<>>
  /\ ~revoked[Head(executor)]
  /\ executor' = Tail(executor)
  /\ phase' = [phase EXCEPT ![Head(executor)] = "taken"]
  /\ UNCHANGED <<cancelled, revoked, current, busy, handler, click, look>>

\* Slip: an executor with more than one thread.
TakeBesides ==
  /\ executor # <<>>
  /\ executor' = Tail(executor)
  /\ phase' = [phase EXCEPT ![Head(executor)] = IF revoked[Head(executor)] THEN "lost" ELSE "taken"]
  /\ UNCHANGED <<cancelled, revoked, current, busy, handler, click, look>>

\* FutureTask.run returns at once for a cancelled future.
Take ==
  /\ Free
  /\ executor # <<>>
  /\ executor' = Tail(executor)
  /\ phase' = [phase EXCEPT ![Head(executor)] = IF revoked[Head(executor)] THEN "lost" ELSE "taken"]
  /\ UNCHANGED <<cancelled, revoked, current, busy, handler, click, look>>

Forget(op) ==
  /\ last' = [last EXCEPT ![op] = None]
  /\ since' = [since EXCEPT ![op] = {}]

Post(op) ==
  /\ phase' = [phase EXCEPT ![op] = "posted"]
  /\ handler' = Append(handler, op)
  /\ Forget(op)
  /\ UNCHANGED <<executor, cancelled, revoked, current, busy, click>>

\* The job runs unless the operation was cancelled meanwhile.
Begin(op) ==
  /\ phase[op] = "taken"
  /\ IF cancelled[op]
     THEN Post(op)
     ELSE /\ phase' = [phase EXCEPT ![op] = "working"]
          /\ UNCHANGED <<executor, cancelled, revoked, current, busy, handler, click, look>>

\* The job returns or throws an Exception.
End(op) == phase[op] = "working" /\ Post(op)

\* The handles that a job may look at for a cancel: a compression at its own,
\* a test at currentOp (progressBridge).  That field is not volatile: the
\* worker may see any handle it held since the operation was submitted.
Looks(op) ==
  CASE TabOf(op) = "compress" -> {op}
    [] TabOf(op) = "test"     -> since[op] \cup ({last[op]} \ {None})
    [] TabOf(op) = "pick"     -> {}

\* The job sees a cancel and stops.
SeesCancel(op) == phase[op] = "working" /\ \E q \in Looks(op) : cancelled[q]
Stop(op) == SeesCancel(op) /\ Post(op)

\* The job throws an Error: run() does not catch it, the future keeps it.
Throws(op) ==
  /\ MayThrow
  /\ TabOf(op) # "pick"      \* its callback is posted in a finally block
  /\ phase[op] = "working"
  /\ phase' = [phase EXCEPT ![op] = "lost"]
  /\ Forget(op)
  /\ UNCHANGED <<executor, cancelled, revoked, current, busy, handler, click>>

Worker == Take \/ \E op \in Op : Begin(op) \/ End(op) \/ Stop(op) \/ Throws(op)

Next ==
  \/ Store \/ CancelFuture \/ Callback
  \/ Worker
  \/ \E op \in Op : Submit(op)
  \/ \E s \in Screens : CancelClick(s)

\* Both threads run on, and every job ends; users owe nothing.  Clicks and
\* callbacks share the one queue of the UI thread, so that clicks cannot hold
\* a callback back for ever: hence strong fairness of Callback.
Spec ==
  /\ Init /\ [][Next]_vars
  /\ WF_vars(Store \/ CancelFuture) /\ SF_vars(Callback) /\ WF_vars(Worker)

-----------------------------------------------------------------------------
(* Properties.                                                             *)

\* The Compress tab is busy from the click to the callback, so that no two
\* compressions share the picked inputs (setCompressBusy).
CompressExclusive ==
  /\ \A op, q \in Op : TabOf(op) = "compress" /\ TabOf(q) = "compress"
                       /\ Pending(op) /\ Pending(q) => op = q
  /\ \A op \in Op : TabOf(op) = "compress" /\ Pending(op) => busy["compress"]

\* A tab stays locked only for an operation of its own that will report, or
\* that was taken out of the queue by a cancel or died of an Error; those two
\* never report, and the tab waits for its next operation (run, cancel).
LockedForAReason ==
  \A s \in Screens : busy[s] =>
    \E op \in Op : /\ Screen(TabOf(op)) = s
                   /\ \/ Pending(op)
                      \/ phase[op] = "lost" /\ (cancelled[op] \/ MayThrow)

\* A compression stops only for its own cancel.  A test that was not
\* cancelled stops for the cancel of a neighbour: of a test that waits behind
\* it, whose handle has taken the place of its own, or of the one before it,
\* whose handle was still stored when it was submitted (progressBridge,
\* startTestOp).
OnlyNeighboursStop ==
  \A op \in Op : SeesCancel(op) =>
    \/ cancelled[op]
    \/ /\ TabOf(op) = "test"
       /\ \E q \in Op : TabOf(q) = "test" /\ cancelled[q] /\ (q = last[op] \/ phase[q] = "queued")

\* An operation nobody cancels reports unless its own job dies, in spite of
\* what is cancelled or dies before it in the queue.
OthersReport ==
  \A op \in Op : phase[op] = "queued" ~>
                  phase[op] = "done" \/ cancelled[op] \/ (MayThrow /\ phase[op] = "lost")

\* "done always runs on the UI thread" (submit).
DoneRuns == \A op \in Op : phase[op] = "queued" ~> phase[op] = "done"

-----------------------------------------------------------------------------
(* The inductive invariants.  QInv is behind CompressExclusive: each queue  *)
(* holds, once each, operations that are still in the phase the queue is   *)
(* for.  RInv adds what LockedForAReason needs: only an operation whose    *)
(* cancel is flagged is revoked.                                           *)

Once(q) == \A i, j \in 1..Len(q) : q[i] = q[j] => i = j
In(q, ph) == \A i \in 1..Len(q) : phase[q[i]] = ph

QInv ==
  /\ TypeOK
  /\ Once(executor) /\ In(executor, "queued")
  /\ Once(handler) /\ In(handler, "posted")
  /\ CompressExclusive

RevokedWasFlagged ==
  /\ click[1] = "flagged" => cancelled[click[2]]
  /\ \A op \in Op : /\ revoked[op] => cancelled[op]
                    /\ phase[op] = "lost" => cancelled[op] \/ MayThrow

RInv == QInv /\ RevokedWasFlagged /\ LockedForAReason

\* Line is behind OnlyNeighboursStop: a handle that was stored since an
\* operation was submitted is that of one that waits behind it.
Active(op) == phase[op] \in {"queued", "taken", "working"}

Behind(op, q) ==
  /\ phase[q] = "queued"
  /\ phase[op] = "queued" =>
       \E i, j \in 1..Len(executor) : i < j /\ executor[i] = op /\ executor[j] = q

Line ==
  /\ \A op \in Op : phase[op] = "queued" => \E i \in 1..Len(executor) : executor[i] = op
  /\ \A op, q \in Op :
       Active(op) /\ op # q /\ (q \in since[op] \/ click = <<"submitted", q>>) => Behind(op, q)
  /\ current["test"] # None => TabOf(current["test"]) = "test"
  /\ \A op \in Op : /\ last[op] # None => TabOf(last[op]) = "test"
                    /\ \A q \in since[op] : TabOf(q) = "test"
                    /\ phase[op] = "new" => since[op] = {}
=============================================================================
