--------------------------- MODULE DeliveryProofs ---------------------------
(***************************************************************************)
(* What Delivery guarantees for every set of tasks, connections and call   *)
(* slots and for any number of requests and faults: that its state keeps   *)
(* its shape, that done work is not redone, that a multicast is claimed    *)
(* and, on a host without multicasts, that no wakeup is lost.              *)
(***************************************************************************)
EXTENDS Delivery, WellFoundedInduction, TLAPS

(***************************************************************************)
(* TypeOK is not inductive by itself: that Issue sends the id of a task    *)
(* rests on the agent having a task whenever it is in a phase, and that an *)
(* answer finds a phase which expects it on which calls are awaited when.  *)
(***************************************************************************)
LinkShape == link # "off" <=> conn # None

RunShape == phase # "none" <=> task # NoTask

AwaitShape ==
    await # None => /\ phase \in {"prepare", "finish", "fail", "leaving"}
                    /\ calls[await] # FreeCall
                    /\ calls[await].kind = CallOf(phase)
                    /\ calls[await].t = task

MgrShape == mgr.pc # "idle" => mgr.t \in Tasks

DbInv == DbType /\ MgrShape
LinkInv == LinkType /\ LinkShape
RunInv == RunType /\ RunShape
CallInv == CallType /\ AwaitShape

Shape == /\ DbInv /\ StreamType /\ WireType /\ LinkInv
         /\ RunInv /\ CallInv /\ BudgetType

-----------------------------------------------------------------------------
(* The operators on rows.                                                  *)

\* Every statement of the task repository leaves a row in every place.
LEMMA RowsType ==
    ASSUME NEW r \in Rows, NEW t \in Tasks
    PROVE  /\ Create(r, t) \in Rows /\ Start(r, t) \in Rows
           /\ MarkFinished(r, t) \in Rows /\ MarkFailed(r, t) \in Rows
           /\ Cancel(r, t) \in Rows /\ Retry(r, t) \in Rows
           /\ FailOrphans(r) \in Rows
  BY DEF Rows, RowStates, Create, Start, MarkFinished, MarkFailed, Cancel,
         Retry, FailOrphans, IfActive

\* get_next finds an active row of the host or nothing.
LEMMA GetNextType ==
    ASSUME NEW r \in Rows
    PROVE  /\ GetNext(r) \in TaskOrNone
           /\ GetNext(r) # NoTask => GetNext(r) \in Tasks /\ r[GetNext(r)] \in Active
  BY NoTaskAssumption DEF GetNext, IsNext, TaskOrNone

\* current_task is one of the host's tasks or nothing.
LEMMA CurrentTaskType ==
    ASSUME NEW r \in Rows
    PROVE  /\ CurrentTask(r) \in TaskOrNone
           /\ CurrentTask(r) # NoTask => CurrentTask(r) \in Tasks
  BY GetNextType, NoTaskAssumption DEF CurrentTask, TaskOrNone

-----------------------------------------------------------------------------

(* The invariant, part by part.                                            *)

\* What a step leaves alone keeps its shape.
LEMMA Frames ==
    /\ DbInv /\ UNCHANGED dbVars => DbInv'
    /\ StreamType /\ UNCHANGED streamVars => StreamType'
    /\ WireType /\ UNCHANGED wireVars => WireType'
    /\ LinkInv /\ UNCHANGED linkVars => LinkInv'
    /\ RunInv /\ UNCHANGED runVars => RunInv'
    /\ CallInv /\ UNCHANGED <<runVars, callVars>> => CallInv'
    /\ BudgetType /\ UNCHANGED budget => BudgetType'
  <1>1. DbInv /\ UNCHANGED dbVars => DbInv'
    BY DEF DbInv, DbType, MgrShape, dbVars
  <1>2. StreamType /\ UNCHANGED streamVars => StreamType'
    BY DEF StreamType, streamVars
  <1>3. WireType /\ UNCHANGED wireVars => WireType'
    BY DEF WireType, wireVars
  <1>4. LinkInv /\ UNCHANGED linkVars => LinkInv'
    BY DEF LinkInv, LinkType, LinkShape, linkVars
  <1>5. RunInv /\ UNCHANGED runVars => RunInv'
    BY DEF RunInv, RunType, RunShape, runVars
  <1>6. CallInv /\ UNCHANGED <<runVars, callVars>> => CallInv'
    BY DEF CallInv, CallType, AwaitShape, runVars, callVars, CallOf
  <1>7. BudgetType /\ UNCHANGED budget => BudgetType'
    BY DEF BudgetType, budget
  <1> QED
    BY <1>1, <1>2, <1>3, <1>4, <1>5, <1>6, <1>7

\* Both budgets count.
LEMMA Budgets == /\ BudgetType /\ Fault => BudgetType'
                 /\ BudgetType /\ UiRequest => BudgetType'
  BY DEF BudgetType, Fault, UiRequest

LEMMA InitShape == Init => Shape
  <1> SUFFICES ASSUME Init PROVE Shape
    OBVIOUS
  <1>1. DbInv
    BY DEF Init, DbInv, DbType, MgrShape, Rows, RowStates, MgrIdle, MgrStates,
           TaskOrNone
  <1>2. StreamType
    BY DEF Init, StreamType, StreamStates, TaskOrNone
  <1>3. WireType
    BY DEF Init, WireType
  <1>4. LinkInv
    BY DEF Init, LinkInv, LinkType, LinkShape
  <1>5. RunInv
    BY DEF Init, RunInv, RunType, RunShape, TaskOrNone, Phases
  <1>6. CallInv
    BY DEF Init, CallInv, CallType, AwaitShape, CallRecords
  <1>7. BudgetType
    BY DEF Init, BudgetType
  <1> QED
    BY <1>1, <1>2, <1>3, <1>4, <1>5, <1>6, <1>7 DEF Shape

LEMMA UiShape == Shape /\ (UiNext \/ Dispatch) => Shape'
  <1> SUFFICES ASSUME Shape, UiNext \/ Dispatch PROVE Shape'
    OBVIOUS
  <1> USE DEF Shape
  <1>1. CASE \E t \in Tasks : UiCreate(t)
    <2> PICK t \in Tasks : UiCreate(t)
      BY <1>1
    <2>1. DbInv'
      BY RowsType DEF UiCreate, DbInv, DbType, MgrShape
    <2> QED
      BY <2>1, Frames, Budgets DEF UiCreate, agentVars
  <1>2. CASE \E op \in UiOps, t \in Tasks : UiCheck(op, t)
    <2> PICK op \in UiOps, t \in Tasks : UiCheck(op, t)
      BY <1>2
    <2>1. DbInv'
      BY DEF UiCheck, DbInv, DbType, MgrShape
    <2> QED
      BY <2>1, Frames, Budgets DEF UiCheck, agentVars
  <1>3. CASE \E op \in UiOps, t \in Tasks : UiWrite(op, t)
    <2> PICK op \in UiOps, t \in Tasks : UiWrite(op, t)
      BY <1>3
    <2>1. UiEffect(op, t) \in Rows
      BY RowsType DEF UiEffect, UiOps, DbInv, DbType
    <2>2. DbInv'
      BY <2>1 DEF UiWrite, DbInv, DbType, MgrShape
    <2> QED
      BY <2>2, Frames DEF UiWrite, agentVars
  <1>4. CASE Dispatch
    <2>1. DbInv'
      BY <1>4 DEF Dispatch, DbInv, DbType, MgrShape
    <2>2. StreamType'
      BY <1>4 DEF Dispatch, StreamType, Dispatched
    <2> QED
      BY <1>4, <2>1, <2>2, Frames DEF Dispatch, agentVars
  <1> QED
    BY <1>1, <1>2, <1>3, <1>4 DEF UiNext

LEMMA MgrShapeKept == Shape /\ MgrNext => Shape'
  <1> SUFFICES ASSUME Shape, MgrNext PROVE Shape'
    OBVIOUS
  <1> USE DEF Shape
  <1>1. CASE \E t \in Tasks : MgrTakes(t)
    <2>1. DbInv'
      BY <1>1 DEF MgrTakes, DbInv, DbType, MgrShape, MgrStates, TaskOrNone
    <2> QED
      BY <1>1, <2>1, Frames DEF MgrTakes, agentVars
  <1>2. CASE MgrClaims
    <2>1. DbInv'
      BY <1>2 DEF MgrClaims, DbInv, DbType, MgrShape, MgrStates
    <2> QED
      BY <1>2, <2>1, Frames DEF MgrClaims, agentVars
  <1>3. CASE MgrWrites
    <2>1. DbInv'
      BY <1>3, RowsType DEF MgrWrites, DbInv, DbType, MgrShape, MgrStates
    <2> QED
      BY <1>3, <2>1, Frames DEF MgrWrites, agentVars
  <1>4. CASE MgrAnnounces
    <2>1. DbInv'
      BY <1>4 DEF MgrAnnounces, DbInv, DbType, MgrShape, MgrStates
    <2>2. StreamType'
      BY <1>4 DEF MgrAnnounces, StreamType, Dispatched
    <2> QED
      BY <1>4, <2>1, <2>2, Frames DEF MgrAnnounces, agentVars
  <1>5. CASE MgrEnds
    <2>1. DbInv'
      BY <1>5 DEF MgrEnds, DbInv, DbType, MgrShape, MgrStates
    <2> QED
      BY <1>5, <2>1, Frames DEF MgrEnds, agentVars
  <1>6. CASE MgrSettles
    <2>1. mgr' \in {MgrIdle, [mgr EXCEPT !.pc = "failing"],
                    [mgr EXCEPT !.pc = "dropping"]}
      BY <1>6 DEF MgrSettles
    <2>2. DbInv'
      BY <1>6, <2>1 DEF MgrSettles, DbInv, DbType, MgrShape, MgrStates,
                        MgrIdle, TaskOrNone
    <2> QED
      BY <1>6, <2>2, Frames DEF MgrSettles, agentVars
  <1>7. CASE MgrFails
    <2>1. DbInv'
      BY <1>7, RowsType DEF MgrFails, DbInv, DbType, MgrShape, MgrStates,
                            MgrIdle, TaskOrNone
    <2> QED
      BY <1>7, <2>1, Frames DEF MgrFails, agentVars
  <1> QED
    BY <1>1, <1>2, <1>3, <1>4, <1>5, <1>6, <1>7 DEF MgrNext

\* StreamEnds is part of two actions.
LEMMA StreamEndsShape ==
    ASSUME Shape, NEW c \in Conns, StreamEnds(c), BudgetType'
    PROVE  Shape'
  <1> USE DEF Shape
  <1>1. StreamType'
    BY DEF StreamEnds, StreamType, StreamStates, TaskOrNone, Cleanup
  <1> QED
    BY <1>1, Frames DEF StreamEnds, agentVars

LEMMA StreamShape == Shape /\ (\E c \in Conns : StreamNext(c)) => Shape'
  <1> SUFFICES ASSUME Shape, NEW c \in Conns, StreamNext(c) PROVE Shape'
    OBVIOUS
  <1> USE DEF Shape
  <1>0. CurrentTask(rows) \in TaskOrNone
    BY CurrentTaskType DEF DbInv, DbType
  <1>1. CASE Accept(c)
    <2>1. StreamType'
      BY <1>1 DEF Accept, StreamType, StreamStates
    <2> QED
      BY <1>1, <2>1, Frames DEF Accept, agentVars
  <1>2. CASE FailUndoable(c)
    <2>1. CurrentTask(rows) \in Tasks
      BY <1>2, DeliveryAssumption DEF FailUndoable
    <2>2. DbInv'
      BY <1>2, <2>1, RowsType DEF FailUndoable, DbInv, DbType, MgrShape
    <2> QED
      BY <1>2, <2>2, Frames DEF FailUndoable, agentVars
  <1>3. CASE Greet(c)
    <2>1. StreamType'
      BY <1>0, <1>3 DEF Greet, StreamType, StreamStates
    <2>2. WireType'
      BY <1>0, <1>3 DEF Greet, Send, WireType
    <2> QED
      BY <1>3, <2>1, <2>2, Frames DEF Greet, agentVars
  <1>4. CASE RecvIdle(c)
    <2>1. StreamType'
      BY <1>4 DEF RecvIdle, StreamType, StreamStates
    <2>2. WireType'
      BY <1>4 DEF RecvIdle, WireType
    <2> QED
      BY <1>4, <2>1, <2>2, Frames DEF RecvIdle, agentVars
  <1>5. CASE RecvDispatch(c)
    <2>1. StreamType'
      BY <1>5 DEF RecvDispatch, StreamType, StreamStates
    <2> QED
      BY <1>5, <2>1, Frames DEF RecvDispatch, agentVars
  <1>6. CASE Respond(c)
    <2>1. StreamType'
      BY <1>0, <1>6 DEF Respond, StreamType, StreamStates
    <2>2. WireType'
      BY <1>0, <1>6 DEF Respond, Send, WireType
    <2> QED
      BY <1>6, <2>1, <2>2, Frames DEF Respond, agentVars
  <1>7. CASE StreamBreaks(c)
    BY <1>7, StreamEndsShape, Frames DEF StreamBreaks
  <1> QED
    BY <1>1, <1>2, <1>3, <1>4, <1>5, <1>6, <1>7 DEF StreamNext

\* The agent drops its connection, in several actions.
LEMMA HangUpShape ==
    ASSUME Shape, HangUp
    PROVE  WireType' /\ LinkInv'
  <1> USE DEF Shape
  <1>1. WireType'
    BY DEF HangUp, WireType
  <1>2. LinkInv'
    BY DEF HangUp, LinkInv, LinkType, LinkShape
  <1> QED
    BY <1>1, <1>2

\* handle_message changes the task, and only while no call is awaited or to
\* cancel it.
LEMMA ReconcileShape ==
    ASSUME Shape, NEW m \in TaskOrNone, Reconcile(m), UNCHANGED <<idle, callVars>>
    PROVE  RunInv' /\ CallInv'
  <1> USE NoTaskAssumption DEF Shape
  <1>0. FirstPhase(m) \in {"prepare", "finish"}
    BY DEF FirstPhase
  <1>1. RunInv'
    <2>1. task' \in TaskOrNone /\ phase' \in Phases /\ RunShape'
      BY <1>0 DEF Reconcile, RunInv, RunType, RunShape, Phases
    <2>2. cancel' \in BOOLEAN /\ idle' \in BOOLEAN
      BY DEF Reconcile, RunInv, RunType
    <2> QED
      BY <2>1, <2>2 DEF RunInv, RunType
  <1>2. CASE task = NoTask
    <2>1. await = None
      BY <1>2 DEF CallInv, AwaitShape, RunInv, RunShape
    <2> QED
      BY <1>1, <2>1 DEF CallInv, CallType, AwaitShape, callVars
  <1>3. CASE task # NoTask
    <2>1. UNCHANGED <<task, phase>>
      BY <1>3 DEF Reconcile
    <2> QED
      BY <1>1, <2>1 DEF CallInv, CallType, AwaitShape, callVars, CallOf
  <1> QED
    BY <1>2, <1>3

LEMMA LinkShapeKept == Shape /\ LinkNext => Shape'
  <1> SUFFICES ASSUME Shape, LinkNext PROVE Shape'
    OBVIOUS
  <1> USE DEF Shape
  <1>1. CASE \E c \in Conns : Dial(c)
    <2> PICK c \in Conns : Dial(c)
      BY <1>1
    <2>1. StreamType'
      BY DEF Dial, StreamType, StreamStates
    <2>2. LinkInv'
      BY DeliveryAssumption DEF Dial, LinkInv, LinkType, LinkShape
    <2> QED
      BY <2>1, <2>2, Frames DEF Dial
  <1>2. CASE Connected
    <2>1. LinkInv'
      BY <1>2 DEF Connected, LinkInv, LinkType, LinkShape
    <2>2. RunInv'
      BY <1>2 DEF Connected, RunInv, RunType, RunShape
    <2>3. CallInv'
      BY <1>2 DEF Connected, CallInv, CallType, AwaitShape, callVars, CallOf
    <2> QED
      BY <1>2, <2>1, <2>2, <2>3, Frames DEF Connected
  <1>3. CASE CloseSeen
    BY <1>3, HangUpShape, Frames DEF CloseSeen, LinkOff
  <1>4. CASE SendIdle
    <2>1. WireType'
      BY <1>4 DEF SendIdle, WireType, LinkInv, LinkType, LinkShape
    <2>2. RunInv'
      BY <1>4 DEF SendIdle, RunInv, RunType, RunShape
    <2>3. CallInv'
      BY <1>4 DEF SendIdle, CallInv, CallType, AwaitShape, callVars, CallOf
    <2> QED
      BY <1>4, <2>1, <2>2, <2>3, Frames DEF SendIdle
  <1>5. CASE RecvCurrent
    <2>1. conn \in Conns /\ Head(down[conn]) \in TaskOrNone
      BY <1>5 DEF RecvCurrent, WireType, LinkInv, LinkType, LinkShape
    <2>2. WireType'
      BY <1>5, <2>1 DEF RecvCurrent, WireType
    <2>3. RunInv' /\ CallInv'
      BY <1>5, <2>1, ReconcileShape DEF RecvCurrent
    <2> QED
      BY <1>5, <2>2, <2>3, Frames DEF RecvCurrent
  <1> QED
    BY <1>1, <1>2, <1>3, <1>4, <1>5 DEF LinkNext

\* Without an awaited call, the agent may be in any phase.
LEMMA NothingAwaited ==
    ASSUME CallType, await' = None, calls' \in [Calls -> CallRecords]
    PROVE  CallInv'
  BY DEF CallInv, CallType, AwaitShape

\* A slot is freed.
LEMMA FreeSlotType ==
    ASSUME CallType, NEW i \in Calls
    PROVE  FreeSlot(i) \in [Calls -> CallRecords]
  BY DEF CallType, FreeSlot, CallRecords

\* The two ways a task's phase changes on the agent.
LEMMA PhaseShape ==
    ASSUME RunInv
    PROVE  /\ End => RunInv'
           /\ \A p \in Phases \ {"none"} : phase # "none" /\ Enter(p) => RunInv'
           /\ Boots => RunInv'
  BY DEF End, Enter, Boots, RunInv, RunType, RunShape, Phases, TaskOrNone

\* What an answer does to the phase and the connection.
LEMMA AnsweredShape ==
    ASSUME Shape, NEW i \in Calls, NEW st \in {"ok", "rejected"}, await = i,
           Answered(i, st)
    PROVE  RunInv' /\ LinkInv' /\ WireType'
  <1> USE DEF Shape
  <1>0. phase \in {"prepare", "finish", "fail", "leaving"}
    BY DeliveryAssumption DEF CallInv, AwaitShape
  <1>1. CASE phase = "prepare"
    BY <1>1, PhaseShape, Frames DEF Answered, Phases
  <1>2. CASE phase = "finish"
    BY <1>2, PhaseShape, Frames DEF Answered, Phases
  <1>3. CASE phase = "fail"
    BY <1>3, PhaseShape, Frames DEF Answered
  <1>4. CASE phase = "leaving"
    BY <1>4, PhaseShape, HangUpShape DEF Answered, Boots
  <1> QED
    BY <1>0, <1>1, <1>2, <1>3, <1>4

LEMMA UnansweredShape ==
    ASSUME Shape, NEW i \in Calls, await = i, Unanswered(i), BudgetType'
    PROVE  Shape'
  <1> USE DEF Shape
  <1>0. phase \in {"prepare", "finish", "fail", "leaving"}
    BY DeliveryAssumption DEF CallInv, AwaitShape
  <1>1. CallInv'
    BY NothingAwaited, FreeSlotType DEF Unanswered, CallInv
  <1>2. CASE phase = "prepare"
    BY <1>1, <1>2, PhaseShape, Frames DEF Unanswered, Phases
  <1>3. CASE phase \in {"finish", "fail"}
    BY <1>1, <1>3, Frames DEF Unanswered
  <1>4. CASE phase = "leaving"
    BY <1>1, <1>4, PhaseShape, HangUpShape, Frames DEF Unanswered, Boots
  <1> QED
    BY <1>0, <1>2, <1>3, <1>4

LEMMA RunShapeKept == Shape /\ RunNext => Shape'
  <1> SUFFICES ASSUME Shape, RunNext PROVE Shape'
    OBVIOUS
  <1> USE DEF Shape
  <1>1. CASE Write
    <2>1. await = None
      BY <1>1 DEF Write, CallInv, AwaitShape
    <2> QED
      BY <1>1, <2>1, PhaseShape, NothingAwaited, Frames
      DEF Write, Phases, callVars, CallInv, CallType
  <1>2. CASE CancelTakesEffect
    BY <1>2, PhaseShape, NothingAwaited, Frames
    DEF CancelTakesEffect, CallInv, CallType
  <1>3. CASE Countdown
    <2>1. await = None
      BY <1>3 DEF Countdown, CallInv, AwaitShape
    <2> QED
      BY <1>3, <2>1, PhaseShape, NothingAwaited, Frames
      DEF Countdown, Phases, callVars, CallInv, CallType
  <1>4. CASE \E i \in Calls : Issue(i)
    <2> PICK i \in Calls : Issue(i)
      BY <1>4
    <2>1. task \in Tasks
      BY DEF Issue, RunInv, RunType, RunShape, TaskOrNone
    <2>2. CallOf(phase) \in CallKinds
      BY DEF Issue, CallOf, CallKinds
    <2>3. [kind |-> CallOf(phase), t |-> task, st |-> "sent"] # FreeCall
      BY DEF FreeCall
    <2>4. CallType'
      BY <2>1, <2>2 DEF Issue, CallInv, CallType, CallRecords, CallStates
    <2>5. AwaitShape'
      BY <2>1, <2>3, DeliveryAssumption
      DEF Issue, AwaitShape, runVars, CallOf, CallInv, CallType
    <2> QED
      BY <2>4, <2>5, Frames DEF Issue, CallInv
  <1>5. CASE \E i \in Calls : Reply(i)
    <2> PICK i \in Calls : Reply(i)
      BY <1>5
    <2>1. CallInv'
      BY NothingAwaited, FreeSlotType DEF Reply, CallInv
    <2>2. RunInv' /\ LinkInv' /\ WireType'
      BY AnsweredShape DEF Reply
    <2> QED
      BY <2>1, <2>2, Frames DEF Reply
  <1>6. CASE \E i \in Calls : ServerGone(i)
    BY <1>6, UnansweredShape, Frames DEF ServerGone
  <1> QED
    BY <1>1, <1>2, <1>3, <1>4, <1>5, <1>6 DEF RunNext

\* A call that is in progress has a task, and stays the same call when its
\* handler gets further.
LEMMA ProceedShape ==
    ASSUME Shape, NEW i \in Calls, calls[i] # FreeCall,
           NEW st \in CallStates, Proceed(i, st), UNCHANGED <<runVars, await>>
    PROVE  calls[i].t \in Tasks /\ CallInv'
  <1> USE DEF Shape
  <1>1. calls[i] \in [kind : CallKinds, t : Tasks, st : CallStates]
    BY DEF CallInv, CallType, CallRecords
  <1>2. [calls[i] EXCEPT !.st = st] \in [kind : CallKinds, t : Tasks, st : CallStates]
    BY <1>1
  <1>3. CallType'
    BY <1>2 DEF Proceed, CallInv, CallType, CallRecords
  <1>4. calls'[i].kind = calls[i].kind /\ calls'[i].t = calls[i].t
    BY <1>1 DEF Proceed, CallInv, CallType
  <1>5. calls'[i] # FreeCall
    BY <1>1, <1>4 DEF FreeCall, CallKinds
  <1>6. \A j \in Calls \ {i} : calls'[j] = calls[j]
    BY DEF Proceed, CallInv, CallType
  <1>7. AwaitShape'
    BY <1>4, <1>5, <1>6 DEF AwaitShape, CallInv, CallType, runVars, CallOf
  <1> QED
    BY <1>1, <1>3, <1>7 DEF CallInv

\* A free slot is no call of any kind.
LEMMA CallsInUse == \A i \in Calls : calls[i].kind \in CallKinds => calls[i] # FreeCall
  BY DEF FreeCall, CallKinds

LEMMA HandlerShape == Shape /\ (\E i \in Calls : HandlerNext(i)) => Shape'
  <1> SUFFICES ASSUME Shape, NEW i \in Calls, HandlerNext(i) PROVE Shape'
    OBVIOUS
  <1> USE DEF Shape
  <1>1. CASE StartedLooks(i)
    <2>1. calls[i] # FreeCall
      BY <1>1, CallsInUse DEF StartedLooks, CallKinds
    <2>2. \E st \in CallStates : Proceed(i, st)
      BY <1>1 DEF StartedLooks, CallStates
    <2>3. UNCHANGED <<runVars, await>>
      BY <1>1 DEF StartedLooks
    <2>4. CallInv'
      BY <2>1, <2>2, <2>3, ProceedShape
    <2> QED
      BY <1>1, <2>4, Frames DEF StartedLooks
  <1>2. CASE ReportLooks(i)
    <2>1. calls[i] # FreeCall
      BY <1>2, CallsInUse DEF ReportLooks, CallKinds
    <2>2. \E st \in CallStates : Proceed(i, st)
      BY <1>2 DEF ReportLooks, CallStates
    <2>3. UNCHANGED <<runVars, await>>
      BY <1>2 DEF ReportLooks
    <2>4. CallInv'
      BY <2>1, <2>2, <2>3, ProceedShape
    <2> QED
      BY <1>2, <2>4, Frames DEF ReportLooks
  <1>3. CASE StartedWrites(i)
    <2>1. calls[i] # FreeCall
      BY <1>3, CallsInUse DEF StartedWrites, CallKinds
    <2>2. CallInv' /\ calls[i].t \in Tasks
      BY <1>3, <2>1, ProceedShape DEF StartedWrites, CallStates
    <2>3. DbInv'
      BY <1>3, <2>2, RowsType DEF StartedWrites, DbInv, DbType, MgrShape
    <2> QED
      BY <1>3, <2>2, <2>3, Frames DEF StartedWrites
  <1>4. CASE ReportWrites(i)
    <2>1. calls[i] # FreeCall
      BY <1>4, CallsInUse DEF ReportWrites, CallKinds
    <2>2. \E st \in CallStates : Proceed(i, st)
      BY <1>4 DEF ReportWrites, CallStates
    <2>3. CallInv' /\ calls[i].t \in Tasks
      BY <1>4, <2>1, <2>2, ProceedShape DEF ReportWrites
    <2>4. DbInv'
      BY <1>4, <2>3, RowsType DEF ReportWrites, DbInv, DbType, MgrShape
    <2> QED
      BY <1>4, <2>3, <2>4, Frames DEF ReportWrites
  <1>5. CASE Deregisters(i)
    <2>1. calls[i] # FreeCall
      BY <1>5, CallsInUse DEF Deregisters, CallKinds
    <2>2. CallInv'
      BY <1>5, <2>1, ProceedShape DEF Deregisters, CallStates
    <2>3. StreamType'
      BY <1>5 DEF Deregisters, StreamType
    <2> QED
      BY <1>5, <2>2, <2>3, Frames DEF Deregisters
  <1>6. CASE Abandoned(i)
    <2>1. CallInv'
      BY <1>6, FreeSlotType
      DEF Abandoned, CallInv, CallType, AwaitShape, FreeSlot, runVars, CallOf
    <2> QED
      BY <1>6, <2>1, Frames DEF Abandoned
  <1> QED
    BY <1>1, <1>2, <1>3, <1>4, <1>5, <1>6 DEF HandlerNext

LEMMA FaultShape == Shape /\ FaultNext => Shape'
  <1> SUFFICES ASSUME Shape, FaultNext PROVE Shape'
    OBVIOUS
  <1> USE DEF Shape
  <1>1. CASE \E c \in Conns : StreamFails(c)
    BY <1>1, StreamEndsShape, Budgets DEF StreamFails
  <1>2. CASE LinkLost
    BY <1>2, HangUpShape, Frames, Budgets DEF LinkLost, LinkOff
  <1>3. CASE \E i \in Calls : AnswerLost(i)
    BY <1>3, UnansweredShape, Budgets DEF AnswerLost
  <1>4. CASE Crash
    <2>1. CallInv'
      BY <1>4, NothingAwaited DEF Crash, CallInv, CallRecords
    <2> QED
      BY <1>4, <2>1, HangUpShape, PhaseShape, Frames, Budgets DEF Crash, Boots
  <1>5. CASE Restart
    <2>1. DbInv'
      BY <1>5 DEF Restart, DbInv, DbType, MgrShape, MgrIdle, MgrStates,
                  TaskOrNone, FailOrphans, Rows, RowStates
    <2>2. StreamType'
      BY <1>5 DEF Restart, StreamType, StreamStates, TaskOrNone
    <2>3. \A i \in Calls : calls'[i] \in CallRecords
      <3> SUFFICES ASSUME NEW i \in Calls PROVE calls'[i] \in CallRecords
        OBVIOUS
      <3>1. CASE calls[i].st \in {"sent", "read"}
        <4>1. calls[i] \in [kind : CallKinds, t : Tasks, st : CallStates]
          BY <3>1 DEF CallInv, CallType, CallRecords, FreeCall
        <4>2. calls'[i] \in {calls[i], FreeCall, [calls[i] EXCEPT !.st = "gone"]}
          BY <1>5 DEF Restart
        <4> QED
          BY <4>1, <4>2 DEF CallRecords, CallStates
      <3>2. CASE calls[i].st \notin {"sent", "read"}
        BY <1>5, <3>2 DEF Restart, CallInv, CallType, CallRecords
      <3> QED
        BY <3>1, <3>2
    <2>4. CallType'
      BY <1>5, <2>3 DEF Restart, CallInv, CallType
    <2>5. AwaitShape'
      <3> SUFFICES ASSUME await # None PROVE AwaitShape'
        BY <1>5 DEF Restart, AwaitShape
      <3>1. calls[await] \in [kind : CallKinds, t : Tasks, st : CallStates]
        BY DEF CallInv, CallType, CallRecords, AwaitShape
      <3>2. calls'[await].kind = calls[await].kind /\ calls'[await].t = calls[await].t
        BY <1>5, <3>1 DEF Restart, CallInv, CallType
      <3>3. calls'[await] # FreeCall
        BY <3>1, <3>2 DEF FreeCall, CallKinds
      <3> QED
        BY <1>5, <3>2, <3>3 DEF Restart, CallInv, AwaitShape, runVars, CallOf
    <2> QED
      BY <1>5, <2>1, <2>2, <2>4, <2>5, Frames, Budgets DEF Restart, CallInv
  <1> QED
    BY <1>1, <1>2, <1>3, <1>4, <1>5 DEF FaultNext

LEMMA ShapeInvariant == Spec => []Shape
  <1>1. Shape /\ [Next]_vars => Shape'
    <2>1. CASE UNCHANGED vars
      BY <2>1, Frames DEF Shape, vars, agentVars
    <2> QED
      BY <2>1, UiShape, MgrShapeKept, StreamShape, LinkShapeKept,
         RunShapeKept, HandlerShape, FaultShape DEF Next
  <1> QED
    BY <1>1, InitShape, PTL DEF Spec

(***************************************************************************)
(* Type correctness of the whole delivery path, for every set of tasks,    *)
(* connections and call slots: no handler indexes a row, a stream or a     *)
(* call that is not there.                                                 *)
(***************************************************************************)
THEOREM TypeCorrect == Spec => []TypeOK
  <1>1. Shape => TypeOK
    BY DEF Shape, TypeOK, DbInv, LinkInv, RunInv, CallInv
  <1> QED
    BY <1>1, ShapeInvariant, PTL

-----------------------------------------------------------------------------
(***************************************************************************)
(* NoRedo rests on who can make a row done.  Only a finished report can,   *)
(* such a report is always the one the agent waits for, because a run that *)
(* is cancelled leaves at most its started call behind; and a started call *)
(* that has passed its check, and whose answer the agent waits for, is for *)
(* a row that is not done.                                                 *)
(***************************************************************************)
ReportsAwaited == \A i \in Calls : calls[i].kind = "finished" => i = await

StartedFresh ==
    await # None /\ calls[await].kind = "started"
                 /\ calls[await].st \in {"read", "ok"}
        => rows[calls[await].t] # "done"

RedoInv == ReportsAwaited /\ StartedFresh /\ NoRedo

NoNewDone == \A t \in Tasks : rows'[t] = "done" => rows[t] = "done"

\* Every statement but mark_finished leaves the rows that are done as they are
\* and adds none.
LEMMA OnlyMarkFinished ==
    ASSUME NEW r \in Rows, NEW t \in Tasks, NEW u \in Tasks
    PROVE  /\ Create(r, t)[u] = "done" => r[u] = "done"
           /\ Start(r, t)[u] = "done" => r[u] = "done"
           /\ MarkFailed(r, t)[u] = "done" => r[u] = "done"
           /\ Cancel(r, t)[u] = "done" => r[u] = "done"
           /\ Retry(r, t)[u] = "done" => r[u] = "done"
           /\ FailOrphans(r)[u] = "done" => r[u] = "done"
  BY DEF Rows, Create, Start, MarkFailed, Cancel, Retry, FailOrphans, IfActive

\* A step that leaves the agent's run and its calls alone and makes no row done.
LEMMA RedoFrame ==
    ASSUME Shape, RedoInv, UNCHANGED <<task, phase, callVars>>, NoNewDone
    PROVE  RedoInv'
  <1>1. ReportsAwaited'
    BY DEF RedoInv, ReportsAwaited, callVars
  <1>2. StartedFresh'
    <2> SUFFICES ASSUME await # None, calls[await].kind = "started",
                        calls[await].st \in {"read", "ok"}
                 PROVE  rows'[calls[await].t] # "done"
      BY DEF StartedFresh, callVars
    <2>1. calls[await].t \in Tasks
      BY DEF Shape, CallInv, CallType, AwaitShape, CallRecords
    <2> QED
      BY <2>1 DEF RedoInv, StartedFresh, NoNewDone
  <1>3. NoRedo'
    <2>1. phase = "write" => task \in Tasks
      BY DEF Shape, RunInv, RunType, RunShape, TaskOrNone
    <2> QED
      BY <2>1 DEF RedoInv, NoRedo, NoNewDone
  <1> QED
    BY <1>1, <1>2, <1>3 DEF RedoInv

\* When the agent waits for nothing, or for the call of another phase, no
\* report is under way.
LEMMA NoReport ==
    ASSUME Shape, RedoInv, phase # "finish"
    PROVE  \A i \in Calls : calls[i].kind # "finished"
  <1>1. await # None => calls[await].kind # "finished"
    BY DEF Shape, CallInv, AwaitShape, CallOf
  <1> QED
    BY <1>1, DeliveryAssumption DEF RedoInv, ReportsAwaited

LEMMA DbRedo ==
    ASSUME Shape, RedoInv, UiNext \/ Dispatch \/ MgrNext
    PROVE  RedoInv'
  <1> USE DEF Shape, DbInv, DbType
  <1>1. UNCHANGED <<task, phase, callVars>>
    BY DEF UiNext, UiCreate, UiCheck, UiWrite, Dispatch, MgrNext, MgrTakes,
           MgrClaims, MgrWrites, MgrAnnounces, MgrEnds, MgrSettles, MgrFails,
           agentVars, runVars
  <1>2. NoNewDone
    <2>1. CASE \E t \in Tasks : UiCreate(t)
      BY <2>1, OnlyMarkFinished DEF UiCreate, NoNewDone
    <2>2. CASE \E op \in UiOps, t \in Tasks : UiWrite(op, t)
      BY <2>2, OnlyMarkFinished DEF UiWrite, UiEffect, UiOps, NoNewDone
    <2>3. CASE MgrWrites \/ MgrFails
      <3>1. mgr.t \in Tasks
        BY <2>3 DEF MgrWrites, MgrFails, MgrShape
      <3> QED
        BY <2>3, <3>1, OnlyMarkFinished DEF MgrWrites, MgrFails, NoNewDone
    <2>4. CASE UNCHANGED rows
      BY <2>4 DEF NoNewDone
    <2> QED
      BY <2>1, <2>2, <2>3, <2>4
      DEF UiNext, UiCheck, Dispatch, MgrNext, MgrTakes, MgrClaims,
          MgrAnnounces, MgrEnds, MgrSettles
  <1> QED
    BY <1>1, <1>2, RedoFrame

LEMMA StreamRedo ==
    ASSUME Shape, RedoInv, NEW c \in Conns, StreamNext(c) \/ StreamFails(c)
    PROVE  RedoInv'
  <1> USE DEF Shape, DbInv, DbType
  <1>1. UNCHANGED <<task, phase, callVars>>
    BY DEF StreamNext, Accept, FailUndoable, Greet, RecvIdle, RecvDispatch,
           Respond, StreamBreaks, StreamFails, StreamEnds, agentVars, runVars
  <1>2. NoNewDone
    <2>1. CASE FailUndoable(c)
      BY <2>1, OnlyMarkFinished, DeliveryAssumption DEF FailUndoable, NoNewDone
    <2>2. CASE UNCHANGED rows
      BY <2>2 DEF NoNewDone
    <2> QED
      BY <2>1, <2>2
      DEF StreamNext, Accept, Greet, RecvIdle, RecvDispatch, Respond,
          StreamBreaks, StreamFails, StreamEnds, dbVars
  <1> QED
    BY <1>1, <1>2, RedoFrame

LEMMA LinkRedo ==
    ASSUME Shape, RedoInv, LinkNext \/ LinkLost
    PROVE  RedoInv'
  <1>1. CASE RecvCurrent
    <2>1. UNCHANGED <<rows, callVars>>
      BY <1>1 DEF RecvCurrent, dbVars
    <2>2. CASE task = NoTask
      <3>1. await = None
        BY <2>2 DEF Shape, CallInv, AwaitShape, RunInv, RunShape
      <3>2. phase' # "write"
        BY <1>1, <2>2 DEF RecvCurrent, Reconcile, FirstPhase, Shape, RunInv, RunShape
      <3> QED
        BY <2>1, <3>1, <3>2
        DEF RedoInv, ReportsAwaited, StartedFresh, NoRedo, callVars
    <2>3. CASE task # NoTask
      BY <1>1, <2>1, <2>3, RedoFrame DEF RecvCurrent, Reconcile, NoNewDone
    <2> QED
      BY <2>2, <2>3
  <1>2. CASE LinkLost \/ CloseSeen \/ Connected \/ SendIdle
             \/ \E c \in Conns : Dial(c)
    <2>1. UNCHANGED <<rows, task, phase, callVars>>
      BY <1>2 DEF LinkLost, CloseSeen, LinkOff, Connected, SendIdle, Dial,
                  dbVars, runVars
    <2> QED
      BY <2>1, RedoFrame DEF NoNewDone
  <1> QED
    BY <1>1, <1>2 DEF LinkNext

\* When a slot is freed and no report is left, nothing but the phase matters.
LEMMA FreedRedo ==
    ASSUME Shape, RedoInv, await' = None, NoRedo',
           \A i \in Calls : calls'[i].kind # "finished"
    PROVE  RedoInv'
  BY DEF RedoInv, ReportsAwaited, StartedFresh

\* Freeing the slot of the awaited call leaves no report.
LEMMA FreeSlotRedo ==
    ASSUME Shape, RedoInv, NEW i \in Calls, await = i, calls' = FreeSlot(i)
    PROVE  \A j \in Calls : calls'[j].kind # "finished"
  BY DEF Shape, RedoInv, ReportsAwaited, FreeSlot, FreeCall, CallInv, CallType

LEMMA UnansweredRedo ==
    ASSUME Shape, RedoInv, NEW i \in Calls, await = i, Unanswered(i)
    PROVE  RedoInv'
  <1>0. phase \in {"prepare", "finish", "fail", "leaving"}
    BY DeliveryAssumption DEF Shape, CallInv, AwaitShape
  <1>1. phase' # "write"
    BY <1>0 DEF Unanswered, Enter, Boots, runVars
  <1>2. NoRedo'
    BY <1>1 DEF NoRedo
  <1> QED
    BY <1>2, FreeSlotRedo, FreedRedo DEF Unanswered

LEMMA RunRedo ==
    ASSUME Shape, RedoInv, RunNext
    PROVE  RedoInv'
  <1>1. CASE Write \/ Countdown
    <2>1. await = None /\ phase # "finish"
      BY <1>1 DEF Write, Countdown, Shape, CallInv, AwaitShape
    <2>2. phase' # "write" /\ UNCHANGED callVars
      BY <1>1 DEF Write, Countdown, Enter, End
    <2> QED
      BY <2>1, <2>2, NoReport, FreedRedo DEF callVars, NoRedo
  <1>2. CASE CancelTakesEffect
    <2>1. phase # "finish" /\ NoRedo' /\ calls' = calls /\ await' = None
      BY <1>2 DEF CancelTakesEffect, End, NoRedo
    <2> QED
      BY <2>1, NoReport, FreedRedo
  <1>3. CASE \E i \in Calls : Issue(i)
    <2> PICK i \in Calls : Issue(i)
      BY <1>3
    <2>1. \A j \in Calls : calls[j].kind # "finished"
      BY DeliveryAssumption DEF Issue, RedoInv, ReportsAwaited
    <2>2. await' = i /\ calls'[i].st = "sent"
             /\ \A j \in Calls \ {i} : calls'[j] = calls[j]
      BY DEF Issue, Shape, CallInv, CallType
    <2>3. ReportsAwaited' /\ StartedFresh'
      BY <2>1, <2>2 DEF ReportsAwaited, StartedFresh
    <2>4. NoRedo'
      BY DEF Issue, NoRedo, RedoInv, runVars, dbVars
    <2> QED
      BY <2>3, <2>4 DEF RedoInv
  <1>4. CASE \E i \in Calls : Reply(i)
    <2> PICK i \in Calls : Reply(i)
      BY <1>4
    <2>1. phase \in {"prepare", "finish", "fail", "leaving"}
      BY DeliveryAssumption DEF Reply, Shape, CallInv, AwaitShape
    <2>2. NoRedo'
      <3> SUFFICES ASSUME phase' = "write" PROVE rows'[task'] # "done"
        BY DEF NoRedo
      <3>1. phase = "prepare" /\ calls[i].st = "ok" /\ task' = task
        BY <2>1 DEF Reply, Answered, Enter, End, Boots
      <3>2. calls[i].kind = "started" /\ calls[i].t = task
        BY <3>1, DeliveryAssumption DEF Reply, Shape, CallInv, AwaitShape, CallOf
      <3> QED
        BY <3>1, <3>2, DeliveryAssumption DEF Reply, RedoInv, StartedFresh, dbVars
    <2> QED
      BY <2>2, FreeSlotRedo, FreedRedo DEF Reply
  <1>5. CASE \E i \in Calls : ServerGone(i)
    BY <1>5, UnansweredRedo DEF ServerGone
  <1> QED
    BY <1>1, <1>2, <1>3, <1>4, <1>5 DEF RunNext

\* A handler that goes on with its call, and makes no row done.
LEMMA ProceedRedo ==
    ASSUME Shape, RedoInv, NEW i \in Calls, calls[i] # FreeCall,
           NEW st \in CallStates, Proceed(i, st), UNCHANGED <<runVars, await>>,
           NoNewDone,
           calls[i].kind = "started" /\ st \in {"read", "ok"}
              => rows'[calls[i].t] # "done" \/ await # i
    PROVE  RedoInv'
  <1>1. calls[i] \in [kind : CallKinds, t : Tasks, st : CallStates]
    BY DEF Shape, CallInv, CallType, CallRecords
  <1>2. calls'[i].kind = calls[i].kind /\ calls'[i].t = calls[i].t /\ calls'[i].st = st
    BY <1>1 DEF Proceed, Shape, CallInv, CallType
  <1>3. \A j \in Calls \ {i} : calls'[j] = calls[j]
    BY DEF Proceed, Shape, CallInv, CallType
  <1>4. ReportsAwaited'
    BY <1>2, <1>3 DEF RedoInv, ReportsAwaited
  <1>5. StartedFresh'
    <2>1. CASE await = i
      BY <1>2, <2>1 DEF StartedFresh
    <2>2. CASE await # i /\ await # None
      <3>1. await \in Calls /\ calls'[await] = calls[await]
        BY <1>3, <2>2 DEF Shape, CallInv, CallType
      <3>2. calls[await].t \in Tasks
        BY <2>2, <3>1 DEF Shape, CallInv, CallType, AwaitShape, CallRecords
      <3> QED
        BY <2>2, <3>1, <3>2 DEF StartedFresh, RedoInv, NoNewDone
    <2> QED
      BY <2>1, <2>2 DEF StartedFresh
  <1>6. NoRedo'
    <2>1. phase = "write" => task \in Tasks
      BY DEF Shape, RunInv, RunType, RunShape, TaskOrNone
    <2> QED
      BY <2>1 DEF RedoInv, NoRedo, NoNewDone, runVars
  <1> QED
    BY <1>4, <1>5, <1>6 DEF RedoInv

LEMMA HandlerRedo ==
    ASSUME Shape, RedoInv, NEW i \in Calls, HandlerNext(i)
    PROVE  RedoInv'
  <1>0. rows \in Rows /\ (calls[i] # FreeCall => calls[i].t \in Tasks)
    BY DEF Shape, DbInv, DbType, CallInv, CallType, CallRecords
  <1>1. CASE StartedLooks(i)
    <2>1. calls[i] # FreeCall /\ NoNewDone /\ UNCHANGED <<runVars, await>>
      BY <1>1, CallsInUse DEF StartedLooks, CallKinds, NoNewDone, dbVars
    <2>2. CASE GetNext(rows) = calls[i].t
      <3>1. rows'[calls[i].t] # "done"
        BY <1>0, <1>1, <2>1, <2>2, GetNextType, NoTaskAssumption
        DEF StartedLooks, Active, dbVars
      <3>2. \E st \in CallStates : Proceed(i, st)
        BY <1>1 DEF StartedLooks, CallStates
      <3> QED
        BY <2>1, <3>1, <3>2, ProceedRedo
    <2>3. CASE GetNext(rows) # calls[i].t
      BY <1>1, <2>1, <2>3, ProceedRedo DEF StartedLooks, CallStates
    <2> QED
      BY <2>2, <2>3
  <1>2. CASE ReportLooks(i) \/ Deregisters(i)
    <2>1. calls[i] # FreeCall /\ NoNewDone /\ UNCHANGED <<runVars, await>>
      BY <1>2, CallsInUse DEF ReportLooks, Deregisters, CallKinds, NoNewDone, dbVars
    <2>2. \E st \in CallStates : Proceed(i, st)
      BY <1>2 DEF ReportLooks, Deregisters, CallStates
    <2>3. calls[i].kind # "started"
      BY <1>2 DEF ReportLooks, Deregisters
    <2> QED
      BY <2>1, <2>2, <2>3, ProceedRedo
  <1>3. CASE StartedWrites(i)
    <2>1. calls[i] # FreeCall /\ UNCHANGED <<runVars, await>>
      BY <1>3, CallsInUse DEF StartedWrites, CallKinds
    <2>2. NoNewDone
      BY <1>0, <1>3, <2>1, OnlyMarkFinished DEF StartedWrites, NoNewDone
    <2>3. rows'[calls[i].t] # "done" \/ await # i
      BY <1>0, <1>3, <2>1, <2>2, DeliveryAssumption
      DEF StartedWrites, RedoInv, StartedFresh, NoNewDone
    <2> QED
      BY <1>3, <2>1, <2>2, <2>3, ProceedRedo DEF StartedWrites, CallStates
  <1>4. CASE ReportWrites(i) /\ calls[i].kind = "failed"
    <2>1. calls[i] # FreeCall /\ UNCHANGED <<runVars, await>>
      BY <1>4, CallsInUse DEF ReportWrites, CallKinds
    <2>2. NoNewDone /\ Proceed(i, "ok")
      BY <1>0, <1>4, <2>1, OnlyMarkFinished DEF ReportWrites, NoNewDone
    <2> QED
      BY <1>4, <2>1, <2>2, ProceedRedo DEF CallStates
  <1>5. CASE ReportWrites(i) /\ calls[i].kind = "finished"
    <2>1. await = i /\ calls[i] # FreeCall
      BY <1>5, CallsInUse DEF RedoInv, ReportsAwaited, CallKinds
    <2>2. phase # "write"
      BY <1>5, <2>1, DeliveryAssumption DEF Shape, CallInv, AwaitShape, CallOf
    <2>3. \E st \in CallStates : Proceed(i, st)
      BY <1>5 DEF ReportWrites, CallStates
    <2>4. calls'[i].kind = "finished" /\ \A j \in Calls \ {i} : calls'[j] = calls[j]
      BY <1>5, <2>1, <2>3 DEF Proceed, Shape, CallInv, CallType, CallRecords
    <2>5. await' = await /\ phase' = phase
      BY <1>5 DEF ReportWrites, runVars
    <2> QED
      BY <2>1, <2>2, <2>4, <2>5
      DEF RedoInv, ReportsAwaited, StartedFresh, NoRedo
  <1>6. CASE Abandoned(i)
    <2>1. \A j \in Calls \ {i} : calls'[j] = calls[j]
      BY <1>6 DEF Abandoned, FreeSlot, Shape, CallInv, CallType
    <2>2. calls'[i] = FreeCall /\ await # i /\ await' = await
      BY <1>6 DEF Abandoned, FreeSlot, Shape, CallInv, CallType
    <2>3. await # None => await \in Calls
      BY DEF Shape, CallInv, CallType
    <2>4. ReportsAwaited' /\ StartedFresh'
      BY <1>6, <2>1, <2>2, <2>3
      DEF Abandoned, RedoInv, ReportsAwaited, StartedFresh, FreeCall, dbVars
    <2>5. NoRedo'
      BY <1>6 DEF Abandoned, RedoInv, NoRedo, dbVars, runVars
    <2> QED
      BY <2>4, <2>5 DEF RedoInv
  <1> QED
    BY <1>1, <1>2, <1>3, <1>4, <1>5, <1>6 DEF HandlerNext, ReportWrites

LEMMA OutageRedo ==
    ASSUME Shape, RedoInv, Crash \/ Restart
    PROVE  RedoInv'
  <1>1. CASE Crash
    BY <1>1 DEF Crash, Boots, RedoInv, ReportsAwaited, StartedFresh, NoRedo, FreeCall
  <1>2. CASE Restart
    <2>1. NoNewDone
      <3> SUFFICES ASSUME NEW t \in Tasks PROVE rows'[t] = "done" => rows[t] = "done"
        BY DEF NoNewDone
      <3> QED
        BY <1>2, OnlyMarkFinished DEF Restart, Shape, DbInv, DbType
    <2>2. ReportsAwaited'
      BY <1>2 DEF Restart, RedoInv, ReportsAwaited, FreeCall
    <2>3. StartedFresh'
      <3> SUFFICES ASSUME await # None, calls'[await].kind = "started",
                          calls'[await].st \in {"read", "ok"}
                   PROVE  rows'[calls'[await].t] # "done"
        BY <1>2 DEF Restart, StartedFresh
      <3>1. await \in Calls /\ calls[await] \in [kind : CallKinds, t : Tasks, st : CallStates]
        BY DEF Shape, CallInv, CallType, AwaitShape, CallRecords
      <3>2. calls'[await] = calls[await]
        BY <1>2, <3>1 DEF Restart
      <3> QED
        BY <2>1, <3>1, <3>2 DEF RedoInv, StartedFresh, NoNewDone
    <2>4. NoRedo'
      BY <1>2, <2>1 DEF Restart, RedoInv, NoRedo, NoNewDone, runVars,
                        Shape, RunInv, RunType, RunShape, TaskOrNone
    <2> QED
      BY <2>2, <2>3, <2>4 DEF RedoInv
  <1> QED
    BY <1>1, <1>2

(***************************************************************************)
(* No machine writes its disk, or reads it, for a task that is recorded as *)
(* done, whatever Current events, answers and requests were lost, late or  *)
(* repeated, and with any number of calls in progress.                     *)
(***************************************************************************)
THEOREM DoneIsNotRedone == Spec => []NoRedo
  <1>1. Init => RedoInv
    BY DEF Init, RedoInv, ReportsAwaited, StartedFresh, NoRedo, FreeCall
  <1>2. Shape /\ RedoInv /\ [Next]_vars => RedoInv'
    <2> SUFFICES ASSUME Shape, RedoInv, [Next]_vars PROVE RedoInv'
      OBVIOUS
    <2>1. CASE UNCHANGED vars
      <3>1. UNCHANGED <<rows, task, phase, callVars>>
        BY <2>1 DEF vars, dbVars, agentVars, runVars
      <3> QED
        BY <3>1, RedoFrame DEF NoNewDone
    <2>2. CASE FaultNext
      BY <2>2, StreamRedo, LinkRedo, UnansweredRedo, OutageRedo
      DEF FaultNext, AnswerLost
    <2> QED
      BY <2>1, <2>2, DbRedo, StreamRedo, LinkRedo, RunRedo, HandlerRedo DEF Next
  <1>3. RedoInv => NoRedo
    BY DEF RedoInv
  <1> QED
    BY <1>1, <1>2, <1>3, ShapeInvariant, PTL DEF Spec

-----------------------------------------------------------------------------
(***************************************************************************)
(* Delivery implements TaskLife: every step maps to one of its steps or to *)
(* a stutter.  Only the types and what the worker's record says of its     *)
(* task are needed, because each statement of the repository checks the    *)
(* state of the row it changes.                                            *)
(***************************************************************************)
LifeStep == [Life!Next]_rows

\* A guarded statement closes an open row or does nothing.
LEMMA IfActiveLives ==
    ASSUME rows \in Rows, NEW t \in Tasks, NEW s \in {"done", "failed", "cancelled"},
           rows' = IfActive(rows, t, s)
    PROVE  LifeStep
  <1>1. CASE rows[t] \in Active
    <2>1. Life!Close(t, s)
      BY <1>1 DEF IfActive, Active, Life!Close, Life!Open
    <2> QED
      BY <2>1 DEF LifeStep, Life!Next, Life!Closed
  <1>2. CASE rows[t] \notin Active
    BY <1>2 DEF IfActive, LifeStep
  <1> QED
    BY <1>1, <1>2

\* start runs a pending row, and writes what is there already over a running one.
LEMMA StartLives ==
    ASSUME rows \in Rows, NEW t \in Tasks, rows' = Start(rows, t)
    PROVE  LifeStep
  <1>1. CASE rows[t] = "pending"
    <2>1. Life!Run(t)
      BY <1>1 DEF Start, IfActive, Active, Life!Run
    <2> QED
      BY <2>1 DEF LifeStep, Life!Next
  <1>2. CASE rows[t] # "pending"
    <2>1. rows' = rows
      BY <1>2 DEF Start, IfActive, Active, Rows
    <2> QED
      BY <2>1 DEF LifeStep
  <1> QED
    BY <1>1, <1>2

\* retry opens a failed or cancelled row or does nothing.
LEMMA RetryLives ==
    ASSUME rows \in Rows, NEW t \in Tasks, rows' = Retry(rows, t)
    PROVE  LifeStep
  <1>1. CASE rows[t] \in Reopenable
    <2>1. Life!Reopen(t)
      BY <1>1 DEF Retry, Reopenable, Life!Reopen
    <2> QED
      BY <2>1 DEF LifeStep, Life!Next
  <1>2. CASE rows[t] \notin Reopenable
    BY <1>2 DEF Retry, LifeStep
  <1> QED
    BY <1>1, <1>2

\* The UI's handlers, and the dispatches they owe.
LEMMA UiLives ==
    ASSUME Shape, UiNext \/ Dispatch PROVE LifeStep
  <1>0. rows \in Rows
    BY DEF Shape, DbInv, DbType
  <1>1. ASSUME NEW t \in Tasks, UiCreate(t) PROVE LifeStep
    <2>1. Life!Begin(t)
      BY <1>1 DEF UiCreate, Create, Life!Begin
    <2> QED
      BY <2>1 DEF LifeStep, Life!Next
  <1>2. ASSUME NEW op \in UiOps, NEW t \in Tasks, UiCheck(op, t) PROVE LifeStep
    BY <1>2 DEF UiCheck, LifeStep
  <1>3. ASSUME NEW op \in UiOps, NEW t \in Tasks, UiWrite(op, t) PROVE LifeStep
    <2>1. CASE op = "retry"
      <3>1. rows' = Retry(rows, t)
        BY <1>3, <2>1 DEF UiWrite, UiEffect
      <3> QED
        BY <1>0, <3>1, RetryLives
    <2>2. CASE op = "cancel"
      <3>1. rows' = IfActive(rows, t, "cancelled")
        BY <1>3, <2>2 DEF UiWrite, UiEffect, Cancel
      <3> QED
        BY <1>0, <3>1, IfActiveLives
    <2>3. CASE op = "kick"
      <3>1. rows' = IfActive(rows, t, "failed")
        BY <1>3, <2>3 DEF UiWrite, UiEffect, MarkFailed
      <3> QED
        BY <1>0, <3>1, IfActiveLives
    <2> QED
      BY <2>1, <2>2, <2>3 DEF UiOps
  <1>4. ASSUME Dispatch PROVE LifeStep
    BY <1>4 DEF Dispatch, LifeStep
  <1> QED
    BY <1>1, <1>2, <1>3, <1>4 DEF UiNext

\* The multicast worker.
LEMMA MgrLives ==
    ASSUME Shape, MgrNext PROVE LifeStep
  <1>0. rows \in Rows /\ (mgr.pc # "idle" => mgr.t \in Tasks)
    BY DEF Shape, DbInv, DbType, MgrShape
  <1>1. CASE MgrWrites
    <2>1. CASE mgr.pc = "busy"
      <3>1. rows' = IfActive(rows, mgr.t, "failed")
        BY <1>1, <2>1 DEF MgrWrites, MarkFailed
      <3> QED
        BY <1>0, <2>1, <3>1, IfActiveLives
    <2>2. CASE mgr.pc = "start"
      <3>1. rows' = Start(rows, mgr.t)
        BY <1>1, <2>2 DEF MgrWrites
      <3> QED
        BY <1>0, <2>2, <3>1, StartLives
    <2> QED
      BY <1>1, <2>1, <2>2 DEF MgrWrites
  <1>2. CASE MgrFails
    <2>1. rows' = IfActive(rows, mgr.t, "failed") /\ mgr.pc # "idle"
      BY <1>2 DEF MgrFails, MarkFailed
    <2> QED
      BY <1>0, <2>1, IfActiveLives
  <1>3. CASE ~MgrWrites /\ ~MgrFails
    BY <1>3 DEF MgrNext, MgrTakes, MgrClaims, MgrAnnounces, MgrEnds, MgrSettles,
                LifeStep
  <1> QED
    BY <1>1, <1>2, <1>3

\* The event streams: only a task the host cannot do is failed here.
LEMMA StreamLives ==
    ASSUME Shape, NEW c \in Conns, StreamNext(c) \/ StreamFails(c) PROVE LifeStep
  <1>0. rows \in Rows
    BY DEF Shape, DbInv, DbType
  <1>1. CASE FailUndoable(c)
    <2>1. CurrentTask(rows) \in Tasks
      BY <1>1, DeliveryAssumption DEF FailUndoable
    <2>2. rows' = IfActive(rows, CurrentTask(rows), "failed")
      BY <1>1 DEF FailUndoable, MarkFailed
    <2> QED
      BY <1>0, <2>1, <2>2, IfActiveLives
  <1>2. CASE ~FailUndoable(c)
    BY <1>2 DEF StreamNext, Accept, Greet, RecvIdle, RecvDispatch, Respond,
                StreamBreaks, StreamFails, StreamEnds, dbVars, LifeStep
  <1> QED
    BY <1>1, <1>2

\* The agent itself writes no row.
LEMMA AgentLives ==
    ASSUME LinkNext \/ RunNext \/ LinkLost \/ Crash
             \/ (\E i \in Calls : AnswerLost(i))
    PROVE  LifeStep
  <1>1. UNCHANGED dbVars
    BY DEF LinkNext, Dial, Connected, CloseSeen, SendIdle, RecvCurrent, LinkOff,
           RunNext, Write, CancelTakesEffect, Countdown, Issue, Reply, ServerGone,
           LinkLost, Crash, AnswerLost, Unanswered
  <1> QED
    BY <1>1 DEF dbVars, LifeStep

\* The agent API.
LEMMA HandlerLives ==
    ASSUME Shape, NEW i \in Calls, HandlerNext(i) PROVE LifeStep
  <1>0. rows \in Rows
    BY DEF Shape, DbInv, DbType
  <1>1. calls[i].kind \in CallKinds => calls[i].t \in Tasks
    BY DEF Shape, CallInv, CallType, CallRecords, FreeCall, CallKinds
  <1>2. CASE StartedWrites(i)
    <2>1. rows' = Start(rows, calls[i].t) /\ calls[i].t \in Tasks
      BY <1>1, <1>2 DEF StartedWrites, CallKinds
    <2> QED
      BY <1>0, <2>1, StartLives
  <1>3. CASE ReportWrites(i)
    <2>1. calls[i].t \in Tasks
      BY <1>1, <1>3 DEF ReportWrites, CallKinds
    <2>2. \/ rows' = IfActive(rows, calls[i].t, "done")
          \/ rows' = IfActive(rows, calls[i].t, "failed")
      BY <1>3 DEF ReportWrites, MarkFinished, MarkFailed
    <2> QED
      BY <1>0, <2>1, <2>2, IfActiveLives
  <1>4. CASE ~StartedWrites(i) /\ ~ReportWrites(i)
    BY <1>4 DEF HandlerNext, StartedLooks, ReportLooks, Deregisters, Abandoned,
                dbVars, LifeStep
  <1> QED
    BY <1>2, <1>3, <1>4

\* The server is started again.
LEMMA RestartLives ==
    ASSUME Restart PROVE LifeStep
  <1>1. Life!Orphaned
    BY DEF Restart, FailOrphans, Life!Orphaned
  <1> QED
    BY <1>1 DEF LifeStep, Life!Next

(***************************************************************************)
(* The rows of a host keep the promise of TaskLife, whatever the UI, the   *)
(* agent and its repeated or abandoned calls, the multicast worker and     *)
(* restarts of the server do to them between each other's reads and        *)
(* writes.                                                                 *)
(***************************************************************************)
THEOREM RowsKeepTheirPromise == Spec => RowsLive
  <1>1. Init => Life!Init
    BY DEF Init, Life!Init
  <1>2. Shape /\ [Next]_vars => [Life!Next]_rows
    <2> SUFFICES ASSUME Shape, [Next]_vars PROVE LifeStep
      BY DEF LifeStep
    <2>1. CASE UNCHANGED vars
      BY <2>1 DEF vars, dbVars, LifeStep
    <2>2. CASE FaultNext
      BY <2>2, StreamLives, AgentLives, RestartLives DEF FaultNext
    <2> QED
      BY <2>1, <2>2, UiLives, MgrLives, StreamLives, AgentLives, HandlerLives
      DEF Next
  <1> QED
    BY <1>1, <1>2, ShapeInvariant, PTL DEF Spec, RowsLive, Life!Spec

-----------------------------------------------------------------------------
(* Who starts a multicast.                                                 *)

(***************************************************************************)
(* A started handler that is about to write a row does so for a task that  *)
(* no worker claims: it has refused a multicast nobody claimed, and has    *)
(* nothing to write for one that runs.                                     *)
(***************************************************************************)
WritesOwnTask ==
    \A i \in Calls : calls[i].kind = "started" /\ calls[i].st = "read"
                        => ~Multicasts(calls[i].t)

Claims == \A t \in Tasks : Multicasts(t) /\ rows[t] # "running" /\ rows'[t] = "running"
                              => mgr.pc = "start" /\ mgr.t = t

\* A call that is freed, sent or answered is not about to write.
LEMMA WritesOwnTaskKept ==
    ASSUME Shape, WritesOwnTask, [Next]_vars PROVE WritesOwnTask'
  <1>0. CASE UNCHANGED calls
    BY <1>0 DEF WritesOwnTask
  <1>1. ASSUME NEW i \in Calls, calls' = FreeSlot(i) PROVE WritesOwnTask'
    BY <1>1 DEF WritesOwnTask, FreeSlot, FreeCall, Shape, CallInv, CallType
  <1>2. ASSUME NEW i \in Calls, NEW st \in CallStates, Proceed(i, st),
               st # "read" \/ calls[i].kind # "started" \/ ~Multicasts(calls[i].t)
        PROVE  WritesOwnTask'
    BY <1>2 DEF WritesOwnTask, Proceed, CallRecords, FreeCall, Shape, CallInv, CallType
  <1>3. CASE UiNext \/ Dispatch \/ MgrNext \/ LinkNext \/ LinkLost
               \/ (\E c \in Conns : StreamNext(c) \/ StreamFails(c))
    <2>1. UNCHANGED calls
      BY <1>3 DEF UiNext, UiCreate, UiCheck, UiWrite, Dispatch, MgrNext, MgrTakes,
             MgrClaims, MgrWrites, MgrAnnounces, MgrEnds, MgrSettles, MgrFails,
             LinkNext, Dial, Connected, CloseSeen, SendIdle, RecvCurrent, LinkLost,
             LinkOff, StreamNext, StreamFails, Accept, FailUndoable, Greet, RecvIdle,
             RecvDispatch, Respond, StreamBreaks, StreamEnds, agentVars, callVars
    <2> QED
      BY <1>0, <2>1
  <1>4. CASE RunNext \/ \E i \in Calls : AnswerLost(i)
    <2>1. ASSUME NEW i \in Calls, Issue(i) PROVE WritesOwnTask'
      BY <2>1 DEF Issue, WritesOwnTask, Shape, CallInv, CallType
    <2>2. ASSUME NEW i \in Calls, Reply(i) \/ ServerGone(i) \/ AnswerLost(i)
          PROVE  WritesOwnTask'
      BY <1>1, <2>2 DEF Reply, ServerGone, AnswerLost, Unanswered
    <2>3. CASE Write \/ CancelTakesEffect \/ Countdown
      BY <1>0, <2>3 DEF Write, CancelTakesEffect, Countdown, callVars
    <2> QED
      BY <1>4, <2>1, <2>2, <2>3 DEF RunNext
  <1>5. ASSUME NEW i \in Calls, HandlerNext(i) PROVE WritesOwnTask'
    <2>1. CASE StartedLooks(i)
      <3>1. CASE Proceed(i, "rejected")
        BY <1>2, <3>1 DEF CallStates
      <3>2. CASE /\ Multicasts(calls[i].t) => rows[calls[i].t] = "running"
                 /\ Proceed(i, IF rows[calls[i].t] = "running" /\ Kind[calls[i].t] # "deploy"
                               THEN "ok" ELSE "read")
        <4>1. CASE Multicasts(calls[i].t)
          <5>1. Proceed(i, "ok")
            BY <3>2, <4>1 DEF Multicasts
          <5> QED
            BY <1>2, <5>1 DEF CallStates
        <4>2. CASE ~Multicasts(calls[i].t)
          <5>1. Proceed(i, "ok") \/ Proceed(i, "read")
            BY <3>2
          <5> QED
            BY <1>2, <4>2, <5>1 DEF CallStates
        <4> QED
          BY <4>1, <4>2
      <3> QED
        BY <2>1, <3>1, <3>2 DEF StartedLooks
    <2>2. CASE ReportLooks(i)
      <3>1. \E st \in CallStates : Proceed(i, st)
        BY <2>2 DEF ReportLooks, CallStates
      <3>2. calls[i].kind # "started"
        BY <2>2 DEF ReportLooks
      <3> QED
        BY <1>2, <3>1, <3>2
    <2>3. CASE StartedWrites(i) \/ ReportWrites(i) \/ Deregisters(i)
      <3>1. Proceed(i, "ok") \/ Proceed(i, "rejected")
        BY <2>3 DEF StartedWrites, ReportWrites, Deregisters
      <3> QED
        BY <1>2, <3>1 DEF CallStates
    <2>4. CASE Abandoned(i)
      BY <1>1, <2>4 DEF Abandoned
    <2> QED
      BY <1>5, <2>1, <2>2, <2>3, <2>4 DEF HandlerNext
  <1>6. CASE Crash
    BY <1>6 DEF Crash, WritesOwnTask, FreeCall
  <1>7. CASE Restart
    BY <1>7 DEF Restart, WritesOwnTask, FreeCall, Shape, CallInv, CallType, CallRecords
  <1>8. CASE UNCHANGED vars
    BY <1>0, <1>8 DEF vars, agentVars, callVars
  <1> QED
    BY <1>3, <1>4, <1>5, <1>6, <1>7, <1>8 DEF Next, FaultNext

\* No statement but start makes a row running.
LEMMA NoOtherRuns ==
    ASSUME rows \in Rows, NEW t \in Tasks, NEW u \in Tasks,
           NEW s \in {"done", "failed", "cancelled"},
           \/ rows' = IfActive(rows, t, s)
           \/ rows' = Retry(rows, t)
           \/ rows' = Create(rows, t)
           \/ rows' = FailOrphans(rows)
           \/ rows' = rows
           \/ rows' = Start(rows, t) /\ t # u
    PROVE  rows'[u] = "running" => rows[u] = "running"
  BY DEF IfActive, Retry, Create, FailOrphans, Start, Rows

LEMMA StepClaims ==
    ASSUME Shape, WritesOwnTask, [Next]_vars PROVE Claims
  <1> SUFFICES ASSUME NEW u \in Tasks, Multicasts(u), rows[u] # "running",
                      ~(mgr.pc = "start" /\ mgr.t = u)
               PROVE  rows'[u] # "running"
    BY DEF Claims
  <1>0. rows \in Rows /\ (mgr.pc # "idle" => mgr.t \in Tasks)
    BY DEF Shape, DbInv, DbType, MgrShape
  <1>1. CASE UNCHANGED rows
    BY <1>1
  <1>2. CASE UiNext \/ Dispatch
    <2>1. ASSUME NEW t \in Tasks, UiCreate(t) PROVE rows'[u] # "running"
      BY <1>0, <2>1, NoOtherRuns DEF UiCreate
    <2>2. ASSUME NEW op \in UiOps, NEW t \in Tasks, UiWrite(op, t)
          PROVE  rows'[u] # "running"
      <3>1. \/ rows' = IfActive(rows, t, "cancelled")
            \/ rows' = Retry(rows, t)
            \/ rows' = IfActive(rows, t, "failed")
        BY <2>2 DEF UiWrite, UiEffect, UiOps, Cancel, MarkFailed
      <3> QED
        BY <1>0, <3>1, NoOtherRuns
    <2> QED
      BY <1>1, <1>2, <2>1, <2>2 DEF UiNext, UiCheck, Dispatch
  <1>3. CASE MgrNext
    <2>1. CASE MgrWrites
      <3>1. \/ rows' = IfActive(rows, mgr.t, "failed")
            \/ rows' = Start(rows, mgr.t) /\ mgr.t # u
        BY <2>1 DEF MgrWrites, MarkFailed
      <3>2. mgr.t \in Tasks
        BY <1>0, <2>1 DEF MgrWrites
      <3> QED
        BY <1>0, <3>1, <3>2, NoOtherRuns
    <2>2. CASE MgrFails
      <3>1. rows' = IfActive(rows, mgr.t, "failed") /\ mgr.t \in Tasks
        BY <1>0, <2>2 DEF MgrFails, MarkFailed
      <3> QED
        BY <1>0, <3>1, NoOtherRuns
    <2> QED
      BY <1>1, <1>3, <2>1, <2>2
      DEF MgrNext, MgrTakes, MgrClaims, MgrAnnounces, MgrEnds, MgrSettles
  <1>4. ASSUME NEW c \in Conns, StreamNext(c) \/ StreamFails(c)
        PROVE  rows'[u] # "running"
    <2>1. CASE FailUndoable(c)
      <3>1. /\ rows' = IfActive(rows, CurrentTask(rows), "failed")
            /\ CurrentTask(rows) \in Tasks
        BY <2>1, DeliveryAssumption DEF FailUndoable, MarkFailed
      <3> QED
        BY <1>0, <3>1, NoOtherRuns
    <2> QED
      BY <1>1, <1>4, <2>1
      DEF StreamNext, Accept, Greet, RecvIdle, RecvDispatch, Respond, StreamBreaks,
          StreamFails, StreamEnds, dbVars
  <1>5. CASE LinkNext \/ RunNext \/ LinkLost \/ Crash \/ \E i \in Calls : AnswerLost(i)
    <2>1. UNCHANGED dbVars
      BY <1>5 DEF LinkNext, Dial, Connected, CloseSeen, SendIdle, RecvCurrent, LinkOff,
             RunNext, Write, CancelTakesEffect, Countdown, Issue, Reply, ServerGone,
             LinkLost, Crash, AnswerLost, Unanswered
    <2> QED
      BY <1>1, <2>1 DEF dbVars
  <1>6. ASSUME NEW i \in Calls, HandlerNext(i) PROVE rows'[u] # "running"
    <2>1. calls[i].kind \in CallKinds => calls[i].t \in Tasks
      BY DEF Shape, CallInv, CallType, CallRecords, FreeCall, CallKinds
    <2>2. CASE StartedWrites(i)
      <3>1. /\ rows' = Start(rows, calls[i].t) /\ calls[i].t # u
            /\ calls[i].t \in Tasks
        BY <2>1, <2>2 DEF StartedWrites, WritesOwnTask, CallKinds
      <3> QED
        BY <1>0, <3>1, NoOtherRuns
    <2>3. CASE ReportWrites(i)
      <3>1. \/ rows' = IfActive(rows, calls[i].t, "done")
            \/ rows' = IfActive(rows, calls[i].t, "failed")
        BY <2>3 DEF ReportWrites, MarkFinished, MarkFailed
      <3>2. calls[i].t \in Tasks
        BY <2>1, <2>3 DEF ReportWrites, CallKinds
      <3> QED
        BY <1>0, <3>1, <3>2, NoOtherRuns
    <2> QED
      BY <1>1, <1>6, <2>2, <2>3
      DEF HandlerNext, StartedLooks, ReportLooks, Deregisters, Abandoned, dbVars
  <1>7. CASE Restart
    BY <1>0, <1>7, NoOtherRuns DEF Restart
  <1>8. CASE UNCHANGED vars
    BY <1>1, <1>8 DEF vars, dbVars
  <1> QED
    BY <1>2, <1>3, <1>4, <1>5, <1>6, <1>7, <1>8 DEF Next, FaultNext

(***************************************************************************)
(* Only the worker starts a multicast on a host, for any number of calls   *)
(* and however late their handlers write.                                  *)
(***************************************************************************)
THEOREM MulticastsAreClaimed == Spec => ManagerStartsMulticasts
  <1>1. Init => WritesOwnTask
    BY DEF Init, WritesOwnTask, FreeCall
  <1>2. Shape /\ WritesOwnTask /\ [Next]_vars => WritesOwnTask'
    BY WritesOwnTaskKept
  <1>3. Shape /\ WritesOwnTask /\ [Next]_vars
           => [\A t \in Tasks :
                 Multicasts(t) /\ rows[t] # "running" /\ rows'[t] = "running"
                   => mgr.pc = "start" /\ mgr.t = t]_vars
    BY StepClaims DEF Claims
  <1> QED
    BY <1>1, <1>2, <1>3, ShapeInvariant, PTL DEF Spec, ManagerStartsMulticasts

-----------------------------------------------------------------------------
(***************************************************************************)
(* No wakeup is lost, and no work goes on for a task that is not current,  *)
(* on a host that has no multicasts: for every set of tasks, connections   *)
(* and call slots.                                                         *)
(*                                                                         *)
(* The argument for wakeups has a half for each side of the connection.    *)
(* The server's: a registered stream that told its host there is nothing   *)
(* to do, while there is, has a message in its channel or is about to get  *)
(* one (Posted).  The agent's: an agent without a task, whose stream told  *)
(* it of one, has that message still to read or has asked since, or is     *)
(* about to (Heard).  When all is quiet neither can be, so stream and rows *)
(* agree that there is nothing.  What follows them has the same two halves *)
(* for an agent that has a task.                                           *)
(***************************************************************************)
NoMulticasts == \A t \in Tasks : ~Multicasts(t)

HasWork == \E t \in Tasks : rows[t] \in Active

Serving(c) == srv[c] \in {"loop", "woken"}

\* a Current event that names a task is on its way on connection c
Named(c) == \E k \in 1..Len(down[c]) : down[c][k] # NoTask

Posted == \A c \in Conns :
             HasWork /\ reg = c /\ srv[c] = "loop" /\ current[c] = NoTask
                 => owed > 0 \/ token[c]

HeardUp == \A c \in Conns :
              link = "up" /\ conn = c /\ Serving(c) /\ current[c] # NoTask
                 /\ task = NoTask
                 => idle \/ up[c] > 0 \/ asked[c] \/ Named(c)

\* Connection::new forgets an Idle, but not the event it starts with
HeardDialing == \A c \in Conns :
                   link = "dialing" /\ conn = c /\ Serving(c) /\ current[c] # NoTask
                      => Named(c)

AskedIsWoken == \A c \in Conns : asked[c] => srv[c] = "woken"

WakeInv == Posted /\ HeardUp /\ HeardDialing /\ AskedIsWoken

-----------------------------------------------------------------------------
(* get_next finds something whenever something is active.                  *)

LEMMA LeastElement ==
    ASSUME NEW T, T \subseteq Nat, T # {}
    PROVE  \E x \in T : \A y \in T : x <= y
  <1> DEFINE R == OpToRel(<, Nat)
  <1>1. IsWellFoundedOn(R, Nat)
    BY NatLessThanWellFounded
  <1>2. \A x, y \in Nat : y < x => <<y, x>> \in R
    BY DEF OpToRel
  <1> HIDE DEF R
  <1>3. PICK x \in T : \A y \in T : ~(<<y, x>> \in R)
    BY <1>1, WFMin
  <1>4. ASSUME NEW y \in T PROVE x <= y
    <2>1. x \in Nat /\ y \in Nat /\ ~(y < x)
      BY <1>2, <1>3
    <2> QED
      BY <2>1
  <1> QED
    BY <1>3, <1>4

\* The oldest running row, or else the oldest pending one, is next; and a task
\* that is not a multicast is handed out as soon as it is.
LEMMA WorkIsFound ==
    ASSUME NoMulticasts, NEW r \in Rows
    PROVE  CurrentTask(r) # NoTask <=> \E t \in Tasks : r[t] \in Active
  <1>1. ASSUME CurrentTask(r) # NoTask PROVE \E t \in Tasks : r[t] \in Active
    BY <1>1, GetNextType DEF CurrentTask
  <1>2. ASSUME \E t \in Tasks : r[t] \in Active PROVE CurrentTask(r) # NoTask
    <2> DEFINE Run == {t \in Tasks : r[t] = "running"}
               Pend == {t \in Tasks : r[t] = "pending"}
    <2>0. Run \subseteq Nat /\ Pend \subseteq Nat
      BY TasksAssumption
    <2>1. \E t \in Tasks : IsNext(r, t)
      <3>1. CASE Run # {}
        <4>1. PICK t \in Run : \A u \in Run : t <= u
          BY <2>0, <3>1, LeastElement
        <4> QED
          BY <4>1 DEF IsNext, GetsAhead, Active
      <3>2. CASE Run = {}
        <4>1. Pend # {}
          BY <1>2, <3>2 DEF Active
        <4>2. PICK t \in Pend : \A u \in Pend : t <= u
          BY <2>0, <4>1, LeastElement
        <4> QED
          BY <3>2, <4>2 DEF IsNext, GetsAhead, Active
      <3> QED
        BY <3>1, <3>2
    <2>2. GetNext(r) \in Tasks
      BY <2>1 DEF GetNext
    <2> QED
      BY <2>2, NoTaskAssumption DEF CurrentTask, IsDispatchable, NoMulticasts
  <1> QED
    BY <1>1, <1>2

-----------------------------------------------------------------------------
(* Steps that concern only one half of the argument.                       *)

NoNewWork == HasWork' => HasWork

HeardVars == <<link, conn, srv, current, asked, down, up>>

\* Only creating or retrying a task makes work.
LEMMA OnlyUiMakesWork ==
    ASSUME NEW r \in Rows, NEW t \in Tasks, NEW u \in Tasks
    PROVE  /\ Start(r, t)[u] \in Active => r[u] \in Active
           /\ MarkFinished(r, t)[u] \in Active => r[u] \in Active
           /\ MarkFailed(r, t)[u] \in Active => r[u] \in Active
           /\ FailOrphans(r)[u] \in Active => r[u] \in Active
  BY DEF Rows, Active, Start, MarkFinished, MarkFailed, FailOrphans, IfActive

LEMMA PostedFrame ==
    ASSUME WakeInv, NoNewWork, owed > 0 => owed' > 0,
           UNCHANGED <<reg, srv, current>>,
           \A c \in Conns : token[c] => token'[c]
    PROVE  Posted'
  BY DEF WakeInv, Posted, NoNewWork

LEMMA HeardFrame ==
    ASSUME WakeInv, UNCHANGED HeardVars,
           task' = NoTask => idle' \/ (task = NoTask /\ idle' = idle)
    PROVE  HeardUp' /\ HeardDialing' /\ AskedIsWoken'
  BY DEF WakeInv, HeardUp, HeardDialing, AskedIsWoken, HeardVars, Serving, Named

\* Sequences: what Append, Tail and an empty wire do to Named.
LEMMA AppendNamed ==
    ASSUME NEW q \in Seq(TaskOrNone), NEW m \in TaskOrNone, m # NoTask
    PROVE  \E k \in 1..Len(Append(q, m)) : Append(q, m)[k] # NoTask
  <1>1. Len(q) + 1 \in 1..Len(Append(q, m)) /\ Append(q, m)[Len(q) + 1] = m
    OBVIOUS
  <1> QED
    BY <1>1

LEMMA TailNamed ==
    ASSUME NEW q \in Seq(TaskOrNone), q # <<>>, Head(q) = NoTask,
           \E k \in 1..Len(q) : q[k] # NoTask
    PROVE  \E k \in 1..Len(Tail(q)) : Tail(q)[k] # NoTask
  <1>1. PICK k \in 1..Len(q) : q[k] # NoTask
    OBVIOUS
  <1>2. k # 1
    BY <1>1
  <1>3. k - 1 \in 1..Len(Tail(q)) /\ Tail(q)[k - 1] = q[k]
    BY <1>1, <1>2
  <1> QED
    BY <1>1, <1>3

-----------------------------------------------------------------------------
(* Every action keeps the invariant.                                       *)

LEMMA UiWake ==
    ASSUME NoMulticasts, Shape, WakeInv, UiNext \/ Dispatch
    PROVE  WakeInv'
  <1>1. HeardUp' /\ HeardDialing' /\ AskedIsWoken'
    <2>1. UNCHANGED HeardVars /\ UNCHANGED <<task, idle>>
      BY DEF UiNext, UiCreate, UiCheck, UiWrite, Dispatch, HeardVars,
             streamVars, wireVars, agentVars, linkVars, runVars
    <2> QED
      BY <2>1, HeardFrame
  <1>2. CASE \E t \in Tasks : UiCreate(t)
    <2>1. owed' > 0
      BY <1>2 DEF UiCreate, NoMulticasts, Shape, DbInv, DbType
    <2> QED
      BY <1>1, <2>1 DEF WakeInv, Posted
  <1>3. CASE \E op \in UiOps, t \in Tasks : UiWrite(op, t)
    <2>1. owed' > 0
      BY <1>3 DEF UiWrite, NoMulticasts, Shape, DbInv, DbType
    <2> QED
      BY <1>1, <2>1 DEF WakeInv, Posted
  <1>4. CASE \E op \in UiOps, t \in Tasks : UiCheck(op, t)
    <2>1. UNCHANGED <<rows, owed, streamVars>>
      BY <1>4 DEF UiCheck
    <2> QED
      BY <1>1, <2>1, PostedFrame DEF NoNewWork, HasWork, streamVars, WakeInv
  <1>5. CASE Dispatch
    <2>1. UNCHANGED <<rows, reg, srv, current>> /\ token' = Dispatched
      BY <1>5 DEF Dispatch
    <2>2. \A c \in Conns : reg = c => token'[c]
      BY <2>1 DEF Dispatched, Shape, StreamType
    <2> QED
      BY <1>1, <2>1, <2>2 DEF WakeInv, Posted
  <1> QED
    BY <1>2, <1>3, <1>4, <1>5 DEF UiNext

LEMMA MgrWake ==
    ASSUME Shape, WakeInv, MgrNext
    PROVE  WakeInv'
  <1>1. HeardUp' /\ HeardDialing' /\ AskedIsWoken'
    <2>1. UNCHANGED HeardVars /\ UNCHANGED <<task, idle>>
      BY DEF MgrNext, MgrTakes, MgrClaims, MgrWrites, MgrAnnounces, MgrEnds,
             MgrSettles, MgrFails, HeardVars, streamVars, wireVars, agentVars,
             linkVars, runVars
    <2> QED
      BY <2>1, HeardFrame
  <1>2. NoNewWork
    <2>1. CASE MgrWrites \/ MgrFails
      <3>1. mgr.t \in Tasks /\ rows \in Rows
        BY <2>1 DEF MgrWrites, MgrFails, Shape, DbInv, DbType, MgrShape
      <3> QED
        BY <2>1, <3>1, OnlyUiMakesWork DEF MgrWrites, MgrFails, NoNewWork, HasWork
    <2>2. CASE UNCHANGED rows
      BY <2>2 DEF NoNewWork, HasWork
    <2> QED
      BY <2>1, <2>2 DEF MgrNext, MgrTakes, MgrClaims, MgrAnnounces, MgrEnds, MgrSettles
  <1>3. owed > 0 => owed' > 0
    <2>1. UNCHANGED owed \/ owed' = owed + 1
      <3>1. CASE MgrFails
        BY <3>1 DEF MgrFails
      <3>2. CASE UNCHANGED owed
        BY <3>2
      <3> QED
        BY <3>1, <3>2 DEF MgrNext, MgrTakes, MgrClaims, MgrWrites,
                          MgrAnnounces, MgrEnds, MgrSettles
    <2> QED
      BY <2>1 DEF Shape, DbInv, DbType
  <1>4. UNCHANGED <<reg, srv, current>>
    BY DEF MgrNext, MgrTakes, MgrClaims, MgrWrites, MgrAnnounces, MgrEnds,
           MgrSettles, MgrFails, streamVars
  <1>5. \A c \in Conns : token[c] => token'[c]
    <2>1. token' \in {token, Dispatched}
      BY DEF MgrNext, MgrTakes, MgrClaims, MgrWrites, MgrAnnounces, MgrEnds,
             MgrSettles, MgrFails, streamVars
    <2> QED
      BY <2>1 DEF Dispatched, Shape, StreamType
  <1> QED
    BY <1>1, <1>2, <1>3, <1>4, <1>5, PostedFrame DEF WakeInv

\* A stream that is not serving asks nothing of anyone.
LEMMA StreamEndsWake ==
    ASSUME Shape, WakeInv, NEW c \in Conns, StreamEnds(c)
    PROVE  WakeInv'
  <1>1. srv' = [srv EXCEPT ![c] = "closed"] /\ ~asked'[c]
           /\ \A d \in Conns \ {c} : asked'[d] = asked[d] /\ current'[d] = current[d]
                                       /\ token'[d] = token[d]
    BY DEF StreamEnds, Shape, StreamType
  <1>2. \A d \in Conns : reg' = d => reg = d
    BY DeliveryAssumption DEF StreamEnds, Cleanup
  <1>3. UNCHANGED <<rows, owed, link, conn, task, idle, up, down>>
    BY DEF StreamEnds, dbVars, wireVars, agentVars, linkVars, runVars
  <1>4. srv'[c] = "closed" /\ \A d \in Conns \ {c} : srv'[d] = srv[d]
    BY <1>1 DEF Shape, StreamType
  <1>5. Posted'
    BY <1>1, <1>2, <1>3, <1>4 DEF WakeInv, Posted, HasWork
  <1>6. HeardUp' /\ HeardDialing'
    BY <1>1, <1>3, <1>4 DEF WakeInv, HeardUp, HeardDialing, Serving, Named
  <1>7. AskedIsWoken'
    BY <1>1, <1>4 DEF WakeInv, AskedIsWoken
  <1> QED
    BY <1>5, <1>6, <1>7 DEF WakeInv

LEMMA StreamWake ==
    ASSUME NoMulticasts, Shape, WakeInv, NEW c \in Conns, StreamNext(c)
    PROVE  WakeInv'
  <1>0. /\ rows \in Rows
        /\ down \in [Conns -> Seq(TaskOrNone)] /\ up \in [Conns -> Nat]
        /\ srv \in [Conns -> StreamStates] /\ current \in [Conns -> TaskOrNone]
        /\ token \in [Conns -> BOOLEAN] /\ asked \in [Conns -> BOOLEAN]
    BY DEF Shape, DbInv, DbType, WireType, StreamType
  <1>a. CurrentTask(rows) = NoTask <=> ~HasWork
    BY <1>0, WorkIsFound DEF HasWork
  <1>b. CurrentTask(rows) \in TaskOrNone
    BY <1>0, CurrentTaskType
  <1>c. \A d \in Conns : down[d] \in Seq(TaskOrNone)
    BY <1>0
  <1>1. CASE Accept(c)
    <2>1. srv'[c] = "registered" /\ reg' = c
             /\ \A d \in Conns \ {c} : srv'[d] = srv[d]
      BY <1>0, <1>1 DEF Accept
    <2>2. UNCHANGED <<rows, owed, current, token, asked, down, up, link, conn, task, idle>>
      BY <1>1 DEF Accept, dbVars, wireVars, agentVars, linkVars, runVars
    <2>3. AskedIsWoken'
      BY <1>1, <2>1, <2>2 DEF Accept, WakeInv, AskedIsWoken
    <2> QED
      BY <2>1, <2>2, <2>3
      DEF WakeInv, Posted, HeardUp, HeardDialing, HasWork, Serving, Named
  <1>2. CASE FailUndoable(c)
    <2>1. NoNewWork
      BY <1>0, <1>2, OnlyUiMakesWork, DeliveryAssumption
      DEF FailUndoable, NoNewWork, HasWork
    <2>2. UNCHANGED HeardVars /\ UNCHANGED <<task, idle, owed, token, reg>>
      BY <1>2 DEF FailUndoable, HeardVars, streamVars, wireVars, agentVars,
                  linkVars, runVars
    <2> QED
      BY <2>1, <2>2, PostedFrame, HeardFrame DEF WakeInv, HeardVars
  <1>3. CASE Greet(c)
    <2>1. srv'[c] = "loop" /\ current'[c] = CurrentTask(rows)
             /\ \A d \in Conns \ {c} : srv'[d] = srv[d] /\ current'[d] = current[d]
      BY <1>0, <1>3 DEF Greet
    <2>2. UNCHANGED <<rows, owed, reg, token, asked, up, link, conn, task, idle>>
      BY <1>3 DEF Greet, dbVars, agentVars, linkVars, runVars
    <2>3. /\ \A d \in Conns \ {c} : down'[d] = down[d]
          /\ conn = c => down'[c] = Append(down[c], CurrentTask(rows))
      BY <1>0, <1>3 DEF Greet, Send
    <2>4. conn = c /\ current'[c] # NoTask => Named(c)'
      BY <1>b, <1>c, <2>1, <2>3, AppendNamed DEF Named
    <2>5. Posted'
      BY <1>a, <2>1, <2>2 DEF WakeInv, Posted, HasWork
    <2>6. AskedIsWoken'
      BY <1>3, <2>1, <2>2 DEF Greet, WakeInv, AskedIsWoken
    <2>7. HeardUp' /\ HeardDialing'
      BY <2>1, <2>2, <2>3, <2>4 DEF WakeInv, HeardUp, HeardDialing, Serving, Named
    <2> QED
      BY <2>5, <2>6, <2>7 DEF WakeInv
  <1>4. CASE RecvIdle(c)
    <2>1. srv'[c] = "woken" /\ asked'[c]
             /\ \A d \in Conns \ {c} : srv'[d] = srv[d] /\ asked'[d] = asked[d]
                                         /\ up'[d] = up[d]
      BY <1>0, <1>4 DEF RecvIdle
    <2>2. UNCHANGED <<rows, owed, reg, current, token, down, link, conn, task, idle>>
      BY <1>4 DEF RecvIdle, dbVars, agentVars, linkVars, runVars
    <2>3. srv[c] = "loop"
      BY <1>4 DEF RecvIdle
    <2>4. Posted' /\ AskedIsWoken'
      BY <2>1, <2>2 DEF WakeInv, Posted, AskedIsWoken, HasWork
    <2>5. HeardUp' /\ HeardDialing'
      BY <2>1, <2>2, <2>3 DEF WakeInv, HeardUp, HeardDialing, Serving, Named
    <2> QED
      BY <2>4, <2>5 DEF WakeInv
  <1>5. CASE RecvDispatch(c)
    <2>1. srv'[c] = "woken" /\ \A d \in Conns \ {c} : srv'[d] = srv[d]
                                                      /\ token'[d] = token[d]
      BY <1>0, <1>5 DEF RecvDispatch
    <2>2. UNCHANGED <<rows, owed, reg, current, asked, up, down, link, conn, task, idle>>
      BY <1>5 DEF RecvDispatch, dbVars, wireVars, agentVars, linkVars, runVars
    <2>3. srv[c] = "loop"
      BY <1>5 DEF RecvDispatch
    <2>4. Posted' /\ AskedIsWoken'
      BY <2>1, <2>2, <2>3 DEF WakeInv, Posted, AskedIsWoken, HasWork
    <2>5. HeardUp' /\ HeardDialing'
      BY <2>1, <2>2, <2>3 DEF WakeInv, HeardUp, HeardDialing, Serving, Named
    <2> QED
      BY <2>4, <2>5 DEF WakeInv
  <1>6. CASE Respond(c)
    <2>1. srv'[c] = "loop" /\ current'[c] = CurrentTask(rows) /\ ~asked'[c]
             /\ \A d \in Conns \ {c} : srv'[d] = srv[d] /\ current'[d] = current[d]
                                         /\ asked'[d] = asked[d]
      BY <1>0, <1>6 DEF Respond
    <2>2. UNCHANGED <<rows, owed, reg, token, up, link, conn, task, idle>>
      BY <1>6 DEF Respond, dbVars, agentVars, linkVars, runVars
    <2>3. srv[c] = "woken"
      BY <1>6 DEF Respond
    <2>4. Posted' /\ AskedIsWoken'
      BY <1>a, <2>1, <2>2 DEF WakeInv, Posted, AskedIsWoken, HasWork
    <2>5. \A d \in Conns \ {c} : down'[d] = down[d]
      BY <1>0, <1>6 DEF Respond, Send
    <2>6. CASE MustSend(c)
      <3>1. conn = c => down'[c] = Append(down[c], CurrentTask(rows))
        BY <1>0, <1>6, <2>6 DEF Respond, Send
      <3>2. conn = c /\ current'[c] # NoTask => Named(c)'
        BY <1>b, <1>c, <2>1, <3>1, AppendNamed DEF Named
      <3>3. HeardUp' /\ HeardDialing'
        BY <2>1, <2>2, <2>5, <3>2
        DEF WakeInv, HeardUp, HeardDialing, Serving, Named
      <3> QED
        BY <2>4, <3>3 DEF WakeInv
    <2>7. CASE ~MustSend(c)
      <3>1. ~asked[c] /\ current'[c] = current[c] /\ UNCHANGED down
        BY <1>6, <2>1, <2>7 DEF Respond, MustSend
      <3>2. HeardUp' /\ HeardDialing'
        BY <2>1, <2>2, <2>3, <3>1
        DEF WakeInv, HeardUp, HeardDialing, Serving, Named
      <3> QED
        BY <2>4, <3>2 DEF WakeInv
    <2> QED
      BY <2>6, <2>7
  <1>7. CASE StreamBreaks(c)
    BY <1>7, StreamEndsWake DEF StreamBreaks
  <1> QED
    BY <1>1, <1>2, <1>3, <1>4, <1>5, <1>6, <1>7 DEF StreamNext

\* The agent hangs up: the server's half stands, the agent's is void.
LEMMA HangUpWake ==
    ASSUME WakeInv, HangUp, UNCHANGED <<dbVars, streamVars>>
    PROVE  WakeInv'
  BY DEF WakeInv, Posted, HeardUp, HeardDialing, AskedIsWoken, HangUp, dbVars,
         streamVars, HasWork

\* The agent's task takes a step: the slot is emptied only with an Idle.
LEMMA RunStepWake ==
    ASSUME WakeInv, UNCHANGED <<dbVars, streamVars, wireVars, linkVars>>,
           task' = NoTask => idle' \/ (task = NoTask /\ idle' = idle)
    PROVE  WakeInv'
  <1>1. Posted'
    BY PostedFrame DEF NoNewWork, HasWork, dbVars, streamVars
  <1>2. UNCHANGED HeardVars
    BY DEF HeardVars, streamVars, wireVars, linkVars
  <1> QED
    BY <1>1, <1>2, HeardFrame DEF WakeInv

LEMMA LinkWake ==
    ASSUME Shape, WakeInv, LinkNext
    PROVE  WakeInv'
  <1>0. /\ down \in [Conns -> Seq(TaskOrNone)] /\ up \in [Conns -> Nat]
        /\ srv \in [Conns -> StreamStates]
        /\ link # "off" => conn \in Conns
    BY DEF Shape, WireType, StreamType, LinkInv, LinkType, LinkShape
  <1>1. CASE \E c \in Conns : Dial(c)
    <2> PICK c \in Conns : Dial(c)
      BY <1>1
    <2>1. link' = "dialing" /\ conn' = c /\ srv'[c] = "dialed" /\ srv[c] = "none"
             /\ \A d \in Conns \ {c} : srv'[d] = srv[d]
      BY <1>0 DEF Dial
    <2>2. UNCHANGED <<rows, owed, reg, current, token, asked>>
      BY DEF Dial, dbVars
    <2> QED
      BY <2>1, <2>2
      DEF WakeInv, Posted, HeardUp, HeardDialing, AskedIsWoken, HasWork, Serving
  <1>2. CASE Connected
    <2>1. link = "dialing" /\ link' = "up"
      BY <1>2 DEF Connected
    <2>2. UNCHANGED <<rows, owed, reg, srv, current, token, asked, down, up, conn>>
      BY <1>2 DEF Connected, dbVars, streamVars, wireVars
    <2>3. HeardUp' /\ HeardDialing'
      BY <2>1, <2>2 DEF WakeInv, HeardUp, HeardDialing, Serving, Named
    <2> QED
      BY <2>2, <2>3 DEF WakeInv, Posted, AskedIsWoken, HasWork
  <1>3. CASE CloseSeen
    BY <1>3, HangUpWake DEF CloseSeen, LinkOff
  <1>4. CASE SendIdle
    <2>1. link = "up" /\ link' = "up" /\ conn' = conn /\ up'[conn] = up[conn] + 1
             /\ up[conn] \in Nat
      BY <1>0, <1>4 DEF SendIdle, linkVars
    <2>2. UNCHANGED <<rows, owed, reg, srv, current, token, asked>>
      BY <1>4 DEF SendIdle, dbVars, streamVars
    <2>3. HeardUp' /\ HeardDialing'
      BY <2>1 DEF HeardUp, HeardDialing
    <2> QED
      BY <2>2, <2>3 DEF WakeInv, Posted, AskedIsWoken, HasWork
  <1>5. CASE RecvCurrent
    <2>1. link = "up" /\ conn \in Conns /\ down[conn] # <<>>
             /\ down'[conn] = Tail(down[conn]) /\ down[conn] \in Seq(TaskOrNone)
      BY <1>0, <1>5 DEF RecvCurrent
    <2>2. UNCHANGED <<rows, owed, reg, srv, current, token, asked, up, link, conn, idle>>
      BY <1>5 DEF RecvCurrent, dbVars, streamVars, linkVars
    <2>3. ASSUME task' = NoTask
          PROVE  task = NoTask /\ Head(down[conn]) = NoTask
      BY <1>5, <2>3 DEF RecvCurrent, Reconcile
    <2>4. task' = NoTask /\ Named(conn) => Named(conn)'
      BY <2>1, <2>2, <2>3, TailNamed DEF Named
    <2>5. HeardUp' /\ HeardDialing'
      BY <2>1, <2>2, <2>3, <2>4 DEF WakeInv, HeardUp, HeardDialing, Serving
    <2> QED
      BY <2>2, <2>5 DEF WakeInv, Posted, AskedIsWoken, HasWork
  <1> QED
    BY <1>1, <1>2, <1>3, <1>4, <1>5 DEF LinkNext

LEMMA UnansweredWake ==
    ASSUME Shape, WakeInv, NEW i \in Calls, await = i, Unanswered(i)
    PROVE  WakeInv'
  <1>1. phase \in {"prepare", "finish", "fail", "leaving"}
    BY DeliveryAssumption DEF Shape, CallInv, AwaitShape
  <1>2. CASE phase = "leaving"
    BY <1>2, HangUpWake DEF Unanswered, Boots
  <1>3. CASE phase # "leaving"
    <2>1. UNCHANGED <<dbVars, streamVars, wireVars, linkVars, task, idle>>
      BY <1>1, <1>3 DEF Unanswered, Enter, runVars
    <2> QED
      BY <2>1, RunStepWake
  <1> QED
    BY <1>2, <1>3

LEMMA RunWake ==
    ASSUME Shape, WakeInv, RunNext
    PROVE  WakeInv'
  <1>1. CASE Write \/ CancelTakesEffect \/ Countdown \/ \E i \in Calls : Issue(i)
    <2>1. UNCHANGED <<dbVars, streamVars, wireVars, linkVars>>
      BY <1>1 DEF Write, CancelTakesEffect, Countdown, Issue
    <2>2. task' = NoTask => idle' \/ (task = NoTask /\ idle' = idle)
      BY <1>1 DEF Write, CancelTakesEffect, Countdown, Issue, Enter, End, runVars
    <2> QED
      BY <2>1, <2>2, RunStepWake
  <1>2. CASE \E i \in Calls : Reply(i)
    <2> PICK i \in Calls : Reply(i)
      BY <1>2
    <2>1. phase \in {"prepare", "finish", "fail", "leaving"}
      BY DeliveryAssumption DEF Reply, Shape, CallInv, AwaitShape
    <2>2. CASE phase = "leaving"
      BY <2>2, HangUpWake DEF Reply, Answered, Boots
    <2>3. CASE phase # "leaving"
      <3>1. UNCHANGED <<wireVars, linkVars>>
        BY <2>1, <2>3 DEF Reply, Answered
      <3>2. task' = NoTask => idle' \/ (task = NoTask /\ idle' = idle)
        BY <2>1, <2>3 DEF Reply, Answered, Enter, End
      <3> QED
        BY <3>1, <3>2, RunStepWake DEF Reply
    <2> QED
      BY <2>2, <2>3
  <1>3. CASE \E i \in Calls : ServerGone(i)
    BY <1>3, UnansweredWake DEF ServerGone
  <1> QED
    BY <1>1, <1>2, <1>3 DEF RunNext

LEMMA HandlerWake ==
    ASSUME Shape, WakeInv, NEW i \in Calls, HandlerNext(i)
    PROVE  WakeInv'
  <1>0. rows \in Rows /\ (calls[i].kind \in CallKinds => calls[i].t \in Tasks)
    BY DEF Shape, DbInv, DbType, CallInv, CallType, CallRecords, FreeCall, CallKinds
  <1>1. CASE StartedLooks(i) \/ ReportLooks(i) \/ Abandoned(i)
    BY <1>1, RunStepWake DEF StartedLooks, ReportLooks, Abandoned, runVars
  <1>2. CASE StartedWrites(i) \/ ReportWrites(i)
    <2>1. calls[i].t \in Tasks
      BY <1>0, <1>2 DEF StartedWrites, ReportWrites, CallKinds
    <2>2. NoNewWork
      BY <1>0, <1>2, <2>1, OnlyUiMakesWork
      DEF StartedWrites, ReportWrites, NoNewWork, HasWork
    <2>3. UNCHANGED HeardVars /\ UNCHANGED <<owed, reg, token, task, idle>>
      BY <1>2 DEF StartedWrites, ReportWrites, HeardVars, streamVars, wireVars,
                  linkVars, runVars
    <2> QED
      BY <2>2, <2>3, PostedFrame, HeardFrame DEF WakeInv, HeardVars
  <1>3. CASE Deregisters(i)
    <2>1. reg' = None
      BY <1>3 DEF Deregisters
    <2>2. UNCHANGED HeardVars /\ UNCHANGED <<task, idle>>
      BY <1>3 DEF Deregisters, HeardVars, wireVars, linkVars, runVars
    <2> QED
      BY <2>1, <2>2, HeardFrame, DeliveryAssumption DEF WakeInv, Posted
  <1> QED
    BY <1>1, <1>2, <1>3 DEF HandlerNext

LEMMA FaultWake ==
    ASSUME Shape, WakeInv, FaultNext
    PROVE  WakeInv'
  <1>1. CASE \E c \in Conns : StreamFails(c)
    BY <1>1, StreamEndsWake DEF StreamFails
  <1>2. CASE LinkLost
    BY <1>2, HangUpWake DEF LinkLost, LinkOff
  <1>3. CASE \E i \in Calls : AnswerLost(i)
    BY <1>3, UnansweredWake DEF AnswerLost
  <1>4. CASE Crash
    BY <1>4, HangUpWake DEF Crash, Boots
  <1>5. CASE Restart
    <2>1. reg' = None /\ \A c \in Conns : srv'[c] \in {"none", "closed"} /\ ~asked'[c]
      BY <1>5 DEF Restart
    <2> QED
      BY <2>1, DeliveryAssumption
      DEF WakeInv, Posted, HeardUp, HeardDialing, AskedIsWoken, Serving
  <1> QED
    BY <1>1, <1>2, <1>3, <1>4, <1>5 DEF FaultNext

(***************************************************************************)
(* Without multicasts no wakeup is ever lost: when nothing is on its way   *)
(* between the server and an agent that has nothing to do, there is indeed *)
(* nothing for it to do, however often the connection broke, either side   *)
(* restarted and calls were cut off.                                       *)
(***************************************************************************)
THEOREM NoWakeupLost == ASSUME NoMulticasts PROVE Spec => []NoLostWakeup
  <1>1. Init => WakeInv
    BY DEF Init, WakeInv, Posted, HeardUp, HeardDialing, AskedIsWoken
  <1>2. Shape /\ WakeInv /\ [Next]_vars => WakeInv'
    <2> SUFFICES ASSUME Shape, WakeInv, [Next]_vars PROVE WakeInv'
      OBVIOUS
    <2>1. CASE UNCHANGED vars
      BY <2>1, RunStepWake DEF vars, agentVars, runVars
    <2> QED
      BY <2>1, UiWake, MgrWake, StreamWake, LinkWake, RunWake, HandlerWake,
         FaultWake DEF Next
  <1>3. Shape /\ WakeInv => NoLostWakeup
    <2> SUFFICES ASSUME Shape, WakeInv, Quiet, task = NoTask
                 PROVE  CurrentTask(rows) = NoTask
      BY DEF NoLostWakeup
    <2>1. conn \in Conns
      BY DEF Quiet, Shape, LinkInv, LinkType, LinkShape
    <2>2. ~Named(conn) /\ ~asked[conn]
      BY <2>1 DEF Quiet, Named, WakeInv, AskedIsWoken
    <2>3. current[conn] = NoTask
      BY <2>1, <2>2 DEF Quiet, WakeInv, HeardUp, Serving
    <2>4. ~HasWork
      BY <2>1, <2>3 DEF Quiet, WakeInv, Posted
    <2> QED
      BY <2>4, WorkIsFound DEF HasWork, Shape, DbInv, DbType
  <1> QED
    BY <1>1, <1>2, <1>3, ShapeInvariant, PTL DEF Spec

-----------------------------------------------------------------------------
(***************************************************************************)
(* The agent works on the task that is listed, or is told to stop.         *)
(*                                                                         *)
(* The argument has a half for each side again.  The agent's: what it      *)
(* works on is what its stream last sent, or it has been cancelled, or a   *)
(* message is on its way (Told).  The server's: from the check of started  *)
(* on, a task that the stream last sent is listed, or a dispatch is on its *)
(* way (Announced).  Besides UI requests, which are dispatched, only the   *)
(* agent's own report and a task that cannot be done settle rows: reports  *)
(* are awaited, so none is under way then (ReportsKept), and a task that   *)
(* cannot be done is never started (DoableOnly).                           *)
(***************************************************************************)
Listed(r, t) == /\ r[t] \in Active
                /\ t = CurrentTask(r) \/ r[CurrentTask(r)] = "running"

DoableOnly ==
    /\ mgr.pc = "idle"
    /\ task \notin Undoable
    /\ \A c \in Conns : \A k \in 1..Len(down[c]) : down[c][k] \notin Undoable
    /\ \A i \in Calls : calls[i].t \notin Undoable
    /\ \A t \in Undoable : rows[t] # "running"

ReportsKept == \A i \in Calls : calls[i].kind \in {"finished", "failed"} => i = await

LastSent(c) == IF down[c] # <<>> THEN down[c][Len(down[c])] = current[c]
               ELSE link = "up" /\ (task \in {NoTask, current[c]} \/ cancel)

Told == \A c \in Conns : conn = c /\ Serving(c) => LastSent(c)

\* the started call of the agent's task has passed its check
Checked == \/ phase = "write"
           \/ phase = "prepare" /\ await # None /\ calls[await].st \in {"read", "ok"}

Announced ==
    \A c \in Conns :
        reg = c /\ conn = c /\ srv[c] = "loop" /\ Checked /\ task = current[c]
            => Listed(rows, task) \/ owed > 0 \/ token[c]

\* Rows: only start makes a row running.
LEMMA OnlyStartRuns ==
    ASSUME NEW r \in Rows, NEW t \in Tasks, NEW u \in Tasks
    PROVE  /\ Create(r, t)[u] = "running" => r[u] = "running"
           /\ MarkFinished(r, t)[u] = "running" => r[u] = "running"
           /\ MarkFailed(r, t)[u] = "running" => r[u] = "running"
           /\ Cancel(r, t)[u] = "running" => r[u] = "running"
           /\ Retry(r, t)[u] = "running" => r[u] = "running"
           /\ FailOrphans(r)[u] = "running" => r[u] = "running"
           /\ Start(r, t)[u] = "running" => r[u] = "running" \/ t = u
  BY DEF Rows, Create, Start, MarkFinished, MarkFailed, Cancel, Retry, FailOrphans, IfActive

LEMMA DoableDb ==
    ASSUME NoMulticasts, Shape, DoableOnly, UiNext \/ Dispatch \/ MgrNext
    PROVE  DoableOnly'
  <1>0. rows \in Rows
    BY DEF Shape, DbInv, DbType
  <1>1. CASE MgrNext
    BY <1>1 DEF MgrNext, MgrTakes, MgrClaims, MgrWrites, MgrAnnounces, MgrEnds,
                MgrSettles, MgrFails, NextMulticast, NoMulticasts, DoableOnly
  <1>2. CASE UiNext \/ Dispatch
    <2>1. UNCHANGED <<mgr, task, down, calls>>
      BY <1>2 DEF UiNext, UiCreate, UiCheck, UiWrite, Dispatch, wireVars, agentVars,
                  runVars, callVars
    <2>2. \A u \in Tasks : rows'[u] = "running" => rows[u] = "running"
      <3>1. CASE \E t \in Tasks : UiCreate(t)
        BY <1>0, <3>1, OnlyStartRuns DEF UiCreate
      <3>2. CASE \E op \in UiOps, t \in Tasks : UiWrite(op, t)
        BY <1>0, <3>2, OnlyStartRuns DEF UiWrite, UiEffect, UiOps
      <3>3. CASE UNCHANGED rows
        BY <3>3
      <3> QED
        BY <1>2, <3>1, <3>2, <3>3 DEF UiNext, UiCheck, Dispatch
    <2> QED
      BY <2>1, <2>2, DeliveryAssumption DEF DoableOnly
  <1> QED
    BY <1>1, <1>2

\* Sequences: an element of Append or Tail is one of the sequence or the new one.
LEMMA AppendElements ==
    ASSUME NEW q \in Seq(TaskOrNone), NEW m \in TaskOrNone
    PROVE  /\ \A k \in 1..Len(Append(q, m)) :
                 Append(q, m)[k] = m \/ \E j \in 1..Len(q) : Append(q, m)[k] = q[j]
           /\ Append(q, m) # <<>>
           /\ Append(q, m)[Len(Append(q, m))] = m
  OBVIOUS

LEMMA TailElements ==
    ASSUME NEW q \in Seq(TaskOrNone), q # <<>>
    PROVE  /\ Tail(q) \in Seq(TaskOrNone)
           /\ \A k \in 1..Len(Tail(q)) : k + 1 \in 1..Len(q) /\ Tail(q)[k] = q[k + 1]
           /\ Tail(q) # <<>> => Tail(q)[Len(Tail(q))] = q[Len(q)]
           /\ Tail(q) = <<>> => Len(q) = 1
           /\ Head(q) = q[1] /\ 1 \in 1..Len(q)
  <1>1. Len(q) \in Nat \ {0} /\ Tail(q) \in Seq(TaskOrNone) /\ Len(Tail(q)) = Len(q) - 1
    OBVIOUS
  <1>2. \A k \in 1..Len(Tail(q)) : k + 1 \in 1..Len(q) /\ Tail(q)[k] = q[k + 1]
    BY <1>1
  <1>3. ASSUME Tail(q) # <<>> PROVE Tail(q)[Len(Tail(q))] = q[Len(q)]
    <2>1. Len(Tail(q)) \in 1..Len(Tail(q))
      BY <1>1, <1>3
    <2> QED
      BY <1>1, <1>2, <2>1
  <1>4. ASSUME Tail(q) = <<>> PROVE Len(q) = 1
    <2>1. Len(<<>>) = 0
      OBVIOUS
    <2>2. Len(q) - 1 = 0
      BY <1>1, <1>4, <2>1, Zenon
    <2>3. \A n \in Nat \ {0} : n - 1 = 0 => n = 1
      OBVIOUS
    <2> QED
      BY <1>1, <2>2, <2>3, Zenon
  <1> QED
    BY <1>1, <1>2, <1>3, <1>4

LEMMA DoableStream ==
    ASSUME Shape, DoableOnly, NEW c \in Conns, StreamNext(c) \/ StreamFails(c)
    PROVE  DoableOnly'
  <1>0. /\ rows \in Rows /\ CurrentTask(rows) \in TaskOrNone
        /\ down \in [Conns -> Seq(TaskOrNone)]
    BY CurrentTaskType DEF Shape, DbInv, DbType, WireType
  <1>1. UNCHANGED <<mgr, task, calls>>
    BY DEF StreamNext, Accept, FailUndoable, Greet, RecvIdle, RecvDispatch, Respond,
           StreamBreaks, StreamFails, StreamEnds, dbVars, agentVars, runVars, callVars
  <1>2. CASE FailUndoable(c)
    <2>1. \A u \in Tasks : rows'[u] = "running" => rows[u] = "running"
      BY <1>0, <1>2, OnlyStartRuns, DeliveryAssumption DEF FailUndoable
    <2>2. UNCHANGED down
      BY <1>2 DEF FailUndoable, wireVars
    <2> QED
      BY <1>1, <2>1, <2>2, DeliveryAssumption DEF DoableOnly
  <1>3. CASE Greet(c) \/ Respond(c)
    <2>1. UNCHANGED rows /\ CurrentTask(rows) \notin Undoable
      BY <1>3 DEF Greet, Respond, dbVars
    <2>2. down' = down \/ down' = [down EXCEPT ![c] = Append(@, CurrentTask(rows))]
      BY <1>3 DEF Greet, Respond, Send
    <2>3. \A d \in Conns : \A k \in 1..Len(down'[d]) : down'[d][k] \notin Undoable
      <3> SUFFICES ASSUME NEW d \in Conns, NEW k \in 1..Len(down'[d])
                   PROVE  down'[d][k] \notin Undoable
        OBVIOUS
      <3>1. CASE down'[d] = down[d]
        BY <3>1 DEF DoableOnly
      <3>2. CASE down'[d] = Append(down[d], CurrentTask(rows))
        BY <1>0, <2>1, <3>2, AppendElements DEF DoableOnly
      <3> QED
        BY <1>0, <2>2, <3>1, <3>2
    <2> QED
      BY <1>1, <2>1, <2>3 DEF DoableOnly
  <1>4. CASE UNCHANGED <<rows, down>>
    BY <1>1, <1>4 DEF DoableOnly
  <1> QED
    BY <1>2, <1>3, <1>4
    DEF StreamNext, Accept, RecvIdle, RecvDispatch, StreamBreaks, StreamFails,
        StreamEnds, dbVars, wireVars

LEMMA DoableHangUp ==
    ASSUME Shape, DoableOnly, HangUp, UNCHANGED dbVars, task' \in {task, NoTask},
           \A i \in Calls : calls'[i] \in {calls[i], FreeCall}
    PROVE  DoableOnly'
  <1>0. down \in [Conns -> Seq(TaskOrNone)]
    BY DEF Shape, WireType
  <1>1. \A d \in Conns : down'[d] = down[d] \/ down'[d] = <<>>
    BY <1>0 DEF HangUp
  <1>2. \A d \in Conns : \A k \in 1..Len(down'[d]) : down'[d][k] \notin Undoable
    BY <1>1 DEF DoableOnly
  <1> QED
    BY <1>2, DeliveryAssumption, NoTaskAssumption DEF DoableOnly, dbVars, FreeCall

LEMMA DoableAgent ==
    ASSUME Shape, DoableOnly, LinkNext \/ RunNext \/ FaultNext,
           ~ \E c \in Conns : StreamFails(c)
    PROVE  DoableOnly'
  <1>0. /\ down \in [Conns -> Seq(TaskOrNone)] /\ calls \in [Calls -> CallRecords]
        /\ link # "off" => conn \in Conns
        /\ NoTask \notin Undoable /\ FreeCall.t \notin Undoable
    BY DeliveryAssumption, NoTaskAssumption
    DEF Shape, WireType, CallInv, CallType, LinkInv, LinkType, LinkShape, FreeCall
  <1>1. CASE RecvCurrent
    <2>1. UNCHANGED <<rows, mgr, calls>>
      BY <1>1 DEF RecvCurrent, dbVars, callVars
    <2>2. conn \in Conns /\ down[conn] # <<>> /\ down' = [down EXCEPT ![conn] = Tail(@)]
            /\ task' \in {task, Head(down[conn])}
      BY <1>0, <1>1 DEF RecvCurrent, Reconcile
    <2>3. down[conn] \in Seq(TaskOrNone)
      BY <1>0, <2>2
    <2>4. Head(down[conn]) \notin Undoable
      BY <2>2, <2>3, TailElements DEF DoableOnly
    <2>5. \A d \in Conns : \A k \in 1..Len(down'[d]) : down'[d][k] \notin Undoable
      BY <1>0, <2>2, <2>3, TailElements DEF DoableOnly
    <2> QED
      BY <2>1, <2>2, <2>4, <2>5 DEF DoableOnly
  <1>2. CASE \/ \E c \in Conns : Dial(c)
             \/ Connected \/ SendIdle \/ Write \/ CancelTakesEffect \/ Countdown
    <2>1. UNCHANGED <<rows, mgr, calls, down>> /\ task' \in {task, NoTask}
      BY <1>2 DEF Dial, Connected, SendIdle, Write, CancelTakesEffect, Countdown,
                  Enter, End, dbVars, wireVars, runVars, callVars
    <2> QED
      BY <1>0, <2>1 DEF DoableOnly
  <1>3. CASE \E i \in Calls : Issue(i)
    <2>1. UNCHANGED <<rows, mgr, task, down>>
      BY <1>3 DEF Issue, dbVars, wireVars, runVars
    <2>2. \A i \in Calls : calls'[i].t \in {calls[i].t, task}
      BY <1>0, <1>3 DEF Issue
    <2> QED
      BY <2>1, <2>2 DEF DoableOnly
  <1>4. CASE \/ \E i \in Calls : Reply(i) \/ ServerGone(i) \/ AnswerLost(i)
             \/ Crash \/ CloseSeen \/ LinkLost
    <2>1. /\ UNCHANGED dbVars /\ task' \in {task, NoTask}
          /\ \A i \in Calls : calls'[i] \in {calls[i], FreeCall}
          /\ HangUp \/ UNCHANGED wireVars
      <3>1. CASE \E i \in Calls : Reply(i) \/ ServerGone(i) \/ AnswerLost(i)
        <4> PICK i \in Calls : Reply(i) \/ ServerGone(i) \/ AnswerLost(i)
          BY <3>1
        <4>1. phase \in {"prepare", "finish", "fail", "leaving"}
          BY DeliveryAssumption DEF Reply, ServerGone, AnswerLost, Shape, CallInv, AwaitShape
        <4>2. calls' = FreeSlot(i) /\ UNCHANGED dbVars
          BY DEF Reply, ServerGone, AnswerLost, Unanswered
        <4>3. \A j \in Calls : calls'[j] \in {calls[j], FreeCall}
          BY <1>0, <4>2 DEF FreeSlot
        <4>4. task' \in {task, NoTask} /\ (HangUp \/ UNCHANGED wireVars)
          BY <4>1 DEF Reply, ServerGone, AnswerLost, Unanswered, Answered, Enter, End,
                      Boots, runVars
        <4> QED
          BY <4>2, <4>3, <4>4
      <3>2. CASE Crash \/ CloseSeen \/ LinkLost
        BY <1>0, <3>2 DEF Crash, Boots, CloseSeen, LinkLost, LinkOff, runVars, callVars
      <3> QED
        BY <1>4, <3>1, <3>2
    <2>2. CASE HangUp
      BY <2>1, <2>2, DoableHangUp
    <2>3. CASE UNCHANGED wireVars
      BY <1>0, <2>1, <2>3 DEF DoableOnly, dbVars, wireVars
    <2> QED
      BY <2>1, <2>2, <2>3
  <1>5. CASE Restart
    <2>1. \A t \in Tasks : rows'[t] = "running" => rows[t] = "running"
      BY <1>5, OnlyStartRuns DEF Restart, Shape, DbInv, DbType
    <2>2. \A i \in Calls : calls'[i].t \in {calls[i].t, FreeCall.t}
      BY <1>0, <1>5 DEF Restart, CallRecords, FreeCall
    <2> QED
      BY <1>0, <1>5, <2>1, <2>2, DeliveryAssumption
      DEF Restart, DoableOnly, MgrIdle, wireVars, runVars
  <1> QED
    BY <1>1, <1>2, <1>3, <1>4, <1>5 DEF LinkNext, RunNext, FaultNext

LEMMA DoableHandler ==
    ASSUME Shape, DoableOnly, NEW i \in Calls, HandlerNext(i)
    PROVE  DoableOnly'
  <1>0. rows \in Rows /\ calls \in [Calls -> CallRecords]
    BY DEF Shape, DbInv, DbType, CallInv, CallType
  <1>1. UNCHANGED <<mgr, task, down>>
    BY DEF HandlerNext, StartedLooks, StartedWrites, ReportLooks, ReportWrites,
           Deregisters, Abandoned, dbVars, wireVars, runVars
  <1>2. \A j \in Calls : calls'[j].t \in {calls[j].t, FreeCall.t}
    BY <1>0 DEF HandlerNext, StartedLooks, StartedWrites, ReportLooks, ReportWrites,
                Deregisters, Abandoned, Proceed, FreeSlot, CallRecords, FreeCall
  <1>3. \A u \in Undoable : rows'[u] # "running"
    <2>1. CASE StartedWrites(i) \/ ReportWrites(i)
      <3>1. calls[i].t \in Tasks
        BY <1>0, <2>1 DEF StartedWrites, ReportWrites, CallRecords, FreeCall, CallKinds
      <3> QED
        BY <1>0, <2>1, <3>1, OnlyStartRuns, DeliveryAssumption
        DEF StartedWrites, ReportWrites, DoableOnly
    <2>2. CASE UNCHANGED rows
      BY <2>2 DEF DoableOnly
    <2> QED
      BY <2>1, <2>2 DEF HandlerNext, StartedLooks, ReportLooks, Deregisters, Abandoned, dbVars
  <1> QED
    BY <1>1, <1>2, <1>3, DeliveryAssumption, NoTaskAssumption DEF DoableOnly, FreeCall

-----------------------------------------------------------------------------
(* A report is always the one the agent waits for.                         *)

LEMMA ReportsKeptStep ==
    ASSUME Shape, ReportsKept, [Next]_vars
    PROVE  ReportsKept'
  <1>0. /\ calls \in [Calls -> CallRecords] /\ await \in Calls \cup {None}
        /\ None \notin Calls
        /\ await # None => /\ phase \in {"prepare", "finish", "fail", "leaving"}
                           /\ calls[await].kind = CallOf(phase)
    BY DeliveryAssumption DEF Shape, CallInv, CallType, AwaitShape
  <1>1. CASE UNCHANGED callVars
    BY <1>1 DEF ReportsKept, callVars
  <1>2. CASE \E i \in Calls : Issue(i)
    <2> PICK i \in Calls : Issue(i)
      BY <1>2
    <2>1. await = None /\ await' = i /\ \A j \in Calls \ {i} : calls'[j] = calls[j]
      BY <1>0 DEF Issue
    <2> QED
      BY <1>0, <2>1 DEF ReportsKept
  <1>3. CASE \E i \in Calls : Reply(i) \/ ServerGone(i) \/ AnswerLost(i)
    <2> PICK i \in Calls : Reply(i) \/ ServerGone(i) \/ AnswerLost(i)
      BY <1>3
    <2>1. await = i /\ calls' = FreeSlot(i)
      BY DEF Reply, ServerGone, AnswerLost, Unanswered
    <2>2. calls'[i].kind = "none" /\ \A j \in Calls \ {i} : calls'[j] = calls[j]
      BY <1>0, <2>1 DEF FreeSlot, FreeCall
    <2> QED
      BY <2>1, <2>2 DEF ReportsKept
  <1>4. CASE CancelTakesEffect
    <2>1. calls' = calls /\ phase \in {"prepare", "write"}
      BY <1>4 DEF CancelTakesEffect
    <2>2. \A i \in Calls : calls[i].kind \notin {"finished", "failed"}
      BY <1>0, <2>1 DEF ReportsKept, CallOf
    <2> QED
      BY <2>1, <2>2 DEF ReportsKept
  <1>5. CASE Crash
    BY <1>5 DEF Crash, ReportsKept, FreeCall
  <1>6. CASE Restart
    BY <1>0, <1>6 DEF Restart, ReportsKept, FreeCall, CallRecords
  <1>7. CASE \E i \in Calls : HandlerNext(i)
    <2> PICK i \in Calls : HandlerNext(i)
      BY <1>7
    <2>1. await' = await
      BY DEF HandlerNext, StartedLooks, StartedWrites, ReportLooks, ReportWrites,
             Deregisters, Abandoned
    <2>2. \A j \in Calls : calls'[j].kind \in {calls[j].kind, "none"}
      BY <1>0 DEF HandlerNext, StartedLooks, StartedWrites, ReportLooks, ReportWrites,
             Deregisters, Abandoned, Proceed, FreeSlot, CallRecords, FreeCall
    <2> QED
      BY <2>1, <2>2 DEF ReportsKept
  <1>8. CASE UiNext \/ Dispatch \/ MgrNext \/ LinkNext \/ LinkLost \/ UNCHANGED vars
             \/ \E c \in Conns : StreamNext(c) \/ StreamFails(c)
    <2>1. UNCHANGED callVars
      BY <1>8 DEF UiNext, UiCreate, UiCheck, UiWrite, Dispatch, MgrNext, MgrTakes,
             MgrClaims, MgrWrites, MgrAnnounces, MgrEnds, MgrSettles, MgrFails,
             LinkNext, Dial, Connected, CloseSeen, LinkLost, LinkOff, SendIdle,
             RecvCurrent, StreamNext, Accept, FailUndoable, Greet, RecvIdle,
             RecvDispatch, Respond, StreamBreaks, StreamFails, StreamEnds, vars, agentVars
    <2> QED
      BY <1>1, <2>1
  <1>9. CASE Write \/ Countdown
    BY <1>1, <1>9 DEF Write, Countdown
  <1> QED
    BY <1>2, <1>3, <1>4, <1>5, <1>6, <1>7, <1>8, <1>9 DEF Next, RunNext, FaultNext

-----------------------------------------------------------------------------
(* The agent's half.                                                       *)

\* The agent's run goes on, or ends and empties its slot.
LEMMA ToldFrame ==
    ASSUME Told, UNCHANGED <<srv, current, down, link, conn>>,
           task' = NoTask \/ UNCHANGED <<task, cancel>>
    PROVE  Told'
  BY DEF Told, LastSent, Serving

LEMMA ToldHangUp ==
    ASSUME HangUp
    PROVE  Told'
  BY DeliveryAssumption DEF HangUp, Told

LEMMA ToldDb ==
    ASSUME Told, \/ UiNext \/ Dispatch \/ MgrNext
                 \/ \E i \in Calls : HandlerNext(i)
    PROVE  Told'
  <1>1. UNCHANGED <<srv, current, down, link, conn, task, cancel>>
    BY DEF UiNext, UiCreate, UiCheck, UiWrite, Dispatch, MgrNext, MgrTakes, MgrClaims,
           MgrWrites, MgrAnnounces, MgrEnds, MgrSettles, MgrFails, HandlerNext,
           StartedLooks, StartedWrites, ReportLooks, ReportWrites, Deregisters,
           Abandoned, streamVars, wireVars, agentVars, linkVars, runVars
  <1> QED
    BY <1>1, ToldFrame

LEMMA ToldStream ==
    ASSUME Shape, Told, NEW c \in Conns, StreamNext(c) \/ StreamFails(c)
    PROVE  Told'
  <1>0. /\ down \in [Conns -> Seq(TaskOrNone)] /\ srv \in [Conns -> StreamStates]
        /\ current \in [Conns -> TaskOrNone] /\ CurrentTask(rows) \in TaskOrNone
    BY CurrentTaskType DEF Shape, DbInv, DbType, WireType, StreamType
  <1>1. UNCHANGED <<link, conn, task, cancel>>
    BY DEF StreamNext, Accept, FailUndoable, Greet, RecvIdle, RecvDispatch, Respond,
           StreamBreaks, StreamFails, StreamEnds, agentVars, linkVars, runVars
  <1>2. /\ \A d \in Conns \ {c} : srv'[d] = srv[d] /\ current'[d] = current[d]
                                    /\ down'[d] = down[d]
    BY <1>0 DEF StreamNext, Accept, FailUndoable, Greet, RecvIdle, RecvDispatch, Respond,
           StreamBreaks, StreamFails, StreamEnds, Send, streamVars, wireVars
  <1>3. CASE Accept(c) \/ StreamBreaks(c) \/ StreamFails(c)
    <2>1. srv'[c] \in {"registered", "closed"}
      BY <1>0, <1>3 DEF Accept, StreamBreaks, StreamFails, StreamEnds
    <2> QED
      BY <1>1, <1>2, <2>1 DEF Told, LastSent, Serving
  <1>4. CASE FailUndoable(c) \/ RecvIdle(c) \/ RecvDispatch(c)
    <2>1. /\ UNCHANGED <<current, down>>
          /\ srv'[c] \in {"loop", "woken"} => srv[c] \in {"loop", "woken"}
      BY <1>0, <1>4 DEF FailUndoable, RecvIdle, RecvDispatch, streamVars, wireVars
    <2> QED
      BY <1>1, <1>2, <2>1 DEF Told, LastSent, Serving
  <1>5. CASE Greet(c) \/ (Respond(c) /\ MustSend(c))
    <2>1. /\ current'[c] = CurrentTask(rows)
          /\ conn = c => down'[c] = Append(down[c], CurrentTask(rows))
      BY <1>0, <1>5 DEF Greet, Respond, Send
    <2>2. conn = c => LastSent(c)'
      BY <1>0, <2>1, AppendElements DEF LastSent
    <2> QED
      BY <1>1, <1>2, <2>2 DEF Told, LastSent, Serving
  <1>6. CASE Respond(c) /\ ~MustSend(c)
    <2>1. srv[c] = "woken" /\ current'[c] = current[c] /\ UNCHANGED down
      BY <1>0, <1>6 DEF Respond, MustSend
    <2> QED
      BY <1>1, <1>2, <2>1 DEF Told, LastSent, Serving
  <1> QED
    BY <1>3, <1>4, <1>5, <1>6 DEF StreamNext

LEMMA ToldAgent ==
    ASSUME Shape, Told, LinkNext \/ RunNext \/ FaultNext,
           ~ \E c \in Conns : StreamFails(c)
    PROVE  Told'
  <1>0. /\ down \in [Conns -> Seq(TaskOrNone)] /\ srv \in [Conns -> StreamStates]
        /\ link # "off" => conn \in Conns
    BY DEF Shape, WireType, StreamType, LinkInv, LinkType, LinkShape
  <1>1. CASE \E c \in Conns : Dial(c)
    BY <1>0, <1>1 DEF Dial, Told, Serving
  <1>2. CASE Connected
    BY <1>2 DEF Connected, Told, LastSent, Serving, streamVars, wireVars
  <1>3. CASE SendIdle \/ Write \/ CancelTakesEffect \/ Countdown \/ \E i \in Calls : Issue(i)
    <2>1. UNCHANGED <<srv, current, down, link, conn>>
      BY <1>3 DEF SendIdle, Write, CancelTakesEffect, Countdown, Issue, streamVars,
                  wireVars, linkVars
    <2>2. task' = NoTask \/ UNCHANGED <<task, cancel>>
      BY <1>3 DEF SendIdle, Write, CancelTakesEffect, Countdown, Issue, Enter, End, runVars
    <2> QED
      BY <2>1, <2>2, ToldFrame
  <1>4. CASE CloseSeen \/ LinkLost \/ Crash
    BY <1>4, ToldHangUp DEF CloseSeen, LinkLost, LinkOff, Crash, Boots
  <1>5. CASE \E i \in Calls : Reply(i) \/ ServerGone(i) \/ AnswerLost(i)
    <2> PICK i \in Calls : Reply(i) \/ ServerGone(i) \/ AnswerLost(i)
      BY <1>5
    <2>1. phase \in {"prepare", "finish", "fail", "leaving"}
      BY DeliveryAssumption DEF Reply, ServerGone, AnswerLost, Shape, CallInv, AwaitShape
    <2>2. HangUp \/ UNCHANGED <<wireVars, linkVars>>
      BY <2>1 DEF Reply, ServerGone, AnswerLost, Unanswered, Answered, Boots
    <2>3. task' = NoTask \/ UNCHANGED <<task, cancel>>
      BY <2>1 DEF Reply, ServerGone, AnswerLost, Unanswered, Answered, Boots, Enter, End, runVars
    <2>4. UNCHANGED <<srv, current>>
      BY DEF Reply, ServerGone, AnswerLost, Unanswered, streamVars
    <2> QED
      BY <2>2, <2>3, <2>4, ToldFrame, ToldHangUp DEF wireVars, linkVars
  <1>6. CASE RecvCurrent
    <2>1. UNCHANGED <<srv, current, link, conn>> /\ link = "up"
      BY <1>6 DEF RecvCurrent, streamVars, linkVars
    <2>2. conn \in Conns /\ down[conn] # <<>> /\ down'[conn] = Tail(down[conn])
            /\ Reconcile(Head(down[conn]))
      BY <1>0, <1>6 DEF RecvCurrent
    <2>3. down[conn] \in Seq(TaskOrNone)
      BY <1>0, <2>2
    <2> SUFFICES ASSUME Serving(conn) PROVE LastSent(conn)'
      BY <2>1 DEF Told, Serving
    <2>4. down[conn][Len(down[conn])] = current[conn]
      BY <2>2 DEF Told, LastSent
    <2>5. CASE Tail(down[conn]) # <<>>
      BY <2>1, <2>2, <2>3, <2>4, <2>5, TailElements DEF LastSent
    <2>6. CASE Tail(down[conn]) = <<>>
      <3>1. Head(down[conn]) = current[conn]
        BY <2>2, <2>3, <2>4, <2>6, TailElements
      <3>2. task' \in {NoTask, current[conn]} \/ cancel'
        BY <2>2, <3>1 DEF Reconcile
      <3> QED
        BY <2>1, <2>2, <2>6, <3>2 DEF LastSent
    <2> QED
      BY <2>5, <2>6
  <1>7. CASE Restart
    BY <1>7 DEF Restart, Told, Serving
  <1> QED
    BY <1>1, <1>2, <1>3, <1>4, <1>5, <1>6, <1>7 DEF LinkNext, RunNext, FaultNext

-----------------------------------------------------------------------------
(* The server's half.                                                      *)

\* What is active and what get_next finds: a running row if there is one.
LEMMA RunningIsFound ==
    ASSUME NoMulticasts, NEW r \in Rows, NEW t \in Tasks, r[t] \in Active
    PROVE  /\ CurrentTask(r) = GetNext(r) /\ CurrentTask(r) \in Tasks
           /\ r[t] = "running" => r[CurrentTask(r)] = "running"
  <1>1. CurrentTask(r) # NoTask
    BY WorkIsFound
  <1>2. CurrentTask(r) = GetNext(r) /\ CurrentTask(r) \in Tasks
    BY <1>1, CurrentTaskType DEF CurrentTask
  <1>3. IsNext(r, CurrentTask(r))
    BY <1>1, <1>2, NoTaskAssumption DEF GetNext
  <1> QED
    BY <1>2, <1>3 DEF IsNext, GetsAhead, Active

LEMMA NextIsListed ==
    ASSUME NoMulticasts, NEW r \in Rows, NEW t \in Tasks,
           GetNext(r) = t \/ CurrentTask(r) = t
    PROVE  Listed(r, t)
  <1>1. GetNext(r) = t
    BY NoTaskAssumption DEF CurrentTask
  <1>2. r[t] \in Active
    BY <1>1, GetNextType, NoTaskAssumption
  <1> QED
    BY <1>1, <1>2, RunningIsFound DEF Listed

LEMMA StartKeepsListed ==
    ASSUME NoMulticasts, NEW r \in Rows, NEW t \in Tasks, NEW u \in Tasks, Listed(r, t)
    PROVE  Listed(Start(r, u), t)
  <1>1. CASE r[u] \notin Active
    BY <1>1 DEF Start, IfActive
  <1>2. CASE r[u] \in Active
    <2>1. Start(r, u) \in Rows
      BY RowsType
    <2>2. Start(r, u)[u] = "running" /\ Start(r, u)[t] \in Active
      BY <1>2 DEF Start, IfActive, Rows, Active, Listed
    <2> QED
      BY <2>1, <2>2, RunningIsFound DEF Listed, Active
  <1> QED
    BY <1>1, <1>2

\* Steps that keep what is listed, and neither take a dispatch nor pass a check.
LEMMA AnnouncedFrame ==
    ASSUME Announced,
           Listed(rows, task) => Listed(rows', task) \/ owed' > 0,
           owed > 0 => owed' > 0, UNCHANGED <<reg, srv, current, token, conn>>,
           Checked' => Checked /\ task' = task
    PROVE  Announced'
  BY DEF Announced

LEMMA AnnouncedDb ==
    ASSUME NoMulticasts, Shape, DoableOnly, Announced, UiNext \/ Dispatch \/ MgrNext
    PROVE  Announced'
  <1>1. CASE MgrNext
    BY <1>1 DEF MgrNext, MgrTakes, MgrClaims, MgrWrites, MgrAnnounces, MgrEnds,
                MgrSettles, MgrFails, NextMulticast, NoMulticasts, DoableOnly
  <1>2. CASE UiNext
    <2>1. UNCHANGED <<reg, srv, current, token, conn, task, phase, await, calls>>
      BY <1>2 DEF UiNext, UiCreate, UiCheck, UiWrite, streamVars, agentVars, linkVars,
                  runVars, callVars
    <2>2. owed \in Nat
      BY DEF Shape, DbInv, DbType
    <2>3. owed' > 0 \/ (rows' = rows /\ owed' = owed)
      <3>1. CASE \/ \E t \in Tasks : UiCreate(t)
                 \/ \E op \in UiOps, t \in Tasks : UiWrite(op, t)
        <4>1. owed' = owed + 1
          BY <3>1 DEF UiCreate, UiWrite, NoMulticasts
        <4> QED
          BY <2>2, <4>1
      <3>2. CASE \E op \in UiOps, t \in Tasks : UiCheck(op, t)
        BY <3>2 DEF UiCheck
      <3> QED
        BY <1>2, <3>1, <3>2 DEF UiNext
    <2>4. owed > 0 => owed' > 0
      BY <2>3
    <2>5. Checked' => Checked
      BY <2>1 DEF Checked
    <2> QED
      BY <2>1, <2>3, <2>4, <2>5, AnnouncedFrame
  <1>3. CASE Dispatch
    <2>1. UNCHANGED <<rows, reg, srv, current, conn, task, phase, await, calls>>
      BY <1>3 DEF Dispatch, agentVars, linkVars, runVars, callVars
    <2>2. token \in [Conns -> BOOLEAN]
      BY DEF Shape, StreamType
    <2>3. \A c \in Conns : reg = c => token'[c]
      BY <1>3, <2>2 DEF Dispatch, Dispatched
    <2> QED
      BY <2>1, <2>3 DEF Announced, Checked
  <1> QED
    BY <1>1, <1>2, <1>3

LEMMA AnnouncedStream ==
    ASSUME NoMulticasts, Shape, DoableOnly, Announced, NEW c \in Conns,
           StreamNext(c) \/ StreamFails(c)
    PROVE  Announced'
  <1>0. /\ rows \in Rows /\ srv \in [Conns -> StreamStates]
        /\ current \in [Conns -> TaskOrNone] /\ token \in [Conns -> BOOLEAN]
        /\ None \notin Conns
    BY DeliveryAssumption DEF Shape, DbInv, DbType, StreamType
  <1>1. UNCHANGED <<owed, conn, task, phase, await, calls>>
    BY DEF StreamNext, Accept, FailUndoable, Greet, RecvIdle, RecvDispatch, Respond,
           StreamBreaks, StreamFails, StreamEnds, dbVars, agentVars, linkVars, runVars,
           callVars
  <1>2. Checked' = Checked
    BY <1>1 DEF Checked
  <1>3. CASE Accept(c) \/ StreamBreaks(c) \/ StreamFails(c) \/ RecvIdle(c) \/ RecvDispatch(c)
    <2>1. /\ UNCHANGED rows /\ srv'[c] # "loop"
          /\ \A d \in Conns \ {c} : /\ srv'[d] = srv[d] /\ current'[d] = current[d]
                                    /\ token'[d] = token[d] /\ (reg' = d => reg = d)
      BY <1>0, <1>3 DEF Accept, StreamBreaks, StreamFails, StreamEnds, Cleanup, RecvIdle,
                        RecvDispatch, dbVars
    <2> QED
      BY <1>1, <1>2, <2>1 DEF Announced
  <1>4. CASE FailUndoable(c)
    <2>1. UNCHANGED <<reg, srv, current, token>>
      BY <1>4 DEF FailUndoable, streamVars
    <2>2. ~Listed(rows, task)
      BY <1>4 DEF FailUndoable, DoableOnly, Listed
    <2> QED
      BY <1>1, <1>2, <2>1, <2>2 DEF Announced
  <1>5. CASE Greet(c) \/ Respond(c)
    <2>1. /\ UNCHANGED <<rows, reg, token>> /\ current'[c] = CurrentTask(rows)
          /\ \A d \in Conns \ {c} : srv'[d] = srv[d] /\ current'[d] = current[d]
      BY <1>0, <1>5 DEF Greet, Respond, dbVars
    <2>2. ASSUME Checked, task = CurrentTask(rows)
          PROVE  Listed(rows, task)
      <3>1. task \in Tasks
        BY <2>2, CurrentTaskType, <1>0
        DEF Checked, Shape, RunInv, RunShape
      <3> QED
        BY <1>0, <2>2, <3>1, NextIsListed
    <2> QED
      BY <1>1, <1>2, <2>1, <2>2 DEF Announced
  <1> QED
    BY <1>3, <1>4, <1>5 DEF StreamNext

\* The agent leaves its connection.
LEMMA AnnouncedOff ==
    ASSUME conn' = None
    PROVE  Announced'
  BY DeliveryAssumption DEF Announced

LEMMA AnnouncedAgent ==
    ASSUME Shape, Announced, LinkNext \/ RunNext \/ FaultNext,
           ~ \E c \in Conns : StreamFails(c)
    PROVE  Announced'
  <1>0. /\ srv \in [Conns -> StreamStates] /\ calls \in [Calls -> CallRecords]
        /\ None \notin Calls
        /\ await # None => /\ phase \in {"prepare", "finish", "fail", "leaving"}
                           /\ await \in Calls
    BY DeliveryAssumption DEF Shape, StreamType, CallInv, CallType, AwaitShape
  <1>1. CASE \E c \in Conns : Dial(c)
    BY <1>0, <1>1 DEF Dial, Announced
  <1>2. CASE CloseSeen \/ LinkLost \/ Crash
    BY <1>2, AnnouncedOff DEF CloseSeen, LinkLost, LinkOff, Crash, Boots, HangUp
  <1>3. CASE Restart
    BY <1>3, DeliveryAssumption DEF Restart, Announced
  <1>4. CASE \/ Connected \/ SendIdle \/ RecvCurrent \/ RunNext
             \/ \E i \in Calls : AnswerLost(i)
    <2>1. UNCHANGED <<rows, owed, reg, srv, current, token>>
      BY <1>4 DEF Connected, SendIdle, RecvCurrent, RunNext, Write, CancelTakesEffect,
                  Countdown, Issue, Reply, ServerGone, AnswerLost, Unanswered, dbVars,
                  streamVars
    <2>2. (Checked' => Checked /\ task' = task) /\ conn' \in {conn, None}
      <3>1. CASE Connected \/ SendIdle
        BY <3>1 DEF Connected, SendIdle, linkVars, callVars, Checked
      <3>2. CASE RecvCurrent
        <4>1. UNCHANGED <<conn, await, calls>>
          BY <3>2 DEF RecvCurrent, linkVars, callVars
        <4>2. CASE UNCHANGED <<task, phase>>
          BY <4>1, <4>2 DEF Checked
        <4>3. CASE task = NoTask /\ phase' \in {"prepare", "finish"}
          <5>1. await = None
            BY <1>0, <4>3 DEF Shape, RunInv, RunShape
          <5> QED
            BY <4>1, <4>3, <5>1 DEF Checked
        <4> QED
          BY <3>2, <4>2, <4>3 DEF RecvCurrent, Reconcile, FirstPhase
      <3>3. CASE Write \/ CancelTakesEffect \/ Countdown
        <4>1. phase' \notin {"prepare", "write"} /\ conn' = conn
          BY <3>3 DEF Write, CancelTakesEffect, Countdown, Enter, End, linkVars
        <4> QED
          BY <4>1 DEF Checked
      <3>4. CASE \E i \in Calls : Issue(i)
        BY <1>0, <3>4 DEF Issue, Checked, linkVars, runVars
      <3>5. CASE \E i \in Calls : Reply(i)
        <4> PICK i \in Calls : Reply(i)
          BY <3>5
        <4>1. await = i /\ await' = None /\ phase \in {"prepare", "finish", "fail", "leaving"}
          BY <1>0 DEF Reply
        <4>2. CASE phase = "prepare" /\ calls[i].st = "ok"
          BY <1>0, <4>1, <4>2 DEF Reply, Answered, Enter, Checked, linkVars
        <4>3. CASE ~(phase = "prepare" /\ calls[i].st = "ok")
          <5>1. phase' # "write" /\ conn' \in {conn, None}
            BY <4>1, <4>3 DEF Reply, Answered, Enter, End, Boots, HangUp, linkVars
          <5> QED
            BY <4>1, <5>1 DEF Checked
        <4> QED
          BY <4>2, <4>3
      <3>6. CASE \E i \in Calls : ServerGone(i) \/ AnswerLost(i)
        <4> PICK i \in Calls : ServerGone(i) \/ AnswerLost(i)
          BY <3>6
        <4>1. await = i /\ await' = None /\ phase \in {"prepare", "finish", "fail", "leaving"}
          BY <1>0 DEF ServerGone, AnswerLost, Unanswered
        <4>2. phase' # "write" /\ conn' \in {conn, None}
          BY <4>1 DEF ServerGone, AnswerLost, Unanswered, Enter, Boots, HangUp, linkVars, runVars
        <4> QED
          BY <4>1, <4>2 DEF Checked
      <3> QED
        BY <1>4, <3>1, <3>2, <3>3, <3>4, <3>5, <3>6 DEF RunNext
    <2> QED
      BY <2>1, <2>2, AnnouncedFrame, AnnouncedOff
  <1> QED
    BY <1>1, <1>2, <1>3, <1>4 DEF LinkNext, FaultNext

LEMMA AnnouncedHandler ==
    ASSUME NoMulticasts, Shape, ReportsKept, Announced, NEW i \in Calls, HandlerNext(i)
    PROVE  Announced'
  <1>0. /\ rows \in Rows /\ calls \in [Calls -> CallRecords] /\ None \notin Calls
        /\ None \notin Conns
        /\ await # None => /\ phase \in {"prepare", "finish", "fail", "leaving"}
                           /\ calls[await].kind = CallOf(phase) /\ calls[await].t = task
    BY DeliveryAssumption DEF Shape, DbInv, DbType, CallInv, CallType, AwaitShape
  <1>1. UNCHANGED <<owed, srv, current, token, conn, task, phase, await>>
    BY DEF HandlerNext, StartedLooks, StartedWrites, ReportLooks, ReportWrites,
           Deregisters, Abandoned, dbVars, streamVars, linkVars, runVars
  <1>2. \A j \in Calls \ {i} : calls'[j] = calls[j]
    BY <1>0 DEF HandlerNext, StartedLooks, StartedWrites, ReportLooks, ReportWrites,
           Deregisters, Abandoned, Proceed, FreeSlot
  <1>3. CASE Deregisters(i)
    BY <1>0, <1>3 DEF Deregisters, Announced
  <1>4. CASE StartedLooks(i)
    <2>1. UNCHANGED <<rows, reg>>
      BY <1>4 DEF StartedLooks, dbVars, streamVars
    <2>2. ASSUME Checked', ~Checked
          PROVE  Listed(rows, task)
      <3>1. await = i /\ phase = "prepare" /\ calls'[i].st \in {"read", "ok"}
        BY <1>1, <1>2, <2>2 DEF Checked, Shape, CallInv, CallType
      <3>2. calls[i].t = task /\ task \in Tasks
        BY <1>0, <1>4, <3>1 DEF StartedLooks, CallRecords, FreeCall
      <3>3. calls[i] # FreeCall
        BY <1>4, CallsInUse DEF StartedLooks, CallKinds
      <3>4. Proceed(i, "rejected") => calls'[i].st = "rejected"
        BY <1>0, <3>3 DEF Proceed, CallRecords
      <3>5. GetNext(rows) = task
        BY <1>4, <3>1, <3>2, <3>4 DEF StartedLooks
      <3> QED
        BY <1>0, <3>2, <3>5, NextIsListed
    <2> QED
      BY <1>1, <2>1, <2>2 DEF Announced
  <1>5. CASE StartedWrites(i)
    <2>1. UNCHANGED reg /\ rows' = Start(rows, calls[i].t) /\ calls[i].t \in Tasks
      BY <1>0, <1>5 DEF StartedWrites, streamVars, CallRecords, FreeCall
    <2>2. Checked' => Checked
      <3>1. calls[i].st = "read" /\ await \in Calls \cup {None}
        BY <1>5 DEF StartedWrites, Shape, CallInv, CallType
      <3> QED
        BY <1>1, <1>2, <3>1 DEF Checked
    <2>3. ASSUME Checked, Listed(rows, task) PROVE Listed(rows', task)
      <3>1. task \in Tasks
        BY <2>3 DEF Checked, Shape, RunInv, RunShape, RunType, TaskOrNone
      <3> QED
        BY <1>0, <2>1, <2>3, <3>1, StartKeepsListed
    <2> QED
      BY <1>1, <2>1, <2>2, <2>3 DEF Announced
  <1>6. CASE ReportLooks(i) \/ ReportWrites(i)
    <2>1. i = await
      BY <1>6 DEF ReportLooks, ReportWrites, ReportsKept
    <2>2. phase \notin {"prepare", "write"}
      BY <1>0, <1>6, <2>1 DEF ReportLooks, ReportWrites, CallOf
    <2> QED
      BY <1>1, <2>2 DEF Announced, Checked
  <1>7. CASE Abandoned(i)
    <2>1. UNCHANGED <<rows, reg>> /\ await # i
      BY <1>7 DEF Abandoned, dbVars, streamVars
    <2>2. Checked' => Checked
      BY <1>0, <1>1, <1>2, <2>1 DEF Checked, Shape, CallInv, CallType
    <2> QED
      BY <1>1, <2>1, <2>2 DEF Announced
  <1> QED
    BY <1>3, <1>4, <1>5, <1>6, <1>7 DEF HandlerNext

-----------------------------------------------------------------------------
ListedInv == DoableOnly /\ ReportsKept /\ Told /\ Announced

LEMMA ListedStep ==
    ASSUME NoMulticasts, Shape, ListedInv, [Next]_vars
    PROVE  ListedInv'
  <1>1. ReportsKept'
    BY ReportsKeptStep DEF ListedInv
  <1>2. CASE UiNext \/ Dispatch \/ MgrNext
    BY <1>1, <1>2, DoableDb, ToldDb, AnnouncedDb DEF ListedInv
  <1>3. CASE \E c \in Conns : StreamNext(c) \/ StreamFails(c)
    BY <1>1, <1>3, DoableStream, ToldStream, AnnouncedStream DEF ListedInv
  <1>4. CASE (LinkNext \/ RunNext \/ FaultNext) /\ ~ \E c \in Conns : StreamFails(c)
    BY <1>1, <1>4, DoableAgent, ToldAgent, AnnouncedAgent DEF ListedInv
  <1>5. CASE \E i \in Calls : HandlerNext(i)
    BY <1>1, <1>5, DoableHandler, ToldDb, AnnouncedHandler DEF ListedInv
  <1>6. CASE UNCHANGED vars
    BY <1>6 DEF ListedInv, DoableOnly, ReportsKept, Told, LastSent, Serving, Announced,
                Listed, Checked, vars, dbVars, streamVars, wireVars, agentVars, linkVars,
                runVars, callVars
  <1> QED
    BY <1>2, <1>3, <1>4, <1>5, <1>6 DEF Next

(***************************************************************************)
(* The agent never works, with everything quiet, on a task the server does *)
(* not list: on a host without multicasts, whose tasks are announced by    *)
(* the handlers that write them.  It rests on started being refused for a  *)
(* task that is not the host's next, on every cancel and retry being       *)
(* dispatched, and on handle_message cancelling what is not current.       *)
(***************************************************************************)
THEOREM WorkIsListed == ASSUME NoMulticasts PROVE Spec => []WorksOnCurrent
  <1>1. Init => ListedInv
    BY DeliveryAssumption, NoTaskAssumption
    DEF Init, ListedInv, DoableOnly, ReportsKept, Told, LastSent, Serving, Announced,
        Checked, MgrIdle, FreeCall
  <1>2. Shape /\ ListedInv /\ [Next]_vars => ListedInv'
    BY ListedStep
  <1>3. Shape /\ ListedInv => WorksOnCurrent
    <2> SUFFICES ASSUME Shape, ListedInv, Quiet, phase = "write", ~cancel
                 PROVE  Listed(rows, task)
      BY DEF WorksOnCurrent, Listed
    <2>1. conn \in Conns /\ task # NoTask
      BY DEF Shape, LinkInv, LinkType, LinkShape, RunInv, RunShape, Quiet
    <2>2. LastSent(conn)
      BY <2>1 DEF Quiet, ListedInv, Told, Serving
    <2>3. task = current[conn]
      BY <2>1, <2>2 DEF Quiet, LastSent
    <2> QED
      BY <2>1, <2>3 DEF Quiet, ListedInv, Announced, Checked
  <1> QED
    BY <1>1, <1>2, <1>3, ShapeInvariant, PTL DEF Spec
=============================================================================
