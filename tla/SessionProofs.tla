---------------------------- MODULE SessionProofs ----------------------------
(***************************************************************************)
(* The counts and the evictions of the multicast worker, for any hosts,    *)
(* multicasts, files and addresses.                                        *)
(*                                                                         *)
(* Both properties compare the worker's memory with rows that others       *)
(* change.  They hold because the rows that are running only become fewer  *)
(* while a session lasts: nobody but claim makes a row running, and the    *)
(* worker claims before its session begins.  So a count, or a list, taken  *)
(* earlier is never too small.                                             *)
(***************************************************************************)
EXTENDS MCMulticastSession, FiniteSetTheorems, WellFoundedInduction, TLAPS

Running == HostsIn(task, "running")

Requests == {"cancel", "retry", "kick"} \X Casts \X Hosts

WireStates == [phase : {"closed", "gathering", "sending"}, receivers : SUBSET Hosts,
               at : Known, complete : SUBSET Hosts, kicked : SUBSET Hosts]

\* what the worker knows when it is where it is
WorkerShape ==
    /\ pc \notin {"wait", "next"} => task \in Casts
    /\ pc \notin {"claim", "write"} => todo = {}
    /\ pc = "write" => todo # {}
    /\ pc \in {"follow", "checked"} => file <= Steps
    /\ pc \notin {"follow", "checked"} => wire = Closed

Shape == /\ TypeOK /\ WorkerShape
         /\ ui \subseteq Requests /\ wire \in WireStates

\* the count for the next file is large enough as soon as it is made
Awaited ==
    pc \in {"targets", "file", "follow", "checked"} /\ wire.phase # "sending"
        => expected >= Cardinality(inStep \cap Running)

\* the rows follow has read, and will kick by, include all that are running
ReadCovers == pc = "checked" => Running \subseteq running

SessionInv == Shape /\ Awaited /\ ReadCovers

-----------------------------------------------------------------------------
(* Counting.                                                               *)

LEMMA LeastOf ==
    ASSUME NEW T, T \subseteq Nat, T # {}
    PROVE  Min(T) \in T
  <1> DEFINE R == OpToRel(<, Nat)
  <1>1. IsWellFoundedOn(R, Nat)
    BY NatLessThanWellFounded
  <1>2. \A x, y \in Nat : y < x => <<y, x>> \in R
    BY DEF OpToRel
  <1> HIDE DEF R
  <1>3. PICK x \in T : \A y \in T : ~(<<y, x>> \in R)
    BY <1>1, WFMin
  <1>4. ASSUME NEW y \in T PROVE x <= y
    <2>1. x \in Nat /\ y \in Nat /\ ~(y < x)
      BY <1>2, <1>3
    <2> QED
      BY <2>1
  <1> QED
    BY <1>4 DEF Min

LEMMA MinMaxOfTwo ==
    ASSUME NEW a \in Nat, NEW b \in Nat
    PROVE  /\ Min({a, b}) \in {a, b} /\ Min({a, b}) <= a /\ Min({a, b}) <= b
           /\ Max({a, b}) \in {a, b} /\ Max({a, b}) >= a /\ Max({a, b}) >= b
  <1>1. \E x \in {a, b} : \A y \in {a, b} : x <= y
    OBVIOUS
  <1>2. \E x \in {a, b} : \A y \in {a, b} : x >= y
    OBVIOUS
  <1> QED
    BY <1>1, <1>2 DEF Min, Max

LEMMA HostsCount ==
    ASSUME NEW S, S \subseteq Hosts, NEW T, T \subseteq S
    PROVE  /\ Cardinality(S) \in 0 .. Cardinality(Hosts)
           /\ Cardinality(T) \in 0 .. Cardinality(Hosts)
           /\ Cardinality(T) <= Cardinality(S)
  <1>1. IsFiniteSet(S) /\ Cardinality(S) <= Cardinality(Hosts)
    BY SessionAssumption, FS_Subset
  <1>2. IsFiniteSet(T) /\ Cardinality(T) <= Cardinality(S)
    BY <1>1, FS_Subset
  <1>3. Cardinality(Hosts) \in Nat /\ Cardinality(S) \in Nat /\ Cardinality(T) \in Nat
    BY <1>1, <1>2, SessionAssumption, FS_CardinalityType
  <1> QED
    BY <1>1, <1>2, <1>3

-----------------------------------------------------------------------------
(* What others do to the rows.                                             *)

RowsKept == /\ rows' \in [Casts -> [Hosts -> RowStates]]
            /\ \A t \in Casts, h \in Hosts : rows'[t][h] = "running" => rows[t][h] = "running"

LEMMA IfActiveKept ==
    ASSUME Shape, NEW t \in Casts, NEW h \in Hosts, NEW s \in RowStates \ {"running"}
    PROVE  /\ IfActive(t, h, s) \in [Casts -> [Hosts -> RowStates]]
           /\ \A u \in Casts, g \in Hosts :
                 IfActive(t, h, s)[u][g] = "running" => rows[u][g] = "running"
  BY DEF Shape, TypeOK, IfActive

LEMMA CastWriteKeeps ==
    ASSUME Shape, NEW op \in {"cancel", "retry", "kick"}, NEW t \in Casts, NEW h \in Hosts,
           CastWrite(op, t, h)
    PROVE  RowsKept
  <1>0. rows \in [Casts -> [Hosts -> RowStates]]
    BY DEF Shape, TypeOK
  <1>1. CASE op = "cancel"
    <2>1. rows' = [rows EXCEPT ![t] = [g \in Hosts |-> IF rows[t][g] \in Active
                                                        THEN "cancelled" ELSE rows[t][g]]]
      BY <1>0, <1>1 DEF CastWrite
    <2> QED
      BY <1>0, <2>1 DEF RowsKept, RowStates
  <1>2. CASE op = "retry"
    <2>1. rows' = [rows EXCEPT ![t] = [g \in Hosts |->
                      IF rows[t][g] \in {"failed", "cancelled"} THEN "pending" ELSE rows[t][g]]]
      BY <1>0, <1>2 DEF CastWrite
    <2> QED
      BY <1>0, <2>1 DEF RowsKept, RowStates
  <1>3. CASE op = "kick"
    BY <1>3, IfActiveKept DEF CastWrite, RowsKept, RowStates
  <1> QED
    BY <1>1, <1>2, <1>3

\* Rows that are running only become fewer: the worker's memory stays good.
LEMMA Outside ==
    ASSUME SessionInv, RowsKept,
           UNCHANGED <<pc, task, claimVars, fileVars, endVars, blind, board, wire>>,
           owed' \in Nat, woken' \in BOOLEAN, busy' \subseteq Hosts, connected' \subseteq Hosts,
           ip' \in Known, ui' \subseteq Requests
    PROVE  SessionInv'
  <1> USE DEF claimVars, fileVars, endVars
  <1>1. Shape'
    BY DEF SessionInv, Shape, TypeOK, WorkerShape, RowsKept
  <1>2. pc \notin {"wait", "next"} => Running' \subseteq Running
    BY DEF SessionInv, Shape, WorkerShape, RowsKept, Running, HostsIn
  <1>3. Awaited'
    <2> SUFFICES ASSUME pc \in {"targets", "file", "follow", "checked"}, wire.phase # "sending"
                 PROVE  expected >= Cardinality((inStep \cap Running)')
      BY DEF Awaited
    <2>1. (inStep \cap Running)' \subseteq inStep \cap Running /\ inStep \subseteq Hosts
      BY <1>2 DEF SessionInv, Shape, TypeOK
    <2>2. expected >= Cardinality(inStep \cap Running) /\ expected \in Int
      BY DEF SessionInv, Awaited, Shape, TypeOK
    <2>3. inStep \cap Running \subseteq Hosts
      BY <2>1
    <2> QED
      BY <2>1, <2>2, <2>3, HostsCount
  <1>4. ReadCovers'
    BY <1>2 DEF SessionInv, ReadCovers
  <1> QED
    BY <1>1, <1>3, <1>4 DEF SessionInv

LEMMA OthersKeep ==
    ASSUME SessionInv,
           \/ \E t \in Casts : CastCreate(t)
           \/ \E op \in {"cancel", "retry", "kick"}, t \in Casts, h \in Hosts :
                 CastCheck(op, t, h)
           \/ HandlerNext
           \/ \E h \in Hosts : HostChanges(h) \/ Reports(h)
    PROVE  SessionInv'
  <1>0. /\ rows \in [Casts -> [Hosts -> RowStates]] /\ owed \in Nat /\ woken \in BOOLEAN
        /\ busy \subseteq Hosts /\ connected \subseteq Hosts /\ ip \in Known
        /\ ui \subseteq Requests
    BY DEF SessionInv, Shape, TypeOK
  <1>1. UNCHANGED <<pc, task, claimVars, fileVars, endVars, blind, board, wire>>
    BY DEF CastCreate, CastCheck, HandlerNext, CastWrite, Wake, HostChanges, Reports, WireOnly
  <1>2. CASE \E t \in Casts : CastCreate(t)
    <2>1. RowsKept
      BY <1>0, <1>2 DEF CastCreate, RowsKept, RowStates
    <2> QED
      BY <1>0, <1>1, <1>2, <2>1, Outside DEF CastCreate, hostVars
  <1>3. CASE \E op \in {"cancel", "retry", "kick"}, t \in Casts, h \in Hosts :
                CastCheck(op, t, h)
    <2>1. RowsKept /\ ui' \subseteq Requests
      BY <1>0, <1>3 DEF CastCheck, RowsKept, Requests
    <2> QED
      BY <1>0, <1>1, <1>3, <2>1, Outside DEF CastCheck, hostVars
  <1>4. CASE \E u \in ui : CastWrite(u[1], u[2], u[3])
    <2>1. PICK u \in ui : CastWrite(u[1], u[2], u[3])
      BY <1>4
    <2>2. u[1] \in {"cancel", "retry", "kick"} /\ u[2] \in Casts /\ u[3] \in Hosts
      BY <1>0 DEF Requests
    <2>3. RowsKept
      BY <2>1, <2>2, CastWriteKeeps DEF SessionInv
    <2>4. ui' \subseteq Requests /\ owed' \in Nat /\ UNCHANGED <<hostVars, woken>>
      BY <1>0, <2>1 DEF CastWrite
    <2> QED
      BY <1>0, <1>1, <2>3, <2>4, Outside DEF hostVars
  <1>5. CASE Wake
    <2>1. RowsKept /\ owed' \in Nat
      BY <1>0, <1>5 DEF Wake, RowsKept
    <2> QED
      BY <1>0, <1>1, <1>5, <2>1, Outside DEF Wake, hostVars
  <1>6. CASE \E h \in Hosts : HostChanges(h)
    <2>1. RowsKept /\ busy' \subseteq Hosts /\ connected' \subseteq Hosts /\ ip' \in Known
      BY <1>0, <1>6 DEF HostChanges, RowsKept, Known
    <2> QED
      BY <1>0, <1>1, <1>6, <2>1, Outside DEF HostChanges
  <1>7. CASE \E h \in Hosts : Reports(h)
    <2>1. task \in Casts
      BY <1>7 DEF Reports, SessionInv, Shape, TypeOK
    <2>2. RowsKept
      BY <1>0, <1>7, <2>1 DEF Reports, RowsKept, RowStates
    <2> QED
      BY <1>0, <1>1, <1>7, <2>2, Outside DEF Reports, WireOnly, hostVars, uiVars
  <1> QED
    BY <1>2, <1>3, <1>4, <1>5, <1>6, <1>7 DEF HandlerNext

-----------------------------------------------------------------------------
(* The worker.                                                             *)

LEMMA ClaimKeeps ==
    ASSUME SessionInv,
           Wakes \/ TakeNext \/ ClaimLooks \/ ClaimWrites \/ ClaimAgain
    PROVE  SessionInv'
  <1> USE DEF claimVars, fileVars, endVars, uiVars, hostVars, WorkerOnly
  <1>0. Shape
    BY DEF SessionInv
  <1>1. pc' \in {"next", "wait", "claim", "write", "session"}
    BY DEF Wakes, TakeNext, ClaimLooks, ClaimWrites, ClaimAgain
  <1>2. CASE Wakes
    BY <1>0, <1>2 DEF Wakes, Shape, TypeOK, WorkerShape, SessionInv, Awaited, ReadCovers,
                      WorkerStates
  <1>3. CASE TakeNext
    <2> DEFINE queue == {t \in Casts : HostsIn(t, "pending") # {}}
    <2>1. queue # {} => Min(queue) \in Casts
      BY SessionAssumption, LeastOf
    <2> HIDE DEF queue
    <2>2. \/ pc' = "wait" /\ task' = NoCast /\ UNCHANGED claimVars
          \/ /\ task' \in Casts /\ pc' = "claim"
             /\ batch' \subseteq Hosts /\ todo' = batch' /\ UNCHANGED verdict
      BY <1>3, <2>1 DEF TakeNext, HostsIn, queue
    <2> QED
      BY <1>0, <1>3, <2>2 DEF TakeNext, Shape, TypeOK, WorkerShape, SessionInv, Awaited,
                              ReadCovers, WorkerStates
  <1>4. CASE ClaimLooks
    BY <1>0, <1>4 DEF ClaimLooks, Shape, TypeOK, WorkerShape, SessionInv, Awaited, ReadCovers,
                      WorkerStates
  <1>5. CASE ClaimWrites
    <2>1. task \in Casts /\ Min(todo) \in Hosts
      BY <1>0, <1>5, SessionAssumption, LeastOf DEF ClaimWrites, Shape, WorkerShape, TypeOK
    <2>2. rows' \in [Casts -> [Hosts -> RowStates]]
      BY <1>0, <1>5, <2>1 DEF ClaimWrites, IfActive, Shape, TypeOK, RowStates
    <2> QED
      BY <1>0, <1>5, <2>2 DEF ClaimWrites, Shape, TypeOK, WorkerShape, SessionInv, Awaited,
                              ReadCovers, WorkerStates
  <1>6. CASE ClaimAgain
    BY <1>0, <1>6 DEF ClaimAgain, Shape, TypeOK, WorkerShape, SessionInv, Awaited, ReadCovers,
                      WorkerStates
  <1> QED
    BY <1>2, <1>3, <1>4, <1>5, <1>6

\* However a session ends, it leaves nothing behind.
LEMMA EndKeeps ==
    ASSUME SessionInv, NEW result \in {"ok", "error"}, EndSession(result), WorkerOnly,
           UNCHANGED <<rows, woken, task, claimVars>>,
           pc \in {"session", "targets", "file", "follow", "checked"}
    PROVE  SessionInv'
  <1>1. wire' \in WireStates /\ wire'.phase = "closed" /\ wire'.receivers = {}
           /\ wire'.complete = {} /\ wire'.kicked = {}
           /\ Unknown \in Known /\ wire'.at = Unknown
    BY DEF EndSession, Closed, WireStates, Known, Unknown
  <1>2. Cardinality(Hosts) \in Nat
    BY SessionAssumption, FS_CardinalityType
  <1>3. TypeOK'
    <2>1. /\ expected' = 0 /\ joined' = 0 /\ file' = 0 /\ inStep' = {} /\ running' = {}
          /\ pc' = "ended" /\ outcome' = result /\ blind' = FALSE /\ board' = NoCast
          /\ present' = connected /\ UNCHANGED <<busy, connected, ip, owed>>
          /\ targets' = Unknown /\ UNCHANGED <<rows, woken, task, batch, todo, verdict>>
      BY DEF EndSession, WorkerOnly, hostVars, uiVars, claimVars
    <2>2. 0 \in 0 .. Cardinality(Hosts) /\ 0 \in 0 .. Steps + 1
      BY <1>2, SessionAssumption
    <2>3. /\ rows \in [Casts -> [Hosts -> RowStates]] /\ task \in Casts \cup {NoCast}
          /\ busy \subseteq Hosts /\ connected \subseteq Hosts /\ owed \in Nat
          /\ woken \in BOOLEAN /\ batch \subseteq Hosts /\ todo \subseteq batch
          /\ verdict \in {"free", "busy"} /\ ip \in Known
      BY DEF SessionInv, Shape, TypeOK
    <2> QED
      BY <1>1, <2>1, <2>2, <2>3 DEF TypeOK, WorkerStates
  <1>4. WorkerShape' /\ ui' \subseteq Requests
    BY DEF SessionInv, Shape, WorkerShape, EndSession, WorkerOnly, claimVars, uiVars
  <1> QED
    BY <1>1, <1>3, <1>4 DEF SessionInv, Shape, Awaited, ReadCovers, EndSession

LEMMA BeginKeeps ==
    ASSUME SessionInv, SessionBegins
    PROVE  SessionInv'
  <1>1. HostsIn(task, "running") \subseteq Hosts /\ Running' = HostsIn(task, "running")
    BY DEF HostsIn, Running, SessionBegins
  <1>2. /\ expected' = Cardinality(HostsIn(task, "running"))
        /\ expected' \in 0 .. Cardinality(Hosts) /\ Cardinality(Hosts) \in Nat
    BY <1>1, HostsCount, SessionAssumption, FS_CardinalityType DEF SessionBegins
  <1>3. Shape'
    BY <1>1, <1>2, SessionAssumption
    DEF SessionBegins, SessionInv, Shape, TypeOK, WorkerShape, WorkerOnly, hostVars, uiVars, endVars,
        WorkerStates
  <1>4. (inStep \cap Running)' = HostsIn(task, "running")
    BY <1>1 DEF SessionBegins
  <1>5. Awaited'
    BY <1>2, <1>4 DEF Awaited
  <1> QED
    BY <1>3, <1>5 DEF SessionInv, SessionBegins, ReadCovers

LEMMA ReadKeeps ==
    ASSUME SessionInv, ReadTargets
    PROVE  SessionInv'
  <1>1. targets' \in Known
    BY DEF ReadTargets, SessionInv, Shape, TypeOK, Known
  <1>2. Shape'
    BY <1>1 DEF ReadTargets, SessionInv, Shape, TypeOK, WorkerShape, WorkerOnly, hostVars, uiVars,
                claimVars, endVars, WorkerStates
  <1> QED
    BY <1>2 DEF ReadTargets, SessionInv, Awaited, ReadCovers, Running, HostsIn

LEMMA NextFileKeeps ==
    ASSUME SessionInv, NextFile
    PROVE  SessionInv'
  <1>1. CASE EndSession("ok")
    BY <1>1, EndKeeps DEF NextFile
  <1>2. CASE ~(file > Steps \/ HostsIn(task, "running") = {})
    <2>0. /\ pc = "file" /\ pc' = "follow"
          /\ expected' = Min({expected, Cardinality(HostsIn(task, "running"))})
          /\ joined' = 0 /\ wire' = [Closed EXCEPT !.phase = "gathering"]
          /\ UNCHANGED <<targets, file, inStep, endVars, board, blind, rows, woken, task, claimVars>>
          /\ WorkerOnly
      BY <1>2 DEF NextFile
    <2>1. wire' \in WireStates /\ wire'.phase = "gathering" /\ wire'.receivers = {}
             /\ wire'.complete = {} /\ wire'.kicked = {} /\ wire'.at \in Known
      BY <2>0 DEF Closed, WireStates, Known, Unknown
    <2>2. Running \subseteq Hosts /\ inStep \subseteq Hosts /\ Running' = Running
      BY <2>0 DEF HostsIn, Running, SessionInv, Shape, TypeOK
    <2>3. Cardinality(Hosts) \in Nat /\ expected \in 0 .. Cardinality(Hosts)
      BY SessionAssumption, FS_CardinalityType DEF SessionInv, Shape, TypeOK
    <2>4. /\ Cardinality(Running) \in 0 .. Cardinality(Hosts)
          /\ Cardinality(inStep \cap Running) <= Cardinality(Running)
          /\ Cardinality(inStep \cap Running) \in Nat
      <3>1. inStep \cap Running \subseteq Running
        OBVIOUS
      <3> QED
        BY <2>2, <2>3, <3>1, HostsCount
    <2>5. expected' \in {expected, Cardinality(Running)}
      BY <2>0, <2>3, <2>4, MinMaxOfTwo DEF Running
    <2>6. Shape'
      BY <1>2, <2>0, <2>1, <2>3, <2>4, <2>5, SessionAssumption
      DEF SessionInv, Shape, TypeOK, WorkerShape, WorkerOnly, hostVars, uiVars, endVars, claimVars,
          WorkerStates
    <2>7. expected >= Cardinality(inStep \cap Running)
      BY <2>0 DEF SessionInv, Awaited, Shape, WorkerShape, Closed
    <2> QED
      BY <2>0, <2>1, <2>2, <2>4, <2>5, <2>6, <2>7 DEF SessionInv, Awaited, ReadCovers
  <1> QED
    BY <1>1, <1>2 DEF NextFile

LEMMA FollowKeeps ==
    ASSUME SessionInv,
           FollowWoken \/ FollowBlind \/ FollowProgress \/ FollowKicks
    PROVE  SessionInv'
  <1> USE DEF claimVars, fileVars, endVars, uiVars, hostVars, WorkerOnly
  <1>0. Shape /\ Awaited /\ ReadCovers /\ task \in Casts
    BY DEF SessionInv, Shape, WorkerShape, FollowWoken, FollowBlind, FollowProgress, FollowKicks
  <1>1. CASE FollowWoken
    <2>1. running' = Running /\ Running' = Running /\ Running \subseteq Hosts
      BY <1>1 DEF FollowWoken, Running, HostsIn
    <2> QED
      BY <1>0, <1>1, <2>1 DEF FollowWoken, SessionInv, Shape, TypeOK, WorkerShape, Awaited,
                              ReadCovers, WorkerStates
  <1>2. CASE FollowBlind
    BY <1>0, <1>2 DEF FollowBlind, SessionInv, Shape, TypeOK, WorkerShape, Awaited,
                      ReadCovers, Running, HostsIn
  <1>3. CASE FollowProgress
    <2>1. wire.receivers \subseteq Hosts /\ joined \in 0 .. Cardinality(Hosts)
      BY <1>0 DEF Shape, TypeOK
    <2>2. /\ Cardinality(wire.receivers) \in 0 .. Cardinality(Hosts)
          /\ Cardinality(Hosts) \in Nat
      BY <2>1, HostsCount, SessionAssumption, FS_CardinalityType
    <2>3. joined' \in 0 .. Cardinality(Hosts)
      BY <1>3, <2>1, <2>2, MinMaxOfTwo DEF FollowProgress
    <2> QED
      BY <1>0, <1>3, <2>3 DEF FollowProgress, SessionInv, Shape, TypeOK, WorkerShape, Awaited,
                              ReadCovers, Running, HostsIn
  <1>4. CASE FollowKicks /\ running = {}
    BY <1>4, EndKeeps DEF FollowKicks
  <1>5. CASE FollowKicks /\ running # {}
    <2>1. /\ wire' \in WireStates /\ wire'.phase = wire.phase
          /\ wire'.receivers \subseteq Hosts /\ wire'.complete \subseteq Hosts
          /\ wire'.kicked \subseteq Hosts /\ wire'.at \in Known
      BY <1>0, <1>5 DEF FollowKicks, Shape, WireStates
    <2>2. /\ pc = "checked" /\ pc' = "follow" /\ running' = {}
          /\ UNCHANGED <<rows, task, expected, targets, file, joined, inStep, present, outcome, board,
                         blind, woken, batch, todo, verdict, busy, connected, ip, ui, owed>>
      BY <1>5 DEF FollowKicks
    <2> QED
      BY <1>0, <2>1, <2>2 DEF SessionInv, Shape, TypeOK, WorkerShape, Awaited, ReadCovers,
                              Running, HostsIn, WorkerStates
  <1> QED
    BY <1>1, <1>2, <1>3, <1>4, <1>5

\* The count after a file: nobody that has it is left out.
LEMMA EndOfFileKeeps ==
    ASSUME SessionInv, FollowEnds
    PROVE  SessionInv'
  <1> USE DEF claimVars, endVars, uiVars, hostVars, WorkerOnly
  <1>0. /\ Shape /\ task \in Casts /\ file <= Steps /\ file \in 0 .. Steps + 1
        /\ wire.receivers \subseteq Hosts /\ wire.complete \subseteq Hosts
        /\ joined \in 0 .. Cardinality(Hosts) /\ Cardinality(Hosts) \in Nat
    BY SessionAssumption, FS_CardinalityType
    DEF SessionInv, Shape, WorkerShape, TypeOK, WireStates, FollowEnds
  <1>1. /\ Cardinality(wire.receivers) \in 0 .. Cardinality(Hosts)
        /\ Cardinality(wire.complete) \in 0 .. Cardinality(Hosts)
    BY <1>0, HostsCount
  <1>2. Counted \in 0 .. Cardinality(Hosts) /\ Counted >= Cardinality(wire.receivers)
    BY <1>0, <1>1, MinMaxOfTwo DEF Counted
  <1>3. expected' \in 0 .. Cardinality(Hosts) /\ expected' >= Cardinality(wire.complete)
    BY <1>1, <1>2 DEF FollowEnds
  <1>4. file' \in 0 .. Steps + 1
    BY <1>0, SessionAssumption DEF FollowEnds
  <1>5. wire' \in WireStates /\ wire'.phase = "closed" /\ wire'.receivers = {}
           /\ wire'.complete = {} /\ wire'.kicked = {}
           /\ wire'.at \in Known
    BY DEF FollowEnds, Closed, WireStates, Known, Unknown
  <1>6. Shape'
    <2>1. joined' \in 0 .. Cardinality(Hosts)
      BY <1>0 DEF FollowEnds
    <2> QED
      BY <1>0, <1>3, <1>4, <1>5, <2>1 DEF FollowEnds, Shape, TypeOK, WorkerShape, WorkerStates
  <1>7. Cardinality((inStep \cap Running)') <= Cardinality(wire.complete)
    <2>1. (inStep \cap Running)' \subseteq wire.complete
      BY DEF FollowEnds
    <2> QED
      BY <1>0, <2>1, HostsCount
  <1>8. Cardinality((inStep \cap Running)') \in Nat
    <2>1. (inStep \cap Running)' \subseteq Hosts
      BY DEF Running, HostsIn
    <2> QED
      BY <1>0, <2>1, HostsCount
  <1>9. Awaited'
    BY <1>1, <1>3, <1>7, <1>8 DEF Awaited
  <1> QED
    BY <1>6, <1>9 DEF SessionInv, ReadCovers, FollowEnds

LEMMA SettleKeeps ==
    ASSUME SessionInv, SettleLooks \/ SettleWrites \/ SettleAgain
    PROVE  SessionInv'
  <1> USE DEF claimVars, fileVars, endVars, uiVars, hostVars, WorkerOnly
  <1>0. Shape /\ task \in Casts
    BY DEF SessionInv, Shape, WorkerShape, SettleLooks, SettleWrites, SettleAgain
  <1>1. CASE SettleLooks \/ SettleAgain
    BY <1>0, <1>1 DEF SettleLooks, SettleAgain, HostsIn, SessionInv, Shape, TypeOK, WorkerShape,
                      Awaited, ReadCovers, WorkerStates
  <1>2. CASE SettleWrites /\ running = {}
    BY <1>0, <1>2 DEF SettleWrites, SessionInv, Shape, TypeOK, WorkerShape, Awaited,
                      ReadCovers, WorkerStates
  <1>3. CASE SettleWrites /\ running # {}
    <2>1. Min(running) \in Hosts
      BY <1>0, <1>3, SessionAssumption, LeastOf DEF Shape, TypeOK
    <2>2. rows' \in [Casts -> [Hosts -> RowStates]]
      BY <1>0, <1>3, <2>1, IfActiveKept DEF SettleWrites, Shape, TypeOK, RowStates
    <2>3. running' \subseteq Hosts /\ UNCHANGED <<pc, present, outcome>>
      BY <1>0, <1>3 DEF SettleWrites, Shape, TypeOK
    <2> QED
      BY <1>0, <1>3, <2>2, <2>3 DEF SettleWrites, SessionInv, Shape, TypeOK, WorkerShape,
                                    Awaited, ReadCovers
  <1> QED
    BY <1>1, <1>2, <1>3

LEMMA WireKeeps ==
    ASSUME SessionInv, Send \/ \E h \in Hosts : Join(h) \/ Completes(h)
    PROVE  SessionInv'
  <1>0. wire \in WireStates /\ (pc \notin {"follow", "checked"} => wire = Closed)
    BY DEF SessionInv, Shape, WorkerShape
  <1>1. /\ wire' \in WireStates /\ (wire'.phase # "sending" => wire.phase # "sending")
        /\ wire'.receivers \subseteq Hosts /\ wire'.complete \subseteq Hosts
        /\ wire'.kicked \subseteq Hosts /\ wire'.at \in Known
    <2>1. CASE Send
      BY <1>0, <2>1 DEF Send, WireStates
    <2>2. ASSUME NEW h \in Hosts, Join(h)
          PROVE  /\ wire' \in WireStates /\ wire'.phase = "gathering"
                 /\ wire.phase = "gathering"
      <3>1. PICK a \in Addresses :
               wire' = [wire EXCEPT !.receivers = @ \cup {h}, !.at[h] = a]
        BY <2>2 DEF Join
      <3>2. PICK rs \in SUBSET Hosts : rs = wire.receivers \cup {h}
        BY <1>0 DEF WireStates
      <3>3. PICK at \in Known : at = [wire.at EXCEPT ![h] = a]
        BY <1>0 DEF WireStates, Known
      <3>4. wire' = [wire EXCEPT !.receivers = rs, !.at = at]
        BY <1>0, <3>1, <3>2, <3>3 DEF WireStates
      <3> QED
        BY <1>0, <2>2, <3>4 DEF Join, WireStates
    <2>3. ASSUME NEW h \in Hosts, Completes(h)
          PROVE  /\ wire' \in WireStates /\ wire'.phase = "sending"
      BY <1>0, <2>3 DEF Completes, WireStates
    <2> QED
      BY <2>1, <2>2, <2>3, <1>0 DEF WireStates, Send
  <1>2. pc \in {"follow", "checked"}
    <2>1. wire.phase # "closed"
      BY DEF Send, Join, Completes
    <2> QED
      BY <1>0, <2>1 DEF Closed
  <1>3. UNCHANGED <<rows, hostVars, uiVars, woken, pc, task, claimVars, fileVars, endVars,
                    blind, board>>
    BY DEF Send, Join, Completes, WireOnly
  <1>4. Shape'
    BY <1>1, <1>2, <1>3 DEF SessionInv, Shape, TypeOK, WorkerShape, hostVars, uiVars, claimVars,
                            fileVars, endVars, WireStates
  <1> QED
    BY <1>1, <1>3, <1>4 DEF SessionInv, Awaited, ReadCovers, Running, HostsIn, fileVars, endVars

LEMMA InitSession == Init => SessionInv
  <1> SUFFICES ASSUME Init PROVE SessionInv
    OBVIOUS
  <1>1. wire \in WireStates /\ wire = Closed /\ Unknown \in Known /\ wire.at = Unknown
    BY DEF Init, Closed, WireStates, Known, Unknown
  <1>2. 0 \in 0 .. Cardinality(Hosts) /\ 0 \in 0 .. Steps + 1
    BY SessionAssumption, FS_CardinalityType
  <1>3. rows \in [Casts -> [Hosts -> RowStates]]
    BY DEF Init, RowStates
  <1> QED
    BY <1>1, <1>2, <1>3
    DEF Init, SessionInv, Shape, TypeOK, WorkerShape, Awaited, ReadCovers, WorkerStates, WireStates

LEMMA StepKeeps == SessionInv /\ [Next]_vars => SessionInv'
  <1> SUFFICES ASSUME SessionInv, [Next]_vars PROVE SessionInv'
    OBVIOUS
  <1>1. CASE Next
    <2>1. CASE SessionFails \/ FollowFails
      BY <1>1, <2>1, EndKeeps DEF SessionFails, FollowFails, Next
    <2> QED
      BY <1>1, <2>1, OthersKeep, ClaimKeeps, BeginKeeps, ReadKeeps, NextFileKeeps,
         FollowKeeps, EndOfFileKeeps, SettleKeeps, WireKeeps DEF Next, WorkerNext
  <1>2. CASE UNCHANGED vars
    BY <1>2 DEF SessionInv, Shape, TypeOK, WorkerShape, Awaited, ReadCovers, Running, HostsIn,
                vars, hostVars, uiVars, claimVars, fileVars, endVars
  <1> QED
    BY <1>1, <1>2

LEMMA SessionInvariant == Spec => []SessionInv
  BY InitSession, StepKeeps, PTL DEF Spec

-----------------------------------------------------------------------------
(***************************************************************************)
(* No transfer starts before every host that has all earlier files and is  *)
(* still running has joined, or the join window has passed: the count that *)
(* Worker::session carries from file to file is never too small, however   *)
(* many hosts take part, drop out or report between two of its looks.      *)
(***************************************************************************)
THEOREM CountsAreEnough == Spec => []AwaitedInStep
  <1>1. SessionInv => AwaitedInStep
    BY DEF SessionInv, Shape, Awaited, AwaitedInStep, InStepAreAwaited, Running
  <1> QED
    BY <1>1, SessionInvariant, PTL

(***************************************************************************)
(* Worker::follow evicts a receiver only on behalf of a participant that   *)
(* was taken out of the multicast, and never on behalf of another one if   *)
(* the receiver joined from the address its row had when the session       *)
(* began: whatever addresses rows and interfaces have or get (none, or one *)
(* that several share), and although the rows it kicks by were read a step *)
(* earlier and the addresses when the session began.                       *)
(***************************************************************************)
THEOREM KicksAreMeant == Spec => OnlyKickedAreEvicted
  <1> DEFINE Meant(h) ==
        \E g \in Hosts : /\ targets[g] = wire.at[h] /\ rows[task][g] # "running"
                         /\ targets[h] = wire.at[h] => g = h
  <1>1. ASSUME SessionInv, [Next]_vars, NEW h \in wire'.kicked \ wire.kicked
        PROVE  Meant(h)
    <2>1. FollowKicks /\ running # {}
      <3>1. CASE EndSession("ok") \/ EndSession("error") \/ FollowEnds
        BY <1>1, <3>1 DEF EndSession, FollowEnds, Closed
      <3>2. CASE wire'.kicked = wire.kicked
        BY <1>1, <3>2
      <3>3. CASE Next
        BY <1>1, <3>1, <3>2, <3>3
        DEF Next, WorkerNext, CastCreate, CastCheck, HandlerNext, CastWrite, Wake,
            HostChanges, Wakes, TakeNext, ClaimLooks, ClaimWrites, SessionBegins, ReadTargets,
            NextFile, FollowWoken, FollowKicks, FollowProgress, SettleLooks, SettleWrites, FollowBlind,
            ClaimAgain, SessionFails, FollowFails, SettleAgain, Join, Completes, Reports, Send,
            Closed, SessionInv, Shape, WireStates
      <3> QED
        BY <1>1, <3>2, <3>3 DEF vars
    <2>2. h \in wire.receivers /\ \E g \in HostAt(wire.at[h]) : g \notin running
      <3> DEFINE out == {k \in wire.receivers : \E g \in HostAt(wire.at[k]) : g \notin running}
      <3>1. wire' = [wire EXCEPT !.receivers = @ \ out, !.complete = @ \ out,
                                 !.kicked = @ \cup out]
        BY <2>1 DEF FollowKicks
      <3>2. wire \in WireStates
        BY <1>1 DEF SessionInv, Shape
      <3> HIDE DEF out
      <3>3. wire'.kicked = wire.kicked \cup out
        BY <3>1, <3>2 DEF WireStates
      <3>4. h \in out
        BY <1>1, <3>3
      <3> QED
        BY <3>4 DEF out
    <2>3. h \in Hosts
      BY <1>1, <2>2 DEF SessionInv, Shape, TypeOK
    <2>4. PICK g \in HostAt(wire.at[h]) : g \notin running
      BY <2>2
    <2> DEFINE same == {k \in Hosts : targets[k] = wire.at[h]}
    <2>5. Cardinality(same) = 1 /\ g \in same
      BY <2>4 DEF HostAt
    <2>6. IsFiniteSet(same)
      BY SessionAssumption, FS_Subset
    <2>7. g \in Hosts /\ targets[g] = wire.at[h] /\ (targets[h] = wire.at[h] => h \in same)
      BY <2>3, <2>5
    <2> HIDE DEF same
    <2>8. h \in same => g = h
      BY <2>5, <2>6, FS_Singleton
    <2>9. rows[task][g] # "running"
      BY <1>1, <2>1, <2>4, <2>7 DEF SessionInv, ReadCovers, FollowKicks, Running, HostsIn
    <2> QED
      BY <2>7, <2>8, <2>9
  <1>2. SessionInv /\ [Next]_vars => [\A h \in wire'.kicked \ wire.kicked : Meant(h)]_vars
    BY <1>1
  <1> HIDE DEF Meant
  <1>3. Spec => [][\A h \in wire'.kicked \ wire.kicked : Meant(h)]_vars
    BY <1>2, SessionInvariant, PTL DEF Spec
  <1> QED
    BY <1>3 DEF OnlyKickedAreEvicted, Meant
=============================================================================
