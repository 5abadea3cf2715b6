-------------------------- MODULE DashboardProofs ---------------------------
(***************************************************************************)
(* What the dashboard's page of tasks, its panel with script output, its   *)
(* dialogs on the inventory and the agent's screen guarantee for any       *)
(* number of tasks, hosts, machines, retries and failures, and for any     *)
(* layouts, images and work.                                               *)
(***************************************************************************)
EXTENDS MCDashboard, FiniteSetTheorems, WellFoundedInduction, TLAPS

-----------------------------------------------------------------------------
(***************************************************************************)
(* The panel.  A row that was shown as settled for the attempt under way   *)
(* is settled, so what is fetched after such a look (loop.was is FALSE) is *)
(* no less than what was stored when the row was settled.                  *)
(***************************************************************************)
RowStates == {"pending", "running", "done", "failed", "cancelled"}
Outs == [attempt : Nat, output : Nat]

PanelType ==
    /\ row \in RowStates /\ output \in Nat /\ attempt \in Nat \ {0}
    /\ settled \in Nat /\ settled <= output
    /\ shown \in [row : RowStates, attempt : Nat]
    /\ loop \in [pc : {"look", "asked", "answered", "sleep", "resting"}, was : BOOLEAN,
                 of : Nat, got : Outs]
    /\ panel \in [has : BOOLEAN, out : Outs, error : BOOLEAN]

\* What is shown and what was looked at is of the past.
LooksBack ==
    /\ shown.attempt <= attempt /\ loop.of <= shown.attempt
    /\ shown.attempt = attempt /\ ~O!Open(shown.row) => row = shown.row

\* The last look saw the attempt under way settled.
SawEnd == loop.of = attempt /\ ~loop.was

\* An answer with all that was stored when the row was settled.
Whole(out) == out.attempt = attempt /\ settled <= out.output /\ out.output <= output

LooksTrue ==
    /\ SawEnd => ~O!Open(row)
    /\ SawEnd /\ loop.pc = "answered" => Whole(loop.got)
    /\ SawEnd /\ loop.pc \in {"sleep", "resting"} => panel.error \/ (panel.has /\ Whole(panel.out))
    /\ loop.pc = "resting" => ~loop.was

PanelInv == PanelType /\ LooksBack /\ LooksTrue

LEMMA PanelStarts == O!Init => PanelInv
  BY DEF O!Init, PanelInv, PanelType, LooksBack, LooksTrue, SawEnd, Whole, O!Fetching, O!NoOut,
         O!Open, RowStates, Outs

LEMMA PanelKept == ASSUME PanelInv, O!Next PROVE PanelInv'
<1>1. CASE O!Start
  BY <1>1 DEF PanelInv, PanelType, LooksBack, LooksTrue, SawEnd, Whole, O!Open, O!Out, RowStates, Outs,
         O!Start, O!browser
<1>2. CASE O!Write
  BY <1>2 DEF PanelInv, PanelType, LooksBack, LooksTrue, SawEnd, Whole, O!Open, O!Out, RowStates, Outs,
         O!Write, O!browser
<1>3. CASE O!Finish
  BY <1>3 DEF PanelInv, PanelType, LooksBack, LooksTrue, SawEnd, Whole, O!Open, O!Out, RowStates, Outs,
         O!Finish, O!browser
<1>4. CASE O!Retry
  BY <1>4 DEF PanelInv, PanelType, LooksBack, LooksTrue, SawEnd, Whole, O!Open, O!Out, RowStates, Outs,
         O!Retry, O!browser
<1>5. CASE O!ShowRow
  BY <1>5 DEF PanelInv, PanelType, LooksBack, LooksTrue, SawEnd, Whole, O!Open, O!Out, RowStates, Outs,
         O!ShowRow
<1>6. CASE O!Look
  <2>1. /\ loop'.pc = "asked" /\ loop'.was = O!Open(shown.row) /\ loop'.of = shown.attempt
        /\ loop'.got = loop.got
        /\ loop' \in [pc : {"look", "asked", "answered", "sleep", "resting"}, was : BOOLEAN,
                      of : Nat, got : Outs]
    <3> DEFINE was == O!Open(shown.row)
    <3>1. loop' = [loop EXCEPT !.pc = "asked", !.was = was, !.of = shown.attempt]
      BY <1>6 DEF O!Look
    <3>2. was \in BOOLEAN
      BY DEF O!Open
    <3> HIDE DEF was
    <3>3. /\ loop'.pc = "asked" /\ loop'.was = was /\ loop'.of = shown.attempt
          /\ loop'.got = loop.got
          /\ loop' \in [pc : {"look", "asked", "answered", "sleep", "resting"}, was : BOOLEAN,
                        of : Nat, got : Outs]
      BY <3>1, <3>2 DEF PanelInv, PanelType
    <3> QED
      BY <3>3 DEF was
  <2>2. UNCHANGED <<row, output, settled, attempt, shown, panel>>
    BY <1>6 DEF O!Look
  <2>3. PanelType'
    BY <2>1, <2>2 DEF PanelInv, PanelType
  <2>4. LooksBack'
    BY <2>1, <2>2 DEF PanelInv, PanelType, LooksBack
  <2>5. LooksTrue'
    BY <2>1, <2>2 DEF PanelInv, PanelType, LooksBack, LooksTrue, SawEnd, Whole
  <2> QED
    BY <2>3, <2>4, <2>5 DEF PanelInv
<1>7. CASE O!Answer
  <2>1. PICK out : out = O!Out
    OBVIOUS
  <2>2. out \in Outs /\ Whole(out)
    BY <2>1 DEF PanelInv, PanelType, Whole, O!Out, Outs
  <2>3. loop' = [loop EXCEPT !.pc = "answered", !.got = out]
    BY <1>7, <2>1 DEF O!Answer
  <2>4. /\ loop'.pc = "answered" /\ loop'.was = loop.was /\ loop'.of = loop.of /\ loop'.got = out
        /\ loop' \in [pc : {"look", "asked", "answered", "sleep", "resting"}, was : BOOLEAN,
                      of : Nat, got : Outs]
    BY <2>2, <2>3 DEF PanelInv, PanelType
  <2>5. UNCHANGED <<row, output, settled, attempt, shown, panel>>
    BY <1>7 DEF O!Answer
  <2>6. PanelType'
    BY <2>4, <2>5 DEF PanelInv, PanelType
  <2>7. LooksBack'
    BY <2>4, <2>5 DEF PanelInv, LooksBack
  <2>8. LooksTrue'
    BY <2>2, <2>4, <2>5 DEF PanelInv, LooksTrue, SawEnd, Whole
  <2> QED
    BY <2>6, <2>7, <2>8 DEF PanelInv
<1>8. CASE O!Record
  BY <1>8 DEF PanelInv, PanelType, LooksBack, LooksTrue, SawEnd, Whole, O!Open, O!Out, RowStates, Outs,
         O!Record, O!NoOut
<1>9. CASE O!Fail
  BY <1>9 DEF PanelInv, PanelType, LooksBack, LooksTrue, SawEnd, Whole, O!Open, O!Out, RowStates, Outs,
         O!Fail, O!NoOut
<1>10. CASE O!Wake
  BY <1>10 DEF PanelInv, PanelType, LooksBack, LooksTrue, SawEnd, Whole, O!Open, O!Out, RowStates, Outs,
         O!Wake, O!Rests
<1>11. CASE O!LookAtRow
  BY <1>11 DEF PanelInv, PanelType, LooksBack, LooksTrue, SawEnd, Whole, O!Open, O!Out, RowStates, Outs,
         O!LookAtRow, O!browser
<1>12. ASSUME NEW u, O!UploadEnds(u) PROVE PanelInv'
  BY <1>12 DEF PanelInv, PanelType, LooksBack, LooksTrue, SawEnd, Whole, O!Open, O!Out, RowStates, Outs,
         O!UploadEnds, O!browser
<1> QED
  BY <1>1, <1>2, <1>3, <1>4, <1>5, <1>6, <1>7, <1>8, <1>9, <1>10, <1>11, <1>12 DEF O!Next

(***************************************************************************)
(* The panel's poll (use_poll_while) does not come to rest before it has   *)
(* all the output that the attempt shown had stored when its row was       *)
(* settled, or the word that it could not be loaded, however often the     *)
(* task is retried, its row is settled by others and fetches fail.         *)
(***************************************************************************)
THEOREM PanelIsWhole == Spec => []RestsWhenWhole
<1> DEFINE Inv == part = "panel" => PanelInv
<1>1. Init => Inv
  BY PanelStarts DEF Init
<1>2. Inv /\ [Next]_vars => Inv'
  <2> SUFFICES ASSUME Inv, [Next]_vars, part' = "panel" PROVE PanelInv'
    OBVIOUS
  <2>1. CASE O!Next
    BY <2>1, PanelKept DEF Next, vars
  <2>2. CASE UNCHANGED <<part, panelVars>>
    BY <2>2 DEF panelVars, PanelInv, PanelType, LooksBack, LooksTrue, SawEnd, Whole, O!Open, O!Out
  <2> QED
    BY <2>1, <2>2 DEF Next, vars
<1>3. Inv => RestsWhenWhole
  BY DEF RestsWhenWhole, O!RestsWhenWhole, PanelInv, PanelType, Outs, LooksTrue, SawEnd, Whole
<1> QED
  BY <1>1, <1>2, <1>3, PTL DEF Spec

-----------------------------------------------------------------------------
(***************************************************************************)
(* The page of tasks: what the listing finds.                              *)
(***************************************************************************)
LEMMA PageCardinality ==
    ASSUME NEW S PROVE P!Cardinality(S) = Cardinality(S)
  BY DEF P!Cardinality, Cardinality

\* A nonempty set of numbers has a least element, and Min gives it.
LEMMA LeastNumber ==
    ASSUME NEW T \in SUBSET Nat, T # {}
    PROVE  P!Min(T) \in T /\ \A y \in T : P!Min(T) <= y
<1> DEFINE R == OpToRel(<, Nat)
<1>1. IsWellFoundedOn(R, Nat)
  BY NatLessThanWellFounded
<1>2. \A x, y \in Nat : y < x => <<y, x>> \in R
  BY DEF OpToRel
<1> HIDE DEF R
<1>3. PICK x \in T : \A y \in T : ~(<<y, x>> \in R)
  BY <1>1, WFMin
<1>4. \A y \in T : x \in Nat /\ y \in Nat /\ ~(y < x)
  BY <1>2, <1>3
<1>5. \A y \in T : x <= y
  BY <1>4
<1> QED
  BY <1>5 DEF P!Min

\* The two ways to count a task's state agree: Task::aggregate_state and the view.
LEMMA StatesAgree ==
    ASSUME NEW hs, NEW rs \in [hs -> P!States]
    PROVE  P!AggregateState(rs) = P!ViewState(rs)
<1> DEFINE S == P!Range(rs)
<1>1. S = {rs[h] : h \in hs} /\ S \subseteq P!States
  BY DEF P!Range
<1>2. \A T : (\E h \in hs : rs[h] \in T) <=> S \cap T # {}
  BY <1>1
<1>3. DOMAIN rs = hs /\ (hs = {} <=> S = {})
  BY <1>1
<1> HIDE DEF S
<1>4. CASE S = {}
  BY <1>3, <1>4 DEF P!AggregateState, P!ViewState, S
<1>5. CASE S \cap {"pending", "running"} # {}
  <2>1. (S # {"pending"}) <=> S \cap (P!States \ {"pending"}) # {}
    BY <1>1, <1>5 DEF P!States
  <2> QED
    BY <2>1, <1>2, <1>3, <1>5 DEF P!AggregateState, P!ViewState, S
<1>6. CASE S # {} /\ S \cap {"pending", "running"} = {}
  <2>1. (S = {"done"}) <=> S \cap (P!States \ {"done"}) = {}
    BY <1>1, <1>6 DEF P!States
  <2>2. (S = {"cancelled"}) <=> S \cap (P!States \ {"cancelled"}) = {}
    BY <1>1, <1>6 DEF P!States
  <2>3. ("done" \notin S) <=> S \cap {"done"} = {}
    OBVIOUS
  <2>4. P!AggregateState(rs) = IF S = {"done"} THEN "done" ELSE IF S = {"cancelled"} THEN "cancelled"
                               ELSE IF "done" \notin S THEN "failed" ELSE "partial"
    <3>1. P!AggregateState(rs) = IF S \in {{"done"}, {"cancelled"}} THEN CHOOSE x \in S : TRUE
                                 ELSE IF "done" \notin S THEN "failed" ELSE "partial"
      BY <1>6 DEF P!AggregateState, S
    <3>2. \A v : S = {v} => (CHOOSE x \in S : TRUE) = v
      OBVIOUS
    <3> QED
      BY <3>1, <3>2
  <2>5. P!ViewState(rs) = IF S \cap (P!States \ {"done"}) = {} THEN "done"
                          ELSE IF S \cap (P!States \ {"cancelled"}) = {} THEN "cancelled"
                          ELSE IF S \cap {"done"} = {} THEN "failed" ELSE "partial"
    BY <1>2, <1>3, <1>6 DEF P!ViewState
  <2> QED
    BY <2>1, <2>2, <2>3, <2>4, <2>5
<1> QED
  BY <1>4, <1>5, <1>6

\* Fetching one task more than fits is enough to tell whether there is one, and what is not on
\* the page is older than its cursor.
LEMMA PageIsComplete ==
    ASSUME NEW found \in SUBSET Nat, IsFiniteSet(found)
    PROVE  LET fetched == P!Newest(Limit + 1, found)
           IN  /\ P!NextCursor(fetched) \in Nat
               /\ P!Newest(Limit, fetched) \subseteq found
               /\ \A id \in found :
                     id \in P!Newest(Limit, fetched) \/ id < P!NextCursor(fetched)
<1> DEFINE Above(x) == {j \in found : j > x}
           Count(x) == Cardinality(Above(x))
           fetched == P!Newest(Limit + 1, found)
           fits == {x \in found : Count(x) < Limit}
<1>0. Limit \in Nat /\ Limit > 0 /\ \A x \in found : x \in Nat
  BY PageAssumption
<1>1. \A x \in found : IsFiniteSet(Above(x)) /\ Count(x) \in Nat
  BY FS_Subset, FS_CardinalityType
<1>2. ASSUME NEW x \in found, NEW y \in found, x < y PROVE Count(y) < Count(x)
  <2>0. \A j \in found : j \in Nat /\ x \in Nat /\ y \in Nat
    BY <1>0
  <2>1. Above(y) \subseteq Above(x) /\ y \in Above(x) /\ y \notin Above(y)
    <3>1. \A j \in found : j > y => j > x
      BY <2>0, <1>2
    <3>2. y > x /\ ~(y > y)
      BY <2>0, <1>2
    <3> QED
      BY <3>1, <3>2
  <2>2. IsFiniteSet(Above(x)) /\ IsFiniteSet(Above(y)) /\ Above(x) # Above(y)
    BY <2>1, <1>1
  <2>3. Count(y) \in Nat /\ Count(x) \in Nat /\ Count(y) <= Count(x) /\ Count(y) # Count(x)
    <3> HIDE DEF Above
    <3>1. Cardinality(Above(y)) <= Cardinality(Above(x))
      BY <2>1, <2>2, FS_Subset
    <3>2. Cardinality(Above(y)) # Cardinality(Above(x))
      BY <2>1, <2>2, FS_Subset
    <3>3. Cardinality(Above(y)) \in Nat /\ Cardinality(Above(x)) \in Nat
      BY <2>2, FS_CardinalityType
    <3> QED
      BY <3>1, <3>2, <3>3
  <2> HIDE DEF Count
  <2> QED
    BY <2>3
<1>3. fetched = {x \in found : Count(x) < Limit + 1}
  BY PageCardinality DEF P!Newest
<1> HIDE DEF fetched
<1>4. \A x \in fetched : {j \in fetched : j > x} = Above(x)
  <2> SUFFICES ASSUME NEW x \in fetched, NEW j \in found, j > x PROVE j \in fetched
    BY <1>3
  <2>1. x \in found /\ Count(x) < Limit + 1 /\ x < j
    BY <1>0, <1>3
  <2>2. Count(j) < Count(x) /\ Count(j) \in Nat /\ Count(x) \in Nat
    BY <2>1, <1>1, <1>2
  <2> HIDE DEF Count
  <2> QED
    BY <2>1, <2>2, <1>0, <1>3
<1>5. P!Newest(Limit, fetched) = fits
  <2>1. P!Newest(Limit, fetched) = {x \in fetched : Count(x) < Limit}
    BY <1>4, PageCardinality DEF P!Newest
  <2>2. \A x \in found : Count(x) < Limit => Count(x) < Limit + 1
    <3>1. \A x \in found : Count(x) \in Nat
      BY <1>1
    <3> HIDE DEF Count
    <3> QED
      BY <1>0, <3>1
  <2> HIDE DEF Count
  <2> QED
    BY <2>1, <2>2, <1>3
<1>6. ASSUME NEW id \in found, id \notin fits
      PROVE  fetched # fits /\ fits # {} /\ \A x \in fits : id < x
  <2> DEFINE rest == found \ fits
             counts == {Count(x) : x \in rest}
  <2>1. counts \in SUBSET Nat /\ counts # {}
    BY <1>1, <1>6
  <2>2. PICK e \in rest : \A x \in rest : Count(e) <= Count(x)
    <3> HIDE DEF Count
    <3>1. PICK c \in counts : \A y \in counts : c <= y
      <4> HIDE DEF counts
      <4> QED
        BY <2>1, LeastNumber
    <3> QED
      BY <3>1
  <2>3. ASSUME NEW x \in Above(e) PROVE x \in fits
    <3>1. x \in found /\ e \in found /\ e < x
      BY <1>0, <2>3
    <3>2. Count(x) < Count(e) /\ Count(x) \in Nat /\ Count(e) \in Nat
      BY <3>1, <1>1, <1>2
    <3> HIDE DEF Count
    <3> QED
      BY <3>1, <3>2, <2>2
  <2>4. Count(e) >= Limit /\ Count(e) \in Nat
    <3>1. ~(Count(e) < Limit) /\ Count(e) \in Nat
      BY <1>1
    <3> HIDE DEF Count
    <3> QED
      BY <1>0, <3>1
  <2>5. Above(e) # {} /\ Above(e) \in SUBSET Nat
    BY <2>4, <1>0, FS_EmptySet
  <2>6. PICK u \in Above(e) : \A y \in Above(e) : u <= y
    <3> HIDE DEF Above
    <3> QED
      BY <2>5, LeastNumber
  <2>7. Above(u) = Above(e) \ {u}
    <3>1. u \in Nat /\ u \in found /\ u > e /\ e \in Nat
      BY <1>0
    <3>2. \A j \in found : j \in Nat /\ (j > e => u <= j)
      BY <2>6, <1>0
    <3>3. \A j \in found : j > u <=> j > e /\ j # u
      BY <3>1, <3>2
    <3> QED
      BY <3>1, <3>3
  <2>8. Count(u) = Count(e) - 1
    <3>1. IsFiniteSet(Above(e)) /\ u \in Above(e)
      BY <1>1, <2>6
    <3> HIDE DEF Above
    <3>2. Cardinality(Above(e) \ {u}) = Cardinality(Above(e)) - 1
      BY <3>1, FS_RemoveElement
    <3> QED
      BY <2>7, <3>2
  <2>9. u \in fits
    BY <2>3, <2>6
  <2>10. e \in fetched
    <3>1. Count(u) < Limit /\ e \in found
      BY <2>9
    <3> HIDE DEF Count
    <3> QED
      BY <2>4, <2>8, <3>1, <1>0, <1>3
  <2>11. ASSUME NEW x \in fits PROVE id < x
    <3>1. ~(x < id)
      <4> SUFFICES ASSUME x < id PROVE FALSE
        OBVIOUS
      <4>1. Count(id) < Count(x) /\ Count(id) \in Nat /\ Count(x) \in Nat
        BY <1>1, <1>2
      <4> HIDE DEF Count
      <4> QED
        BY <4>1, <1>0, <1>6
    <3>2. x # id /\ x \in Nat /\ id \in Nat
      BY <1>6, <1>0
    <3> QED
      BY <3>1, <3>2
  <2> HIDE DEF fits
  <2> QED
    BY <2>9, <2>10, <2>11
<1>7. ASSUME NEW id \in found, id \notin fits
      PROVE  id < P!NextCursor(fetched) /\ P!NextCursor(fetched) \in Nat
  <2>1. fits \in SUBSET Nat
    BY <1>0
  <2>2. P!NextCursor(fetched) = P!Min(fits)
    BY <1>5, <1>6, <1>7 DEF P!NextCursor
  <2>3. P!Min(fits) \in fits
    <3> HIDE DEF fits
    <3> QED
      BY <2>1, <1>6, <1>7, LeastNumber
  <2> HIDE DEF fits
  <2> QED
    BY <2>1, <2>2, <2>3, <1>6, <1>7
<1>8. P!NextCursor(fetched) \in Nat
  <2>1. CASE fetched = fits
    BY <2>1, <1>5 DEF P!NextCursor
  <2>2. CASE fetched # fits
    <3>1. PICK id \in found : id \notin fits
      BY <2>2, <1>0, <1>3, <1>5 DEF P!Newest
    <3> QED
      BY <3>1, <1>7
  <2> QED
    BY <2>1, <2>2
<1>9. fits \subseteq found
  OBVIOUS
<1> HIDE DEF fits
<1> QED
  BY <1>5, <1>7, <1>8, <1>9 DEF fetched

-----------------------------------------------------------------------------
(***************************************************************************)
(* The page of tasks: rows only move on.  A host that was seen as done     *)
(* stays done for as long as it has a row, and no row comes back, so the   *)
(* rows of a page, of a dialog and of a request are a past of the task's   *)
(* (Forward).                                                              *)
(***************************************************************************)
Forward(old, new) ==
    /\ DOMAIN new \subseteq DOMAIN old
    /\ \A h \in DOMAIN new : old[h] = "done" => new[h] = "done"

Moved == /\ tasks' \in Seq(P!Task)
         /\ DOMAIN tasks \subseteq DOMAIN tasks'
         /\ \A id \in DOMAIN tasks : Forward(tasks[id].rows, tasks'[id].rows)

LEMMA TaskIs ==
    ASSUME NEW t \in P!Task
    PROVE  /\ t.type \in P!AllTypes /\ DOMAIN t.rows \subseteq Hosts
           /\ t.rows \in [DOMAIN t.rows -> P!States]
           /\ t = [type |-> t.type, rows |-> t.rows]
<1>1. PICK hs \in SUBSET Hosts : t \in [type : P!AllTypes, rows : [hs -> P!States]]
  BY DEF P!Task
<1> QED
  BY <1>1

LEMMA IsTask ==
    ASSUME NEW type \in P!AllTypes, NEW hs \in SUBSET Hosts, NEW rs \in [hs -> P!States]
    PROVE  [type |-> type, rows |-> rs] \in P!Task
<1>1. [type |-> type, rows |-> rs] \in [type : P!AllTypes, rows : [hs -> P!States]]
  OBVIOUS
<1> QED
  BY <1>1 DEF P!Task

\* A task's rows are replaced by what comes after them.
LEMMA RowsSet ==
    ASSUME tasks \in Seq(P!Task), NEW id \in DOMAIN tasks,
           NEW hs \in SUBSET Hosts, NEW rs \in [hs -> P!States],
           Forward(tasks[id].rows, rs),
           tasks' = P!SetRows(id, rs)
    PROVE  Moved
<1> DEFINE t == [type |-> tasks[id].type, rows |-> rs]
<1>1. tasks[id] \in P!Task
  OBVIOUS
<1>2. tasks[id].type \in P!AllTypes /\ tasks[id] = [type |-> tasks[id].type, rows |-> tasks[id].rows]
  BY <1>1, TaskIs
<1>3. [tasks[id] EXCEPT !.rows = rs] = t
  BY <1>2
<1>4. tasks' = [tasks EXCEPT ![id] = t]
  BY <1>3 DEF P!SetRows
<1>5. t \in P!Task
  BY <1>2, IsTask
<1>6. t.rows = rs
  OBVIOUS
<1> HIDE DEF t
<1>7. tasks' \in Seq(P!Task) /\ DOMAIN tasks' = DOMAIN tasks
  BY <1>4, <1>5
<1>8. \A x \in DOMAIN tasks : tasks'[x] = IF x = id THEN t ELSE tasks[x]
  BY <1>4
<1> QED
  BY <1>6, <1>7, <1>8 DEF Moved, Forward

LEMMA Stays ==
    ASSUME tasks \in Seq(P!Task), tasks' = tasks PROVE Moved
  BY DEF Moved, Forward

LEMMA CreateMoves ==
    ASSUME tasks \in Seq(P!Task), NEW type \in Types, NEW hs \in SUBSET Hosts,
           P!Create(type, hs)
    PROVE  Moved
<1> DEFINE t == [type |-> type, rows |-> [h \in hs |-> "pending"]]
<1>1. type \in P!AllTypes /\ [h \in hs |-> "pending"] \in [hs -> P!States]
  BY PageAssumption DEF P!States
<1>2. t \in P!Task
  BY <1>1, IsTask
<1>3. tasks' = Append(tasks, t)
  BY DEF P!Create, P!Rows
<1> HIDE DEF t
<1>4. tasks' \in Seq(P!Task) /\ DOMAIN tasks \subseteq DOMAIN tasks'
      /\ \A id \in DOMAIN tasks : tasks'[id] = tasks[id]
  BY <1>2, <1>3
<1> QED
  BY <1>4 DEF Moved, Forward

\* One host's row takes another state; it was not done.
LEMMA RowSet ==
    ASSUME tasks \in Seq(P!Task), NEW id \in DOMAIN tasks, NEW h \in DOMAIN tasks[id].rows,
           tasks[id].rows[h] # "done", NEW s \in P!States,
           tasks' = [tasks EXCEPT ![id].rows[h] = s]
    PROVE  Moved
<1> DEFINE rs == [tasks[id].rows EXCEPT ![h] = s]
<1>1. tasks[id] \in P!Task
  OBVIOUS
<1>2. DOMAIN tasks[id].rows \in SUBSET Hosts /\ tasks[id].rows \in [DOMAIN tasks[id].rows -> P!States]
  BY <1>1, TaskIs
<1>3. rs \in [DOMAIN tasks[id].rows -> P!States] /\ Forward(tasks[id].rows, rs)
  BY <1>2 DEF Forward
<1>4. tasks' = P!SetRows(id, rs)
  BY DEF P!SetRows
<1> HIDE DEF rs
<1> QED
  BY <1>2, <1>3, <1>4, RowsSet

\* What a cancel, a retry and a kick make of a task's rows.
Kicked(rs, h) ==
    [g \in DOMAIN rs |->
        IF g = h /\ rs[g] \in {"pending", "running"} THEN "failed" ELSE rs[g]]

LEMMA RowsMove ==
    ASSUME NEW hs, NEW rs \in [hs -> P!States], NEW h
    PROVE  /\ P!Cancelled(rs) \in [hs -> P!States] /\ Forward(rs, P!Cancelled(rs))
           /\ P!Retried(rs) \in [hs -> P!States] /\ Forward(rs, P!Retried(rs))
           /\ Kicked(rs, h) \in [hs -> P!States] /\ Forward(rs, Kicked(rs, h))
<1>1. P!Cancelled(rs) \in [hs -> P!States] /\ Forward(rs, P!Cancelled(rs))
  BY DEF P!Cancelled, Forward, P!States
<1>2. P!Retried(rs) \in [hs -> P!States] /\ Forward(rs, P!Retried(rs))
  BY DEF P!Retried, Forward, P!States
<1>3. Kicked(rs, h) \in [hs -> P!States] /\ Forward(rs, Kicked(rs, h))
  BY DEF Forward, Kicked, P!States
<1> QED
  BY <1>1, <1>2, <1>3

LEMMA AgentMoves ==
    ASSUME tasks \in Seq(P!Task), NEW id, NEW h, P!Agent(id, h)
    PROVE  Moved
<1>1. id \in DOMAIN tasks /\ h \in DOMAIN tasks[id].rows
  BY DEF P!Agent
<1>2. /\ tasks[id].rows[h] # "done"
      /\ \E s \in {"running", "done", "failed"} : tasks' = [tasks EXCEPT ![id].rows[h] = s]
  BY DEF P!Agent, P!Rows
<1>3. {"running", "done", "failed"} \subseteq P!States
  BY DEF P!States
<1> QED
  BY <1>1, <1>2, <1>3, RowSet

LEMMA ElsewhereMoves ==
    ASSUME tasks \in Seq(P!Task), NEW id, P!Elsewhere(id)
    PROVE  Moved
<1> DEFINE rs == tasks[id].rows
<1>1. id \in DOMAIN tasks /\ tasks[id] \in P!Task
  BY DEF P!Elsewhere
<1>2. DOMAIN rs \in SUBSET Hosts /\ rs \in [DOMAIN rs -> P!States]
  BY <1>1, TaskIs
<1>3. tasks' = P!SetRows(id, P!Cancelled(rs)) \/ tasks' = P!SetRows(id, P!Retried(rs))
  BY DEF P!Elsewhere, P!Rows
<1> HIDE DEF rs
<1>4. /\ P!Cancelled(rs) \in [DOMAIN rs -> P!States] /\ Forward(rs, P!Cancelled(rs))
      /\ P!Retried(rs) \in [DOMAIN rs -> P!States] /\ Forward(rs, P!Retried(rs))
  BY <1>2, RowsMove
<1> QED
  BY <1>1, <1>2, <1>3, <1>4, RowsSet DEF rs

\* Every task is replaced by what comes after it.
LEMMA AllMove ==
    ASSUME tasks \in Seq(P!Task), DOMAIN tasks' = DOMAIN tasks,
           tasks' = [id \in DOMAIN tasks |-> tasks'[id]],
           \A id \in DOMAIN tasks :
               tasks'[id] \in P!Task /\ Forward(tasks[id].rows, tasks'[id].rows)
    PROVE  Moved
<1>1. DOMAIN tasks = 1 .. Len(tasks) /\ Len(tasks) \in Nat
  OBVIOUS
<1>2. tasks' \in [1 .. Len(tasks) -> P!Task]
  BY <1>1
<1>3. tasks' \in Seq(P!Task)
  BY <1>1, <1>2
<1> QED
  BY <1>3 DEF Moved

LEMMA DeleteHostMoves ==
    ASSUME tasks \in Seq(P!Task), NEW h, P!DeleteHost(h)
    PROVE  Moved
<1> DEFINE Rest(id) == [g \in DOMAIN tasks[id].rows \ {h} |-> tasks[id].rows[g]]
           t(id) == [type |-> tasks[id].type, rows |-> Rest(id)]
<1>1. tasks' = [id \in DOMAIN tasks |->
                  [tasks[id] EXCEPT !.rows = [g \in DOMAIN @ \ {h} |-> @[g]]]]
  BY DEF P!DeleteHost, P!Rows
<1>2. ASSUME NEW id \in DOMAIN tasks
      PROVE  tasks'[id] \in P!Task /\ Forward(tasks[id].rows, tasks'[id].rows)
  <2>1. tasks[id] \in P!Task
    OBVIOUS
  <2>2. /\ tasks[id].type \in P!AllTypes /\ DOMAIN tasks[id].rows \subseteq Hosts
        /\ tasks[id].rows \in [DOMAIN tasks[id].rows -> P!States]
        /\ tasks[id] = [type |-> tasks[id].type, rows |-> tasks[id].rows]
    BY <2>1, TaskIs
  <2>3. [tasks[id] EXCEPT !.rows = Rest(id)] = t(id)
    BY <2>2
  <2>4. tasks'[id] = t(id)
    BY <1>1, <2>3
  <2>5. Rest(id) \in [DOMAIN tasks[id].rows \ {h} -> P!States]
    BY <2>2
  <2>6. t(id) \in P!Task
    BY <2>2, <2>5, IsTask
  <2>7. Forward(tasks[id].rows, t(id).rows)
    BY DEF Forward
  <2> QED
    BY <2>4, <2>6, <2>7
<1> QED
  BY <1>1, <1>2, AllMove

LEMMA DeleteImageMoves ==
    ASSUME tasks \in Seq(P!Task), P!DeleteImage
    PROVE  Moved
<1> DEFINE t(id) == [type |-> tasks[id].type, rows |-> P!Cancelled(tasks[id].rows)]
<1>1. tasks' = [id \in DOMAIN tasks |->
                  IF tasks[id].type \in P!Captures
                  THEN [tasks[id] EXCEPT !.rows = P!Cancelled(@)] ELSE tasks[id]]
  BY DEF P!DeleteImage, P!Rows
<1>2. ASSUME NEW id \in DOMAIN tasks
      PROVE  tasks'[id] \in P!Task /\ Forward(tasks[id].rows, tasks'[id].rows)
  <2>1. tasks[id] \in P!Task
    OBVIOUS
  <2>2. /\ tasks[id].type \in P!AllTypes /\ DOMAIN tasks[id].rows \subseteq Hosts
        /\ tasks[id].rows \in [DOMAIN tasks[id].rows -> P!States]
        /\ tasks[id] = [type |-> tasks[id].type, rows |-> tasks[id].rows]
    BY <2>1, TaskIs
  <2>3. [tasks[id] EXCEPT !.rows = P!Cancelled(tasks[id].rows)] = t(id)
    BY <2>2
  <2>4. tasks'[id] = t(id) \/ tasks'[id] = tasks[id]
    BY <1>1, <2>3
  <2>5. /\ P!Cancelled(tasks[id].rows) \in [DOMAIN tasks[id].rows -> P!States]
        /\ Forward(tasks[id].rows, P!Cancelled(tasks[id].rows))
    BY <2>2, RowsMove
  <2>6. t(id) \in P!Task
    BY <2>2, <2>5, IsTask
  <2>7. t(id).rows = P!Cancelled(tasks[id].rows)
    OBVIOUS
  <2>8. Forward(tasks[id].rows, tasks[id].rows)
    BY DEF Forward
  <2> HIDE DEF t
  <2> QED
    BY <2>1, <2>4, <2>5, <2>6, <2>7, <2>8
<1> QED
  BY <1>1, <1>2, AllMove

LEMMA ServerMoves ==
    ASSUME tasks \in Seq(P!Task), P!ServerWrites, request.task \in DOMAIN tasks
    PROVE  Moved
<1> DEFINE rs == tasks[request.task].rows
           kicked == Kicked(rs, request.host)
<1>1. tasks[request.task] \in P!Task
  OBVIOUS
<1>2. DOMAIN rs \in SUBSET Hosts /\ rs \in [DOMAIN rs -> P!States]
  BY <1>1, TaskIs
<1>3. \/ tasks' = P!SetRows(request.task, P!Cancelled(rs))
      \/ tasks' = P!SetRows(request.task, P!Retried(rs))
      \/ tasks' = P!SetRows(request.task, kicked)
  BY DEF P!ServerWrites, P!Rows, Kicked
<1>4. /\ P!Cancelled(rs) \in [DOMAIN rs -> P!States] /\ Forward(rs, P!Cancelled(rs))
      /\ P!Retried(rs) \in [DOMAIN rs -> P!States] /\ Forward(rs, P!Retried(rs))
      /\ kicked \in [DOMAIN rs -> P!States] /\ Forward(rs, kicked)
  <2> HIDE DEF rs
  <2> QED
    BY <1>2, RowsMove
<1> HIDE DEF kicked
<1> QED
  BY <1>1, <1>2, <1>3, <1>4, RowsSet

-----------------------------------------------------------------------------
(***************************************************************************)
(* The page of tasks: its invariant.  What was fetched, is shown, or is    *)
(* asked for names tasks of the past (Past); what is fetched and shown     *)
(* answers the filter and the cursor that are set (Answers), and every     *)
(* task that matched all along was seen or comes on a later page (Ahead).  *)
(***************************************************************************)
Filters == [status : P!Statuses, kind : P!Kinds, host : Hosts \cup {NoHost}]

PastRows(id, rs) == id \in DOMAIN tasks /\ Forward(rs, tasks[id].rows)
Past(pg) == \A t \in pg.tasks : PastRows(t.id, t.rows)
Named(pg, id) == \E t \in pg.tasks : t.id = id

Fits(t) == /\ filter.status # "all" => t.state \in P!StatusStates(filter.status)
           /\ filter.kind # "all" => t.kind = filter.kind
           /\ filter.host # NoHost => filter.host \in DOMAIN t.rows
Answers(pg) == pg.query = P!Query /\ \A t \in pg.tasks : Fits(t)
Ahead(c) == \A id \in steady : id \in seen \/ id < c

TableOk ==
    /\ tasks \in Seq(P!Task) /\ filter \in Filters /\ cursors \in Seq(Nat)
    /\ steady \subseteq P!Matching(filter)
    /\ \A k \in DOMAIN cursors : Ahead(cursors[k])

FetchOk ==
    /\ fetch = [pc |-> fetch.pc, query |-> fetch.query, page |-> fetch.page]
    /\ fetch.page.next \in Nat /\ Past(fetch.page)
    /\ fetch.pc \in {"asked", "answered"} => fetch.query = P!Query
    /\ fetch.pc = "answered" =>
          /\ Answers(fetch.page)
          /\ \A id \in steady : id \in seen \/ Named(fetch.page, id) \/ id < fetch.page.next

PolledOk ==
    /\ polled = [has |-> polled.has, page |-> polled.page, error |-> polled.error]
    /\ polled.page.next \in Nat /\ Past(polled.page)
    /\ IF polled.has THEN Answers(polled.page) /\ Ahead(polled.page.next)
       ELSE polled.page = P!NoPage

DialogOk == dialog # 0 => Named(polled.page, dialog)

RequestOk ==
    /\ request = [op |-> request.op, pc |-> request.pc, task |-> request.task,
                  host |-> request.host, rows |-> request.rows]
    /\ request.pc # "idle" => PastRows(request.task, request.rows)

PageInv == TableOk /\ FetchOk /\ PolledOk /\ DialogOk /\ RequestOk

table == <<tasks, filter, cursors, steady, seen>>

LEMMA TableFrame == ASSUME TableOk, UNCHANGED table PROVE TableOk'
  BY DEF TableOk, table, Ahead, P!Matching
LEMMA FetchFrame == ASSUME FetchOk, UNCHANGED <<table, fetch>> PROVE FetchOk'
  BY DEF FetchOk, table, Past, PastRows, Answers, Fits, Named, P!Query
LEMMA PolledFrame == ASSUME PolledOk, UNCHANGED <<table, polled>> PROVE PolledOk'
  BY DEF PolledOk, table, Past, PastRows, Answers, Fits, Ahead, P!Query, P!NoPage, P!NoQuery
LEMMA DialogFrame == ASSUME DialogOk, UNCHANGED <<polled, dialog>> PROVE DialogOk'
  BY DEF DialogOk, Named
LEMMA RequestFrame == ASSUME RequestOk, UNCHANGED <<table, request>> PROVE RequestOk'
  BY DEF RequestOk, table, PastRows

\* The loop starts over, sleeps, or the page is cleared.
LEMMA NothingFetched ==
    ASSUME fetch.page = P!NoPage, fetch.pc \notin {"asked", "answered"},
           fetch = [pc |-> fetch.pc, query |-> fetch.query, page |-> fetch.page]
    PROVE  FetchOk
  BY DEF FetchOk, Past, P!NoPage
LEMMA FetchStarts ==
    ASSUME NEW pc \in {"send", "sleep"}, fetch' = [P!Starting EXCEPT !.pc = pc] PROVE FetchOk'
<1>1. /\ fetch'.page = P!NoPage /\ fetch'.pc \notin {"asked", "answered"}
      /\ fetch' = [pc |-> fetch'.pc, query |-> fetch'.query, page |-> fetch'.page]
  BY DEF P!Starting
<1> QED
  BY <1>1 DEF FetchOk, Past, P!NoPage
LEMMA NothingPolled == ASSUME polled' = P!Unpolled PROVE PolledOk'
<1>1. /\ polled'.has = FALSE /\ polled'.page = P!NoPage
      /\ polled' = [has |-> polled'.has, page |-> polled'.page, error |-> polled'.error]
  BY DEF P!Unpolled
<1> QED
  BY <1>1 DEF PolledOk, Past, P!NoPage, P!NoQuery
LEMMA NothingAsked == ASSUME request' = P!NoRequest PROVE RequestOk'
  BY DEF P!NoRequest, RequestOk

LEMMA PageStarts == P!Init => PageInv
<1> SUFFICES ASSUME P!Init PROVE PageInv
  OBVIOUS
<1>1. tasks \in Seq(P!Task)
  BY PageAssumption DEF P!Init
<1>2. filter \in Filters
  BY DEF P!Init, Filters, P!Statuses, P!Kinds
<1>3. cursors = <<>> /\ dialog = 0 /\ steady = P!Matching(filter)
  BY DEF P!Init
<1>4. TableOk
  BY <1>1, <1>2, <1>3 DEF TableOk
<1>5. FetchOk
  BY NothingFetched DEF P!Init, P!Starting
<1>6. PolledOk
  <2>1. /\ polled.has = FALSE /\ polled.page = P!NoPage
        /\ polled = [has |-> polled.has, page |-> polled.page, error |-> polled.error]
    BY DEF P!Init, P!Unpolled
  <2> QED
    BY <2>1 DEF PolledOk, Past, P!NoPage
<1>7. RequestOk
  BY DEF P!Init, P!NoRequest, RequestOk
<1> QED
  BY <1>3, <1>4, <1>5, <1>6, <1>7 DEF PageInv, DialogOk

LEMMA PastKept ==
    ASSUME Moved, NEW id, NEW rs, PastRows(id, rs)
    PROVE  id \in DOMAIN tasks' /\ Forward(rs, tasks'[id].rows)
  BY DEF Moved, PastRows, Forward

\* The server's rows move on under an unchanged page.
LEMMA RowsStep ==
    ASSUME PageInv, Moved, UNCHANGED <<filter, cursors, fetch, polled, dialog, seen>>,
           steady' = {id \in steady : P!Matches(tasks'[id], filter)},
           request' = request \/ (request.pc # "idle" /\ request' = [request EXCEPT !.pc = "written"])
    PROVE  PageInv'
<1>1. TableOk'
  <2>1. \A id \in steady : id \in DOMAIN tasks
    BY DEF PageInv, TableOk, P!Matching
  <2>2. steady' \subseteq P!Matching(filter)'
    BY <2>1 DEF Moved, P!Matching
  <2>3. (\A k \in DOMAIN cursors : Ahead(cursors[k]))'
    BY DEF PageInv, TableOk, Ahead
  <2> QED
    BY <2>2, <2>3 DEF PageInv, TableOk, Moved
<1>2. FetchOk'
  <2>1. Past(fetch.page)'
    BY PastKept DEF PageInv, FetchOk, Past, PastRows
  <2>2. fetch.pc = "answered" => Answers(fetch.page)'
    BY DEF PageInv, FetchOk, Answers, Fits, P!Query
  <2>3. fetch.pc = "answered" =>
          \A id \in steady' : id \in seen \/ Named(fetch.page, id)' \/ id < fetch.page.next
    BY DEF PageInv, FetchOk, Named
  <2> QED
    BY <2>1, <2>2, <2>3 DEF PageInv, FetchOk, P!Query
<1>3. PolledOk'
  <2>1. Past(polled.page)'
    BY PastKept DEF PageInv, PolledOk, Past, PastRows
  <2>2. polled.has => Answers(polled.page)' /\ Ahead(polled.page.next)'
    BY DEF PageInv, PolledOk, Answers, Fits, Ahead, P!Query
  <2> QED
    BY <2>1, <2>2 DEF PageInv, PolledOk, P!NoPage, P!NoQuery
<1>4. DialogOk'
  BY DialogFrame DEF PageInv
<1>5. RequestOk'
  <2>1. /\ \/ request' = request
           \/ /\ request.pc # "idle" /\ request'.pc = "written"
              /\ request'.task = request.task /\ request'.rows = request.rows
        /\ request' = [op |-> request'.op, pc |-> request'.pc, task |-> request'.task,
                       host |-> request'.host, rows |-> request'.rows]
    BY DEF PageInv, RequestOk
  <2>2. request'.pc # "idle" => PastRows(request.task, request.rows)
    BY <2>1 DEF PageInv, RequestOk
  <2>3. request'.pc # "idle" =>
           /\ request.task \in DOMAIN tasks'
           /\ Forward(request.rows, tasks'[request.task].rows)
    BY <2>2, PastKept
  <2> QED
    BY <2>1, <2>3 DEF RequestOk, PastRows
<1> QED
  BY <1>1, <1>2, <1>3, <1>4, <1>5 DEF PageInv

-----------------------------------------------------------------------------
(***************************************************************************)
(* The page of tasks: its steps.                                           *)
(***************************************************************************)
LEMMA KindIs ==
    ASSUME NEW k \in P!Kinds \ {"all"}, NEW type \in P!StoredTypes(k)
    PROVE  P!KindOf(type) = k
<1>1. \A j \in P!Kinds \ {"all"} : type \in P!StoredTypes(j) => j = k
  BY DEF P!Kinds, P!StoredTypes, P!Captures
<1> QED
  BY <1>1 DEF P!KindOf

\* What the listing finds for the filter is shown as what the filter asks for.
LEMMA ShownFits ==
    ASSUME TableOk, NEW id \in P!Matching(filter)
    PROVE  /\ Fits(P!Shown(id)) /\ P!Shown(id).id = id
           /\ PastRows(id, P!Shown(id).rows) /\ id \in Nat
<1>1. id \in DOMAIN tasks /\ P!Matches(tasks[id], filter) /\ tasks[id] \in P!Task /\ id \in Nat
  BY DEF P!Matching, TableOk
<1>2. tasks[id].rows \in [DOMAIN tasks[id].rows -> P!States]
  BY <1>1, TaskIs
<1>3. P!AggregateState(tasks[id].rows) = P!ViewState(tasks[id].rows)
  BY <1>2, StatesAgree
<1>4. /\ P!Shown(id).id = id /\ P!Shown(id).rows = tasks[id].rows
      /\ P!Shown(id).state = P!ViewState(tasks[id].rows)
      /\ P!Shown(id).kind = P!KindOf(tasks[id].type)
  BY <1>3 DEF P!Shown
<1>5. filter.kind # "all" => P!KindOf(tasks[id].type) = filter.kind
  <2>1. filter.kind \in P!Kinds
    BY DEF TableOk, Filters
  <2> QED
    BY <2>1, <1>1, KindIs DEF P!Matches
<1>6. Fits(P!Shown(id))
  BY <1>1, <1>4, <1>5 DEF Fits, P!Matches
<1> QED
  BY <1>1, <1>4, <1>6 DEF PastRows, Forward

LEMMA AnswerStep == ASSUME PageInv, P!Answer PROVE PageInv'
<1> DEFINE q == P!Query
           found == {id \in P!Matching(filter) : q.before = 0 \/ id < q.before}
           fetched == P!Newest(Limit + 1, found)
           fits == P!Newest(Limit, fetched)
           pg == [query |-> q, tasks |-> {P!Shown(id) : id \in fits}, next |-> P!NextCursor(fetched)]
<1>1. fetch.query = q /\ q.filter = filter
  BY DEF PageInv, FetchOk, P!Answer, P!Query
<1>2. P!List(q) = pg
  BY <1>1 DEF P!List
<1>3. found \in SUBSET Nat /\ IsFiniteSet(found)
  <2>1. found \subseteq 1 .. Len(tasks) /\ Len(tasks) \in Nat
    BY DEF PageInv, TableOk, P!Matching
  <2>2. IsFiniteSet(1 .. Len(tasks)) /\ 1 .. Len(tasks) \subseteq Nat
    BY <2>1, FS_Interval
  <2> HIDE DEF found
  <2>3. IsFiniteSet(found)
    BY <2>1, <2>2, FS_Subset
  <2> QED
    BY <2>1, <2>2, <2>3
<1>4. /\ P!NextCursor(fetched) \in Nat /\ fits \subseteq found
      /\ \A id \in found : id \in fits \/ id < P!NextCursor(fetched)
  <2> HIDE DEF found
  <2> QED
    BY <1>3, PageIsComplete
<1>5. \A id \in steady : id \in seen \/ id \in found
  <2> SUFFICES ASSUME NEW id \in steady, id \notin seen PROVE id \in found
    OBVIOUS
  <2>1. id \in P!Matching(filter)
    BY DEF PageInv, TableOk
  <2>2. CASE cursors = <<>>
    BY <2>1, <2>2 DEF P!Query
  <2>3. CASE cursors # <<>>
    <3>1. Len(cursors) \in DOMAIN cursors /\ q.before = cursors[Len(cursors)]
      BY <2>3 DEF PageInv, TableOk, P!Query, P!Last
    <3>2. id < q.before
      BY <3>1 DEF PageInv, TableOk, Ahead
    <3> QED
      BY <2>1, <3>2
  <2> QED
    BY <2>2, <2>3
<1>6. \A id \in fits : Fits(P!Shown(id)) /\ P!Shown(id).id = id /\ PastRows(id, P!Shown(id).rows)
  BY <1>4, ShownFits DEF PageInv
<1>7. fetch' = [pc |-> "answered", query |-> q, page |-> pg]
      /\ UNCHANGED <<table, polled, dialog, request>>
  BY <1>1, <1>2 DEF P!Answer, PageInv, FetchOk, table
<1> HIDE DEF found, q
<1>8. /\ pg.next \in Nat /\ Past(pg) /\ pg.query = q /\ \A t \in pg.tasks : Fits(t)
      /\ \A id \in steady : id \in seen \/ Named(pg, id) \/ id < pg.next
  <2> HIDE DEF fits, fetched
  <2> QED
    BY <1>4, <1>5, <1>6 DEF Past, Named
<1> HIDE DEF pg
<1>9. FetchOk'
  <2>1. fetch'.page = pg /\ fetch'.query = q /\ fetch'.pc = "answered"
        /\ fetch' = [pc |-> fetch'.pc, query |-> fetch'.query, page |-> fetch'.page]
    BY <1>7
  <2>2. q = P!Query'
    BY <1>7 DEF q, P!Query, table
  <2>3. Past(fetch.page)'
    BY <1>7, <1>8, <2>1 DEF table, Past, PastRows
  <2>4. Answers(fetch.page)'
    BY <1>7, <1>8, <2>1, <2>2 DEF table, Answers, Fits
  <2>5. (\A id \in steady : id \in seen \/ Named(fetch.page, id) \/ id < fetch.page.next)'
    BY <1>7, <1>8, <2>1 DEF table, Named
  <2> QED
    BY <1>8, <2>1, <2>2, <2>3, <2>4, <2>5 DEF FetchOk
<1> QED
  BY <1>7, <1>9, TableFrame, PolledFrame, DialogFrame, RequestFrame DEF PageInv

LEMMA SendStep == ASSUME PageInv, P!Send PROVE PageInv'
<1>1. UNCHANGED <<table, polled, dialog, request>>
  BY DEF P!Send, table
<1>2. FetchOk'
  <2>1. fetch' = [pc |-> "asked", query |-> P!Query, page |-> fetch.page]
    BY DEF PageInv, FetchOk, P!Send
  <2>2. fetch'.pc = "asked" /\ fetch'.query = P!Query /\ fetch'.page = fetch.page
        /\ fetch' = [pc |-> fetch'.pc, query |-> fetch'.query, page |-> fetch'.page]
    BY <2>1
  <2>3. P!Query' = P!Query /\ Past(fetch.page) /\ fetch.page.next \in Nat
    BY <1>1 DEF P!Query, table, PageInv, FetchOk
  <2>4. Past(fetch.page)'
    BY <1>1, <2>2, <2>3 DEF Past, PastRows, table
  <2> QED
    BY <2>2, <2>3, <2>4 DEF FetchOk
<1> QED
  BY <1>1, <1>2, TableFrame, PolledFrame, DialogFrame, RequestFrame DEF PageInv

LEMMA RecordStep == ASSUME PageInv, P!Record PROVE PageInv'
<1>1. /\ UNCHANGED <<tasks, filter, cursors, steady, request>>
      /\ fetch.pc = "answered"
      /\ fetch' = [P!Starting EXCEPT !.pc = "sleep"]
      /\ seen' = seen \cup {t.id : t \in fetch.page.tasks}
      /\ dialog' = 0 \/ (dialog' = dialog /\ Named(fetch.page, dialog))
  BY DEF P!Record, Named
<1>2. /\ polled'.has = TRUE /\ polled'.page = fetch.page
      /\ polled' = [has |-> polled'.has, page |-> polled'.page, error |-> polled'.error]
  BY DEF P!Record
<1>3. TableOk'
  <2>1. (\A k \in DOMAIN cursors : Ahead(cursors[k]))'
    BY <1>1 DEF PageInv, TableOk, Ahead
  <2>2. (steady \subseteq P!Matching(filter))'
    BY <1>1 DEF PageInv, TableOk, P!Matching
  <2> QED
    BY <1>1, <2>1, <2>2 DEF PageInv, TableOk
<1>4. PolledOk'
  <2>1. Answers(fetch.page) /\ Past(fetch.page) /\ fetch.page.next \in Nat
    BY <1>1 DEF PageInv, FetchOk
  <2>2. \A id \in steady : id \in seen' \/ id < fetch.page.next
    BY <1>1 DEF PageInv, FetchOk, Named
  <2>3. Answers(polled.page)' /\ Ahead(polled.page.next)'
    BY <1>1, <1>2, <2>1, <2>2 DEF Answers, Fits, Ahead, P!Query
  <2>4. Past(polled.page)'
    BY <1>1, <1>2, <2>1 DEF Past, PastRows
  <2> QED
    BY <1>2, <2>1, <2>3, <2>4 DEF PolledOk
<1>5. DialogOk'
  BY <1>1, <1>2 DEF DialogOk, Named
<1>6. RequestOk'
  BY <1>1 DEF PageInv, RequestOk, PastRows
<1> QED
  BY <1>1, <1>3, <1>4, <1>5, <1>6, FetchStarts DEF PageInv

LEMMA FailsStep == ASSUME PageInv, P!FetchFails PROVE PageInv'
<1>1. UNCHANGED <<table, dialog, request>> /\ fetch' = [P!Starting EXCEPT !.pc = "sleep"]
      /\ polled' = [polled EXCEPT !.error = TRUE]
  BY DEF P!FetchFails, table
<1>2. /\ polled'.has = polled.has /\ polled'.page = polled.page
      /\ polled' = [has |-> polled'.has, page |-> polled'.page, error |-> polled'.error]
  BY <1>1 DEF PageInv, PolledOk
<1>3. PolledOk'
  BY <1>1, <1>2 DEF PageInv, PolledOk, table, Past, PastRows, Answers, Fits, Ahead, P!Query,
                    P!NoPage, P!NoQuery
<1>4. DialogOk'
  BY <1>1, <1>2 DEF PageInv, DialogOk, Named
<1> QED
  BY <1>1, <1>3, <1>4, FetchStarts, TableFrame, RequestFrame DEF PageInv

\* The poll starts over and keeps what is shown: Wake and Changed.
LEMMA RestartStep ==
    ASSUME PageInv, UNCHANGED <<table, polled, dialog>>, fetch' = P!Starting,
           request' = request \/ request' = P!NoRequest
    PROVE  PageInv'
<1>1. fetch' = [P!Starting EXCEPT !.pc = "send"]
  BY DEF P!Starting
<1> QED
  BY <1>1, FetchStarts, TableFrame, PolledFrame, DialogFrame, RequestFrame, NothingAsked
     DEF PageInv

\* The page is set to something else.
LEMMA ReloadStep ==
    ASSUME PageInv, TableOk', P!Reload, dialog' = 0, UNCHANGED <<tasks, request>>
    PROVE  PageInv'
<1>1. fetch' = [P!Starting EXCEPT !.pc = "send"] /\ polled' = P!Unpolled
  BY DEF P!Starting, P!Reload
<1>2. RequestOk'
  BY DEF PageInv, RequestOk, PastRows
<1> QED
  BY <1>1, <1>2, FetchStarts, NothingPolled DEF PageInv, DialogOk

LEMMA RefilterStep ==
    ASSUME PageInv, NEW f \in Filters, P!Refilter(f) PROVE PageInv'
<1>1. filter' = f /\ cursors' = <<>> /\ steady' = P!Matching(f) /\ tasks' = tasks
  BY DEF P!Refilter
<1>2. TableOk'
  <2>1. steady' \subseteq P!Matching(filter)'
    BY <1>1 DEF P!Matching
  <2> QED
    BY <1>1, <2>1 DEF PageInv, TableOk
<1> QED
  BY <1>2, ReloadStep DEF P!Refilter

LEMMA OlderStep == ASSUME PageInv, P!Older PROVE PageInv'
<1>1. UNCHANGED <<tasks, filter, steady, seen>> /\ polled.page.next # 0
      /\ cursors' = Append(cursors, polled.page.next)
  BY DEF P!Older
<1>2. Ahead(polled.page.next) /\ polled.page.next \in Nat
  BY <1>1 DEF PageInv, PolledOk, P!NoPage
<1>3. TableOk'
  <2>1. cursors' \in Seq(Nat)
        /\ \A k \in DOMAIN cursors' : cursors'[k] = polled.page.next
                                      \/ (k \in DOMAIN cursors /\ cursors'[k] = cursors[k])
    BY <1>1, <1>2 DEF PageInv, TableOk
  <2>2. (\A k \in DOMAIN cursors : Ahead(cursors[k]))'
    BY <1>1, <1>2, <2>1 DEF PageInv, TableOk, Ahead
  <2>3. (steady \subseteq P!Matching(filter))'
    BY <1>1 DEF PageInv, TableOk, P!Matching
  <2> QED
    BY <1>1, <2>1, <2>2, <2>3 DEF PageInv, TableOk
<1> QED
  BY <1>3, ReloadStep DEF P!Older

LEMMA NewerStep == ASSUME PageInv, P!Newer PROVE PageInv'
<1>1. UNCHANGED <<tasks, filter, steady, seen>> /\ cursors # <<>>
      /\ cursors' = SubSeq(cursors, 1, Len(cursors) - 1)
  BY DEF P!Newer, P!Front
<1>3. TableOk'
  <2>1. cursors' \in Seq(Nat)
        /\ \A k \in DOMAIN cursors' : k \in DOMAIN cursors /\ cursors'[k] = cursors[k]
    BY <1>1 DEF PageInv, TableOk
  <2>2. (\A k \in DOMAIN cursors : Ahead(cursors[k]))'
    BY <1>1, <2>1 DEF PageInv, TableOk, Ahead
  <2>3. (steady \subseteq P!Matching(filter))'
    BY <1>1 DEF PageInv, TableOk, P!Matching
  <2> QED
    BY <1>1, <2>1, <2>2, <2>3 DEF PageInv, TableOk
<1> QED
  BY <1>3, ReloadStep DEF P!Newer

-----------------------------------------------------------------------------
\* A request names the row as it is shown, which is a past of the task's.
LEMMA AskStep ==
    ASSUME PageInv, UNCHANGED <<table, fetch, polled>>, dialog' \in {0, dialog},
           NEW op, NEW id, NEW h, Named(polled.page, id), P!Ask(op, id, h)
    PROVE  PageInv'
<1>1. P!Row(id) \in polled.page.tasks /\ P!Row(id).id = id
  BY DEF Named, P!Row
<1>2. PastRows(id, P!Row(id).rows)
  BY <1>1 DEF PageInv, PolledOk, Past
<1>3. /\ request'.task = id /\ request'.rows = P!Row(id).rows
      /\ request' = [op |-> request'.op, pc |-> request'.pc, task |-> request'.task,
                     host |-> request'.host, rows |-> request'.rows]
  BY DEF P!Ask
<1>4. RequestOk'
  BY <1>2, <1>3 DEF RequestOk, PastRows, table
<1>5. DialogOk'
  BY DEF PageInv, DialogOk, Named
<1> QED
  BY <1>4, <1>5, TableFrame, FetchFrame, PolledFrame DEF PageInv

\* What only moves the request, or opens the dialog on a task that is shown.
LEMMA QuietStep ==
    ASSUME PageInv, UNCHANGED <<table, fetch, polled>>,
           dialog' = dialog \/ Named(polled.page, dialog'),
           \/ request' = request
           \/ request' = P!NoRequest
           \/ request.pc # "idle" /\ request' = [request EXCEPT !.pc = "allowed"]
    PROVE  PageInv'
<1>1. DialogOk'
  BY DEF PageInv, DialogOk, Named
<1>2. RequestOk'
  <2>1. CASE request' = request
    BY <2>1, RequestFrame DEF PageInv
  <2>2. CASE request' = P!NoRequest
    BY <2>2, NothingAsked
  <2>3. CASE request.pc # "idle" /\ request' = [request EXCEPT !.pc = "allowed"]
    <3>1. /\ request'.task = request.task /\ request'.rows = request.rows
          /\ request' = [op |-> request'.op, pc |-> request'.pc, task |-> request'.task,
                         host |-> request'.host, rows |-> request'.rows]
      BY <2>3 DEF PageInv, RequestOk
    <3> QED
      BY <2>3, <3>1 DEF PageInv, RequestOk, PastRows, table
  <2> QED
    BY <2>1, <2>2, <2>3
<1> QED
  BY <1>1, <1>2, TableFrame, FetchFrame, PolledFrame DEF PageInv

LEMMA PageKept == ASSUME PageInv, P!Next PROVE PageInv'
<1>0. tasks \in Seq(P!Task) /\ \A id \in steady : P!Matches(tasks[id], filter)
  BY DEF PageInv, TableOk, P!Matching
<1>1. ASSUME NEW type \in Types, NEW hs \in SUBSET Hosts \ {{}}, P!Create(type, hs) PROVE PageInv'
  <2>1. Moved
    BY <1>0, <1>1, CreateMoves
  <2> QED
    BY <1>1, <2>1, RowsStep DEF P!Create, P!Rows, P!page
<1>2. ASSUME NEW id, NEW h \in Hosts, P!Agent(id, h) PROVE PageInv'
  <2>1. Moved
    BY <1>0, <1>2, AgentMoves
  <2>2. /\ UNCHANGED <<filter, cursors, fetch, polled, dialog, seen, request>>
        /\ steady' = {i \in steady : P!Matches(tasks'[i], filter)}
    BY <1>2 DEF P!Agent, P!Rows, P!page
  <2> QED
    BY <2>1, <2>2, RowsStep
<1>3. ASSUME NEW id, NEW h \in Hosts, P!AskKick(id, h) PROVE PageInv'
  <2>1. Named(polled.page, id) /\ UNCHANGED <<table, fetch, polled, dialog>> /\ P!Ask("kick", id, h)
    BY <1>3 DEF P!AskKick, P!OnPage, Named, table, P!page
  <2> QED
    BY <2>1, AskStep
<1>4. ASSUME NEW id, P!Elsewhere(id) PROVE PageInv'
  <2>1. Moved
    BY <1>0, <1>4, ElsewhereMoves
  <2>2. /\ UNCHANGED <<filter, cursors, fetch, polled, dialog, seen, request>>
        /\ steady' = {i \in steady : P!Matches(tasks'[i], filter)}
    BY <1>4 DEF P!Elsewhere, P!Rows, P!page
  <2> QED
    BY <2>1, <2>2, RowsStep
<1>5. ASSUME NEW id, P!AskCancel(id) PROVE PageInv'
  <2>1. Named(polled.page, id) /\ UNCHANGED <<table, fetch, polled, dialog>> /\ P!Ask("cancel", id, NoHost)
    BY <1>5 DEF P!AskCancel, P!OnPage, Named, table, P!page
  <2> QED
    BY <2>1, AskStep
<1>6. ASSUME NEW id, P!OpenRetry(id) PROVE PageInv'
  <2>1. Named(polled.page, dialog') /\ UNCHANGED <<table, fetch, polled, request>>
    BY <1>6 DEF P!OpenRetry, P!OnPage, Named, table
  <2> QED
    BY <2>1, QuietStep
<1>7. ASSUME NEW h, P!DeleteHost(h) PROVE PageInv'
  <2>1. Moved
    BY <1>0, <1>7, DeleteHostMoves
  <2>2. /\ UNCHANGED <<filter, cursors, fetch, polled, dialog, seen, request>>
        /\ steady' = {i \in steady : P!Matches(tasks'[i], filter)}
    BY <1>7 DEF P!DeleteHost, P!Rows, P!page
  <2> QED
    BY <2>1, <2>2, RowsStep
<1>8. CASE P!DeleteImage
  <2>1. Moved
    BY <1>0, <1>8, DeleteImageMoves
  <2>2. /\ UNCHANGED <<filter, cursors, fetch, polled, dialog, seen, request>>
        /\ steady' = {i \in steady : P!Matches(tasks'[i], filter)}
    BY <1>8 DEF P!DeleteImage, P!Rows, P!page
  <2> QED
    BY <2>1, <2>2, RowsStep
<1>9. CASE P!Send
  BY <1>9, SendStep
<1>10. CASE P!Answer
  BY <1>10, AnswerStep
<1>11. CASE P!Record
  BY <1>11, RecordStep
<1>12. CASE P!Wake
  BY <1>12, RestartStep DEF P!Wake, table
<1>13. CASE P!FetchFails
  BY <1>13, FailsStep
<1>14. ASSUME NEW f \in Filters, P!Refilter(f) PROVE PageInv'
  BY <1>14, RefilterStep
<1>15. CASE P!Older
  BY <1>15, OlderStep
<1>16. CASE P!Newer
  BY <1>16, NewerStep
<1>17. CASE P!ConfirmRetry
  <2>1. /\ Named(polled.page, dialog) /\ UNCHANGED <<table, fetch, polled>> /\ dialog' = 0
        /\ P!Ask("retry", dialog, NoHost)
    BY <1>17 DEF P!ConfirmRetry, table, PageInv, DialogOk
  <2> QED
    BY <2>1, AskStep
<1>18. CASE P!ServerLooks
  BY <1>18, QuietStep DEF P!ServerLooks, P!page, table
<1>19. CASE P!ServerWrites
  <2>1. request.pc # "idle" /\ request.task \in DOMAIN tasks
    BY <1>19 DEF P!ServerWrites, PageInv, RequestOk, PastRows
  <2>2. Moved
    BY <1>0, <1>19, <2>1, ServerMoves
  <2>3. /\ UNCHANGED <<filter, cursors, fetch, polled, dialog, seen>>
        /\ steady' = {i \in steady : P!Matches(tasks'[i], filter)}
        /\ request' = [request EXCEPT !.pc = "written"]
    BY <1>19 DEF P!ServerWrites, P!Rows, P!page
  <2> QED
    BY <2>1, <2>2, <2>3, RowsStep
<1>20. CASE P!Changed
  BY <1>20, RestartStep DEF P!Changed, table
<1>21. CASE P!Lost
  BY <1>21, QuietStep DEF P!Lost, P!page, table
<1> QED
  BY <1>1, <1>2, <1>3, <1>4, <1>5, <1>6, <1>7, <1>8, <1>9, <1>10, <1>11, <1>12, <1>13, <1>14,
     <1>15, <1>16, <1>17, <1>18, <1>19, <1>20, <1>21 DEF P!Next, Filters

\* Only the server's write turns an allowed request into a written one.
LEMMA WrittenByServer ==
    ASSUME P!Next, request.pc = "allowed", request'.pc = "written"
    PROVE  P!ServerWrites
  BY DEF P!Next, P!Create, P!Agent, P!AskKick, P!Elsewhere, P!AskCancel, P!OpenRetry, P!DeleteHost,
         P!DeleteImage, P!Send, P!Answer, P!Record, P!Wake, P!FetchFails, P!Refilter, P!Older,
         P!Newer, P!ConfirmRetry, P!ServerLooks, P!Changed, P!Lost

LEMMA RetryIsSparing == ASSUME PageInv, P!Next PROVE P!RetrySparesStep
<1> SUFFICES ASSUME request.pc = "allowed", request.op = "retry", request'.pc = "written",
                    NEW h \in DOMAIN tasks[request.task].rows,
                    tasks'[request.task].rows[h] = "pending",
                    tasks[request.task].rows[h] # "pending"
             PROVE  h \in DOMAIN request.rows /\ request.rows[h] # "done"
  BY DEF P!RetrySparesStep
<1> DEFINE rs == tasks[request.task].rows
<1>1. tasks' = P!SetRows(request.task, P!Retried(rs))
  BY WrittenByServer DEF P!ServerWrites, P!Rows
<1>2. /\ request.task \in DOMAIN tasks /\ Forward(request.rows, rs)
      /\ tasks[request.task] \in P!Task
  BY DEF PageInv, RequestOk, PastRows, TableOk
<1>3. tasks[request.task] = [type |-> tasks[request.task].type, rows |-> rs]
  BY <1>2, TaskIs
<1>4. tasks'[request.task].rows = P!Retried(rs)
  BY <1>1, <1>2, <1>3 DEF P!SetRows
<1>5. rs[h] \in {"failed", "cancelled"}
  BY <1>4 DEF P!Retried
<1> QED
  BY <1>2, <1>5 DEF Forward

LEMMA PageAlways == Spec => [](part = "page" => PageInv)
<1> DEFINE Inv == part = "page" => PageInv
<1>1. Init => Inv
  BY PageStarts DEF Init
<1>2. Inv /\ [Next]_vars => Inv'
  <2> SUFFICES ASSUME Inv, [Next]_vars, part' = "page" PROVE PageInv'
    OBVIOUS
  <2>1. CASE P!Next
    BY <2>1, PageKept DEF Next, vars
  <2>2. CASE UNCHANGED <<part, pageVars>>
    BY <2>2, TableFrame, FetchFrame, PolledFrame, DialogFrame, RequestFrame
       DEF pageVars, table, PageInv
  <2> QED
    BY <2>1, <2>2 DEF Next, vars
<1> QED
  BY <1>1, <1>2, PTL DEF Spec

(***************************************************************************)
(* The page of tasks (list_tasks, use_poll) shows what its filter asks     *)
(* for, and turning its pages passes no task over that matched all along,  *)
(* for any number of tasks and any page size, whatever agents and other    *)
(* dashboards do meanwhile and however late or lost the answers are.       *)
(***************************************************************************)
THEOREM NothingIsPassedOver == Spec => []PagesComplete
<1>1. (part = "page" => PageInv) => PagesComplete
  BY DEF PagesComplete, P!PagesComplete, PageInv, PolledOk, Answers, Fits, Ahead
<1> QED
  BY <1>1, PageAlways, PTL

(***************************************************************************)
(* A retry (retry_task) sets back only hosts that its dialog did not show  *)
(* as done: the row of the request is a past of the task's rows, and a row *)
(* that is done stays done.                                                *)
(***************************************************************************)
THEOREM DoneIsSpared == Spec => RetrySpares
<1>1. (part = "page" => PageInv) /\ [Next]_vars => [part = "page" => P!RetrySparesStep]_vars
  <2> SUFFICES ASSUME part = "page" => PageInv, Next, part = "page" PROVE P!RetrySparesStep
    OBVIOUS
  <2> QED
    BY RetryIsSparing DEF Next
<1> QED
  BY <1>1, PageAlways, PTL DEF Spec, RetrySpares

-----------------------------------------------------------------------------
(***************************************************************************)
(* The inventory.  The number of a host is never given out again, so a     *)
(* copy of a host, however old, is of the machine that has the number now  *)
(* or of none (Known).                                                     *)
(***************************************************************************)
Macs == [machine : Machines, case : {"lower"}]
HostSet == [mac : Macs, name : {I!None}, disk : BOOLEAN, parts : Layouts]

RowsOk ==
    /\ lastId \in Nat /\ DOMAIN rows \subseteq 1 .. lastId
    /\ \A h \in DOMAIN rows :
          /\ rows[h] = [mac |-> rows[h].mac, name |-> rows[h].name, disk |-> rows[h].disk,
                        parts |-> rows[h].parts]
          /\ rows[h].mac \in Macs
          /\ rows[h].name \in {I!None, rows[h].mac.machine}
          /\ rows[h].parts \in Layouts \cup {{}}
    /\ \A g, h \in DOMAIN rows : rows[g].mac.machine = rows[h].mac.machine => g = h

Known(h, m) == h \in 1 .. lastId /\ (h \in DOMAIN rows => rows[h].mac.machine = m)

ModalOk ==
    /\ modal = [kind |-> modal.kind, hosts |-> modal.hosts, image |-> modal.image,
                pick |-> modal.pick]
    /\ \A h \in DOMAIN modal.hosts : Known(h, modal.hosts[h].mac.machine)
    /\ modal.kind # I!None => DOMAIN modal.hosts # {}

OrderOk ==
    /\ order = [op |-> order.op, pc |-> order.pc, targets |-> order.targets, meant |-> order.meant]
    /\ DOMAIN order.targets = DOMAIN order.meant
    /\ \A h \in DOMAIN order.meant : Known(h, order.meant[h])
    /\ order.pc # "idle" => DOMAIN order.targets # {}

StoredOk ==
    \A t \in stored :
        /\ DOMAIN t.targets = DOMAIN t.meant
        /\ \A h \in DOMAIN t.targets : h \in DOMAIN rows /\ t.meant[h] = rows[h].mac.machine

InventoryInv ==
    RowsOk /\ ModalOk /\ OrderOk /\ StoredOk /\ group \subseteq DOMAIN rows /\ image \in Images

LEMMA InventoryCardinality ==
    ASSUME NEW S PROVE I!Cardinality(S) = Cardinality(S)
  BY DEF I!Cardinality, Cardinality

LEMMA InventoryStarts == I!Init => InventoryInv
<1> SUFFICES ASSUME I!Init PROVE InventoryInv
  OBVIOUS
<1>1. /\ rows \in Seq(HostSet)
      /\ \A g, h \in DOMAIN rows : rows[g].mac = rows[h].mac => g = h
  BY InventoryAssumption DEF I!Init, Macs, HostSet
<1>2. lastId = Len(rows)
  <2>1. DOMAIN rows = 1 .. Len(rows) /\ Len(rows) \in Nat
    BY <1>1
  <2>2. I!Cardinality(DOMAIN rows) = Cardinality(1 .. Len(rows))
    <3> DEFINE D == DOMAIN rows
    <3>1. I!Cardinality(D) = Cardinality(D)
      BY InventoryCardinality
    <3>2. D = 1 .. Len(rows)
      BY <2>1
    <3> HIDE DEF D
    <3>3. I!Cardinality(D) = Cardinality(1 .. Len(rows))
      BY <3>1, <3>2
    <3> QED
      BY <3>3 DEF D
  <2>3. Cardinality(1 .. Len(rows)) = Len(rows)
    <3> DEFINE n == Len(rows)
    <3>1. n \in Nat
      BY <2>1
    <3> HIDE DEF n
    <3>2. Cardinality(1 .. n) = IF 1 > n THEN 0 ELSE n - 1 + 1
      BY <3>1, FS_Interval
    <3>3. Cardinality(1 .. n) = n
      BY <3>1, <3>2
    <3> QED
      BY <3>3 DEF n
  <2> QED
    BY <2>2, <2>3 DEF I!Init
<1>3. \A h \in DOMAIN rows : rows[h] \in HostSet
  BY <1>1
<1>4. RowsOk
  <2>1. lastId \in Nat /\ DOMAIN rows \subseteq 1 .. lastId
    BY <1>1, <1>2
  <2>2. \A h \in DOMAIN rows :
          /\ rows[h] = [mac |-> rows[h].mac, name |-> rows[h].name, disk |-> rows[h].disk,
                        parts |-> rows[h].parts]
          /\ rows[h].mac \in Macs
          /\ rows[h].name \in {I!None, rows[h].mac.machine}
          /\ rows[h].parts \in Layouts \cup {{}}
    BY <1>3 DEF HostSet
  <2>3. ASSUME NEW g \in DOMAIN rows, NEW h \in DOMAIN rows,
               rows[g].mac.machine = rows[h].mac.machine
        PROVE  g = h
    <3>1. rows[g].mac \in Macs /\ rows[h].mac \in Macs
      BY <1>3 DEF HostSet
    <3>2. rows[g].mac = rows[h].mac
      BY <3>1, <2>3 DEF Macs
    <3> QED
      BY <1>1, <3>2
  <2> QED
    BY <2>1, <2>2, <2>3 DEF RowsOk
<1>5. ModalOk
  BY DEF I!Init, I!NoDialog, ModalOk
<1>6. OrderOk
  BY DEF I!Init, I!NoRequest, OrderOk
<1>7. StoredOk /\ group \subseteq DOMAIN rows /\ image \in Images
  BY DEF I!Init, StoredOk
<1> QED
  BY <1>4, <1>5, <1>6, <1>7 DEF InventoryInv

\* Hosts keep their machine for as long as they are listed, and new ones have new numbers.
Lasting ==
    /\ lastId' \in Nat /\ lastId <= lastId'
    /\ \A h \in DOMAIN rows' :
          \/ h \in DOMAIN rows /\ rows'[h].mac = rows[h].mac
          \/ h \notin 1 .. lastId

LEMMA KnownKept ==
    ASSUME RowsOk, Lasting, NEW h, NEW m, Known(h, m)
    PROVE  h \in 1 .. lastId' /\ (h \in DOMAIN rows' => rows'[h].mac.machine = m)
  BY DEF RowsOk, Lasting, Known

LEMMA ModalFrame == ASSUME RowsOk, Lasting, ModalOk, modal' = modal PROVE ModalOk'
<1>1. \A h \in DOMAIN modal.hosts :
         /\ h \in 1 .. lastId'
         /\ h \in DOMAIN rows' => rows'[h].mac.machine = modal.hosts[h].mac.machine
  BY KnownKept DEF ModalOk
<1> QED
  BY <1>1 DEF ModalOk, Known
LEMMA OrderFrame == ASSUME RowsOk, Lasting, OrderOk, order' = order PROVE OrderOk'
<1>1. \A h \in DOMAIN order.meant :
         /\ h \in 1 .. lastId'
         /\ h \in DOMAIN rows' => rows'[h].mac.machine = order.meant[h]
  BY KnownKept DEF OrderOk
<1> QED
  BY <1>1 DEF OrderOk, Known
LEMMA NoModal == ASSUME modal' = I!NoDialog PROVE ModalOk'
  BY DEF I!NoDialog, ModalOk
LEMMA NoOrder == ASSUME order' = I!NoRequest PROVE OrderOk'
  BY DEF I!NoRequest, OrderOk
LEMMA RowsSame ==
    ASSUME RowsOk, rows' = rows, lastId' = lastId PROVE RowsOk' /\ Lasting
  BY DEF RowsOk, Lasting
\* The same hosts, with their machines; what else is stored of them may change.
LEMMA StoredFrame ==
    ASSUME StoredOk, stored' \subseteq stored, DOMAIN rows \subseteq DOMAIN rows',
           \A h \in DOMAIN rows : rows'[h].mac = rows[h].mac
    PROVE  StoredOk'
  BY DEF StoredOk

-----------------------------------------------------------------------------
\* What is a host's, of the machine with address mac.
HostOk(r, mac) ==
    /\ r = [mac |-> r.mac, name |-> r.name, disk |-> r.disk, parts |-> r.parts]
    /\ r.mac = mac /\ mac \in Macs /\ r.name \in {I!None, mac.machine}
    /\ r.parts \in Layouts \cup {{}}

LEMMA HostUpdated ==
    ASSUME NEW r, NEW mac, NEW name, NEW disk, NEW parts,
           r = [mac |-> mac, name |-> name, disk |-> disk, parts |-> parts], NEW d, NEW p
    PROVE  [r EXCEPT !.disk = d, !.parts = p] = [mac |-> mac, name |-> name, disk |-> d, parts |-> p]
<1> DEFINE s == [r EXCEPT !.disk = d]
<1>1. s = [mac |-> mac, name |-> name, disk |-> d, parts |-> parts]
  OBVIOUS
<1>2. [r EXCEPT !.disk = d, !.parts = p] = [s EXCEPT !.parts = p]
  BY <1>1
<1> HIDE DEF s
<1>3. [s EXCEPT !.parts = p] = [mac |-> mac, name |-> name, disk |-> d, parts |-> p]
  BY <1>1
<1> QED
  BY <1>2, <1>3

\* Something is stored about a host that is listed.
LEMMA HostChanges ==
    ASSUME RowsOk, StoredOk, group \subseteq DOMAIN rows, NEW h \in DOMAIN rows,
           DOMAIN rows' = DOMAIN rows, \A g \in DOMAIN rows : g # h => rows'[g] = rows[g],
           HostOk(rows'[h], rows[h].mac), lastId' = lastId, stored' = stored, group' = group
    PROVE  RowsOk' /\ Lasting /\ StoredOk' /\ group' \subseteq DOMAIN rows'
<1>1. \A g \in DOMAIN rows : rows'[g].mac = rows[g].mac
  BY DEF HostOk
<1>2. \A g \in DOMAIN rows :
          /\ rows'[g] = [mac |-> rows'[g].mac, name |-> rows'[g].name, disk |-> rows'[g].disk,
                         parts |-> rows'[g].parts]
          /\ rows'[g].mac \in Macs
          /\ rows'[g].name \in {I!None, rows'[g].mac.machine}
          /\ rows'[g].parts \in Layouts \cup {{}}
  BY <1>1 DEF HostOk, RowsOk
<1>3. RowsOk'
  BY <1>1, <1>2 DEF RowsOk
<1>4. Lasting
  BY <1>1 DEF Lasting, RowsOk
<1>5. StoredOk'
  BY <1>1, StoredFrame
<1> QED
  BY <1>3, <1>4, <1>5

LEMMA RegisterStep ==
    ASSUME InventoryInv, NEW m \in Machines, NEW c, NEW usable \in BOOLEAN,
           I!Register(m, c, usable)
    PROVE  InventoryInv'
<1> DEFINE mac == [machine |-> m, case |-> "lower"]
           known == {h \in DOMAIN rows : rows[h].mac = mac}
           id == IF known = {} THEN lastId + 1 ELSE CHOOSE h \in known : TRUE
           before == IF known = {} THEN [mac |-> mac, name |-> I!None, disk |-> TRUE, parts |-> {}]
                     ELSE rows[id]
           after == [before EXCEPT !.disk = usable, !.parts = IF usable THEN @ ELSE {}]
<1>0. RowsOk /\ ModalOk /\ OrderOk /\ StoredOk /\ group \subseteq DOMAIN rows /\ image \in Images
  BY DEF InventoryInv
<1>1. I!CanonicalMac([machine |-> m, case |-> c]) = mac
  BY DEF I!CanonicalMac
<1>2. /\ rows' = I!Put(rows, id, after) /\ lastId' = I!Max({lastId, id})
      /\ UNCHANGED <<group, image, stored, modal, order>>
  BY <1>1 DEF I!Register, I!NextId
<1>3. mac \in Macs /\ mac.machine = m
  BY DEF Macs
<1> HIDE DEF mac
<1>4. CASE known = {}
  <2>1. /\ id = lastId + 1 /\ lastId \in Nat /\ id \notin DOMAIN rows
        /\ before = [mac |-> mac, name |-> I!None, disk |-> TRUE, parts |-> {}]
    BY <1>0, <1>4 DEF RowsOk
  <2>2. after = [mac |-> mac, name |-> I!None, disk |-> usable, parts |-> {}]
    <3> DEFINE kept == IF usable THEN before.parts ELSE {}
    <3>1. after = [before EXCEPT !.disk = usable, !.parts = kept]
      OBVIOUS
    <3>2. kept = {}
      BY <2>1
    <3> HIDE DEF before, id, kept, after
    <3> QED
      BY <2>1, <3>1, <3>2, HostUpdated
  <2> HIDE DEF after, id
  <2>3. lastId' = id
    BY <1>2, <2>1 DEF I!Max
  <2>4. DOMAIN rows' = DOMAIN rows \cup {id} /\ rows'[id] = after
        /\ \A h \in DOMAIN rows : rows'[h] = rows[h]
    BY <1>2, <2>1 DEF I!Put
  <2>5. \A h \in DOMAIN rows : rows[h].mac.machine # m
    <3> SUFFICES ASSUME NEW h \in DOMAIN rows, rows[h].mac.machine = m PROVE FALSE
      OBVIOUS
    <3>1. rows[h].mac \in Macs
      BY <1>0 DEF RowsOk
    <3>2. rows[h].mac = mac
      BY <3>1, <1>3 DEF Macs
    <3> QED
      BY <3>2, <1>4
  <2>6. /\ after.mac = mac /\ after.name = I!None /\ after.parts = {}
        /\ after = [mac |-> after.mac, name |-> after.name, disk |-> after.disk, parts |-> after.parts]
    BY <2>2
  <2>7. RowsOk'
    <3>1. lastId' \in Nat /\ DOMAIN rows' \subseteq 1 .. lastId'
      BY <1>0, <2>1, <2>3, <2>4 DEF RowsOk
    <3>2. \A h \in DOMAIN rows' :
              /\ rows'[h] = [mac |-> rows'[h].mac, name |-> rows'[h].name, disk |-> rows'[h].disk,
                             parts |-> rows'[h].parts]
              /\ rows'[h].mac \in Macs
              /\ rows'[h].name \in {I!None, rows'[h].mac.machine}
              /\ rows'[h].parts \in Layouts \cup {{}}
      BY <1>0, <1>3, <2>4, <2>6 DEF RowsOk
    <3>3. \A g, h \in DOMAIN rows' : rows'[g].mac.machine = rows'[h].mac.machine => g = h
      BY <1>0, <1>3, <2>4, <2>5, <2>6 DEF RowsOk
    <3> QED
      BY <3>1, <3>2, <3>3 DEF RowsOk
  <2>8. Lasting
    BY <2>1, <2>3, <2>4 DEF Lasting
  <2>9. StoredOk'
    BY <1>0, <1>2, <2>4, StoredFrame
  <2>10. ModalOk' /\ OrderOk'
    BY <1>0, <1>2, <2>8, ModalFrame, OrderFrame
  <2>11. group' \subseteq DOMAIN rows' /\ image' \in Images
    BY <1>0, <1>2, <2>4
  <2> QED
    BY <2>7, <2>9, <2>10, <2>11 DEF InventoryInv
<1>5. CASE known # {}
  <2>1. id \in DOMAIN rows /\ before = rows[id]
    BY <1>5
  <2>2. id \in 1 .. lastId /\ lastId \in Nat
    BY <1>0, <2>1 DEF RowsOk
  <2>3. lastId' = lastId
    <3> HIDE DEF id
    <3> QED
      BY <1>2, <2>2 DEF I!Max
  <2>4. /\ rows[id] = [mac |-> rows[id].mac, name |-> rows[id].name, disk |-> rows[id].disk,
                       parts |-> rows[id].parts]
        /\ HostOk(rows[id], rows[id].mac)
    BY <1>0, <2>1 DEF RowsOk, HostOk
  <2>5. after = [mac |-> rows[id].mac, name |-> rows[id].name, disk |-> usable,
                 parts |-> IF usable THEN rows[id].parts ELSE {}]
    <3> DEFINE kept == IF usable THEN before.parts ELSE {}
    <3>1. after = [before EXCEPT !.disk = usable, !.parts = kept]
      OBVIOUS
    <3>2. kept = IF usable THEN rows[id].parts ELSE {}
      BY <2>1
    <3> HIDE DEF before, id, kept, after
    <3>3. before = [mac |-> rows[id].mac, name |-> rows[id].name, disk |-> rows[id].disk,
                    parts |-> rows[id].parts]
      BY <2>1, <2>4
    <3>4. after = [mac |-> rows[id].mac, name |-> rows[id].name, disk |-> usable, parts |-> kept]
      BY <3>1, <3>3, HostUpdated
    <3> QED
      BY <3>2, <3>4
  <2> HIDE DEF id, after
  <2>6. HostOk(after, rows[id].mac)
    BY <2>4, <2>5 DEF HostOk
  <2>7. DOMAIN rows' = DOMAIN rows /\ rows'[id] = after
        /\ \A h \in DOMAIN rows : h # id => rows'[h] = rows[h]
    BY <1>2, <2>1 DEF I!Put
  <2>8. RowsOk' /\ Lasting /\ StoredOk' /\ group' \subseteq DOMAIN rows'
    BY <1>0, <1>2, <2>1, <2>3, <2>6, <2>7, HostChanges
  <2>9. ModalOk' /\ OrderOk'
    BY <1>0, <1>2, <2>8, ModalFrame, OrderFrame
  <2> QED
    BY <1>0, <1>2, <2>8, <2>9 DEF InventoryInv
<1> QED
  BY <1>4, <1>5

LEMMA ReportStep ==
    ASSUME InventoryInv, NEW h, NEW l \in Layouts, I!Report(h, l)
    PROVE  InventoryInv'
<1>0. RowsOk /\ ModalOk /\ OrderOk /\ StoredOk /\ group \subseteq DOMAIN rows /\ image \in Images
  BY DEF InventoryInv
<1>1. h \in DOMAIN rows /\ rows' = [rows EXCEPT ![h].parts = l]
      /\ UNCHANGED <<lastId, group, image, stored, modal, order>>
  BY DEF I!Report
<1>2. rows[h] = [mac |-> rows[h].mac, name |-> rows[h].name, disk |-> rows[h].disk,
                 parts |-> rows[h].parts]
  BY <1>0, <1>1 DEF RowsOk
<1>3. /\ DOMAIN rows' = DOMAIN rows /\ \A g \in DOMAIN rows : g # h => rows'[g] = rows[g]
      /\ rows'[h] = [mac |-> rows[h].mac, name |-> rows[h].name, disk |-> rows[h].disk, parts |-> l]
  BY <1>1, <1>2
<1>4. HostOk(rows'[h], rows[h].mac)
  BY <1>0, <1>1, <1>3 DEF RowsOk, HostOk
<1>5. RowsOk' /\ Lasting /\ StoredOk' /\ group' \subseteq DOMAIN rows'
  BY <1>0, <1>1, <1>3, <1>4, HostChanges
<1>6. ModalOk' /\ OrderOk'
  BY <1>0, <1>1, <1>5, ModalFrame, OrderFrame
<1> QED
  BY <1>0, <1>1, <1>5, <1>6 DEF InventoryInv

\* A host goes, and with it its memberships and rows.
LEMMA DeleteKeeps ==
    ASSUME InventoryInv, NEW h, I!Delete(h), lastId' = lastId
    PROVE  RowsOk' /\ Lasting /\ StoredOk' /\ group' \subseteq DOMAIN rows'
<1>0. RowsOk /\ StoredOk /\ group \subseteq DOMAIN rows
  BY DEF InventoryInv
<1>1. DOMAIN rows' = DOMAIN rows \ {h} /\ \A g \in DOMAIN rows' : rows'[g] = rows[g]
  BY DEF I!Delete, I!Without
<1>2. RowsOk'
  BY <1>0, <1>1 DEF RowsOk
<1>3. Lasting
  BY <1>0, <1>1 DEF RowsOk, Lasting
<1>4. StoredOk'
  <2> SUFFICES ASSUME NEW t \in stored'
               PROVE  /\ DOMAIN t.targets = DOMAIN t.meant
                      /\ \A g \in DOMAIN t.targets : g \in DOMAIN rows' /\ t.meant[g] = rows'[g].mac.machine
    BY DEF StoredOk
  <2>1. PICK u \in stored : t = [targets |-> I!Without(u.targets, h), meant |-> I!Without(u.meant, h)]
    BY DEF I!Delete
  <2>2. t.targets = I!Without(u.targets, h) /\ t.meant = I!Without(u.meant, h)
    BY <2>1
  <2>3. /\ DOMAIN t.targets = DOMAIN u.targets \ {h} /\ DOMAIN t.meant = DOMAIN u.meant \ {h}
        /\ \A g \in DOMAIN t.meant : t.meant[g] = u.meant[g]
    BY <2>2 DEF I!Without
  <2>4. /\ DOMAIN u.targets = DOMAIN u.meant
        /\ \A g \in DOMAIN u.targets : g \in DOMAIN rows /\ u.meant[g] = rows[g].mac.machine
    BY <1>0 DEF StoredOk
  <2> QED
    BY <1>1, <2>3, <2>4
<1>5. group' \subseteq DOMAIN rows'
  BY <1>0, <1>1 DEF I!Delete
<1> QED
  BY <1>2, <1>3, <1>4, <1>5

-----------------------------------------------------------------------------
\* Steps of the dashboard and of a handler that leave the hosts as they are.
LEMMA OpenStep ==
    ASSUME InventoryInv, NEW kind \in I!DialogKinds, NEW hs, I!Open(kind, hs)
    PROVE  InventoryInv'
<1>0. RowsOk /\ ModalOk /\ OrderOk /\ StoredOk /\ group \subseteq DOMAIN rows /\ image \in Images
  BY DEF InventoryInv
<1>1. /\ hs # {} /\ hs \subseteq DOMAIN rows /\ UNCHANGED <<rows, lastId, group, image, stored, order>>
      /\ modal' = [I!NoDialog EXCEPT !.kind = kind, !.hosts = [h \in hs |-> rows[h]], !.image = image]
  BY DEF I!Open
<1>2. /\ modal' = [kind |-> kind, hosts |-> [h \in hs |-> rows[h]], image |-> image,
                   pick |-> I!NoDialog.pick]
  BY <1>1 DEF I!NoDialog
<1>3. /\ modal' = [kind |-> modal'.kind, hosts |-> modal'.hosts, image |-> modal'.image,
                   pick |-> modal'.pick]
      /\ modal'.hosts = [h \in hs |-> rows[h]]
  BY <1>2
<1>4. ModalOk'
  BY <1>0, <1>1, <1>3 DEF ModalOk, Known, RowsOk
<1>5. RowsOk' /\ Lasting /\ OrderOk' /\ StoredOk'
  BY <1>0, <1>1, RowsSame, OrderFrame, StoredFrame
<1> QED
  BY <1>0, <1>1, <1>4, <1>5 DEF InventoryInv

LEMMA RefreshStep == ASSUME InventoryInv, I!Refresh PROVE InventoryInv'
<1>0. RowsOk /\ ModalOk /\ OrderOk /\ StoredOk /\ group \subseteq DOMAIN rows /\ image \in Images
  BY DEF InventoryInv
<1>1. UNCHANGED <<rows, lastId, group, image, stored, order>>
  BY DEF I!Refresh
<1>2. ASSUME DOMAIN modal.hosts \subseteq DOMAIN rows PROVE ModalOk'
  <2>1. modal' = [modal EXCEPT !.hosts = [h \in DOMAIN modal.hosts |-> rows[h]]]
    BY <1>2 DEF I!Refresh
  <2>2. /\ modal'.kind = modal.kind /\ modal'.hosts = [h \in DOMAIN modal.hosts |-> rows[h]]
        /\ modal' = [kind |-> modal'.kind, hosts |-> modal'.hosts, image |-> modal'.image,
                     pick |-> modal'.pick]
    BY <1>0, <2>1 DEF ModalOk
  <2> QED
    BY <1>0, <1>1, <1>2, <2>2 DEF ModalOk, Known, RowsOk
<1>3. ASSUME ~(DOMAIN modal.hosts \subseteq DOMAIN rows) PROVE ModalOk'
  BY <1>3, NoModal DEF I!Refresh
<1>4. RowsOk' /\ Lasting /\ OrderOk' /\ StoredOk'
  BY <1>0, <1>1, RowsSame, OrderFrame, StoredFrame
<1> QED
  BY <1>0, <1>1, <1>2, <1>3, <1>4 DEF InventoryInv

LEMMA PickStep == ASSUME InventoryInv, I!Pick PROVE InventoryInv'
<1>0. RowsOk /\ ModalOk /\ OrderOk /\ StoredOk /\ group \subseteq DOMAIN rows /\ image \in Images
  BY DEF InventoryInv
<1>1. UNCHANGED <<rows, lastId, group, image, stored, order>> /\ \E c : modal' = [modal EXCEPT !.pick = c]
  BY DEF I!Pick
<1>2. /\ modal'.kind = modal.kind /\ modal'.hosts = modal.hosts
      /\ modal' = [kind |-> modal'.kind, hosts |-> modal'.hosts, image |-> modal'.image,
                   pick |-> modal'.pick]
  BY <1>0, <1>1 DEF ModalOk
<1>3. ModalOk'
  BY <1>0, <1>1, <1>2 DEF ModalOk, Known
<1>4. RowsOk' /\ Lasting /\ OrderOk' /\ StoredOk'
  BY <1>0, <1>1, RowsSame, OrderFrame, StoredFrame
<1> QED
  BY <1>0, <1>1, <1>3, <1>4 DEF InventoryInv

LEMMA SubmitStep == ASSUME InventoryInv, I!Submit PROVE InventoryInv'
<1>0. RowsOk /\ ModalOk /\ OrderOk /\ StoredOk /\ group \subseteq DOMAIN rows /\ image \in Images
  BY DEF InventoryInv
<1>1. /\ UNCHANGED <<rows, lastId, group, image, stored>> /\ modal' = I!NoDialog /\ modal.kind # I!None
      /\ order'.meant = [h \in DOMAIN modal.hosts |-> modal.hosts[h].mac.machine]
      /\ order'.targets = IF modal.kind \in {"deploy", "multicast", "capture"} THEN I!Targets(modal)
                          ELSE [h \in DOMAIN modal.hosts |-> I!Whole]
      /\ order' = [op |-> order'.op, pc |-> order'.pc, targets |-> order'.targets,
                   meant |-> order'.meant]
  BY DEF I!Submit
<1>2. DOMAIN order'.targets = DOMAIN modal.hosts
  BY <1>1 DEF I!Targets
<1>3. OrderOk'
  BY <1>0, <1>1, <1>2 DEF OrderOk, ModalOk, Known
<1>4. RowsOk' /\ Lasting /\ ModalOk' /\ StoredOk'
  BY <1>0, <1>1, RowsSame, NoModal, StoredFrame
<1> QED
  BY <1>0, <1>1, <1>3, <1>4 DEF InventoryInv

LEMMA LooksStep == ASSUME InventoryInv, I!ServerLooks PROVE InventoryInv'
<1>0. RowsOk /\ ModalOk /\ OrderOk /\ StoredOk /\ group \subseteq DOMAIN rows /\ image \in Images
  BY DEF InventoryInv
<1>1. /\ UNCHANGED <<rows, lastId, group, image, stored, modal>> /\ order.pc = "sent"
      /\ order' = [order EXCEPT !.pc = "planned"] \/ order' = I!NoRequest
  BY DEF I!ServerLooks
<1>2. OrderOk'
  <2>1. CASE order' = [order EXCEPT !.pc = "planned"]
    <3>1. /\ order'.targets = order.targets /\ order'.meant = order.meant
          /\ order' = [op |-> order'.op, pc |-> order'.pc, targets |-> order'.targets,
                       meant |-> order'.meant]
      BY <1>0, <2>1 DEF OrderOk
    <3> QED
      BY <1>0, <1>1, <3>1 DEF OrderOk, Known
  <2> QED
    BY <1>1, <2>1, NoOrder
<1>3. RowsOk' /\ Lasting /\ ModalOk' /\ StoredOk'
  BY <1>0, <1>1, RowsSame, ModalFrame, StoredFrame
<1> QED
  BY <1>0, <1>1, <1>2, <1>3 DEF InventoryInv

LEMMA WritesStep == ASSUME InventoryInv, I!ServerWrites PROVE InventoryInv'
<1> DEFINE h == CHOOSE x \in DOMAIN order.targets : TRUE
<1>0. RowsOk /\ ModalOk /\ OrderOk /\ StoredOk /\ group \subseteq DOMAIN rows /\ image \in Images
  BY DEF InventoryInv
<1>1. /\ UNCHANGED <<lastId, image, modal>> /\ order.pc = "planned" /\ order' = I!NoRequest
      /\ I!Delete(h) \/ I!Rename(h) \/ I!Store
  BY DEF I!ServerWrites
<1>2. h \in DOMAIN order.targets /\ Known(h, order.meant[h])
  BY <1>0, <1>1 DEF OrderOk
<1> HIDE DEF h
<1>3. ASSUME I!Delete(h) PROVE RowsOk' /\ Lasting /\ StoredOk' /\ group' \subseteq DOMAIN rows'
  BY <1>1, <1>3, DeleteKeeps
<1>4. ASSUME I!Rename(h) PROVE RowsOk' /\ Lasting /\ StoredOk' /\ group' \subseteq DOMAIN rows'
  <2>1. group' = group /\ stored' = stored
    BY <1>4 DEF I!Rename
  <2>2. CASE h \notin DOMAIN rows
    <3>1. rows' = rows
      BY <1>4, <2>2 DEF I!Rename
    <3> QED
      BY <1>0, <1>1, <2>1, <3>1, RowsSame, StoredFrame
  <2>3. CASE h \in DOMAIN rows
    <3>1. rows' = [rows EXCEPT ![h].name = order.meant[h]] /\ order.meant[h] = rows[h].mac.machine
      BY <1>2, <1>4, <2>3 DEF I!Rename, Known
    <3>2. rows[h] = [mac |-> rows[h].mac, name |-> rows[h].name, disk |-> rows[h].disk,
                     parts |-> rows[h].parts]
      BY <1>0, <2>3 DEF RowsOk
    <3>3. /\ DOMAIN rows' = DOMAIN rows /\ \A g \in DOMAIN rows : g # h => rows'[g] = rows[g]
          /\ rows'[h] = [mac |-> rows[h].mac, name |-> rows[h].mac.machine, disk |-> rows[h].disk,
                         parts |-> rows[h].parts]
      BY <2>3, <3>1, <3>2
    <3>4. HostOk(rows'[h], rows[h].mac)
      BY <1>0, <2>3, <3>3 DEF RowsOk, HostOk
    <3> QED
      BY <1>0, <1>1, <2>1, <2>3, <3>3, <3>4, HostChanges
  <2> QED
    BY <2>2, <2>3
<1>5. ASSUME I!Store PROVE RowsOk' /\ Lasting /\ StoredOk' /\ group' \subseteq DOMAIN rows'
  <2>1. /\ UNCHANGED <<rows, group>>
        /\ stored' = IF DOMAIN order.targets \subseteq DOMAIN rows
                     THEN stored \cup {[targets |-> order.targets, meant |-> order.meant]} ELSE stored
    BY <1>5 DEF I!Store
  <2>2. RowsOk' /\ Lasting
    BY <1>0, <1>1, <2>1, RowsSame
  <2>3. StoredOk'
    <3> SUFFICES ASSUME NEW t \in stored'
                 PROVE  /\ DOMAIN t.targets = DOMAIN t.meant
                        /\ \A g \in DOMAIN t.targets : g \in DOMAIN rows' /\ t.meant[g] = rows'[g].mac.machine
      BY DEF StoredOk
    <3>1. CASE t \in stored
      BY <1>0, <2>1, <3>1 DEF StoredOk
    <3>2. CASE t \notin stored
      <4>1. DOMAIN order.targets \subseteq DOMAIN rows /\ t.targets = order.targets /\ t.meant = order.meant
        BY <2>1, <3>2
      <4>2. \A g \in DOMAIN order.targets : Known(g, order.meant[g])
        BY <1>0 DEF OrderOk
      <4> QED
        BY <1>0, <2>1, <4>1, <4>2 DEF OrderOk, Known
    <3> QED
      BY <3>1, <3>2
  <2> QED
    BY <1>0, <2>1, <2>2, <2>3
<1>6. RowsOk' /\ Lasting /\ StoredOk' /\ group' \subseteq DOMAIN rows'
  BY <1>1, <1>3, <1>4, <1>5
<1>7. ModalOk' /\ OrderOk'
  BY <1>0, <1>1, <1>6, ModalFrame, NoOrder
<1> QED
  BY <1>0, <1>1, <1>6, <1>7 DEF InventoryInv

LEMMA InventoryKept == ASSUME InventoryInv, I!Next PROVE InventoryInv'
<1>0. RowsOk /\ ModalOk /\ OrderOk /\ StoredOk /\ group \subseteq DOMAIN rows /\ image \in Images
  BY DEF InventoryInv
<1>1. ASSUME NEW m \in Machines, NEW c, NEW usable \in BOOLEAN, I!Register(m, c, usable)
      PROVE  InventoryInv'
  BY <1>1, RegisterStep
<1>2. ASSUME NEW h, I!DeletedElsewhere(h) PROVE InventoryInv'
  <2>1. I!Delete(h) /\ UNCHANGED <<lastId, image, modal, order>>
    BY <1>2 DEF I!DeletedElsewhere
  <2>2. RowsOk' /\ Lasting /\ StoredOk' /\ group' \subseteq DOMAIN rows'
    BY <2>1, DeleteKeeps
  <2>3. ModalOk' /\ OrderOk'
    BY <1>0, <2>1, <2>2, ModalFrame, OrderFrame
  <2> QED
    BY <1>0, <2>1, <2>2, <2>3 DEF InventoryInv
<1>3. ASSUME NEW h, NEW l \in Layouts, I!Report(h, l) PROVE InventoryInv'
  BY <1>3, ReportStep
<1>4. ASSUME UNCHANGED <<rows, lastId, order>>, stored' \subseteq stored, modal' = modal \/ modal' = I!NoDialog,
             group' \subseteq DOMAIN rows, image' \in Images
      PROVE  InventoryInv'
  <2>1. RowsOk' /\ Lasting
    BY <1>0, <1>4, RowsSame
  <2>2. ModalOk' /\ OrderOk' /\ StoredOk'
    BY <1>0, <1>4, <2>1, ModalFrame, NoModal, OrderFrame, StoredFrame
  <2> QED
    BY <1>4, <2>1, <2>2 DEF InventoryInv
<1>5. ASSUME NEW hs, I!SetMembers(hs) PROVE InventoryInv'
  BY <1>0, <1>4, <1>5 DEF I!SetMembers
<1>6. ASSUME NEW hs, NEW k \in I!DialogKinds, I!Open(k, hs) PROVE InventoryInv'
  BY <1>6, OpenStep
<1>7. ASSUME NEW i \in Images, I!ImageBecomes(i) PROVE InventoryInv'
  BY <1>0, <1>4, <1>7 DEF I!ImageBecomes
<1>8. ASSUME NEW t \in stored, I!Settle(t) PROVE InventoryInv'
  BY <1>0, <1>4, <1>8 DEF I!Settle
<1>9. CASE I!Close
  BY <1>0, <1>4, <1>9 DEF I!Close
<1> QED
  BY <1>1, <1>2, <1>3, <1>5, <1>6, <1>7, <1>8, <1>9, RefreshStep, PickStep, SubmitStep, LooksStep,
     WritesStep DEF I!Next

-----------------------------------------------------------------------------
\* The dialog's check and the server's, on one partition of a host.
LEMMA ChecksAgree ==
    ASSUME NEW im, NEW parts, NEW t \in parts, im.source # <<>>,
           t.size \in Nat, im.source[1].size \in Nat
    PROVE  ~I!Unfit(im, parts, t) <=>
              /\ t.size >= im.source[1].size
              /\ ~\E other \in parts :
                    /\ other.number # t.number
                    /\ \/ I!SameUuid(im.source[1].uuid, other.uuid)
                       \/ im.source[1].label # I!None /\ other.label = im.source[1].label
  BY DEF I!Unfit

\* What a dialog on an image picks is a partition that fits, by the dialog's check.
LEMMA PickedFits ==
    ASSUME NEW d, NEW h \in DOMAIN d.hosts, d.kind \in {"deploy", "multicast"},
           NEW u \in I!Picked(d)[h]
    PROVE  \E t \in d.hosts[h].parts : t.partuuid = u /\ ~I!Unfit(d.image, d.hosts[h].parts, t)
<1>1. CASE d.kind = "multicast"
  <2>1. u \in I!Resolve(d.image, d.hosts[h].parts, d.pick.by, d.pick.value)
    BY <1>1 DEF I!Picked
  <2> QED
    BY <2>1 DEF I!Resolve, I!MatchPartitions
<1>2. CASE d.kind = "deploy"
  <2>1. u \in I!DeployTarget(d.image, d.hosts[h].parts, d.pick.value)
    BY <1>2 DEF I!Picked
  <2> QED
    BY <2>1 DEF I!DeployTarget
<1> QED
  BY <1>1, <1>2

LEMMA DialogsAgree == ASSUME InventoryInv PROVE I!DialogAgrees
<1> DEFINE d == modal
<1> SUFFICES ASSUME d.kind \in {"deploy", "multicast", "capture"},
                    DOMAIN d.hosts \subseteq DOMAIN rows,
                    \A h \in DOMAIN d.hosts : d.hosts[h] = rows[h] /\ rows[h].disk,
                    d.image = image
             PROVE  /\ I!Ready(d) => I!Looks(d.kind, I!Targets(d))
                    /\ d.kind = "deploy" /\ image.kind = "partition" =>
                         \A h \in DOMAIN d.hosts : \A p \in rows[h].parts :
                             I!Looks("deploy", [x \in {h} |-> p.partuuid]) =>
                                 image.status = "ready"
                                 /\ I!DeployTarget(image, d.hosts[h].parts, p.partuuid) # {}
                    /\ d.kind # "capture" /\ I!Ready(d) /\ image.kind = "partition" =>
                         \A h \in DOMAIN d.hosts : \A p \in rows[h].parts :
                             p.partuuid # I!Targets(d)[h] =>
                                 /\ ~I!SameUuid(image.source[1].uuid, p.uuid)
                                 /\ image.source[1].label # I!None => p.label # image.source[1].label
  BY DEF I!DialogAgrees
<1>0. /\ \A h \in DOMAIN rows : rows[h].parts \in Layouts \cup {{}}
      /\ image \in Images
  BY DEF InventoryInv, RowsOk
<1>1. \A h \in DOMAIN rows : \A p \in rows[h].parts :
         /\ p.size \in Nat /\ p.partuuid # I!Whole
         /\ \A q \in rows[h].parts : p.number = q.number => p = q
  BY <1>0, InventoryAssumption
<1>2. /\ image.kind \in {"disk", "partition"}
      /\ image.kind = "partition" /\ image.status = "ready" =>
            Len(image.source) = 1 /\ image.source[1].size \in Nat /\ image.source # <<>>
  <2>1. image.kind = "partition" /\ image.status = "ready" =>
            Len(image.source) = 1 /\ image.source[1].size \in Nat
    BY <1>0, InventoryAssumption
  <2>2. Len(image.source) = 1 => image.source # <<>>
    OBVIOUS
  <2> QED
    BY <1>0, <2>1, <2>2, InventoryAssumption
<1>3. ASSUME I!Ready(d), d.kind # "capture", image.kind = "partition", NEW h \in DOMAIN d.hosts
      PROVE  /\ image.status = "ready"
             /\ \E t \in rows[h].parts :
                   t.partuuid = I!Targets(d)[h] /\ ~I!Unfit(image, rows[h].parts, t)
  <2>1. image.status = "ready" /\ I!Picked(d)[h] # {}
    BY <1>3 DEF I!Ready
  <2>2. I!Targets(d)[h] \in I!Picked(d)[h]
    BY <1>3, <2>1 DEF I!Targets
  <2>3. d.kind \in {"deploy", "multicast"}
    BY <1>3
  <2>4. \E t \in d.hosts[h].parts :
           t.partuuid = I!Targets(d)[h] /\ ~I!Unfit(d.image, d.hosts[h].parts, t)
    BY <2>2, <2>3, PickedFits
  <2> QED
    BY <2>1, <2>4
<1>4. ASSUME I!Ready(d) PROVE I!Looks(d.kind, I!Targets(d))
  <2>1. DOMAIN I!Targets(d) = DOMAIN d.hosts
    BY DEF I!Targets
  <2>2. I!ImagingTargets(DOMAIN I!Targets(d))
    BY <2>1 DEF I!ImagingTargets
  <2>3. CASE d.kind = "capture"
    <3>1. ASSUME NEW h \in DOMAIN d.hosts, I!Targets(d)[h] # I!Whole
          PROVE  \E p \in rows[h].parts : p.partuuid = I!Targets(d)[h] /\ p.fstype \in I!Fstypes
      <4>1. ~(d.pick.by = I!Whole)
        BY <2>3, <3>1 DEF I!Targets
      <4>2. I!Picked(d)[h] # {}
        BY <1>4, <2>3, <4>1 DEF I!Ready
      <4>3. I!Targets(d)[h] \in I!Picked(d)[h]
        BY <2>3, <4>1, <4>2 DEF I!Targets
      <4>4. I!Targets(d)[h] \in I!CaptureSources(d.hosts[h].parts)
        BY <2>3, <4>3 DEF I!Picked
      <4> QED
        BY <4>4 DEF I!CaptureSources
    <3> QED
      BY <2>1, <2>2, <2>3, <3>1 DEF I!Looks, I!PlanCapture
  <2>4. CASE d.kind # "capture" /\ image.kind = "disk"
    <3>1. \A h \in DOMAIN d.hosts : I!Targets(d)[h] = I!Whole
      BY <2>4 DEF I!Targets
    <3>2. image.status = "ready"
      BY <1>4, <2>4 DEF I!Ready
    <3> QED
      BY <2>1, <2>2, <2>4, <3>1, <3>2 DEF I!Looks, I!PlanRestore
  <2>5. CASE d.kind # "capture" /\ image.kind = "partition"
    <3>1. ASSUME NEW h \in DOMAIN d.hosts
          PROVE  I!Targets(d)[h] # I!Whole /\ I!TargetFits(rows[h].parts, I!Targets(d)[h])
      <4>1. PICK t \in rows[h].parts :
               t.partuuid = I!Targets(d)[h] /\ ~I!Unfit(image, rows[h].parts, t)
        BY <1>3, <1>4, <2>5
      <4>2. image.status = "ready" /\ Len(image.source) = 1 /\ image.source[1].size \in Nat
            /\ image.source # <<>> /\ t.size \in Nat /\ t.partuuid # I!Whole
        BY <1>1, <1>2, <1>3, <1>4, <2>5
      <4>3. /\ t.size >= image.source[1].size
            /\ ~\E other \in rows[h].parts :
                  /\ other.number # t.number
                  /\ \/ I!SameUuid(image.source[1].uuid, other.uuid)
                     \/ image.source[1].label # I!None /\ other.label = image.source[1].label
        BY <4>1, <4>2, ChecksAgree
      <4> QED
        BY <4>1, <4>2, <4>3 DEF I!TargetFits
    <3>2. image.status = "ready"
      BY <1>4, <2>5 DEF I!Ready
    <3> QED
      BY <2>1, <2>2, <2>5, <3>1, <3>2 DEF I!Looks, I!PlanRestore
  <2> QED
    BY <1>2, <2>3, <2>4, <2>5
<1>5. ASSUME d.kind = "deploy", image.kind = "partition", NEW h \in DOMAIN d.hosts,
             NEW p \in rows[h].parts, I!Looks("deploy", [x \in {h} |-> p.partuuid])
      PROVE  image.status = "ready" /\ I!DeployTarget(image, d.hosts[h].parts, p.partuuid) # {}
  <2>1. image.status = "ready" /\ I!TargetFits(rows[h].parts, p.partuuid)
    BY <1>5 DEF I!Looks, I!PlanRestore
  <2>2. PICK t \in rows[h].parts :
           /\ t.partuuid = p.partuuid
           /\ t.size >= image.source[1].size
           /\ ~\E other \in rows[h].parts :
                 /\ other.number # t.number
                 /\ \/ I!SameUuid(image.source[1].uuid, other.uuid)
                    \/ image.source[1].label # I!None /\ other.label = image.source[1].label
    BY <2>1 DEF I!TargetFits
  <2>3. t.size \in Nat /\ image.source[1].size \in Nat /\ image.source # <<>>
    BY <1>1, <1>2, <1>5, <2>1
  <2>4. ~I!Unfit(image, rows[h].parts, t)
    BY <2>2, <2>3, ChecksAgree
  <2> QED
    BY <2>1, <2>2, <2>4 DEF I!DeployTarget
<1>6. ASSUME d.kind # "capture", I!Ready(d), image.kind = "partition", NEW h \in DOMAIN d.hosts,
             NEW p \in rows[h].parts, p.partuuid # I!Targets(d)[h]
      PROVE  /\ ~I!SameUuid(image.source[1].uuid, p.uuid)
             /\ image.source[1].label # I!None => p.label # image.source[1].label
  <2>1. PICK t \in rows[h].parts :
           t.partuuid = I!Targets(d)[h] /\ ~I!Unfit(image, rows[h].parts, t)
    BY <1>3, <1>6
  <2>2. t.size \in Nat /\ image.source[1].size \in Nat /\ image.source # <<>>
    BY <1>1, <1>2, <1>3, <1>6
  <2>3. p.number # t.number
    BY <1>1, <1>6, <2>1
  <2> QED
    BY <2>1, <2>2, <2>3, ChecksAgree
<1> QED
  BY <1>4, <1>5, <1>6

(***************************************************************************)
(* The dialogs and the server (unfit and resolve in the dashboard,         *)
(* target_partitions in the API) agree on what may be overwritten, and a   *)
(* request reaches the machine its operator chose, for any machines,       *)
(* layouts and images: host ids are never given out again, so an old copy  *)
(* of a host is of the machine that has the id now or of none.             *)
(***************************************************************************)
THEOREM RequestsReachTheirMachine == Spec => []MeantTarget
<1> DEFINE Inv == part = "inventory" => InventoryInv
<1>1. Init => Inv
  BY InventoryStarts DEF Init
<1>2. Inv /\ [Next]_vars => Inv'
  <2> SUFFICES ASSUME Inv, [Next]_vars, part' = "inventory" PROVE InventoryInv'
    OBVIOUS
  <2>1. CASE I!Next
    BY <2>1, InventoryKept DEF Next, vars
  <2>2. CASE UNCHANGED <<part, inventoryVars>>
    <3>1. RowsOk' /\ Lasting
      BY <2>2, RowsSame DEF inventoryVars, InventoryInv
    <3>2. ModalOk' /\ OrderOk' /\ StoredOk'
      BY <2>2, <3>1, ModalFrame, OrderFrame, StoredFrame DEF inventoryVars, InventoryInv
    <3> QED
      BY <2>2, <3>1, <3>2 DEF inventoryVars, InventoryInv
  <2> QED
    BY <2>1, <2>2 DEF Next, vars
<1>3. Inv => MeantTarget
  <2> SUFFICES ASSUME InventoryInv PROVE I!DialogAgrees /\ I!MeantMachine
    BY DEF MeantTarget
  <2>1. I!MeantMachine
    BY DEF I!MeantMachine, InventoryInv, RowsOk, StoredOk
  <2> QED
    BY <2>1, DialogsAgree
<1> QED
  BY <1>1, <1>2, <1>3, PTL DEF Spec

-----------------------------------------------------------------------------
(***************************************************************************)
(* The agent's screen.  Where run_task is (runner) says what the task on   *)
(* the screen looks like; what it has shown as done the server has as done *)
(* and through; a handle that is still in use is that of a partition which *)
(* is under way, or of a task that is no longer here.                      *)
(***************************************************************************)
Active == {"fresh", "table", "parts", "scripts", "finalize", "failing"}
Ending == {"countdown", "counting", "leaving", "rebooted"}
Steps == {"starting", "table", "partitions", "finishing"}
Outcomes == {"none", "done", "failed", "cancelled"}
Codes == {"waiting", "running", "exit0", "exit1", "killed"}
Standings == {"pending", "running", "done", "failed", "cancelled"}

\* The partitions and the scripts of a task are worked off in order.
IsPart(p) == /\ p = [phase |-> p.phase, half |-> p.half]
             /\ p.phase \in {"waiting", "running", "done"} /\ p.half \in 0 .. 2
PartsOk(parts, n) ==
    /\ parts = [i \in 1 .. n |-> parts[i]]
    /\ \A i \in 1 .. n : IsPart(parts[i])
    /\ \A i, j \in 1 .. n : i < j /\ parts[j].phase # "waiting" => parts[i].phase = "done"
ScriptsOk(scripts, n) ==
    /\ scripts = [i \in 1 .. n |-> scripts[i]]
    /\ \A i \in 1 .. n : scripts[i] \in Codes
    /\ \A i, j \in 1 .. n : i < j /\ scripts[j] # "waiting" => scripts[i] = "exit0"

\* What a task looks like on the screen.
OnScreen(t) ==
    /\ t = [id |-> t.id, step |-> t.step, parts |-> t.parts, scripts |-> t.scripts, outcome |-> t.outcome]
    /\ t.id \in {0} \cup DOMAIN Work /\ t.step \in Steps /\ t.outcome \in Outcomes
    /\ t.step \in {"starting", "table"} => t.parts = <<>>
    /\ t.step \in {"partitions", "finishing"} => t.id # 0 /\ PartsOk(t.parts, Len(Work[t.id].parts))
    /\ t.step # "finishing" => t.scripts = <<>>
    /\ t.step = "finishing" =>
          /\ ScriptsOk(t.scripts, Work[t.id].scripts)
          /\ \A i \in DOMAIN t.parts : t.parts[i].phase = "done"

Through(t) == \/ Work[t.id].kind = "reboot"
              \/ t.step = "finishing" /\ \A i \in DOMAIN t.scripts : t.scripts[i] = "exit0"

\* Where run_task is, and what the screen says of the task.
RunnerOk(t, r) ==
    /\ r \in {"idle"} \cup Active \cup Ending
    /\ r \in Active => t.id # 0 /\ t.outcome = "none"
    /\ r \in Ending => t.id # 0 /\ t.outcome = "done"
    /\ r = "idle" => t.id = 0 \/ t.outcome # "none"
    /\ r = "fresh" => t.step = "starting"
    /\ r = "table" => t.step = "table"
    /\ r = "parts" => t.step = "partitions"
    /\ r = "scripts" => t.step = "finishing"
    /\ r = "finalize" => Through(t)

StandsAs(t, s) == t.outcome = "done" => t.id # 0 /\ s[t.id] = "done" /\ Through(t)
IsStanding(s) == s \in [DOMAIN Work -> Standings]

ReporterOk(t, r) ==
    /\ r = [id |-> r.id, part |-> r.part] /\ r.id \in DOMAIN Work /\ r.part \in Nat
    /\ r.id = t.id /\ r.part \in DOMAIN t.parts => t.parts[r.part].phase = "running"
ReportersOk(t, rs) == \A r \in rs : ReporterOk(t, r)

CastOk(c) ==
    /\ c = [slot |-> c.slot, naks |-> c.naks, total |-> c.total, seen |-> c.seen]
    /\ c.slot \in Nat /\ c.naks \in Nat /\ c.total \in Nat
    /\ c.seen \in [1 .. c.slot -> Nat]
    /\ c.slot # 0 => c.seen[c.slot] = c.naks
    /\ c.slot = 0 => c.naks = 0
    /\ c.total = A!SumOf(c.seen)

\* A reboot from the console, and the tasks that such reboots leave behind: a row that says
\* running is that of the task that runs, or of one which was interrupted without an answer.
ConsoleReboot(q, s) ==
    /\ q = [no |-> q.no, pc |-> q.pc, id |-> q.id, answer |-> q.answer]
    /\ q.id \in {0} \cup DOMAIN Work
    /\ q.pc = "asked" => q.id = 0
    /\ q.pc = "cancelled" => q.id # 0
    /\ q.answer # "none" => q.id # 0 /\ A!Over(s[q.id])
ConsoleOk(c, s) == \A q \in c : ConsoleReboot(q, s)
RunsOk(t, c, s) == \A i \in DOMAIN Work : s[i] = "running" =>
                      (i = t.id /\ t.outcome = "none") \/ \E p \in c : p.id = i /\ p.answer = "none"
TokenOk(k, t, c) == k => t.id # 0 /\ \E p \in c : p.id = t.id

IsDown(c, r) == r = "rebooted" \/ \E q \in c : q.pc = "rebooted"
MachineOk == machine \in {"up", "off"} /\ (machine = "off" => IsDown(console, runner))

ScreenInv == /\ OnScreen(task) /\ RunnerOk(task, runner) /\ StandsAs(task, standing)
             /\ IsStanding(standing) /\ ReportersOk(task, reporters) /\ CastOk(cast)
             /\ ConsoleOk(console, standing) /\ RunsOk(task, console, standing)
             /\ TokenOk(token, task, console) /\ MachineOk

\* The work of a machine is a list, and so are the partitions of each task.
LEMMA WorkIs ==
    /\ DOMAIN Work \subseteq Nat /\ 0 \notin DOMAIN Work
    /\ \A k \in DOMAIN Work :
          /\ Len(Work[k].parts) \in Nat /\ DOMAIN Work[k].parts = 1 .. Len(Work[k].parts)
          /\ \A i \in 1 .. Len(Work[k].parts) : Work[k].parts[i] \in Nat
          /\ Work[k].scripts \in Nat
<1>1. DOMAIN Work = 1 .. Len(Work) /\ Len(Work) \in Nat
  BY ScreenAssumption
<1>2. \A k \in DOMAIN Work : Work[k].parts \in Seq(Nat) /\ Work[k].scripts \in Nat
  BY ScreenAssumption
<1> QED
  BY <1>1, <1>2

LEMMA ScreenPrimed ==
    ASSUME OnScreen(task'), RunnerOk(task', runner'), StandsAs(task', standing'), IsStanding(standing'),
           ReportersOk(task', reporters'), CastOk(cast'), ConsoleOk(console', standing'),
           RunsOk(task', console', standing'), TokenOk(token', task', console'), MachineOk'
    PROVE  ScreenInv'
  BY DEF ScreenInv, OnScreen, RunnerOk, StandsAs, IsStanding, ReportersOk, ReporterOk, CastOk, ConsoleOk,
         ConsoleReboot, RunsOk, TokenOk, Through, PartsOk, IsPart, ScriptsOk

\* A sum over a list is the sum over all but its last element, and that one.
SumRun(f, n, sum) == sum = [k \in 0 .. n |-> IF k = 0 THEN 0 ELSE sum[k - 1] + f[k]]

\* A property of numbers that goes from each to the next holds for all of them.
LEMMA CountUp ==
    ASSUME NEW X \in SUBSET Nat, 0 \in X, \A n \in Nat : n \in X => n + 1 \in X
    PROVE  X = Nat
<1> SUFFICES ASSUME Nat \ X # {} PROVE FALSE
  OBVIOUS
<1>1. PICK Y : Y = Nat \ X
  OBVIOUS
<1>2. PICK m \in Y : \A y \in Y : m <= y
  BY <1>1, LeastNumber
<1>3. m \in Nat /\ m # 0 /\ m - 1 \in Nat /\ m - 1 \notin Y
  BY <1>1, <1>2
<1>4. m - 1 \in X /\ (m - 1) + 1 = m
  BY <1>1, <1>3
<1> QED
  BY <1>1, <1>2, <1>3, <1>4

LEMMA SumExists == ASSUME NEW f PROVE \A n \in Nat : \E sum : SumRun(f, n, sum)
<1>1. PICK X : X = {n \in Nat : \E sum : SumRun(f, n, sum)}
  OBVIOUS
<1>2. 0 \in X
  <2>1. SumRun(f, 0, [k \in 0 .. 0 |-> 0])
    BY DEF SumRun
  <2> QED
    BY <1>1, <2>1
<1>3. ASSUME NEW n \in Nat, n \in X PROVE n + 1 \in X
  <2>1. PICK g : SumRun(f, n, g)
    BY <1>1, <1>3
  <2>2. PICK h : h = [k \in 0 .. n + 1 |-> IF k = n + 1 THEN g[n] + f[n + 1] ELSE g[k]]
    OBVIOUS
  <2>3. ASSUME NEW k \in 0 .. n + 1 PROVE h[k] = IF k = 0 THEN 0 ELSE h[k - 1] + f[k]
    <3>1. CASE k = n + 1
      BY <2>2, <3>1
    <3>2. CASE k # n + 1
      <4>1. k \in 0 .. n /\ (k # 0 => k - 1 \in 0 .. n /\ k - 1 # n + 1)
        BY <3>2
      <4>2. g[k] = IF k = 0 THEN 0 ELSE g[k - 1] + f[k]
        BY <2>1, <4>1 DEF SumRun
      <4>3. h[k] = g[k] /\ (k # 0 => h[k - 1] = g[k - 1])
        BY <2>2, <3>2, <4>1
      <4> QED
        BY <4>2, <4>3
    <3> QED
      BY <3>1, <3>2
  <2>4. SumRun(f, n + 1, h)
    BY <2>2, <2>3 DEF SumRun
  <2> QED
    BY <1>1, <2>4
<1> QED
  BY <1>1, <1>2, <1>3, CountUp

LEMMA SumIs ==
    ASSUME NEW f, NEW n \in Nat
    PROVE  \E sum : SumRun(f, n, sum) /\ A!SumTo(f, n) = sum[n]
<1>1. PICK g : SumRun(f, n, g)
  BY SumExists
<1>2. PICK h : h = CHOOSE sum : SumRun(f, n, sum)
  OBVIOUS
<1>3. SumRun(f, n, h)
  BY <1>1, <1>2
<1>4. A!SumTo(f, n) = h[n]
  BY <1>2 DEF A!SumTo, SumRun
<1> QED
  BY <1>3, <1>4

LEMMA SumAgree ==
    ASSUME NEW f, NEW n \in Nat, NEW m \in Nat, n <= m, NEW g, NEW h, SumRun(f, n, g), SumRun(f, m, h)
    PROVE  g[n] = h[n]
<1>1. PICK X : X = {k \in Nat : k <= n => g[k] = h[k]}
  OBVIOUS
<1>2. 0 \in X
  BY <1>1 DEF SumRun
<1>3. ASSUME NEW k \in Nat, k \in X PROVE k + 1 \in X
  <2> SUFFICES ASSUME k + 1 <= n PROVE g[k + 1] = h[k + 1]
    BY <1>1
  <2>1. g[k] = h[k] /\ k + 1 \in 0 .. n /\ k + 1 \in 0 .. m /\ (k + 1) - 1 = k /\ k + 1 # 0
    BY <1>1, <1>3
  <2>2. g[k + 1] = g[k] + f[k + 1] /\ h[k + 1] = h[k] + f[k + 1]
    BY <2>1 DEF SumRun
  <2> QED
    BY <2>1, <2>2
<1> QED
  BY <1>1, <1>2, <1>3, CountUp

LEMMA SumStep ==
    ASSUME NEW f
    PROVE  /\ A!SumTo(f, 0) = 0
           /\ \A n \in Nat : A!SumTo(f, n + 1) = A!SumTo(f, n) + f[n + 1]
<1>1. A!SumTo(f, 0) = 0
  <2>1. PICK g : SumRun(f, 0, g) /\ A!SumTo(f, 0) = g[0]
    BY SumIs
  <2> QED
    BY <2>1 DEF SumRun
<1>2. ASSUME NEW n \in Nat PROVE A!SumTo(f, n + 1) = A!SumTo(f, n) + f[n + 1]
  <2>1. PICK g : SumRun(f, n, g) /\ A!SumTo(f, n) = g[n]
    BY SumIs
  <2>2. PICK h : SumRun(f, n + 1, h) /\ A!SumTo(f, n + 1) = h[n + 1]
    BY SumIs
  <2>3. g[n] = h[n]
    BY <2>1, <2>2, SumAgree
  <2>4. h[n + 1] = h[n] + f[n + 1]
    <3>1. n + 1 \in 0 .. n + 1 /\ n + 1 # 0 /\ (n + 1) - 1 = n
      OBVIOUS
    <3> QED
      BY <2>2, <3>1 DEF SumRun
  <2> QED
    BY <2>1, <2>2, <2>3, <2>4
<1> QED
  BY <1>1, <1>2

\* Sums of natural numbers; of lists that agree, and of one below the other.
LEMMA SumNat ==
    ASSUME NEW f, NEW n \in Nat, \A k \in 1 .. n : f[k] \in Nat
    PROVE  A!SumTo(f, n) \in Nat
<1>1. PICK X : X = {k \in Nat : k <= n => A!SumTo(f, k) \in Nat}
  OBVIOUS
<1>2. 0 \in X
  BY <1>1, SumStep
<1>3. ASSUME NEW k \in Nat, k \in X PROVE k + 1 \in X
  <2> SUFFICES ASSUME k + 1 <= n PROVE A!SumTo(f, k + 1) \in Nat
    BY <1>1
  <2>1. A!SumTo(f, k) \in Nat /\ f[k + 1] \in Nat
    BY <1>1, <1>3
  <2> QED
    BY <2>1, SumStep
<1> QED
  BY <1>1, <1>2, <1>3, CountUp

LEMMA SumSame ==
    ASSUME NEW f, NEW g, NEW n \in Nat, \A k \in 1 .. n : f[k] = g[k]
    PROVE  A!SumTo(f, n) = A!SumTo(g, n)
<1>1. PICK X : X = {k \in Nat : k <= n => A!SumTo(f, k) = A!SumTo(g, k)}
  OBVIOUS
<1>2. 0 \in X
  BY <1>1, SumStep
<1>3. ASSUME NEW k \in Nat, k \in X PROVE k + 1 \in X
  <2> SUFFICES ASSUME k + 1 <= n PROVE A!SumTo(f, k + 1) = A!SumTo(g, k + 1)
    BY <1>1
  <2>1. A!SumTo(f, k) = A!SumTo(g, k) /\ f[k + 1] = g[k + 1]
    BY <1>1, <1>3
  <2> QED
    BY <2>1, SumStep
<1> QED
  BY <1>1, <1>2, <1>3, CountUp

\* Of a part of what there is, to the half.
Below(f, g, n) == /\ A!SumTo(f, n) \in Nat /\ A!SumTo(g, n) \in Nat
                  /\ A!SumTo(f, n) <= 2 * A!SumTo(g, n)
                  /\ A!SumTo(f, n) = 2 * A!SumTo(g, n) => \A k \in 1 .. n : f[k] = 2 * g[k]

LEMMA SumBelow ==
    ASSUME NEW f, NEW g, NEW n \in Nat,
           \A k \in 1 .. n : f[k] \in Nat /\ g[k] \in Nat /\ f[k] <= 2 * g[k]
    PROVE  Below(f, g, n)
<1>1. PICK X : X = {k \in Nat : k <= n => Below(f, g, k)}
  OBVIOUS
<1>2. 0 \in X
  BY <1>1, SumStep DEF Below
<1>3. ASSUME NEW k \in Nat, k \in X PROVE k + 1 \in X
  <2> SUFFICES ASSUME k + 1 <= n PROVE Below(f, g, k + 1)
    BY <1>1
  <2>1. Below(f, g, k) /\ k + 1 \in 1 .. n
    BY <1>1, <1>3
  <2>2. PICK a, b, c, d : /\ a = A!SumTo(f, k) /\ b = A!SumTo(g, k) /\ c = A!SumTo(f, k + 1)
                          /\ d = A!SumTo(g, k + 1)
    OBVIOUS
  <2>3. c = a + f[k + 1] /\ d = b + g[k + 1]
    BY <2>2, SumStep
  <2>4. a \in Nat /\ b \in Nat /\ a <= 2 * b /\ (a = 2 * b => \A j \in 1 .. k : f[j] = 2 * g[j])
    BY <2>1, <2>2 DEF Below
  <2>5. f[k + 1] \in Nat /\ g[k + 1] \in Nat /\ f[k + 1] <= 2 * g[k + 1]
    BY <2>1
  <2>6. c \in Nat /\ d \in Nat /\ c <= 2 * d /\ (c = 2 * d => a = 2 * b /\ f[k + 1] = 2 * g[k + 1])
    <3>1. PICK x, y : x = f[k + 1] /\ y = g[k + 1]
      OBVIOUS
    <3>2. c = a + x /\ d = b + y /\ x \in Nat /\ y \in Nat /\ x <= 2 * y
      BY <2>3, <2>5, <3>1
    <3>3. a \in Nat /\ b \in Nat /\ a <= 2 * b
      BY <2>4
    <3>4. c \in Nat /\ d \in Nat /\ c <= 2 * d /\ (c = 2 * d => a = 2 * b /\ x = 2 * y)
      BY <3>2, <3>3
    <3> QED
      BY <3>1, <3>4
  <2>7. c = 2 * d => \A j \in 1 .. k + 1 : f[j] = 2 * g[j]
    BY <2>4, <2>6
  <2> QED
    BY <2>2, <2>6, <2>7 DEF Below
<1> QED
  BY <1>1, <1>2, <1>3, CountUp

LEMMA ScreenStarts == A!Init => ScreenInv
<1> SUFFICES ASSUME A!Init PROVE ScreenInv
  OBVIOUS
<1>1. OnScreen(task) /\ task.id = 0 /\ task.outcome = "none"
  BY DEF A!Init, A!NoTask, OnScreen, Steps, Outcomes
<1>2. RunnerOk(task, runner) /\ StandsAs(task, standing) /\ ReportersOk(task, reporters)
  BY <1>1 DEF A!Init, RunnerOk, StandsAs, ReportersOk, Active, Ending
<1>3. IsStanding(standing) /\ RunsOk(task, console, standing)
  <2>1. PICK q : standing = [i \in DOMAIN Work |-> IF i \in q THEN "pending" ELSE "cancelled"]
    BY DEF A!Init, A!Ids
  <2> QED
    BY <2>1 DEF IsStanding, Standings, RunsOk
<1>5. ConsoleOk(console, standing) /\ TokenOk(token, task, console) /\ MachineOk
  BY DEF A!Init, ConsoleOk, TokenOk, MachineOk
<1>4. CastOk(cast)
  <2>1. cast = [slot |-> 0, naks |-> 0, total |-> 0, seen |-> <<>>]
    BY DEF A!Init, A!NoCast
  <2>2. A!SumOf(cast.seen) = 0
    BY <2>1, SumStep DEF A!SumOf
  <2>3. cast.seen \in [1 .. 0 -> Nat]
    BY <2>1
  <2> QED
    BY <2>1, <2>2, <2>3 DEF CastOk
<1> QED
  BY <1>1, <1>2, <1>3, <1>4, <1>5 DEF ScreenInv

\* One partition or script goes on.
LEMMA PartSet ==
    ASSUME NEW n \in Nat, NEW parts, PartsOk(parts, n), NEW k \in 1 .. n, NEW p, IsPart(p),
           \A i \in 1 .. n : i < k => parts[i].phase = "done",
           p.phase = "done" \/ \A i \in 1 .. n : k < i => parts[i].phase = "waiting"
    PROVE  PartsOk([parts EXCEPT ![k] = p], n)
<1>1. PICK q : q = [parts EXCEPT ![k] = p]
  OBVIOUS
<1>2. /\ q = [i \in 1 .. n |-> q[i]]
      /\ \A i \in 1 .. n : q[i] = IF i = k THEN p ELSE parts[i]
  BY <1>1 DEF PartsOk
<1>3. \A i \in 1 .. n : IsPart(q[i])
  BY <1>2 DEF PartsOk
<1>4. ASSUME NEW i \in 1 .. n, NEW j \in 1 .. n, i < j, q[j].phase # "waiting"
      PROVE  q[i].phase = "done"
  <2>1. CASE j = k
    BY <1>2, <1>4, <2>1
  <2>2. CASE j # k
    <3>1. parts[j].phase # "waiting" /\ parts[i].phase = "done"
      BY <1>2, <1>4, <2>2 DEF PartsOk
    <3>2. i = k => p.phase = "done"
      BY <1>4, <3>1
    <3> QED
      BY <1>2, <3>1, <3>2
  <2> QED
    BY <2>1, <2>2
<1>5. PartsOk(q, n)
  BY <1>2, <1>3, <1>4 DEF PartsOk
<1> QED
  BY <1>1, <1>5

LEMMA ScriptSet ==
    ASSUME NEW n \in Nat, NEW list, ScriptsOk(list, n), NEW k \in 1 .. n, NEW code \in Codes,
           \A i \in 1 .. n : i < k => list[i] = "exit0",
           \A i \in 1 .. n : k < i => list[i] = "waiting"
    PROVE  ScriptsOk([list EXCEPT ![k] = code], n)
<1>1. PICK q : q = [list EXCEPT ![k] = code]
  OBVIOUS
<1>2. /\ q = [i \in 1 .. n |-> q[i]]
      /\ \A i \in 1 .. n : q[i] = IF i = k THEN code ELSE list[i]
  BY <1>1 DEF ScriptsOk
<1>3. \A i \in 1 .. n : q[i] \in Codes
  BY <1>2 DEF ScriptsOk
<1>4. ASSUME NEW i \in 1 .. n, NEW j \in 1 .. n, i < j, q[j] # "waiting"
      PROVE  q[i] = "exit0"
  BY <1>2, <1>4 DEF ScriptsOk
<1>5. ScriptsOk(q, n)
  BY <1>2, <1>3, <1>4 DEF ScriptsOk
<1> QED
  BY <1>1, <1>5

\* The rows of tasks that are over stay as they are, and only that of the task at work may begin to
\* say running.
Settles(s, t) == /\ IsStanding(t)
                 /\ \A k \in DOMAIN Work :
                       /\ A!Over(s[k]) => t[k] = s[k]
                       /\ t[k] = "running" => s[k] = "running" \/ (k = task.id /\ A!RunningTask)

LEMMA StandingSet ==
    ASSUME NEW s, IsStanding(s), NEW i \in DOMAIN Work, NEW v \in Standings,
           A!Over(s[i]) => v = s[i],
           v = "running" => s[i] = "running" \/ (i = task.id /\ A!RunningTask)
    PROVE  Settles(s, [s EXCEPT ![i] = v])
  BY DEF IsStanding, Settles

LEMMA StandingSame == ASSUME NEW s, IsStanding(s) PROVE Settles(s, s)
  BY DEF Settles

LEMMA StandsStill ==
    ASSUME NEW t, NEW s, NEW u, OnScreen(t), StandsAs(t, s), Settles(s, u)
    PROVE  StandsAs(t, u)
  BY DEF StandsAs, Settles, OnScreen, A!Over

LEMMA ConsoleStill ==
    ASSUME NEW c, NEW s, NEW u, ConsoleOk(c, s), Settles(s, u)
    PROVE  ConsoleOk(c, u)
  BY DEF ConsoleOk, ConsoleReboot, Settles, A!Over

LEMMA RunsStill ==
    ASSUME NEW t, NEW c, NEW s, NEW u, RunsOk(task, c, s), Settles(s, u), t.id = task.id,
           t.outcome = task.outcome
    PROVE  RunsOk(t, c, u)
  BY DEF RunsOk, Settles, A!RunningTask

\* While run_task is at it, the state it reports to changes.
LEMMA TaskUpdated ==
    ASSUME ScreenInv, runner \in Active, NEW t, A!UpdateTask(t)
    PROVE  task' = t
  BY DEF ScreenInv, RunnerOk, A!UpdateTask, A!RunningTask

LEMMA ActiveIs ==
    ASSUME ScreenInv, runner \in Active
    PROVE  task.id \in DOMAIN Work /\ task.outcome = "none" /\ task.id \in Nat /\ task.id # 0
  BY WorkIs DEF ScreenInv, RunnerOk, OnScreen

-----------------------------------------------------------------------------
\* The steps of run_task.

\* What a step leaves alone.
Quiet == UNCHANGED <<token, console, machine>>

LEMMA ScreenSame ==
    ASSUME ScreenInv
    PROVE  /\ UNCHANGED cast => CastOk(cast')
           /\ Quiet /\ Settles(standing, standing') => ConsoleOk(console', standing')
           /\ Quiet /\ Settles(standing, standing') /\ task'.id = task.id /\ task'.outcome = task.outcome
                 => RunsOk(task', console', standing') /\ TokenOk(token', task', console')
           /\ Quiet /\ (runner = "rebooted" => runner' = "rebooted") => MachineOk'
           /\ machine = "up" /\ UNCHANGED machine => MachineOk'
           /\ UNCHANGED standing => Settles(standing, standing')
<1>1. UNCHANGED standing => Settles(standing, standing')
  BY StandingSame DEF ScreenInv
<1>2. Quiet /\ Settles(standing, standing') => ConsoleOk(console', standing')
  BY ConsoleStill DEF ScreenInv, Quiet
<1>3. ASSUME Quiet, Settles(standing, standing'), task'.id = task.id, task'.outcome = task.outcome
      PROVE  RunsOk(task', console', standing') /\ TokenOk(token', task', console')
  <2>1. RunsOk(task', console, standing')
    BY <1>3, RunsStill DEF ScreenInv
  <2>2. TokenOk(token, task', console)
    BY <1>3 DEF ScreenInv, TokenOk
  <2> QED
    BY <1>3, <2>1, <2>2 DEF Quiet
<1>4. Quiet /\ (runner = "rebooted" => runner' = "rebooted") => MachineOk'
  BY DEF ScreenInv, Quiet, MachineOk, IsDown
<1>5. machine = "up" /\ UNCHANGED machine => MachineOk'
  BY DEF MachineOk
<1> QED
  BY <1>1, <1>2, <1>3, <1>4, <1>5 DEF ScreenInv

\* A task of the same work whose steps stand as they did.
LEMMA SameWork ==
    ASSUME NEW t, NEW u, NEW r, u.id = t.id, u.parts = t.parts, ReporterOk(t, r)
    PROVE  ReporterOk(u, r)
  BY DEF ReporterOk

LEMMA CurrentIs == A!Current # 0 => A!Current \in DOMAIN Work
<1> SUFFICES ASSUME A!Current # 0 PROVE A!Current \in DOMAIN Work
  OBVIOUS
<1>1. PICK X : X = {i \in DOMAIN Work : ~A!Over(standing[i])}
  OBVIOUS
<1>2. X # {} /\ X \subseteq Nat
  BY <1>1, WorkIs DEF A!Current, A!Ids
<1>3. PICK i \in X : \A j \in X : i <= j
  BY <1>2, LeastNumber
<1>4. i \in DOMAIN Work /\ ~A!Over(standing[i]) /\ \A j \in DOMAIN Work : j < i => A!Over(standing[j])
  BY <1>1, <1>2, <1>3, WorkIs
<1>5. PICK c : c = CHOOSE k \in DOMAIN Work :
                      ~A!Over(standing[k]) /\ \A j \in DOMAIN Work : j < k => A!Over(standing[j])
  OBVIOUS
<1>6. c \in DOMAIN Work
  BY <1>4, <1>5
<1>7. A!Current = c
  BY <1>4, <1>5 DEF A!Current, A!Ids
<1> QED
  BY <1>6, <1>7

LEMMA TaskStartedStep == ASSUME ScreenInv, A!TaskStarted PROVE ScreenInv'
<1>1. PICK n : n = A!Current
  OBVIOUS
<1>2. n \in DOMAIN Work /\ n # 0
  BY <1>1, CurrentIs DEF A!TaskStarted
<1>3. PICK t : t = task'
  OBVIOUS
<1>4. t = [id |-> n, step |-> "starting", parts |-> <<>>, scripts |-> <<>>, outcome |-> "none"]
  <2>1. t = [A!NoTask EXCEPT !.id = n]
    BY <1>1, <1>3 DEF A!TaskStarted
  <2> QED
    BY <2>1 DEF A!NoTask
<1>8. OnScreen(t)
  BY <1>2, <1>4 DEF OnScreen, Steps, Outcomes
<1>9. RunnerOk(t, runner')
  BY <1>2, <1>4 DEF A!TaskStarted, RunnerOk, Active, Ending
<1>10. StandsAs(t, standing')
  BY <1>4 DEF StandsAs
<1>5. ReportersOk(t, reporters')
  <2>1. t.parts = <<>> /\ UNCHANGED reporters
    BY <1>4 DEF A!TaskStarted
  <2> QED
    <3>1. DOMAIN t.parts = {}
      BY <2>1
    <3> QED
      BY <2>1, <3>1 DEF ScreenInv, ReportersOk, ReporterOk
<1>6. CastOk(cast')
  <2>1. cast' = [slot |-> 0, naks |-> 0, total |-> 0, seen |-> <<>>]
    BY DEF A!TaskStarted, A!NoCast
  <2>2. A!SumOf(cast'.seen) = 0
    BY <2>1, SumStep DEF A!SumOf
  <2>3. cast'.seen \in [1 .. 0 -> Nat]
    BY <2>1
  <2> QED
    BY <2>1, <2>2, <2>3 DEF CastOk
<1>7. IsStanding(standing') /\ ConsoleOk(console', standing') /\ TokenOk(token', t, console') /\ MachineOk'
  BY DEF A!TaskStarted, ScreenInv, TokenOk, MachineOk
<1>11. RunsOk(t, console', standing')
  <2>1. \A i \in DOMAIN Work : ~(i = task.id /\ task.outcome = "none")
    BY WorkIs DEF A!TaskStarted, ScreenInv, RunnerOk
  <2>2. RunsOk(task, console, standing) /\ UNCHANGED <<console, standing>>
    BY DEF A!TaskStarted, ScreenInv
  <2> QED
    BY <2>1, <2>2 DEF RunsOk
<1> QED
  BY <1>3, <1>11, <1>5, <1>6, <1>7, <1>8, <1>9, <1>10, ScreenPrimed

\* A step in which run_task goes on, and what it has to show for it.
LEMMA RunnerStep ==
    ASSUME ScreenInv, runner \in Active, NEW t, A!UpdateTask(t), t.id = task.id,
           OnScreen(t), RunnerOk(t, runner'), t.outcome = "none", ReportersOk(t, reporters'),
           UNCHANGED <<cast, token, console, machine>>, Settles(standing, standing')
    PROVE  ScreenInv'
<1>1. task' = t
  BY TaskUpdated
<1>2. OnScreen(task') /\ RunnerOk(task', runner') /\ ReportersOk(task', reporters')
  BY <1>1
<1>3. StandsAs(task', standing') /\ IsStanding(standing')
  BY <1>1 DEF StandsAs, Settles
<1>4. CastOk(cast') /\ ConsoleOk(console', standing') /\ MachineOk'
  BY ScreenSame DEF Quiet, Active
<1>5. RunsOk(task', console', standing') /\ TokenOk(token', task', console')
  BY <1>1, ActiveIs, ScreenSame DEF Quiet
<1> QED
  BY <1>2, <1>3, <1>4, <1>5, ScreenPrimed

LEMMA FewerReporters ==
    ASSUME NEW t, NEW rs, ReportersOk(t, rs), NEW qs \in SUBSET rs
    PROVE  ReportersOk(t, qs)
  BY DEF ReportersOk

\* A step in which run_task goes on and the screen stays as it is.
LEMMA RunnerGoes ==
    ASSUME ScreenInv, runner \in Active, UNCHANGED task, RunnerOk(task, runner'),
           reporters' \subseteq reporters,
           UNCHANGED <<cast, token, console, machine>>, Settles(standing, standing')
    PROVE  ScreenInv'
<1>1. OnScreen(task') /\ RunnerOk(task', runner') /\ ReportersOk(task', reporters')
  BY FewerReporters DEF ScreenInv
<1>2. StandsAs(task', standing') /\ IsStanding(standing')
  BY StandsStill DEF ScreenInv, Settles
<1>3. /\ CastOk(cast') /\ ConsoleOk(console', standing') /\ MachineOk'
      /\ RunsOk(task', console', standing') /\ TokenOk(token', task', console')
  BY ScreenSame DEF Quiet, Active
<1> QED
  BY <1>1, <1>2, <1>3, ScreenPrimed

LEMMA PrepareStep == ASSUME ScreenInv, A!Prepare PROVE ScreenInv'
<1>1. runner = "fresh" /\ runner \in Active /\ UNCHANGED <<cast, token, console, machine, reporters>>
  BY DEF A!Prepare, Active, A!rest, A!screen
<1>2. task.id \in DOMAIN Work /\ task.outcome = "none" /\ task.id # 0 /\ task.step = "starting"
  BY <1>1, ActiveIs DEF ScreenInv, RunnerOk
<1>3. CASE Work[task.id].kind = "reboot"
  <2>1. runner' = "finalize" /\ UNCHANGED <<task, standing>>
    BY <1>3 DEF A!Prepare
  <2>2. RunnerOk(task, runner')
    BY <1>2, <1>3, <2>1 DEF RunnerOk, Through, Active, Ending
  <2> QED
    BY <1>1, <2>1, <2>2, RunnerGoes, ScreenSame
<1>4. CASE Work[task.id].kind # "reboot" /\ A!Over(standing[task.id])
  <2>1. runner' = "failing" /\ UNCHANGED <<task, standing>>
    BY <1>4 DEF A!Prepare
  <2>2. RunnerOk(task, runner')
    BY <1>2, <2>1 DEF RunnerOk, Active, Ending
  <2> QED
    BY <1>1, <2>1, <2>2, RunnerGoes, ScreenSame
<1>5. CASE Work[task.id].kind # "reboot" /\ ~A!Over(standing[task.id])
  <2>1. PICK t : t = [task EXCEPT !.step = "table"]
    OBVIOUS
  <2>2. /\ runner' = "table" /\ standing' = [standing EXCEPT ![task.id] = "running"]
        /\ A!UpdateTask(t)
    BY <1>5, <2>1 DEF A!Prepare
  <2>3. t = [id |-> task.id, step |-> "table", parts |-> task.parts, scripts |-> task.scripts,
             outcome |-> "none"]
    BY <1>2, <2>1 DEF ScreenInv, OnScreen
  <2>4. OnScreen(t)
    BY <1>2, <2>3 DEF ScreenInv, OnScreen, Steps, Outcomes
  <2>5. RunnerOk(t, runner')
    BY <1>2, <2>2, <2>3 DEF RunnerOk, Active, Ending
  <2>6. ReportersOk(t, reporters')
    BY <1>1, <2>3, SameWork DEF ScreenInv, ReportersOk
  <2>7. Settles(standing, standing')
    <3>1. "running" \in Standings
      BY DEF Standings
    <3>2. A!RunningTask
      BY <1>2 DEF A!RunningTask
    <3> QED
      BY <1>2, <1>5, <2>2, <3>1, <3>2, StandingSet DEF ScreenInv
  <2> QED
    BY <1>1, <2>2, <2>3, <2>4, <2>5, <2>6, <2>7, RunnerStep
<1> QED
  BY <1>3, <1>4, <1>5

LEMMA PartitionsStep == ASSUME ScreenInv, A!Partitions PROVE ScreenInv'
<1>1. /\ runner = "table" /\ runner \in Active /\ runner' = "parts"
      /\ UNCHANGED <<cast, token, console, machine, reporters, standing>>
  BY DEF A!Partitions, Active, A!rest, A!screen
<1>2. task.id \in DOMAIN Work /\ task.outcome = "none" /\ task.id # 0 /\ task.step = "table"
  BY <1>1, ActiveIs DEF ScreenInv, RunnerOk
<1>3. PICK n, parts : n = Len(Work[task.id].parts)
                      /\ parts = [i \in 1 .. n |-> [phase |-> "waiting", half |-> 0]]
  OBVIOUS
<1>4. n \in Nat /\ DOMAIN Work[task.id].parts = 1 .. n
  BY <1>2, <1>3, WorkIs
<1>5. PICK t : t = [task EXCEPT !.step = "partitions",
                                !.parts = [i \in DOMAIN Work[task.id].parts |-> A!Waiting]]
  OBVIOUS
<1>6. A!UpdateTask(t)
  BY <1>5 DEF A!Partitions
<1>7. t = [id |-> task.id, step |-> "partitions", parts |-> parts, scripts |-> <<>>, outcome |-> "none"]
  BY <1>2, <1>3, <1>4, <1>5 DEF ScreenInv, OnScreen, A!Waiting
<1>8. PartsOk(parts, n)
  BY <1>3, <1>4 DEF PartsOk, IsPart
<1>9. OnScreen(t)
  BY <1>2, <1>3, <1>7, <1>8 DEF OnScreen, Steps, Outcomes
<1>10. RunnerOk(t, runner')
  BY <1>1, <1>2, <1>7 DEF RunnerOk, Active, Ending
<1>11. ReportersOk(t, reporters')
  BY <1>1, <1>7 DEF A!Partitions, ScreenInv, ReportersOk, ReporterOk
<1> QED
  BY <1>1, <1>6, <1>7, <1>9, <1>10, <1>11, RunnerStep, ScreenSame

\* What the task's parts are while they are imaged.
LEMMA PartsAre ==
    ASSUME ScreenInv, task.step \in {"partitions", "finishing"}
    PROVE  /\ DOMAIN task.parts = 1 .. Len(Work[task.id].parts)
           /\ Len(Work[task.id].parts) \in Nat /\ task.id \in DOMAIN Work /\ task.id # 0
           /\ PartsOk(task.parts, Len(Work[task.id].parts))
           /\ Len(task.parts) = Len(Work[task.id].parts)
<1>1. task.id \in DOMAIN Work /\ PartsOk(task.parts, Len(Work[task.id].parts)) /\ task.id # 0
  BY DEF ScreenInv, OnScreen
<1>2. PICK n : n = Len(Work[task.id].parts)
  OBVIOUS
<1>3. n \in Nat /\ PartsOk(task.parts, n)
  BY <1>1, <1>2, WorkIs
<1>4. DOMAIN task.parts = 1 .. n /\ Len(task.parts) = n
  <2>1. PICK ps : ps = task.parts
    OBVIOUS
  <2>2. ps = [i \in 1 .. n |-> ps[i]]
    BY <1>3, <2>1 DEF PartsOk
  <2>3. DOMAIN ps = 1 .. n /\ Len(ps) = n
    BY <1>3, <2>2
  <2> QED
    BY <2>1, <2>3
<1> QED
  BY <1>1, <1>2, <1>3, <1>4

\* One partition goes on: the screen and the handles agree afterwards.
LEMMA PartStep ==
    ASSUME ScreenInv, runner \in Active, task.step = "partitions", NEW k \in DOMAIN task.parts, NEW p, IsPart(p),
           A!UpdateTask([task EXCEPT !.parts[k] = p]),
           \A i \in DOMAIN task.parts : i < k => task.parts[i].phase = "done",
           p.phase = "done" \/ \A i \in DOMAIN task.parts : k < i => task.parts[i].phase = "waiting",
           p.phase # "running" => [id |-> task.id, part |-> k] \notin reporters,
           reporters' \subseteq reporters \cup {[id |-> task.id, part |-> k]},
           reporters' \subseteq reporters \/ p.phase = "running",
           UNCHANGED <<cast, token, console, machine, runner, standing>>
    PROVE  ScreenInv'
<1>2. task.id \in DOMAIN Work /\ task.outcome = "none" /\ task.id # 0
  BY ActiveIs
<1>3. PICK n : n = Len(Work[task.id].parts)
  OBVIOUS
<1>4. n \in Nat /\ DOMAIN task.parts = 1 .. n /\ PartsOk(task.parts, n)
  BY <1>2, <1>3, PartsAre
<1>5. PICK ps : ps = [task.parts EXCEPT ![k] = p]
  OBVIOUS
<1>6. PartsOk(ps, n)
  BY <1>4, <1>5, PartSet
<1>7. PICK t : t = [task EXCEPT !.parts[k] = p]
  OBVIOUS
<1>8. t = [id |-> task.id, step |-> "partitions", parts |-> ps, scripts |-> <<>>, outcome |-> "none"]
  <2>1. task = [id |-> task.id, step |-> "partitions", parts |-> task.parts, scripts |-> <<>>,
                outcome |-> "none"]
    BY <1>2 DEF ScreenInv, OnScreen
  <2>2. t = [task EXCEPT !.parts = ps]
    BY <1>5, <1>7
  <2> QED
    BY <2>1, <2>2
<1>9. OnScreen(t)
  BY <1>2, <1>3, <1>6, <1>8 DEF OnScreen, Steps, Outcomes
<1>10. RunnerOk(t, runner')
  BY <1>2, <1>8 DEF ScreenInv, RunnerOk, Through, Active, Ending
<1>11. ps = [i \in 1 .. n |-> ps[i]] /\ \A i \in 1 .. n : ps[i] = IF i = k THEN p ELSE task.parts[i]
  BY <1>4, <1>5 DEF PartsOk
<1>12. ASSUME NEW r \in reporters' PROVE ReporterOk(t, r)
  <2>1. CASE r = [id |-> task.id, part |-> k]
    <3>1. p.phase = "running"
      BY <1>12, <2>1
    <3>2. r.part \in Nat /\ r.part = k /\ r.id = task.id
      BY <1>4, <2>1
    <3> QED
      BY <1>2, <1>4, <1>8, <1>11, <2>1, <3>1, <3>2 DEF ReporterOk
  <2>2. CASE r # [id |-> task.id, part |-> k]
    <3>1. ReporterOk(task, r)
      BY <1>12, <2>2 DEF ScreenInv, ReportersOk
    <3>2. r.id = task.id => r.part # k
      BY <2>2, <3>1 DEF ReporterOk
    <3> QED
      BY <1>4, <1>8, <1>11, <3>1, <3>2 DEF ReporterOk
  <2> QED
    BY <2>1, <2>2
<1>13. ReportersOk(t, reporters')
  BY <1>12 DEF ReportersOk
<1> QED
  BY <1>7, <1>8, <1>9, <1>10, <1>13, RunnerStep, ScreenSame

LEMMA PartBeginsStep == ASSUME ScreenInv, NEW k \in DOMAIN task.parts, A!PartBegins(k) PROVE ScreenInv'
<1>1. /\ runner = "parts" /\ runner \in Active /\ UNCHANGED <<cast, token, console, machine, runner, standing>>
      /\ A!AtPart(k) /\ task.parts[k].phase = "waiting"
      /\ reporters' = reporters \cup {[id |-> task.id, part |-> k]}
  BY DEF A!PartBegins, Active, A!rest, A!screen
<1>0. task.step = "partitions"
  BY <1>1 DEF ScreenInv, RunnerOk
<1>2. PICK p : p = [phase |-> "running", half |-> 0]
  OBVIOUS
<1>3. IsPart(p) /\ p.phase = "running" /\ A!UpdateTask([task EXCEPT !.parts[k] = p])
  BY <1>2 DEF IsPart, A!PartBegins
<1>4. PICK n : n = Len(Work[task.id].parts)
  OBVIOUS
<1>5. n \in Nat /\ DOMAIN task.parts = 1 .. n /\ PartsOk(task.parts, n)
  BY <1>0, <1>4, PartsAre
<1>6. \A i \in DOMAIN task.parts : /\ i < k => task.parts[i].phase = "done"
                                   /\ k < i => task.parts[i].phase = "waiting"
  BY <1>1, <1>5 DEF A!AtPart, PartsOk
<1> QED
  BY <1>0, <1>1, <1>3, <1>6, PartStep

LEMMA ReportedStep == ASSUME ScreenInv, NEW r \in reporters, A!Report(r) PROVE ScreenInv'
<1>1. UNCHANGED <<cast, token, console, machine, runner, standing, reporters>>
  BY DEF A!Report, A!rest, A!screen
<1>2. CASE UNCHANGED task
  BY <1>1, <1>2 DEF ScreenInv, MachineOk
<1>3. CASE ~UNCHANGED task
  <2>1. PICK k : k = r.part
    OBVIOUS
  <2>2. /\ task.id = r.id /\ k \in DOMAIN task.parts /\ task.parts[k].half < 2 /\ A!RunningTask
        /\ A!UpdateTask([task EXCEPT !.parts[k] = [phase |-> "running", half |-> @.half + 1]])
    BY <1>3, <2>1 DEF A!Report, A!Reported, A!UpdateTask
  <2>3. task.parts[k].phase = "running" /\ r = [id |-> task.id, part |-> k]
    BY <2>1, <2>2 DEF ScreenInv, ReportersOk, ReporterOk
  <2>4. task.step \in {"partitions", "finishing"}
    BY <2>2 DEF ScreenInv, OnScreen, Steps
  <2>5. PICK n : n = Len(Work[task.id].parts)
    OBVIOUS
  <2>6. n \in Nat /\ DOMAIN task.parts = 1 .. n /\ PartsOk(task.parts, n)
    BY <2>4, <2>5, PartsAre
  <2>7. task.step = "partitions"
    BY <2>2, <2>3, <2>4 DEF ScreenInv, OnScreen
  <2>8. PICK p : p = [phase |-> "running", half |-> task.parts[k].half + 1]
    OBVIOUS
  <2>9. IsPart(p) /\ p.phase = "running"
    <3>1. PICK h : h = task.parts[k].half
      OBVIOUS
    <3>2. h \in 0 .. 2 /\ h < 2 /\ p = [phase |-> "running", half |-> h + 1]
      BY <2>2, <2>6, <2>8, <3>1 DEF PartsOk, IsPart
    <3>3. h + 1 \in 0 .. 2
      BY <3>2
    <3> QED
      BY <3>2, <3>3 DEF IsPart
  <2>10. A!UpdateTask([task EXCEPT !.parts[k] = p])
    BY <2>2, <2>8
  <2>11. \A i \in DOMAIN task.parts : /\ i < k => task.parts[i].phase = "done"
                                      /\ k < i => task.parts[i].phase = "waiting"
    BY <2>2, <2>3, <2>6 DEF PartsOk
  <2>12. runner \in Active
    BY <2>2 DEF A!RunningTask, ScreenInv, RunnerOk, Ending
  <2> QED
    BY <1>1, <2>2, <2>7, <2>9, <2>10, <2>11, <2>12, PartStep
<1> QED
  BY <1>2, <1>3

LEMMA PartEndsStep == ASSUME ScreenInv, NEW k \in DOMAIN task.parts, A!PartEnds(k) PROVE ScreenInv'
<1>1. /\ runner = "parts" /\ runner \in Active
      /\ UNCHANGED <<cast, token, console, machine, runner, standing, reporters>>
      /\ A!AtPart(k) /\ [id |-> task.id, part |-> k] \notin reporters
      /\ A!UpdateTask([task EXCEPT !.parts[k].phase = "done"])
  BY DEF A!PartEnds, Active, A!rest, A!screen
<1>0. task.step = "partitions"
  BY <1>1 DEF ScreenInv, RunnerOk
<1>2. PICK p : p = [task.parts[k] EXCEPT !.phase = "done"]
  OBVIOUS
<1>3. PICK n : n = Len(Work[task.id].parts)
  OBVIOUS
<1>4. n \in Nat /\ DOMAIN task.parts = 1 .. n /\ PartsOk(task.parts, n)
  BY <1>0, <1>3, PartsAre
<1>5. IsPart(p) /\ p.phase = "done"
  <2>1. IsPart(task.parts[k])
    BY <1>4 DEF PartsOk
  <2> QED
    BY <1>2, <2>1 DEF IsPart
<1>6. A!UpdateTask([task EXCEPT !.parts[k] = p])
  BY <1>1, <1>2
<1>7. \A i \in DOMAIN task.parts : i < k => task.parts[i].phase = "done"
  BY <1>1 DEF A!AtPart
<1> QED
  BY <1>0, <1>1, <1>5, <1>6, <1>7, PartStep

LEMMA ReporterEndsStep == ASSUME ScreenInv, NEW r \in reporters, A!ReporterEnds(r) PROVE ScreenInv'
<1>1. /\ UNCHANGED <<cast, token, console, machine, runner, standing, task>>
      /\ reporters' \in SUBSET reporters
  BY DEF A!ReporterEnds, A!rest, A!screen
<1>2. ReportersOk(task', reporters')
  BY <1>1, FewerReporters DEF ScreenInv
<1> QED
  BY <1>1, <1>2 DEF ScreenInv, MachineOk

LEMMA PartsDoneStep == ASSUME ScreenInv, A!PartsDone PROVE ScreenInv'
<1>1. /\ runner = "parts" /\ runner \in Active /\ runner' = "scripts"
      /\ A!AtPart(Len(task.parts) + 1)
      /\ UNCHANGED <<cast, token, console, machine, reporters, standing>>
  BY DEF A!PartsDone, Active, A!rest, A!screen
<1>2. task.id \in DOMAIN Work /\ task.outcome = "none" /\ task.id # 0 /\ task.step = "partitions"
  BY <1>1, ActiveIs DEF ScreenInv, RunnerOk
<1>3. PICK n, m, list : /\ n = Len(Work[task.id].parts) /\ m = Work[task.id].scripts
                        /\ list = [i \in 1 .. m |-> "waiting"]
  OBVIOUS
<1>4. /\ n \in Nat /\ m \in Nat /\ DOMAIN task.parts = 1 .. n /\ Len(task.parts) = n
      /\ PartsOk(task.parts, n)
  BY <1>2, <1>3, PartsAre, WorkIs
<1>5. \A i \in DOMAIN task.parts : task.parts[i].phase = "done"
  BY <1>1, <1>4 DEF A!AtPart
<1>6. PICK t : t = [task EXCEPT !.step = "finishing",
                                !.scripts = [i \in 1 .. Work[task.id].scripts |-> "waiting"]]
  OBVIOUS
<1>7. A!UpdateTask(t)
  BY <1>6 DEF A!PartsDone
<1>8. t = [id |-> task.id, step |-> "finishing", parts |-> task.parts, scripts |-> list,
           outcome |-> "none"]
  BY <1>2, <1>3, <1>6 DEF ScreenInv, OnScreen
<1>9. ScriptsOk(list, m)
  BY <1>3 DEF ScriptsOk, Codes
<1>10. OnScreen(t)
  BY <1>2, <1>3, <1>4, <1>5, <1>8, <1>9 DEF OnScreen, Steps, Outcomes
<1>11. RunnerOk(t, runner')
  BY <1>1, <1>2, <1>8 DEF RunnerOk, Active, Ending
<1>12. ReportersOk(t, reporters')
  BY <1>1, <1>8, SameWork DEF ScreenInv, ReportersOk
<1> QED
  BY <1>1, <1>7, <1>8, <1>10, <1>11, <1>12, RunnerStep, ScreenSame

LEMMA EarlierScripts ==
    ASSUME NEW m \in Nat, NEW k \in 1 .. m, NEW list, \A j \in 1 .. (k - 1) : list[j] = "exit0"
    PROVE  \A i \in 1 .. m : i < k => list[i] = "exit0"
  OBVIOUS

LEMMA ScriptStep == ASSUME ScreenInv, NEW k \in DOMAIN task.scripts, A!Script(k) PROVE ScreenInv'
<1>1. /\ runner = "scripts" /\ runner \in Active
      /\ \A j \in 1 .. (k - 1) : task.scripts[j] = "exit0"
      /\ UNCHANGED <<cast, token, console, machine, reporters, standing>>
  BY DEF A!Script, Active, A!rest, A!screen
<1>2. task.id \in DOMAIN Work /\ task.outcome = "none" /\ task.id # 0 /\ task.step = "finishing"
  BY <1>1, ActiveIs DEF ScreenInv, RunnerOk
<1>3. PICK m : m = Work[task.id].scripts
  OBVIOUS
<1>4. m \in Nat /\ DOMAIN task.scripts = 1 .. m /\ ScriptsOk(task.scripts, m)
  <2>1. ScriptsOk(task.scripts, m) /\ m \in Nat
    BY <1>2, <1>3, WorkIs DEF ScreenInv, OnScreen
  <2> QED
    BY <2>1 DEF ScriptsOk
<1>5. PICK code \in Codes :
         /\ A!UpdateTask([task EXCEPT !.scripts[k] = code])
         /\ task.scripts[k] \in {"waiting", "running"}
         /\ runner' \in {"scripts", "failing"}
  BY <1>1 DEF A!Script, Codes
<1>6. PICK list : list = [task.scripts EXCEPT ![k] = code]
  OBVIOUS
<1>7. ScriptsOk(list, m)
  <2>1. \A i \in 1 .. m : /\ i < k => task.scripts[i] = "exit0"
                          /\ k < i => task.scripts[i] = "waiting"
    <3>1. k \in 1 .. m /\ task.scripts[k] # "exit0"
      BY <1>4, <1>5
    <3>2. \A i \in 1 .. m : i < k => task.scripts[i] = "exit0"
      BY <1>1, <1>4, <3>1, EarlierScripts
    <3>3. \A i \in 1 .. m : k < i => task.scripts[i] = "waiting"
      BY <1>4, <3>1 DEF ScriptsOk
    <3> QED
      BY <3>2, <3>3
  <2> QED
    BY <1>4, <1>6, <2>1, ScriptSet
<1>8. PICK t : t = [task EXCEPT !.scripts[k] = code]
  OBVIOUS
<1>9. t = [id |-> task.id, step |-> "finishing", parts |-> task.parts, scripts |-> list,
           outcome |-> "none"]
  <2>1. task = [id |-> task.id, step |-> "finishing", parts |-> task.parts,
                scripts |-> task.scripts, outcome |-> "none"]
    BY <1>2 DEF ScreenInv, OnScreen
  <2>2. t = [task EXCEPT !.scripts = list]
    BY <1>6, <1>8
  <2> QED
    BY <2>1, <2>2
<1>10. OnScreen(t)
  BY <1>2, <1>3, <1>7, <1>9 DEF ScreenInv, OnScreen, Steps, Outcomes
<1>11. RunnerOk(t, runner')
  <2>1. t.id # 0 /\ t.outcome = "none" /\ t.step = "finishing"
    BY <1>2, <1>9
  <2>2. runner' = "scripts" \/ runner' = "failing"
    BY <1>5
  <2> QED
    BY <2>1, <2>2 DEF RunnerOk, Active, Ending
<1>12. ReportersOk(t, reporters')
  <2>1. t.id = task.id /\ t.parts = task.parts
    BY <1>9
  <2>2. ReportersOk(task, reporters')
    BY <1>1 DEF ScreenInv
  <2> QED
    BY <2>1, <2>2, SameWork DEF ReportersOk
<1> QED
  BY <1>1, <1>5, <1>8, <1>9, <1>10, <1>11, <1>12, RunnerStep, ScreenSame

LEMMA ScriptsDoneStep == ASSUME ScreenInv, A!ScriptsDone PROVE ScreenInv'
<1>1. /\ runner = "scripts" /\ runner \in Active /\ runner' = "finalize"
      /\ \A i \in DOMAIN task.scripts : task.scripts[i] = "exit0"
      /\ UNCHANGED <<task, cast, token, console, machine, reporters, standing>>
  BY DEF A!ScriptsDone, Active, A!rest, A!screen
<1>2. RunnerOk(task, runner')
  BY <1>1, ActiveIs DEF ScreenInv, RunnerOk, Through, Active, Ending
<1> QED
  BY <1>1, <1>2, RunnerGoes, ScreenSame

LEMMA RunFailsStep == ASSUME ScreenInv, A!RunFails PROVE ScreenInv'
<1>1. /\ runner \in {"fresh", "table", "parts", "scripts"} /\ runner \in Active /\ runner' = "failing"
      /\ reporters' \subseteq reporters
      /\ UNCHANGED <<task, cast, token, console, machine, standing>>
  BY DEF A!RunFails, A!Dropped, Active, A!rest, A!screen
<1>2. RunnerOk(task, runner')
  BY <1>1, ActiveIs DEF RunnerOk, Active, Ending
<1> QED
  BY <1>1, <1>2, RunnerGoes, ScreenSame

-----------------------------------------------------------------------------
\* The end of a task, which its screen and its row agree on.

LEMMA EndStep ==
    ASSUME ScreenInv, runner \in Active, NEW o \in {"done", "failed", "cancelled"}, A!TaskEnded(o),
           runner' \in {"idle", "countdown"}, runner' = "countdown" => o = "done",
           o = "done" => Through(task) /\ standing'[task.id] = "done",
           standing'[task.id] # "running" \/ token,
           reporters' \subseteq reporters, Settles(standing, standing'),
           UNCHANGED <<cast, token, console, machine>>
    PROVE  ScreenInv'
<1>1. PICK t : t = [task EXCEPT !.outcome = o]
  OBVIOUS
<1>2. task' = t
  BY <1>1, TaskUpdated DEF A!TaskEnded
<1>3. t = [id |-> task.id, step |-> task.step, parts |-> task.parts, scripts |-> task.scripts,
           outcome |-> o]
  BY <1>1 DEF ScreenInv, OnScreen
<1>4. OnScreen(t) /\ t.id # 0
  BY <1>3, ActiveIs DEF ScreenInv, OnScreen, Outcomes
<1>5. RunnerOk(t, runner')
  BY <1>3, <1>4 DEF RunnerOk, Active, Ending
<1>6. StandsAs(t, standing')
  BY <1>3, <1>4 DEF StandsAs, Through
<1>7. ReportersOk(t, reporters')
  <2>1. ReportersOk(task, reporters')
    BY FewerReporters DEF ScreenInv
  <2> QED
    BY <1>3, <2>1, SameWork DEF ReportersOk
<1>8. CastOk(cast') /\ ConsoleOk(console', standing') /\ MachineOk'
  BY ScreenSame DEF Quiet, Active
<1>9. IsStanding(standing')
  BY DEF Settles
<1>10. TokenOk(token', t, console')
  BY <1>3 DEF ScreenInv, TokenOk
<1>11. RunsOk(t, console', standing')
  <2> SUFFICES ASSUME NEW i \in DOMAIN Work, standing'[i] = "running"
               PROVE  \E p \in console : p.id = i /\ p.answer = "none"
    BY DEF RunsOk
  <2>1. CASE i # task.id
    BY <2>1 DEF ScreenInv, RunsOk, Settles
  <2>2. CASE i = task.id
    <3>1. PICK p \in console : p.id = i
      BY <2>2 DEF ScreenInv, TokenOk
    <3>2. ~A!Over(standing[i])
      BY DEF Settles, A!Over
    <3> QED
      BY <3>1, <3>2 DEF ScreenInv, ConsoleOk, ConsoleReboot
  <2> QED
    BY <2>1, <2>2
<1> QED
  BY <1>2, <1>4, <1>5, <1>6, <1>7, <1>8, <1>9, <1>10, <1>11, ScreenPrimed

LEMMA FinalizeStep == ASSUME ScreenInv, A!Finalize PROVE ScreenInv'
<1>1. /\ runner = "finalize" /\ runner \in Active /\ Through(task) /\ task.id \in DOMAIN Work
      /\ UNCHANGED <<cast, token, console, machine, reporters>>
  BY ActiveIs DEF A!Finalize, ScreenInv, RunnerOk, Active, A!rest, A!screen
<1>2. CASE A!Over(standing[task.id]) /\ standing[task.id] # "done"
  <2>1. A!TaskEnded("failed") /\ runner' = "idle" /\ UNCHANGED standing
    BY <1>2 DEF A!Finalize
  <2>2. standing'[task.id] # "running"
    BY <1>2, <2>1 DEF A!Over
  <2> QED
    BY <1>1, <2>1, <2>2, EndStep, ScreenSame
<1>3. CASE ~(A!Over(standing[task.id]) /\ standing[task.id] # "done")
  <2>1. /\ standing' = [standing EXCEPT ![task.id] = "done"]
        /\ A!TaskEnded("done") /\ runner' \in {"idle", "countdown"}
    BY <1>3 DEF A!Finalize, A!AfterReport
  <2>2. Settles(standing, standing')
    <3>1. "done" \in Standings
      BY DEF Standings
    <3> QED
      BY <1>1, <1>3, <2>1, <3>1, StandingSet DEF ScreenInv
  <2>3. standing'[task.id] = "done"
    BY <1>1, <2>1 DEF ScreenInv, IsStanding
  <2> QED
    BY <1>1, <2>1, <2>2, <2>3, EndStep
<1> QED
  BY <1>2, <1>3

\* mark_failed, whoever calls it.
LEMMA MarkFailed ==
    ASSUME ScreenInv, NEW i \in DOMAIN Work,
           A!MarkFailed(i)
    PROVE  Settles(standing, standing') /\ A!Over(standing'[i]) /\ standing'[i] # "running"
<1>1. PICK v : v = IF A!Over(standing[i]) THEN standing[i] ELSE "failed"
  OBVIOUS
<1>2. standing' = [standing EXCEPT ![i] = v] /\ v \in Standings /\ IsStanding(standing)
  <2>1. IsStanding(standing)
    BY DEF ScreenInv
  <2>2. standing[i] \in Standings
    BY <2>1 DEF IsStanding
  <2>3. v \in Standings
    BY <1>1, <2>2 DEF Standings
  <2> QED
    BY <1>1, <2>1, <2>3 DEF A!MarkFailed
<1>3. Settles(standing, standing')
  <2>1. (A!Over(standing[i]) => v = standing[i]) /\ v # "running"
    BY <1>1 DEF A!Over
  <2>2. Settles(standing, [standing EXCEPT ![i] = v])
    <3>1. IsStanding(standing) /\ v \in Standings
      BY <1>2
    <3> QED
      BY <2>1, <3>1, StandingSet
  <2> QED
    BY <1>2, <2>2
<1>4. standing'[i] = v /\ A!Over(v) /\ v # "running"
  BY <1>1, <1>2 DEF IsStanding, A!Over
<1> QED
  BY <1>3, <1>4

LEMMA FinalizeErrorStep == ASSUME ScreenInv, A!FinalizeError PROVE ScreenInv'
<1>1. /\ runner \in Active /\ runner' = "idle" /\ A!TaskEnded("failed") /\ task.id \in DOMAIN Work
      /\ UNCHANGED <<cast, token, console, machine, reporters>>
      /\ A!MarkFailed(task.id)
  BY ActiveIs DEF A!FinalizeError, Active, A!rest, A!screen
<1> QED
  BY <1>1, MarkFailed, EndStep

LEMMA CancelledStep == ASSUME ScreenInv, A!Cancelled PROVE ScreenInv'
<1>1. /\ runner \in Active /\ runner' = "idle" /\ A!TaskEnded("cancelled")
      /\ reporters' \subseteq reporters
      /\ UNCHANGED <<cast, token, console, machine, standing>>
  BY DEF A!Cancelled, A!Dropped, Active, A!rest, A!screen
<1>2. standing'[task.id] # "running" \/ token
  BY <1>1 DEF A!Cancelled, A!Over
<1> QED
  BY <1>1, <1>2, ScreenSame, EndStep

LEMMA ElsewhereStep == ASSUME ScreenInv, NEW i \in DOMAIN Work, A!SettledElsewhere(i) PROVE ScreenInv'
<1>1. /\ ~A!Over(standing[i]) /\ standing' = [standing EXCEPT ![i] = "cancelled"]
      /\ UNCHANGED <<task, runner, reporters, cast, token, console, machine>>
  BY DEF A!SettledElsewhere, A!rest, A!screen
<1>2. Settles(standing, standing')
  <2>1. "cancelled" \in Standings
    BY DEF Standings
  <2> QED
    BY <1>1, <2>1, StandingSet DEF ScreenInv
<1>3. StandsAs(task, standing') /\ IsStanding(standing')
  BY <1>2, StandsStill DEF ScreenInv, Settles
<1>4. /\ CastOk(cast') /\ ConsoleOk(console', standing') /\ MachineOk'
      /\ RunsOk(task', console', standing') /\ TokenOk(token', task', console')
  BY <1>1, <1>2, ScreenSame DEF Quiet
<1> QED
  BY <1>1, <1>3, <1>4 DEF ScreenInv

-----------------------------------------------------------------------------
\* The multicast's count, the reboots and the keys.

LEMMA SampleStep ==
    ASSUME ScreenInv, NEW slot, NEW naks \in 0 .. MaxNaks, A!Sample(slot, naks)
    PROVE  ScreenInv'
<1>1. PICK c, s : c = cast /\ s = c.seen
  OBVIOUS
<1>2. CastOk(c)
  BY <1>1 DEF ScreenInv
<1>3. /\ slot \in {c.slot, c.slot + 1} \ {0}
      /\ slot = c.slot => naks >= c.naks
      /\ UNCHANGED <<task, runner, reporters, standing, token, console, machine>>
  BY <1>1 DEF A!Sample, A!rest, A!screen
<1>4. slot \in Nat /\ slot # 0 /\ naks \in Nat /\ c.slot \in Nat /\ slot - 1 \in Nat
  BY <1>2, <1>3, ScreenAssumption DEF CastOk
<1>5. PICK previous : previous = IF slot = c.slot THEN c.naks ELSE 0
  OBVIOUS
<1>6. PICK seen1 : seen1 = [k \in 1 .. slot |-> IF k = slot THEN naks ELSE s[k]]
  OBVIOUS
<1>7. PICK d : d = [slot |-> slot, naks |-> naks, total |-> c.total + (naks - previous), seen |-> seen1]
  OBVIOUS
<1>8. cast' = d
  BY <1>1, <1>5, <1>6, <1>7 DEF A!Sample
<1>9. \A k \in 1 .. slot - 1 : k \in 1 .. c.slot /\ seen1[k] = s[k] /\ s[k] \in Nat
  <2>1. \A k \in 1 .. slot - 1 : k \in 1 .. c.slot /\ k \in 1 .. slot /\ k # slot
    BY <1>3, <1>4
  <2>2. s \in [1 .. c.slot -> Nat]
    BY <1>1, <1>2 DEF CastOk
  <2> QED
    BY <1>6, <2>1, <2>2
<1>10. seen1 \in [1 .. slot -> Nat] /\ seen1[slot] = naks /\ Len(seen1) = slot
  <2>1. \A k \in 1 .. slot : k # slot => k \in 1 .. slot - 1
    BY <1>4
  <2>2. \A k \in 1 .. slot : seen1[k] \in Nat
    BY <1>4, <1>6, <1>9, <2>1
  <2> QED
    BY <1>4, <1>6, <2>2
<1>11. PICK before : before = A!SumTo(s, slot - 1)
  OBVIOUS
<1>12. before \in Nat /\ A!SumTo(seen1, slot - 1) = before
  BY <1>4, <1>9, <1>11, SumNat, SumSame
<1>13. A!SumOf(seen1) = before + naks
  <2>1. A!SumTo(seen1, (slot - 1) + 1) = A!SumTo(seen1, slot - 1) + seen1[(slot - 1) + 1]
    BY <1>4, SumStep
  <2>2. (slot - 1) + 1 = slot
    BY <1>4
  <2> QED
    BY <1>10, <1>12, <2>1, <2>2 DEF A!SumOf
<1>14. c.total = before + previous /\ previous \in Nat /\ c.total \in Nat
  <2>1. Len(s) = c.slot /\ c.total = A!SumTo(s, c.slot) /\ c.naks \in Nat /\ c.total \in Nat
    BY <1>1, <1>2, <1>4 DEF CastOk, A!SumOf
  <2>2. CASE slot = c.slot
    <3>1. s[slot] = c.naks
      BY <1>1, <1>2, <1>4, <2>2 DEF CastOk
    <3>2. A!SumTo(s, (slot - 1) + 1) = A!SumTo(s, slot - 1) + s[(slot - 1) + 1]
      BY <1>4, SumStep
    <3>3. (slot - 1) + 1 = slot
      BY <1>4
    <3> QED
      BY <1>5, <1>11, <2>1, <2>2, <3>1, <3>2, <3>3
  <2>3. CASE slot # c.slot
    <3>1. slot - 1 = c.slot
      BY <1>3, <1>4, <2>3
    <3> QED
      BY <1>5, <1>11, <1>12, <2>1, <2>3, <3>1
  <2> QED
    BY <2>2, <2>3
<1>15. d.total = before + naks /\ d.total \in Nat
  <2>1. d.total = c.total + (naks - previous)
    BY <1>7
  <2> QED
    BY <1>4, <1>12, <1>14, <2>1
<1>16. CastOk(d)
  BY <1>4, <1>7, <1>10, <1>13, <1>15 DEF CastOk
<1>17. /\ ConsoleOk(console', standing') /\ MachineOk'
       /\ RunsOk(task', console', standing') /\ TokenOk(token', task', console')
  BY <1>3, ScreenSame DEF Quiet
<1> QED
  BY <1>3, <1>8, <1>16, <1>17 DEF ScreenInv

LEMMA CountdownStep == ASSUME ScreenInv, A!CountdownBegins \/ A!CountdownEnds PROVE ScreenInv'
<1>1. /\ runner \in {"countdown", "counting"} /\ runner' \in {"counting", "leaving", "idle"}
      /\ UNCHANGED <<task, reporters, standing, cast, token, console, machine>>
  BY DEF A!CountdownBegins, A!CountdownEnds, A!rest, A!screen
<1>2. RunnerOk(task, runner')
  BY <1>1 DEF ScreenInv, RunnerOk, Active, Ending
<1>3. MachineOk' /\ RunsOk(task', console', standing') /\ TokenOk(token', task', console')
  BY <1>1, ScreenSame DEF Quiet
<1> QED
  BY <1>1, <1>2, <1>3 DEF ScreenInv

LEMMA RebootStep == ASSUME ScreenInv, A!Reboots PROVE ScreenInv'
<1>1. /\ runner = "leaving" /\ runner' = "rebooted" /\ machine' = "off"
      /\ UNCHANGED <<task, reporters, standing, cast, token, console>>
  BY DEF A!Reboots, A!screen
<1>2. RunnerOk(task, runner') /\ MachineOk'
  BY <1>1 DEF ScreenInv, RunnerOk, Active, Ending, MachineOk, IsDown
<1> QED
  BY <1>1, <1>2 DEF ScreenInv

LEMMA KeyStep == ASSUME ScreenInv, NEW k, A!Key(k) PROVE ScreenInv'
<1>1. UNCHANGED <<task, runner, reporters, standing, cast, token, machine>> /\ machine = "up"
  BY DEF A!Key
<1>2. PICK n, h, r : /\ r = [no |-> n, pc |-> "asked", id |-> 0, answer |-> h] /\ h = "none"
                     /\ UNCHANGED console \/ console' = console \cup {r}
  <2>1. PICK n, r : /\ n = A!Cardinality(console)
                    /\ r = [no |-> n, pc |-> "asked", id |-> 0, answer |-> "none"]
    OBVIOUS
  <2>2. UNCHANGED console \/ console' = console \cup {r}
    BY <2>1 DEF A!Key
  <2> QED
    BY <2>1, <2>2
<1>3. ConsoleOk(console', standing') /\ console \subseteq console'
  <2>1. ConsoleReboot(r, standing)
    BY <1>2 DEF ConsoleReboot
  <2> QED
    BY <1>1, <1>2, <2>1 DEF ScreenInv, ConsoleOk
<1>4. RunsOk(task', console', standing') /\ TokenOk(token', task', console')
  BY <1>1, <1>3 DEF ScreenInv, RunsOk, TokenOk
<1>5. MachineOk'
  BY <1>1, ScreenSame
<1> QED
  BY <1>1, <1>3, <1>4, <1>5 DEF ScreenInv

\* A reboot from the console goes on and keeps its task in view.
LEMMA ConsoleGoes ==
    ASSUME ScreenInv, NEW q \in console, NEW r, A!Goes(q, r), ConsoleReboot(r, standing'),
           q.id = 0 \/ r.id = q.id, Settles(standing, standing'),
           UNCHANGED <<task, runner, reporters, cast>>, token' => token \/ (task.id # 0 /\ r.id = task.id),
           MachineOk'
    PROVE  ScreenInv'
<1>1. console' = (console \ {q}) \cup {r}
  BY DEF A!Goes
<1>2. ConsoleOk(console', standing')
  <2>1. ConsoleOk(console, standing')
    BY ConsoleStill DEF ScreenInv
  <2> QED
    BY <1>1, <2>1 DEF ConsoleOk
<1>3. RunsOk(task, console', standing')
  <2> SUFFICES ASSUME NEW i \in DOMAIN Work, standing'[i] = "running",
                      ~(i = task.id /\ task.outcome = "none")
               PROVE  \E p \in console' : p.id = i /\ p.answer = "none"
    BY DEF RunsOk
  <2>1. standing[i] = "running"
    BY DEF Settles, A!RunningTask
  <2>2. PICK p \in console : p.id = i /\ p.answer = "none"
    BY <2>1 DEF ScreenInv, RunsOk
  <2>3. CASE p # q
    BY <1>1, <2>2, <2>3
  <2>4. CASE p = q
    <3>1. r.id = i
      BY <2>2, <2>4, WorkIs
    <3>2. r.answer = "none"
      BY <3>1 DEF ConsoleReboot, A!Over
    <3> QED
      BY <1>1, <3>1, <3>2
  <2> QED
    BY <2>3, <2>4
<1>4. TokenOk(token', task, console')
  <2>1. CASE token /\ token'
    <3>1. task.id # 0
      BY <2>1 DEF ScreenInv, TokenOk
    <3>2. PICK p \in console : p.id = task.id
      BY <2>1 DEF ScreenInv, TokenOk
    <3>3. p = q => r.id = task.id
      BY <3>1, <3>2
    <3> QED
      BY <1>1, <3>1, <3>2, <3>3 DEF TokenOk
  <2>2. CASE ~token /\ token'
    BY <1>1, <2>2 DEF TokenOk
  <2> QED
    BY <2>1, <2>2 DEF TokenOk
<1>5. StandsAs(task, standing') /\ IsStanding(standing')
  BY StandsStill DEF ScreenInv, Settles
<1> QED
  BY <1>2, <1>3, <1>4, <1>5 DEF ScreenInv

\* What a reboot from the console is.
LEMMA ConsoleIs ==
    ASSUME ScreenInv, NEW q \in console
    PROVE  /\ q = [no |-> q.no, pc |-> q.pc, id |-> q.id, answer |-> q.answer]
           /\ ConsoleReboot(q, standing)
  BY DEF ScreenInv, ConsoleOk, ConsoleReboot

LEMMA ConsoleCancelsStep == ASSUME ScreenInv, NEW q \in console, A!ConsoleCancels(q) PROVE ScreenInv'
<1>1. UNCHANGED <<task, runner, reporters, standing, cast, machine>> /\ machine = "up" /\ q.pc = "asked"
  BY DEF A!ConsoleCancels, A!screen
<1>2. PICK n, h : q = [no |-> n, pc |-> "asked", id |-> 0, answer |-> h] /\ h = "none"
  BY <1>1, ConsoleIs DEF ConsoleReboot
<1>3. MachineOk' /\ Settles(standing, standing')
  BY <1>1, ScreenSame
<1>4. CASE A!RunningTask
  <2>1. PICK r : r = [no |-> n, pc |-> "cancelled", id |-> task.id, answer |-> h]
    OBVIOUS
  <2>2. A!Goes(q, r)
    <3>1. PICK a : a = [q EXCEPT !.pc = "cancelled"]
      OBVIOUS
    <3>2. a = [no |-> n, pc |-> "cancelled", id |-> 0, answer |-> h]
      BY <1>2, <3>1
    <3>3. r = [a EXCEPT !.id = task.id]
      BY <2>1, <3>2
    <3>4. r = [q EXCEPT !.pc = "cancelled", !.id = task.id]
      BY <3>1, <3>3
    <3> QED
      BY <1>4, <3>4 DEF A!ConsoleCancels
  <2>3. task.id # 0 /\ task.id \in DOMAIN Work
    BY <1>4 DEF A!RunningTask, ScreenInv, OnScreen
  <2>4. ConsoleReboot(r, standing')
    BY <1>2, <2>1, <2>3 DEF ConsoleReboot
  <2>5. q.id = 0 /\ r.id = task.id
    BY <1>2, <2>1
  <2> QED
    BY <1>1, <1>3, <2>2, <2>3, <2>4, <2>5, ConsoleGoes
<1>5. CASE ~A!RunningTask
  <2>1. PICK r : r = [no |-> n, pc |-> "leaving", id |-> 0, answer |-> h]
    OBVIOUS
  <2>2. A!Goes(q, r) /\ UNCHANGED token
    <3>1. r = [q EXCEPT !.pc = "leaving"]
      BY <1>2, <2>1
    <3> QED
      BY <1>5, <3>1 DEF A!ConsoleCancels
  <2>3. ConsoleReboot(r, standing')
    BY <1>2, <2>1 DEF ConsoleReboot
  <2>4. q.id = 0
    BY <1>2
  <2> QED
    BY <1>1, <1>3, <2>2, <2>3, <2>4, ConsoleGoes
<1> QED
  BY <1>4, <1>5

LEMMA ConsoleReportsStep == ASSUME ScreenInv, NEW q \in console, A!ConsoleReports(q) PROVE ScreenInv'
<1>1. /\ UNCHANGED <<task, runner, reporters, cast, token, machine>> /\ machine = "up"
      /\ q.pc = "cancelled"
  BY DEF A!ConsoleReports, A!screen
<1>2. PICK n, i, h : q = [no |-> n, pc |-> "cancelled", id |-> i, answer |-> h]
  BY <1>1, ConsoleIs
<1>6. q.id = i /\ i \in DOMAIN Work
  BY <1>1, <1>2, ConsoleIs DEF ConsoleReboot
<1>3. MachineOk'
  BY <1>1, ScreenSame
<1>4. CASE A!MarkFailed(q.id) /\ A!Goes(q, [q EXCEPT !.pc = "leaving", !.answer = "came"])
  <2>1. PICK r : r = [no |-> n, pc |-> "leaving", id |-> i, answer |-> "came"]
    OBVIOUS
  <2>2. r = [q EXCEPT !.pc = "leaving", !.answer = "came"]
    <3>1. PICK a : a = [q EXCEPT !.pc = "leaving"]
      OBVIOUS
    <3>2. a = [no |-> n, pc |-> "leaving", id |-> i, answer |-> h]
      BY <1>2, <3>1
    <3>3. r = [a EXCEPT !.answer = "came"]
      BY <2>1, <3>2
    <3> QED
      BY <3>1, <3>3
  <2>3. Settles(standing, standing') /\ A!Over(standing'[q.id])
    BY <1>4, <1>6, MarkFailed
  <2>4. ConsoleReboot(r, standing') /\ r.id = q.id
    BY <1>6, <2>1, <2>3, WorkIs DEF ConsoleReboot
  <2> QED
    BY <1>1, <1>3, <1>4, <2>2, <2>3, <2>4, ConsoleGoes
<1>5. CASE A!MarkFailed(q.id) \/ UNCHANGED standing
  <2> SUFFICES ASSUME A!Goes(q, [q EXCEPT !.pc = "leaving"]) PROVE ScreenInv'
    BY <1>4, <1>5 DEF A!ConsoleReports
  <2>1. PICK r : r = [no |-> n, pc |-> "leaving", id |-> i, answer |-> h]
    OBVIOUS
  <2>2. r = [q EXCEPT !.pc = "leaving"]
    BY <1>2, <2>1
  <2>3. Settles(standing, standing')
    BY <1>5, <1>6, MarkFailed, ScreenSame
  <2>4. ConsoleReboot(q, standing')
    BY <2>3, ConsoleStill DEF ScreenInv, ConsoleOk
  <2>5. ConsoleReboot(r, standing') /\ r.id = q.id
    BY <1>2, <1>6, <2>1, <2>4 DEF ConsoleReboot
  <2> QED
    BY <1>1, <1>3, <2>2, <2>3, <2>5, ConsoleGoes
<1> QED
  BY <1>4, <1>5 DEF A!ConsoleReports

LEMMA ConsoleRebootsStep == ASSUME ScreenInv, NEW q \in console, A!ConsoleReboots(q) PROVE ScreenInv'
<1>1. /\ UNCHANGED <<task, runner, reporters, standing, cast, token>> /\ machine' = "off"
      /\ q.pc = "leaving" /\ A!Goes(q, [q EXCEPT !.pc = "rebooted"])
  BY DEF A!ConsoleReboots, A!screen
<1>2. PICK r : r = [no |-> q.no, pc |-> "rebooted", id |-> q.id, answer |-> q.answer]
  OBVIOUS
<1>3. r = [q EXCEPT !.pc = "rebooted"] /\ ConsoleReboot(r, standing) /\ r.id = q.id
  BY <1>1, <1>2, ConsoleIs DEF ConsoleReboot
<1>4. MachineOk'
  BY <1>1, <1>2, <1>3 DEF A!Goes, MachineOk, IsDown
<1>5. Settles(standing, standing')
  BY <1>1, ScreenSame
<1> QED
  BY <1>1, <1>3, <1>4, <1>5, ConsoleGoes

LEMMA ScreenKept == ASSUME ScreenInv, A!Next PROVE ScreenInv'
<1>1. CASE A!TaskStarted \/ A!Prepare \/ A!Partitions \/ A!PartsDone \/ A!ScriptsDone \/ A!RunFails
  BY <1>1, TaskStartedStep, PrepareStep, PartitionsStep, PartsDoneStep, ScriptsDoneStep, RunFailsStep
<1>2. CASE \E i \in DOMAIN task.parts : A!PartBegins(i) \/ A!PartEnds(i)
  BY <1>2, PartBeginsStep, PartEndsStep
<1>3. CASE \E r \in reporters : A!Report(r) \/ A!ReporterEnds(r)
  BY <1>3, ReportedStep, ReporterEndsStep
<1>4. CASE \E i \in DOMAIN task.scripts : A!Script(i)
  BY <1>4, ScriptStep
<1>5. CASE \E slot \in 1 .. (cast.slot + 1), naks \in 0 .. MaxNaks : A!Sample(slot, naks)
  BY <1>5, SampleStep
<1>6. CASE A!Finalize \/ A!FinalizeError \/ A!Cancelled \/ \E i \in A!Ids : A!SettledElsewhere(i)
  BY <1>6, FinalizeStep, FinalizeErrorStep, CancelledStep, ElsewhereStep DEF A!Ids
<1>7. CASE A!CountdownBegins \/ A!CountdownEnds \/ A!Reboots
  BY <1>7, CountdownStep, RebootStep
<1>8. CASE \E k \in {"f10", "y", "other"} : A!Key(k)
  BY <1>8, KeyStep
<1>9. CASE \E q \in console : A!ConsoleCancels(q) \/ A!ConsoleReports(q) \/ A!ConsoleReboots(q)
  BY <1>9, ConsoleCancelsStep, ConsoleReportsStep, ConsoleRebootsStep
<1> QED
  BY <1>1, <1>2, <1>3, <1>4, <1>5, <1>6, <1>7, <1>8, <1>9 DEF A!Next

-----------------------------------------------------------------------------
\* What is drawn, read off the invariant.

LEMMA ListOf ==
    ASSUME NEW M, NEW n \in Nat, NEW list, list = [i \in 1 .. n |-> list[i]], \A i \in 1 .. n : list[i] \in M
    PROVE  list \in Seq(M) /\ Len(list) = n
  OBVIOUS

Joins(z, x, y, n, k, M) ==
    /\ z \in Seq(M) /\ Len(z) = n + k /\ DOMAIN z = 1 .. n + k
    /\ \A i \in 1 .. n : z[i] = x[i]
    /\ \A i \in 1 .. k : z[n + i] = y[i]

LEMMA ListsJoined ==
    ASSUME NEW M, NEW x \in Seq(M), NEW y \in Seq(M)
    PROVE  Joins(x \o y, x, y, Len(x), Len(y), M)
  BY DEF Joins

\* The marks: the partition table, the partitions, the scripts.
LEMMA MarksAre ==
    ASSUME ScreenInv, task.id # 0
    PROVE  \E p, s \in Nat :
              /\ DOMAIN task.parts = 1 .. p /\ DOMAIN task.scripts = 1 .. s
              /\ DOMAIN A!Marks = 1 .. 1 + p + s
              /\ A!Marks[1] = A!Mark(A!TablePhase)
              /\ \A i \in 1 .. p : A!Marks[1 + i] = A!Mark(task.parts[i].phase)
              /\ \A i \in 1 .. s : A!Marks[1 + p + i] = A!Mark(task.scripts[i])
<1>1. PICK ps, ss : ps = task.parts /\ ss = task.scripts
  OBVIOUS
<1>2. PICK p \in Nat : ps = [i \in 1 .. p |-> ps[i]]
  <2>1. CASE task.step \in {"partitions", "finishing"}
    <3>1. PICK n : n = Len(Work[task.id].parts)
      OBVIOUS
    <3>2. n \in Nat /\ PartsOk(ps, n)
      BY <1>1, <2>1, <3>1, PartsAre
    <3> QED
      BY <3>2 DEF PartsOk
  <2>2. CASE task.step \notin {"partitions", "finishing"}
    <3>1. ps = <<>>
      BY <1>1, <2>2 DEF ScreenInv, OnScreen, Steps
    <3>2. ps = [i \in 1 .. 0 |-> ps[i]]
      BY <3>1
    <3> QED
      BY <3>2
  <2> QED
    BY <2>1, <2>2
<1>3. PICK s \in Nat : ss = [i \in 1 .. s |-> ss[i]]
  <2>1. CASE task.step = "finishing"
    <3>1. PICK n : n = Work[task.id].scripts
      OBVIOUS
    <3>2. n \in Nat /\ ScriptsOk(ss, n)
      BY <1>1, <2>1, <3>1, PartsAre, WorkIs DEF ScreenInv, OnScreen
    <3> QED
      BY <3>2 DEF ScriptsOk
  <2>2. CASE task.step # "finishing"
    <3>1. ss = <<>>
      BY <1>1, <2>2 DEF ScreenInv, OnScreen
    <3>2. ss = [i \in 1 .. 0 |-> ss[i]]
      BY <3>1
    <3> QED
      BY <3>2
  <2> QED
    BY <2>1, <2>2
<1>4. DOMAIN ps = 1 .. p /\ DOMAIN ss = 1 .. s
  BY <1>2, <1>3
<1>5. PICK a, b, c : /\ a = <<A!Mark(A!TablePhase)>>
                     /\ b = [i \in 1 .. p |-> A!Mark(ps[i].phase)]
                     /\ c = [i \in 1 .. s |-> A!Mark(ss[i])]
  OBVIOUS
<1>6. A!Marks = a \o b \o c
  BY <1>1, <1>4, <1>5 DEF A!Marks
<1>7. PICK M : M = UNION {{A!Mark(A!TablePhase)}, {b[i] : i \in 1 .. p}, {c[i] : i \in 1 .. s}}
  OBVIOUS
<1>8. a \in Seq(M) /\ Len(a) = 1 /\ a[1] = A!Mark(A!TablePhase)
  BY <1>5, <1>7
<1>9. b \in Seq(M) /\ Len(b) = p
  <2>1. \A i \in 1 .. p : b[i] \in M
    BY <1>7
  <2>2. b = [i \in 1 .. p |-> b[i]]
    BY <1>5
  <2> QED
    BY <2>1, <2>2, ListOf
<1>10. c \in Seq(M) /\ Len(c) = s
  <2>1. \A i \in 1 .. s : c[i] \in M
    BY <1>7
  <2>2. c = [i \in 1 .. s |-> c[i]]
    BY <1>5
  <2> QED
    BY <2>1, <2>2, ListOf
<1>11. PICK ab : ab = a \o b
  OBVIOUS
<1>12. ab \in Seq(M) /\ Len(ab) = 1 + p /\ ab[1] = a[1] /\ \A i \in 1 .. p : ab[1 + i] = b[i]
  <2>1. Joins(ab, a, b, 1, p, M)
    BY <1>8, <1>9, <1>11, ListsJoined
  <2>2. 1 \in 1 .. 1
    OBVIOUS
  <2> QED
    BY <2>1, <2>2 DEF Joins
<1>13. PICK m : m = ab \o c
  OBVIOUS
<1>14. /\ DOMAIN m = 1 .. 1 + p + s
       /\ \A i \in 1 .. 1 + p : m[i] = ab[i]
       /\ \A i \in 1 .. s : m[1 + p + i] = c[i]
  <2>1. Joins(m, ab, c, 1 + p, s, M)
    BY <1>10, <1>12, <1>13, ListsJoined
  <2> QED
    BY <2>1 DEF Joins
<1>15. /\ m[1] = A!Mark(A!TablePhase)
       /\ \A i \in 1 .. p : m[1 + i] = A!Mark(ps[i].phase)
       /\ \A i \in 1 .. s : m[1 + p + i] = A!Mark(ss[i])
  <2>1. 1 \in 1 .. 1 + p /\ \A i \in 1 .. p : 1 + i \in 1 .. 1 + p
    OBVIOUS
  <2> QED
    BY <1>5, <1>8, <1>12, <1>14, <2>1
<1>16. A!Marks = m
  BY <1>6, <1>11, <1>13
<1> QED
  BY <1>1, <1>4, <1>14, <1>15, <1>16

LEMMA MarkIs ==
    /\ A!Mark("done") = "ok" /\ A!Mark("exit0") = "ok" /\ A!Mark("waiting") = "waiting"
    /\ A!Mark("exit1") = "bad" /\ A!Mark("killed") = "bad"
    /\ A!Mark("running") = IF task.outcome # "none" THEN "bad" ELSE "running"
  BY DEF A!Mark

\* Steps are marked in order: what is not ok has nothing but waiting behind it.
LEMMA MarksInOrder ==
    ASSUME ScreenInv, task.id # 0,
           NEW i \in DOMAIN A!Marks, NEW j \in DOMAIN A!Marks, i < j, A!Marks[j] # "waiting"
    PROVE  A!Marks[i] = "ok"
<1>1. PICK m : m = A!Marks
  OBVIOUS
<1>2. PICK p, s \in Nat :
         /\ DOMAIN task.parts = 1 .. p /\ DOMAIN task.scripts = 1 .. s
         /\ DOMAIN m = 1 .. 1 + p + s
         /\ m[1] = A!Mark(A!TablePhase)
         /\ \A k \in 1 .. p : m[1 + k] = A!Mark(task.parts[k].phase)
         /\ \A k \in 1 .. s : m[1 + p + k] = A!Mark(task.scripts[k])
  BY <1>1, MarksAre
<1>3. i \in 1 .. 1 + p + s /\ j \in 1 .. 1 + p + s /\ j # 1
  BY <1>1, <1>2
<1>4. j \in Nat /\ i \in Nat /\ p \in Nat /\ s \in Nat /\ (p = 0 => j - 1 - p \in 1 .. s)
  BY <1>3
<1>5. task.step \in {"partitions", "finishing"}
  <2>1. p = 0 /\ s = 0 => FALSE
    BY <1>3
  <2>2. task.step \notin {"partitions", "finishing"} => task.parts = <<>> /\ task.scripts = <<>>
    BY DEF ScreenInv, OnScreen, Steps
  <2>3. task.parts = <<>> => p = 0
    <3>1. task.parts = <<>> => DOMAIN task.parts = {}
      OBVIOUS
    <3>2. 1 .. p = {} => p = 0
      BY <1>4
    <3> QED
      BY <1>2, <3>1, <3>2
  <2>4. task.scripts = <<>> => s = 0
    <3>1. task.scripts = <<>> => DOMAIN task.scripts = {}
      OBVIOUS
    <3>2. 1 .. s = {} => s = 0
      BY <1>4
    <3> QED
      BY <1>2, <3>1, <3>2
  <2> QED
    BY <2>1, <2>2, <2>3, <2>4
<1>6. m[1] = "ok"
  BY <1>2, <1>5, MarkIs DEF A!TablePhase
<1>7. \A k, l \in 1 .. p : k < l /\ task.parts[l].phase # "waiting" => task.parts[k].phase = "done"
  <2>1. PICK n : n = Len(Work[task.id].parts)
    OBVIOUS
  <2>2. n \in Nat /\ 1 .. p = 1 .. n /\ PartsOk(task.parts, n)
    BY <1>2, <1>5, <2>1, PartsAre
  <2> QED
    BY <2>2 DEF PartsOk
<1>8. task.step # "finishing" => s = 0
  <2>1. task.step # "finishing" => task.scripts = <<>>
    BY DEF ScreenInv, OnScreen
  <2>2. task.scripts = <<>> => DOMAIN task.scripts = {}
    OBVIOUS
  <2>3. 1 .. s = {} => s = 0
    BY <1>4
  <2> QED
    BY <1>2, <2>1, <2>2, <2>3
<1>9. CASE i = 1
  BY <1>1, <1>6, <1>9
<1>10. CASE i # 1 /\ j <= 1 + p
  <2>1. i - 1 \in 1 .. p /\ j - 1 \in 1 .. p /\ i - 1 < j - 1 /\ 1 + (i - 1) = i /\ 1 + (j - 1) = j
    BY <1>3, <1>4, <1>10
  <2>2. m[i] = A!Mark(task.parts[i - 1].phase) /\ m[j] = A!Mark(task.parts[j - 1].phase)
    BY <1>2, <2>1
  <2>3. task.parts[j - 1].phase # "waiting"
    BY <1>1, <2>2, MarkIs
  <2>4. task.parts[i - 1].phase = "done"
    BY <1>7, <2>1, <2>3
  <2> QED
    BY <1>1, <2>2, <2>4, MarkIs
<1>11. CASE i # 1 /\ j > 1 + p
  <2>1. j - 1 - p \in 1 .. s /\ 1 + p + (j - 1 - p) = j /\ s # 0
    BY <1>3, <1>4, <1>11
  <2>2. task.step = "finishing"
    BY <1>8, <2>1
  <2>3. CASE i <= 1 + p
    <3>1. i - 1 \in 1 .. p /\ 1 + (i - 1) = i
      BY <1>3, <1>4, <1>11, <2>3
    <3>2. task.parts[i - 1].phase = "done"
      BY <1>2, <2>2, <3>1 DEF ScreenInv, OnScreen
    <3> QED
      BY <1>1, <1>2, <3>1, <3>2, MarkIs
  <2>4. CASE i > 1 + p
    <3>1. i - 1 - p \in 1 .. s /\ 1 + p + (i - 1 - p) = i /\ i - 1 - p < j - 1 - p
      BY <1>3, <1>4, <2>4
    <3>2. PICK g, h : g = i - 1 - p /\ h = j - 1 - p
      OBVIOUS
    <3>3. m[i] = A!Mark(task.scripts[g]) /\ m[j] = A!Mark(task.scripts[h])
      BY <1>2, <2>1, <3>1, <3>2
    <3>4. task.scripts[h] # "waiting"
      BY <1>1, <3>3, MarkIs
    <3>5. PICK n : n = Work[task.id].scripts
      OBVIOUS
    <3>6. ScriptsOk(task.scripts, n)
      BY <2>2, <3>5 DEF ScreenInv, OnScreen
    <3>7. 1 .. s = 1 .. n
      BY <1>2, <3>6 DEF ScriptsOk
    <3>8. task.scripts[g] = "exit0"
      BY <2>1, <3>1, <3>2, <3>4, <3>6, <3>7 DEF ScriptsOk
    <3> QED
      BY <1>1, <3>3, <3>8, MarkIs
  <2> QED
    BY <1>4, <2>3, <2>4
<1> QED
  BY <1>4, <1>9, <1>10, <1>11

\* Every mark is that of some phase; of a task that is through they are all ok.
LEMMA MarksTell ==
    ASSUME ScreenInv, task.id # 0, NEW i \in DOMAIN A!Marks
    PROVE  /\ task.outcome # "none" => A!Marks[i] # "running"
           /\ task.step = "finishing" /\ (\A k \in DOMAIN task.scripts : task.scripts[k] = "exit0")
                 => A!Marks[i] = "ok"
<1>1. PICK m : m = A!Marks
  OBVIOUS
<1>2. PICK p, s \in Nat :
         /\ DOMAIN task.parts = 1 .. p /\ DOMAIN task.scripts = 1 .. s
         /\ DOMAIN m = 1 .. 1 + p + s
         /\ m[1] = A!Mark(A!TablePhase)
         /\ \A k \in 1 .. p : m[1 + k] = A!Mark(task.parts[k].phase)
         /\ \A k \in 1 .. s : m[1 + p + k] = A!Mark(task.scripts[k])
  BY <1>1, MarksAre
<1>3. PICK e : /\ m[i] = A!Mark(e)
               /\ \/ e = A!TablePhase
                  \/ \E k \in DOMAIN task.parts : e = task.parts[k].phase
                  \/ \E k \in DOMAIN task.scripts : e = task.scripts[k]
  <2>1. i \in 1 .. 1 + p + s
    BY <1>1, <1>2
  <2>2. \/ i = 1
        \/ i - 1 \in 1 .. p /\ 1 + (i - 1) = i
        \/ i - 1 - p \in 1 .. s /\ 1 + p + (i - 1 - p) = i
    BY <1>2, <2>1
  <2>3. CASE i = 1
    BY <1>2, <2>3
  <2>4. CASE i - 1 \in 1 .. p /\ 1 + (i - 1) = i
    BY <1>2, <2>4
  <2>5. CASE i - 1 - p \in 1 .. s /\ 1 + p + (i - 1 - p) = i
    BY <1>2, <2>5
  <2> QED
    BY <2>2, <2>3, <2>4, <2>5
<1>4. task.outcome # "none" => A!Mark(e) # "running"
  BY DEF A!Mark
<1>5. ASSUME task.step = "finishing", \A k \in DOMAIN task.scripts : task.scripts[k] = "exit0"
      PROVE  e \in {"done", "exit0"}
  <2>1. \A k \in DOMAIN task.parts : task.parts[k].phase = "done"
    BY <1>5 DEF ScreenInv, OnScreen
  <2> QED
    BY <1>3, <1>5, <2>1 DEF A!TablePhase
<1> QED
  BY <1>1, <1>3, <1>4, <1>5, MarkIs

\* The bar: what is through is at most what there is, and all of it only when every part is.
LEMMA BarIs ==
    ASSUME ScreenInv, task.id # 0
    PROVE  /\ A!Fraction(task).is <= A!Fraction(task).of
           /\ task.step = "finishing" => A!Fraction(task).is = A!Fraction(task).of
           /\ A!Fraction(task).is = A!Fraction(task).of =>
                 \A i \in DOMAIN task.parts :
                    \/ task.parts[i].phase = "done"
                    \/ Work[task.id].parts[i] = 0 \/ task.parts[i].half = 2
<1>1. PICK F, w, n : F = A!Fraction(task) /\ w = Work[task.id].parts /\ n = Len(w)
  OBVIOUS
<1>2. task.id \in DOMAIN Work
  BY DEF ScreenInv, OnScreen
<1>3. n \in Nat /\ \A i \in 1 .. n : w[i] \in Nat
  BY <1>1, <1>2, WorkIs
<1>4. PICK size : size = [i \in DOMAIN task.parts |-> w[i]]
  OBVIOUS
<1>5. PICK total : total = IF A!SumOf(size) = 0 THEN 1 ELSE A!SumOf(size)
  OBVIOUS
<1>6. PICK got : got = [i \in DOMAIN task.parts |-> size[i] * A!PartitionHalves(task.parts[i])]
  OBVIOUS
<1>7. F = CASE task.step \in {"starting", "table"} -> [of |-> 2 * total, is |-> 0]
            [] task.step = "finishing" -> [of |-> 2 * total, is |-> 2 * total]
            [] OTHER -> [of |-> 2 * total, is |-> A!SumOf(got)]
  BY <1>1, <1>4, <1>5, <1>6 DEF A!Fraction
<1>8. CASE task.step \in {"starting", "table"}
  <2>1. task.parts = <<>>
    BY <1>8 DEF ScreenInv, OnScreen
  <2>2. Len(size) = 0 /\ DOMAIN task.parts = {}
    BY <1>4, <2>1
  <2>3. A!SumOf(size) = 0
    BY <2>2, SumStep DEF A!SumOf
  <2>4. F.of = 2 /\ F.is = 0
    BY <1>5, <1>7, <1>8, <2>3
  <2> QED
    BY <1>1, <1>8, <2>2, <2>4
<1>9. CASE task.step \in {"partitions", "finishing"}
  <2>1. DOMAIN task.parts = 1 .. n /\ PartsOk(task.parts, n)
    BY <1>1, <1>9, PartsAre
  <2>2. Len(size) = n /\ Len(got) = n /\ \A i \in 1 .. n : size[i] = w[i] /\ size[i] \in Nat
    BY <1>3, <1>4, <1>6, <2>1
  <2>3. ASSUME NEW i \in 1 .. n
        PROVE  /\ got[i] \in Nat /\ got[i] <= 2 * size[i]
               /\ got[i] = 2 * size[i] =>
                     task.parts[i].phase = "done" \/ w[i] = 0 \/ task.parts[i].half = 2
    <3>1. PICK x, y, h : x = size[i] /\ y = task.parts[i] /\ h = A!PartitionHalves(y)
      OBVIOUS
    <3>2. IsPart(y) /\ x \in Nat /\ x = w[i] /\ got[i] = x * h
      BY <1>6, <2>1, <2>2, <3>1 DEF PartsOk
    <3>3. h \in {0, 1, 2} /\ (h = 2 => y.phase = "done" \/ y.half = 2)
      BY <3>1, <3>2 DEF IsPart, A!PartitionHalves
    <3>4. CASE h = 0
      <4>1. x * h = 0
        BY <3>2, <3>4
      <4> QED
        BY <3>1, <3>2, <4>1
    <3>5. CASE h = 1
      <4>1. x * h = x
        BY <3>2, <3>5
      <4> QED
        BY <3>1, <3>2, <4>1
    <3>6. CASE h = 2
      <4>1. x * h = 2 * x
        BY <3>2, <3>6
      <4> QED
        BY <3>1, <3>2, <3>3, <3>6, <4>1
    <3> QED
      BY <3>3, <3>4, <3>5, <3>6
  <2>4. Below(got, size, n)
    BY <1>3, <2>2, <2>3, SumBelow
  <2>5. PICK a, b : a = A!SumOf(got) /\ b = A!SumOf(size)
    OBVIOUS
  <2>6. /\ a \in Nat /\ b \in Nat /\ a <= 2 * b
        /\ a = 2 * b => \A i \in 1 .. n : got[i] = 2 * size[i]
    BY <2>2, <2>4, <2>5 DEF Below, A!SumOf
  <2>7. total \in Nat /\ total # 0 /\ (total = b \/ b = 0)
    BY <1>5, <2>5, <2>6
  <2>8. CASE task.step = "finishing"
    <3>1. F.of = 2 * total /\ F.is = 2 * total
      BY <1>7, <2>8
    <3>2. \A i \in DOMAIN task.parts : task.parts[i].phase = "done"
      BY <2>8 DEF ScreenInv, OnScreen
    <3> QED
      BY <1>1, <2>7, <3>1, <3>2
  <2>9. CASE task.step = "partitions"
    <3>1. F.of = 2 * total /\ F.is = a
      BY <1>7, <2>5, <2>9
    <3>2. a <= 2 * total /\ (a = 2 * total => a = 2 * b)
      BY <2>6, <2>7
    <3>3. a = 2 * total => \A i \in 1 .. n : task.parts[i].phase = "done" \/ w[i] = 0
                                             \/ task.parts[i].half = 2
      BY <2>3, <2>6, <3>2
    <3> QED
      BY <1>1, <2>1, <2>9, <3>1, <3>2, <3>3
  <2> QED
    BY <1>9, <2>8, <2>9
<1> QED
  BY <1>8, <1>9 DEF ScreenInv, OnScreen, Steps

\* The log's window.
LEMMA WindowIs ==
    ASSUME NEW n \in 0 .. KeptLines, NEW scroll \in 0 .. MaxScroll
    PROVE  LET w == A!LogWindow(n, scroll)
           IN  w.from <= w.to /\ w.to <= n /\ w.to - w.from = (IF n < Height THEN n ELSE Height)
<1>1. n \in Nat /\ Height \in Nat /\ scroll \in Nat
  BY ScreenAssumption
<1> QED
  BY <1>1 DEF A!LogWindow

\* Everything that is said of the screen.
LEMMA ScreenTells == ASSUME ScreenInv PROVE A!ScreenIsTrue
<1>1. PICK m, F : m = A!Marks /\ F = A!Fraction(task)
  OBVIOUS
<1>2. A!Range(m) = {m[i] : i \in DOMAIN m}
  BY DEF A!Range
<1>3. ASSUME task.id # 0
      PROVE  /\ \A i, j \in DOMAIN m : i < j /\ m[j] # "waiting" => m[i] = "ok"
             /\ task.outcome # "none" => "running" \notin A!Range(m)
             /\ F.is <= F.of
             /\ F.is = F.of => \A i \in DOMAIN task.parts : task.parts[i].phase = "done"
                                   \/ Work[task.id].parts[i] = 0 \/ task.parts[i].half = 2
  BY <1>1, <1>2, <1>3, MarksInOrder, MarksTell, BarIs
<1>4. ASSUME task.id # 0, task.outcome = "done", Work[task.id].kind # "reboot"
      PROVE  A!Range(m) = {"ok"} /\ standing[task.id] = "done" /\ F.is = F.of
  <2>1. /\ standing[task.id] = "done" /\ task.step = "finishing"
        /\ \A k \in DOMAIN task.scripts : task.scripts[k] = "exit0"
    BY <1>4 DEF ScreenInv, StandsAs, Through
  <2>2. \A i \in DOMAIN m : m[i] = "ok"
    BY <1>1, <1>4, <2>1, MarksTell
  <2>3. 1 \in DOMAIN m
    <3>1. \A p, s \in Nat : 1 \in 1 .. 1 + p + s
      OBVIOUS
    <3> QED
      BY <1>1, <1>4, <3>1, MarksAre
  <2>4. A!Range(m) = {"ok"}
    BY <1>2, <2>2, <2>3
  <2>5. F.is = F.of
    BY <1>1, <1>4, <2>1, BarIs
  <2> QED
    BY <2>1, <2>4, <2>5
<1>5. ASSUME NEW i \in DOMAIN task.parts, task.parts[i].phase = "running"
      PROVE  A!AtPart(i)
  <2>1. task.step \in {"partitions", "finishing"}
    <3>1. task.parts = <<>> => FALSE
      BY <1>5
    <3> QED
      BY <3>1 DEF ScreenInv, OnScreen, Steps
  <2>2. PICK n : n = Len(Work[task.id].parts)
    OBVIOUS
  <2>3. n \in Nat /\ DOMAIN task.parts = 1 .. n /\ PartsOk(task.parts, n)
    BY <2>1, <2>2, PartsAre
  <2>4. \A j \in 1 .. n : j < i => task.parts[j].phase = "done"
    BY <1>5, <2>3 DEF PartsOk
  <2>5. \A j \in 1 .. n : task.parts[j].phase = "done" => j < i
    BY <1>5, <2>3 DEF PartsOk
  <2> QED
    BY <2>3, <2>4, <2>5 DEF A!AtPart
<1>6. cast.total = A!SumOf(cast.seen)
  BY DEF ScreenInv, CastOk
<1>7. A!CastStatus = "DONE" => A!RebootText # "F10 to reboot"
  BY DEF A!CastStatus, A!RebootText
<1>8. \A n \in 0 .. KeptLines, scroll \in 0 .. MaxScroll :
         LET w == A!LogWindow(n, scroll)
         IN  w.from <= w.to /\ w.to <= n /\ w.to - w.from = (IF n < Height THEN n ELSE Height)
  BY WindowIs
<1> QED
  BY <1>1, <1>3, <1>4, <1>5, <1>6, <1>7, <1>8 DEF A!ScreenIsTrue

(***************************************************************************)
(* The agent's screen tells how the task stands, and a machine goes down   *)
(* after the server was told of the task it ends, but for a task whose     *)
(* report was not answered and one that began after the look of the        *)
(* confirmed reboot (view/task.rs, status.rs, reboot.rs), for any tasks    *)
(* with any partitions and scripts and any number of confirmations.        *)
(* A report reaches the task it was made for because its handle names it;  *)
(* DONE and a full bar follow run_task, which is where its own state says; *)
(* a row that is over stays so; and a row that says running is that of the *)
(* task at work, or of one the console has cancelled and not heard of.     *)
(***************************************************************************)
THEOREM ScreensAreTrue == Spec => []ScreenIsTrue
<1> DEFINE Inv == part = "screen" => ScreenInv
<1>1. Init => Inv
  BY ScreenStarts DEF Init
<1>2. Inv /\ [Next]_vars => Inv'
  <2> SUFFICES ASSUME Inv, [Next]_vars, part' = "screen" PROVE ScreenInv'
    OBVIOUS
  <2>1. CASE A!Next
    BY <2>1, ScreenKept DEF Next, vars
  <2>2. CASE UNCHANGED <<part, screenVars>>
    BY <2>2 DEF screenVars, ScreenInv, MachineOk, IsDown
  <2> QED
    BY <2>1, <2>2 DEF Next, vars
<1>3. Inv => ScreenIsTrue
  <2> SUFFICES ASSUME ScreenInv PROVE A!ScreenIsTrue /\ A!RebootIsReported
    BY DEF ScreenIsTrue
  <2>1. A!RebootIsReported
    <3> SUFFICES ASSUME machine = "off"
                 PROVE  /\ runner = "rebooted" => task.outcome = "done" /\ standing[task.id] = "done"
                        /\ \A i \in DOMAIN Work : standing[i] = "running" =>
                              \/ \E q \in console : q.id = i /\ q.answer = "none"
                              \/ /\ i = task.id /\ A!RunningTask
                                 /\ \E q \in console : q.pc = "rebooted" /\ q.id # i
      BY DEF A!RebootIsReported, A!Ids
    <3>1. runner = "rebooted" => task.outcome = "done" /\ standing[task.id] = "done"
      BY DEF ScreenInv, RunnerOk, StandsAs, Ending
    <3>2. ASSUME NEW i \in DOMAIN Work, standing[i] = "running", i = task.id, task.outcome = "none"
          PROVE  \E q \in console : (q.id = i /\ q.answer = "none") \/ (q.pc = "rebooted" /\ q.id # i)
      <4>1. PICK q \in console : q.pc = "rebooted"
        BY <3>1, <3>2 DEF ScreenInv, MachineOk, IsDown
      <4>2. q.answer # "none" => A!Over(standing[q.id])
        BY <4>1, ConsoleIs DEF ConsoleReboot
      <4> QED
        BY <3>2, <4>1, <4>2 DEF A!Over
    <3>3. ASSUME NEW i \in DOMAIN Work, i = task.id, task.outcome = "none" PROVE A!RunningTask
      BY <3>3, WorkIs DEF A!RunningTask
    <3> QED
      BY <3>1, <3>2, <3>3 DEF ScreenInv, RunsOk
  <2> QED
    BY <2>1, ScreenTells
<1> QED
  BY <1>1, <1>2, <1>3, PTL DEF Spec
=============================================================================
