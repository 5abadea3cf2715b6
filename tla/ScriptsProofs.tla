---------------------------- MODULE ScriptsProofs ----------------------------
(***************************************************************************)
(* What a deployment's scripts leave behind: the restored system is always *)
(* released, the runs shown are of one attempt and in order, and of an     *)
(* output exactly the head and the tail are kept.                          *)
(***************************************************************************)
EXTENDS MCScripts, FiniteSetTheorems, WellFoundedInduction, TLAPS

(* LeastOf: Min picks the least number of a set.                           *)
LEMMA LeastOf ==
    ASSUME NEW T, T \subseteq Nat, T # {}
    PROVE  Runs!Min(T) \in T /\ \A y \in T : Runs!Min(T) <= y
  <1> DEFINE R == OpToRel(<, Nat)
  <1>1. IsWellFoundedOn(R, Nat)
    BY NatLessThanWellFounded
  <1>2. \A x, y \in Nat : y < x => <<y, x>> \in R
    BY DEF OpToRel
  <1> HIDE DEF R
  <1>3. PICK x \in T : \A y \in T : ~(<<y, x>> \in R)
    BY <1>1, WFMin
  <1>4. ASSUME NEW y \in T PROVE x <= y
    <2>1. x \in Nat /\ y \in Nat /\ ~(y < x)
      BY <1>2, <1>3
    <2> QED
      BY <2>1
  <1> QED
    BY <1>4 DEF Runs!Min

(* GreatestOf: Max picks the greatest number of a bounded set.             *)
LEMMA GreatestOf ==
    ASSUME NEW n \in Nat, NEW T, T \subseteq 0 .. n, T # {}
    PROVE  Runs!Max(T) \in T
  <1> DEFINE D == {n - x : x \in T}
  <1>1. D \subseteq Nat /\ D # {}
    <2>1. \A x \in T : n - x \in Nat
      OBVIOUS
    <2> QED
      BY <2>1
  <1>2. PICK d \in D : \A e \in D : d <= e
    <2> HIDE DEF D
    <2> QED
      BY <1>1, LeastOf
  <1>3. PICK x \in T : d = n - x
    OBVIOUS
  <1>4. ASSUME NEW y \in T PROVE x >= y
    <2>1. n - y \in D
      OBVIOUS
    <2>2. d <= n - y /\ x \in Int /\ y \in Int
      <3> HIDE DEF D
      <3> QED
        BY <1>2, <2>1
    <2> QED
      BY <1>3, <2>2
  <1> QED
    BY <1>4 DEF Runs!Max

(* MinMaxOfTwo: Min and Max of two integers.                               *)
LEMMA MinMaxOfTwo ==
    ASSUME NEW a \in Int, NEW b \in Int
    PROVE  /\ Runs!Min({a, b}) = IF a <= b THEN a ELSE b
           /\ Runs!Max({a, b}) = IF a >= b THEN a ELSE b
  <1>1. \E x \in {a, b} : \A y \in {a, b} : x <= y
    OBVIOUS
  <1>2. \E x \in {a, b} : \A y \in {a, b} : x >= y
    OBVIOUS
  <1>3. /\ Runs!Min({a, b}) \in {a, b} /\ Runs!Min({a, b}) <= a /\ Runs!Min({a, b}) <= b
    BY <1>1 DEF Runs!Min
  <1>4. /\ Runs!Max({a, b}) \in {a, b} /\ Runs!Max({a, b}) >= a /\ Runs!Max({a, b}) >= b
    BY <1>2 DEF Runs!Max
  <1> QED
    BY <1>3, <1>4

-----------------------------------------------------------------------------
(* The boundaries of characters.                                           *)

(* CeilIsNext: ceil_char_boundary finds the first boundary at or after an  *)
(* offset, less than a character away.                                     *)
LEMMA CeilIsNext ==
    ASSUME NEW i \in Nat
    PROVE  LET c == Runs!CeilBoundary(i)
           IN  /\ c \in Nat /\ c \notin Inside /\ i <= c /\ c < i + TailBytes
               /\ \A j \in Nat : i <= j /\ j \notin Inside => c <= j
  <1> DEFINE T == {j \in i .. (i + CharBytes - 1) : j \notin Inside}
  <1>0. CharBytes \in Nat \ {0} /\ TailBytes \in Nat /\ CharBytes <= TailBytes
    BY RunsAssumption
  <1>1. T \subseteq Nat
    BY <1>0
  <1>2. T # {}
    <2>1. CASE i \in Inside
      BY <2>1, RunsAssumption
    <2>2. CASE i \notin Inside
      BY <1>0, <2>2
    <2> QED
      BY <2>1, <2>2
  <1>3. Runs!Min(T) \in T /\ \A y \in T : Runs!Min(T) <= y
    BY <1>1, <1>2, LeastOf
  <1>4. Runs!CeilBoundary(i) = Runs!Min(T)
    BY DEF Runs!CeilBoundary
  <1>6. Runs!Min(T) \in i .. (i + CharBytes - 1) /\ Runs!Min(T) \notin Inside
    BY <1>3
  <1>5. ASSUME NEW j \in Nat, i <= j, j \notin Inside
        PROVE  Runs!Min(T) <= j
    <2>1. CASE j \in T
      BY <1>3, <2>1
    <2>2. CASE j \notin T
      <3>1. j > i + CharBytes - 1
        BY <1>0, <1>5, <2>2
      <3> QED
        BY <1>0, <1>6, <3>1
    <2> QED
      BY <2>1, <2>2
  <1> HIDE DEF T
  <1> QED
    BY <1>0, <1>4, <1>5, <1>6

(* FloorIsLast: what decoded_prefix takes ends at a boundary.              *)
LEMMA FloorIsLast ==
    ASSUME NEW i \in Nat
    PROVE  Runs!FloorBoundary(i) \in 0 .. i /\ Runs!FloorBoundary(i) \notin Inside
  <1> DEFINE T == {j \in 0 .. i : j \notin Inside}
  <1>1. T \subseteq 0 .. i /\ 0 \in T
    BY RunsAssumption
  <1>2. Runs!Max(T) \in T
    <2> HIDE DEF T
    <2> QED
      BY <1>1, GreatestOf
  <1> QED
    BY <1>2 DEF Runs!FloorBoundary

(* HeadEnd and TailFrom without their cases: the head ends at the first    *)
(* boundary after HeadBytes, the tail starts at the first one from which   *)
(* TailBytes are left, but not in the head.                                *)
Cut == Runs!CeilBoundary(HeadBytes)
Late(total) == IF total <= TailBytes THEN 0 ELSE Runs!CeilBoundary(total - TailBytes)

LEMMA HeadAndTail ==
    ASSUME NEW t \in Nat
    PROVE  /\ Cut \in Nat /\ HeadBytes <= Cut /\ Cut \notin Inside
           /\ Late(t) \in Nat /\ Late(t) <= t /\ Late(t) \notin Inside /\ t - TailBytes <= Late(t)
           /\ t > 0 => Late(t) < t
           /\ \A j \in Nat : t - TailBytes <= j /\ j \notin Inside => Late(t) <= j
           /\ Runs!HeadEnd(t) = IF t <= Cut THEN t ELSE Cut
           /\ Runs!TailFrom(t) = IF t <= Cut THEN t ELSE IF Late(t) <= Cut THEN Cut ELSE Late(t)
  <1>0. HeadBytes \in Nat /\ TailBytes \in Nat \ {0} /\ 0 \notin Inside
    BY RunsAssumption
  <1>1. Cut \in Nat /\ HeadBytes <= Cut /\ Cut \notin Inside
    BY <1>0, CeilIsNext DEF Cut
  <1>2. Runs!CeilBoundary(0) = 0
    <2>1. LET c == Runs!CeilBoundary(0)
          IN  c \in Nat /\ \A j \in Nat : 0 <= j /\ j \notin Inside => c <= j
      BY CeilIsNext
    <2> QED
      BY <1>0, <2>1
  <1>3. /\ Late(t) \in Nat /\ Late(t) <= t /\ Late(t) \notin Inside /\ t - TailBytes <= Late(t)
        /\ t > 0 => Late(t) < t
        /\ \A j \in Nat : t - TailBytes <= j /\ j \notin Inside => Late(t) <= j
    <2>1. CASE t <= TailBytes
      BY <1>0, <2>1 DEF Late
    <2>2. CASE t > TailBytes
      <3>1. t - TailBytes \in Nat /\ Late(t) = Runs!CeilBoundary(t - TailBytes)
        BY <1>0, <2>2 DEF Late
      <3>2. LET c == Runs!CeilBoundary(t - TailBytes)
            IN  /\ c \in Nat /\ c \notin Inside /\ t - TailBytes <= c
                /\ c < (t - TailBytes) + TailBytes
                /\ \A j \in Nat : t - TailBytes <= j /\ j \notin Inside => c <= j
        BY <3>1, CeilIsNext
      <3> QED
        BY <1>0, <3>1, <3>2
    <2> QED
      BY <1>0, <2>1, <2>2
  <1>4. Runs!HeadEnd(t) = IF t <= Cut THEN t ELSE Cut
    <2>1. CASE t < HeadBytes
      <3>1. Runs!Min({HeadBytes, t}) = t
        BY <1>0, <2>1, MinMaxOfTwo
      <3>2. Runs!CeilBoundary(t) \in Nat /\ t <= Runs!CeilBoundary(t)
        BY CeilIsNext
      <3> QED
        BY <1>0, <1>1, <2>1, <3>1, <3>2, MinMaxOfTwo DEF Runs!HeadEnd
    <2>2. CASE t >= HeadBytes
      <3>1. Runs!Min({HeadBytes, t}) = HeadBytes
        BY <1>0, <2>2, MinMaxOfTwo
      <3> QED
        BY <1>0, <1>1, <3>1, MinMaxOfTwo DEF Runs!HeadEnd, Cut
    <2> QED
      BY <1>0, <2>1, <2>2
  <1>5. Runs!CeilBoundary(Runs!Max({0, t - TailBytes})) = Late(t)
    <2>0. Runs!Max({0, t - TailBytes}) = IF 0 >= t - TailBytes THEN 0 ELSE t - TailBytes
      <3> DEFINE d == t - TailBytes
      <3>1. d \in Int
        BY <1>0
      <3> HIDE DEF d
      <3>2. Runs!Max({0, d}) = IF 0 >= d THEN 0 ELSE d
        BY <3>1, MinMaxOfTwo
      <3> QED
        BY <3>2 DEF d
    <2>1. CASE t <= TailBytes
      BY <1>0, <1>2, <2>0, <2>1 DEF Late
    <2>2. CASE t > TailBytes
      BY <1>0, <2>0, <2>2 DEF Late
    <2> QED
      BY <1>0, <2>1, <2>2
  <1>6. Runs!Min({t, Late(t)}) = Late(t)
    BY <1>3, MinMaxOfTwo
  <1>7. Runs!TailFrom(t) = Runs!Max({Runs!HeadEnd(t), Late(t)})
    BY <1>5, <1>6 DEF Runs!TailFrom
  <1>8. Runs!HeadEnd(t) \in Int
    BY <1>1, <1>4
  <1>9. \A a, b \in Int : Runs!Max({a, b}) = IF a >= b THEN a ELSE b
    BY MinMaxOfTwo
  <1>10. Runs!Max({Runs!HeadEnd(t), Late(t)})
            = IF Runs!HeadEnd(t) >= Late(t) THEN Runs!HeadEnd(t) ELSE Late(t)
    BY <1>3, <1>8, <1>9
  <1> QED
    BY <1>1, <1>3, <1>4, <1>7, <1>10

-----------------------------------------------------------------------------
(* What is stored of an output.                                            *)

Holds(c, k) == c.from <= k /\ k < c.to
IsChunk(c, total) ==
    /\ c \in [from : Nat, to : Nat] /\ c.from < c.to /\ c.to <= total
    /\ c.from < HeadBytes => c.to <= Cut
    /\ c.from >= HeadBytes => c.from >= Cut
Apart(cs) == \A c, d \in cs : c # d => c.to <= d.from \/ d.to <= c.from

(* The head is there from its first byte to its last, the tail from its    *)
(* first chunk on, which starts no later than it must.                     *)
HeadKept(run) ==
    \A k \in Nat : k < Cut /\ k < run.total =>
        \E c \in run.chunks : c.from < HeadBytes /\ Holds(c, k)
TailStarts(run, f) ==
    /\ f \in run.chunks /\ f.from >= HeadBytes /\ f.from \notin Inside
    /\ f.from <= Runs!TailFrom(run.total)
    /\ \A c \in run.chunks : c.from >= HeadBytes => f.from <= c.from
    /\ \A k \in f.from .. (run.total - 1) :
           \E c \in run.chunks : c.from >= HeadBytes /\ Holds(c, k)
Stored(run) ==
    /\ run.total \in Nat
    /\ \A c \in run.chunks : IsChunk(c, run.total) /\ (c.from >= HeadBytes => c.from \notin Inside)
    /\ Apart(run.chunks)
    /\ HeadKept(run)
    /\ run.total > Cut => \E f \in run.chunks : TailStarts(run, f)

LEMMA SkipIs ==
    ASSUME NEW b \in Nat, NEW to \in Nat, b < to, b \notin Inside
    PROVE  LET skip == Runs!Min({to, Runs!CeilBoundary(Runs!Max({b, to - TailBytes}))})
           IN  /\ skip = IF Late(to) <= b THEN b ELSE Late(to)
               /\ skip \in Nat /\ skip < to /\ skip \notin Inside
  <1> DEFINE d == to - TailBytes
  <1>1. d \in Int /\ TailBytes \in Nat \ {0}
    BY RunsAssumption
  <1>2. /\ Late(to) \in Nat /\ Late(to) \notin Inside /\ d <= Late(to) /\ Late(to) < to
        /\ \A j \in Nat : d <= j /\ j \notin Inside => Late(to) <= j
    BY HeadAndTail
  <1>3. d > 0 => Late(to) = Runs!CeilBoundary(d)
    BY <1>1 DEF Late
  <1> HIDE DEF d
  <1>4. Runs!Max({b, d}) = IF b >= d THEN b ELSE d
    BY <1>1, MinMaxOfTwo
  <1>5. \A j \in Nat : Runs!Min({to, j}) = IF to <= j THEN to ELSE j
    BY MinMaxOfTwo
  <1> SUFFICES LET skip == Runs!Min({to, Runs!CeilBoundary(Runs!Max({b, d}))})
               IN  /\ skip = IF Late(to) <= b THEN b ELSE Late(to)
                   /\ skip \in Nat /\ skip < to /\ skip \notin Inside
    BY DEF d
  <1>6. CASE b >= d
    <2>1. Runs!CeilBoundary(b) = b
      <3>1. LET c == Runs!CeilBoundary(b)
            IN  c \in Nat /\ b <= c /\ \A j \in Nat : b <= j /\ j \notin Inside => c <= j
        BY CeilIsNext
      <3> QED
        BY <3>1
    <2>2. Late(to) <= b
      BY <1>2, <1>6
    <2> QED
      BY <1>4, <1>5, <1>6, <2>1, <2>2
  <1>7. CASE b < d
    <2>1. d \in Nat /\ d > 0 /\ Runs!Max({b, d}) = d
      BY <1>1, <1>4, <1>7
    <2> QED
      BY <1>2, <1>3, <1>5, <1>7, <2>1
  <1> QED
    BY <1>1, <1>6, <1>7

(* KeptPieces: the one or two pieces kept_output cuts a flush into.        *)
LEMMA KeptPieces ==
    ASSUME NEW from \in Nat, NEW to \in Nat, from < to, from \notin Inside
    PROVE  LET kept == Runs!KeptOutput(from, to)
               skip == IF Late(to) <= from THEN from ELSE Late(to)
           IN  /\ from < HeadBytes /\ to <= Cut => kept = {[from |-> from, to |-> to]}
               /\ from < HeadBytes /\ to > Cut =>
                      kept = {[from |-> from, to |-> Cut],
                              [from |-> Runs!TailFrom(to), to |-> to]}
               /\ from >= HeadBytes => kept = {[from |-> skip, to |-> to]}
  <1> DEFINE end == Runs!Min({to, Runs!CeilBoundary(Runs!Min({HeadBytes, to}))})
             skipOf(b) == Runs!Min({to, Runs!CeilBoundary(Runs!Max({b, to - TailBytes}))})
  <1>1. end = Runs!HeadEnd(to)
    BY DEF Runs!HeadEnd
  <1>2. Runs!KeptOutput(from, to)
            = LET cut == IF from < HeadBytes THEN end ELSE from
              IN  (IF from < HeadBytes THEN {[from |-> from, to |-> cut]} ELSE {})
                  \cup (IF cut < to THEN {[from |-> skipOf(cut), to |-> to]} ELSE {})
    BY DEF Runs!KeptOutput
  <1>3. /\ Cut \in Nat /\ HeadBytes <= Cut /\ Cut \notin Inside /\ HeadBytes \in Nat
        /\ end = IF to <= Cut THEN to ELSE Cut
        /\ to > Cut => Runs!TailFrom(to) = IF Late(to) <= Cut THEN Cut ELSE Late(to)
    <2>1. HeadBytes \in Nat
      BY RunsAssumption
    <2>2. /\ Cut \in Nat /\ HeadBytes <= Cut /\ Cut \notin Inside
          /\ Runs!HeadEnd(to) = IF to <= Cut THEN to ELSE Cut
          /\ Runs!TailFrom(to)
                = IF to <= Cut THEN to ELSE IF Late(to) <= Cut THEN Cut ELSE Late(to)
      BY HeadAndTail
    <2> QED
      BY <1>1, <2>1, <2>2
  <1>4. \A b \in Nat : b < to /\ b \notin Inside =>
            skipOf(b) = IF Late(to) <= b THEN b ELSE Late(to)
    BY SkipIs
  <1> HIDE DEF end, skipOf
  <1>5. CASE from < HeadBytes /\ to <= Cut
    BY <1>2, <1>3, <1>5
  <1>6. CASE from < HeadBytes /\ to > Cut
    <2>1. end = Cut /\ skipOf(Cut) = Runs!TailFrom(to)
      BY <1>3, <1>4, <1>6
    <2> QED
      BY <1>2, <1>3, <1>6, <2>1
  <1>7. CASE from >= HeadBytes
    BY <1>2, <1>3, <1>4, <1>7
  <1> QED
    BY <1>3, <1>5, <1>6, <1>7

(* AppendKeeps: append_script_output keeps the head and the tail, wherever *)
(* the flush starts and ends.                                              *)
LEMMA AppendKeeps ==
    ASSUME NEW run, Stored(run), run.total \notin Inside, NEW n \in Nat \ {0},
           NEW next, next.total = run.total + n,
           next.chunks = {c \in run.chunks \cup Runs!KeptOutput(run.total, next.total) :
                              ~(c.from >= HeadBytes /\ c.to <= next.total - TailBytes)}
    PROVE  Stored(next)
  <1> DEFINE from == run.total
             to == next.total
             kept == Runs!KeptOutput(from, to)
  <1>1. from \in Nat /\ to \in Nat /\ from < to /\ from \notin Inside
    BY DEF Stored
  <1>2. HeadBytes \in Nat \ {0} /\ TailBytes \in Nat \ {0}
    BY RunsAssumption
  <1>3. /\ Cut \in Nat /\ HeadBytes <= Cut /\ Cut \notin Inside
        /\ Late(to) \in Nat /\ Late(to) < to /\ Late(to) \notin Inside /\ to - TailBytes <= Late(to)
        /\ Runs!TailFrom(to) = IF to <= Cut THEN to ELSE IF Late(to) <= Cut THEN Cut ELSE Late(to)
    BY <1>1, HeadAndTail
  <1>4. /\ \A c \in run.chunks : IsChunk(c, from) /\ (c.from >= HeadBytes => c.from \notin Inside)
        /\ Apart(run.chunks) /\ HeadKept(run)
        /\ from > Cut => \E f \in run.chunks : TailStarts(run, f)
    BY DEF Stored
  <1>5. LET skip == IF Late(to) <= from THEN from ELSE Late(to)
        IN  /\ from < HeadBytes /\ to <= Cut => kept = {[from |-> from, to |-> to]}
            /\ from < HeadBytes /\ to > Cut =>
                   kept = {[from |-> from, to |-> Cut], [from |-> Runs!TailFrom(to), to |-> to]}
            /\ from >= HeadBytes => kept = {[from |-> skip, to |-> to]}
    BY <1>1, KeptPieces
  <1>6. from >= HeadBytes => from >= Cut
    BY <1>1, <1>2, CeilIsNext DEF Cut
  <1> DEFINE x == to - TailBytes
  <1>7. x \in Int /\ x <= Late(to) /\ x < to
    BY <1>1, <1>2, <1>3
  <1>8. next.chunks = {c \in run.chunks \cup kept : ~(c.from >= HeadBytes /\ c.to <= x)}
    OBVIOUS
  <1> HIDE DEF kept, x
  <1>9. \A c \in kept : /\ IsChunk(c, to) /\ from <= c.from
                        /\ c.from >= HeadBytes => c.from \notin Inside /\ c.to = to
    BY <1>1, <1>2, <1>3, <1>5, <1>6 DEF IsChunk
  <1>10. \A c \in run.chunks : IsChunk(c, to) /\ c.to <= from
    BY <1>1, <1>4 DEF IsChunk
  <1>11. \A c \in next.chunks : IsChunk(c, to) /\ (c.from >= HeadBytes => c.from \notin Inside)
    BY <1>4, <1>8, <1>9, <1>10
  <1>12. Apart(next.chunks)
    <2>1. Apart(kept)
      BY <1>1, <1>2, <1>3, <1>5 DEF Apart
    <2>2. \A c \in run.chunks, d \in kept : c.to <= d.from
      BY <1>1, <1>9, <1>10 DEF IsChunk
    <2> QED
      BY <1>4, <1>8, <2>1, <2>2 DEF Apart
  <1>13. HeadKept(next)
    <2> SUFFICES ASSUME NEW k \in Nat, k < Cut, k < to
                 PROVE  \E c \in next.chunks : c.from < HeadBytes /\ Holds(c, k)
      BY DEF HeadKept
    <2>1. CASE k < from
      <3>1. PICK c \in run.chunks : c.from < HeadBytes /\ Holds(c, k)
        BY <1>4, <2>1 DEF HeadKept
      <3>2. c.from \in Nat
        BY <1>10 DEF IsChunk
      <3> QED
        BY <1>2, <1>8, <3>1, <3>2
    <2>2. CASE k >= from
      <3>1. from < HeadBytes
        BY <1>1, <1>2, <1>3, <1>6, <2>2
      <3>2. [from |-> from, to |-> IF to <= Cut THEN to ELSE Cut] \in kept
        BY <1>1, <1>3, <1>5, <3>1
      <3> QED
        BY <1>1, <1>2, <1>3, <1>8, <2>2, <3>1, <3>2 DEF Holds
    <2> QED
      BY <1>1, <2>1, <2>2
  <1>14. ASSUME to > Cut PROVE \E f \in next.chunks : TailStarts(next, f)
    <2>1. Runs!TailFrom(to) \in Nat /\ Cut <= Runs!TailFrom(to) /\ Late(to) <= Runs!TailFrom(to)
          /\ Runs!TailFrom(to) < to
      BY <1>1, <1>3, <1>14
    <2>2. \A g \in kept : g.from >= HeadBytes => g \in next.chunks
      BY <1>1, <1>7, <1>8, <1>9
    <2>3. CASE from < HeadBytes
      <3> DEFINE g == [from |-> Runs!TailFrom(to), to |-> to]
      <3>1. g \in kept /\ g.from >= HeadBytes
        BY <1>2, <1>3, <1>5, <1>14, <2>1, <2>3
      <3>2. \A c \in next.chunks : c.from >= HeadBytes => c = g
        <4>1. \A c \in run.chunks : c.from < HeadBytes
          BY <1>1, <1>2, <1>10, <2>3 DEF IsChunk
        <4>2. \A c \in kept : c = g \/ c.from < HeadBytes
          BY <1>3, <1>5, <1>14, <2>3
        <4>3. \A c \in next.chunks : c.from \in Nat
          BY <1>11 DEF IsChunk
        <4> QED
          BY <1>2, <1>8, <4>1, <4>2, <4>3
      <3>3. g \in next.chunks /\ g.from \notin Inside
        BY <1>9, <2>2, <3>1
      <3>4. \A k \in g.from .. (to - 1) : Holds(g, k)
        BY <1>1, <2>1 DEF Holds
      <3> QED
        BY <2>1, <3>1, <3>2, <3>3, <3>4 DEF TailStarts
    <2>4. CASE from >= HeadBytes
      <3> DEFINE g == [from |-> IF Late(to) <= from THEN from ELSE Late(to), to |-> to]
      <3>1. kept = {g} /\ g.from \in Nat /\ g.from >= HeadBytes /\ g.from >= from /\ g.from < to
        BY <1>1, <1>2, <1>3, <1>5, <2>4
      <3>2. g \in next.chunks /\ g.from \notin Inside /\ g.to = to
        BY <1>9, <2>2, <3>1
      <3> HIDE DEF g
      <3>3. ASSUME \A c \in run.chunks : c.from >= HeadBytes => c \notin next.chunks,
                   g.from <= Runs!TailFrom(to)
            PROVE  \E f \in next.chunks : TailStarts(next, f)
        <4>1. \A c \in next.chunks : c.from >= HeadBytes => c = g
          BY <1>8, <3>1, <3>3
        <4>2. \A k \in g.from .. (to - 1) : Holds(g, k)
          BY <1>1, <3>1, <3>2 DEF Holds
        <4>3. TailStarts(next, g)
          BY <3>1, <3>2, <3>3, <4>1, <4>2 DEF TailStarts
        <4> QED
          BY <3>2, <4>3
      <3>4. CASE from = Cut
        <4>1. \A c \in run.chunks : c.from < HeadBytes
          BY <1>2, <1>3, <1>10, <3>4 DEF IsChunk
        <4>2. \A c \in run.chunks : c.from \in Nat
          BY <1>10 DEF IsChunk
        <4>3. g.from <= Runs!TailFrom(to)
          BY <1>1, <1>3, <2>1, <3>4 DEF g
        <4> QED
          BY <1>2, <3>3, <4>1, <4>2, <4>3
      <3>5. CASE x >= from
        <4>1. \A c \in run.chunks : c.from >= HeadBytes => c \notin next.chunks
          BY <1>1, <1>7, <1>8, <1>10, <3>5 DEF IsChunk
        <4>2. g.from <= Runs!TailFrom(to)
          BY <1>1, <1>3, <1>7, <2>1, <3>5 DEF g
        <4> QED
          BY <3>3, <4>1, <4>2
      <3>6. CASE from > Cut /\ x < from
        <4>1. PICK first \in run.chunks : TailStarts(run, first)
          BY <1>4, <3>6
        <4>2. /\ first.from \in Nat /\ first.to \in Nat /\ first.from < first.to /\ first.to <= from
              /\ first.from >= HeadBytes
          BY <1>10, <4>1 DEF TailStarts, IsChunk
        <4>3. first.from <= Runs!TailFrom(to)
          <5>1. /\ Late(from) \in Nat
                /\ \A j \in Nat : from - TailBytes <= j /\ j \notin Inside => Late(from) <= j
                /\ Runs!TailFrom(from)
                      = IF from <= Cut THEN from ELSE IF Late(from) <= Cut THEN Cut ELSE Late(from)
            BY <1>1, HeadAndTail
          <5>2. Late(from) <= Late(to)
            BY <1>1, <1>2, <1>3, <5>1
          <5> QED
            BY <1>1, <1>3, <2>1, <3>6, <4>1, <4>2, <5>1, <5>2 DEF TailStarts
        <4>4. \E f \in run.chunks :
                  /\ f.from >= HeadBytes /\ f.to > x /\ f.from <= Runs!TailFrom(to)
                  /\ first.from <= f.from
                  /\ \A c \in run.chunks : c.from >= HeadBytes /\ c.to > x => f.from <= c.from
          <5>1. CASE first.to > x
            BY <4>1, <4>2, <4>3, <5>1 DEF TailStarts
          <5>2. CASE first.to <= x
            <6>1. x \in first.from .. (from - 1)
              BY <1>1, <1>7, <3>6, <4>2, <5>2
            <6>2. PICK f \in run.chunks : f.from >= HeadBytes /\ Holds(f, x)
              BY <4>1, <6>1 DEF TailStarts
            <6>3. f.from \in Nat /\ f.to \in Nat /\ f.from <= x /\ x < f.to
              BY <1>10, <6>2 DEF IsChunk, Holds
            <6>4. first.from <= f.from
              BY <4>1, <6>2 DEF TailStarts
            <6>5. ASSUME NEW c \in run.chunks, c.from >= HeadBytes, c.to > x
                  PROVE  f.from <= c.from
              <7>1. c = f \/ c.to <= f.from \/ f.to <= c.from
                BY <1>4, <6>2 DEF Apart
              <7>2. c.from \in Nat /\ c.to \in Nat
                BY <1>10 DEF IsChunk
              <7> QED
                BY <1>7, <6>3, <6>5, <7>1, <7>2
            <6> QED
              BY <1>3, <1>7, <2>1, <6>2, <6>3, <6>4, <6>5
          <5> QED
            BY <1>7, <4>2, <5>1, <5>2
        <4>5. PICK f \in run.chunks :
                  /\ f.from >= HeadBytes /\ f.to > x /\ f.from <= Runs!TailFrom(to)
                  /\ first.from <= f.from
                  /\ \A c \in run.chunks : c.from >= HeadBytes /\ c.to > x => f.from <= c.from
          BY <4>4
        <4>6. f.from \in Nat /\ f.to \in Nat /\ f.from < f.to /\ f.to <= from /\ f.from \notin Inside
          BY <1>4, <1>10, <4>5 DEF IsChunk
        <4>7. f \in next.chunks
          BY <1>7, <1>8, <4>5, <4>6
        <4>8. ASSUME NEW c \in next.chunks, c.from >= HeadBytes PROVE f.from <= c.from
          <5>1. c = g \/ (c \in run.chunks /\ ~(c.to <= x))
            BY <1>8, <3>1, <4>8
          <5>2. c.from \in Nat /\ c.to \in Nat
            BY <1>11 DEF IsChunk
          <5> QED
            BY <1>1, <1>7, <3>1, <4>5, <4>6, <4>8, <5>1, <5>2
        <4>9. ASSUME NEW k \in f.from .. (to - 1)
              PROVE  \E c \in next.chunks : c.from >= HeadBytes /\ Holds(c, k)
          <5>1. CASE k >= from
            <6>1. g.from = from
              BY <1>3, <1>1, <1>7, <3>6, <4>6, HeadAndTail DEF g, x
            <6> QED
              BY <1>1, <3>1, <3>2, <4>6, <5>1, <6>1 DEF Holds
          <5>2. CASE k < from
            <6>1. k \in first.from .. (from - 1)
              BY <1>1, <4>2, <4>5, <4>6, <5>2
            <6>2. PICK c \in run.chunks : c.from >= HeadBytes /\ Holds(c, k)
              BY <4>1, <6>1 DEF TailStarts
            <6>3. c.from \in Nat /\ c.to \in Nat /\ c.from <= k /\ k < c.to
              BY <1>10, <6>2 DEF IsChunk, Holds
            <6>4. c = f \/ c.to <= f.from \/ f.to <= c.from
              BY <1>4, <4>5 DEF Apart
            <6>5. c.to > x
              BY <1>1, <1>7, <4>5, <4>6, <6>3, <6>4
            <6> QED
              BY <1>7, <1>8, <6>2, <6>3, <6>5
          <5> QED
            BY <1>1, <4>6, <5>1, <5>2
        <4>10. TailStarts(next, f)
          BY <4>5, <4>6, <4>7, <4>8, <4>9 DEF TailStarts
        <4> QED
          BY <4>7, <4>10
      <3> QED
        BY <1>1, <1>3, <1>6, <1>7, <2>4, <3>4, <3>5, <3>6
    <2> QED
      BY <1>1, <1>2, <2>3, <2>4
  <1> QED
    BY <1>1, <1>11, <1>12, <1>13, <1>14 DEF Stored

(* ShownIsWhole: what assemble_output makes of such chunks.                *)
LEMMA ShownIsWhole ==
    ASSUME NEW run, Stored(run)
    PROVE  Runs!Assembled(run) = [head |-> 0 .. (Runs!HeadEnd(run.total) - 1),
                                  omitted |-> Runs!TailFrom(run.total) - Runs!HeadEnd(run.total),
                                  tail |-> Runs!TailFrom(run.total) .. (run.total - 1)]
  <1> DEFINE total == run.total
             head == {c \in run.chunks : c.from < HeadBytes}
             tail == run.chunks \ head
             first == Runs!Min({c.from : c \in tail})
             skipTo == Runs!CeilBoundary(first + Runs!Max({0, Cardinality(Runs!Bytes(tail)) - TailBytes}))
             H == Runs!HeadEnd(total)
             T == Runs!TailFrom(total)
  <1>1. total \in Nat /\ HeadBytes \in Nat \ {0} /\ TailBytes \in Nat \ {0}
    BY RunsAssumption DEF Stored
  <1>2. /\ Cut \in Nat /\ HeadBytes <= Cut /\ Late(total) \in Nat /\ total - TailBytes <= Late(total)
        /\ \A j \in Nat : total - TailBytes <= j /\ j \notin Inside => Late(total) <= j
        /\ H = IF total <= Cut THEN total ELSE Cut
        /\ T = IF total <= Cut THEN total ELSE IF Late(total) <= Cut THEN Cut ELSE Late(total)
    BY <1>1, HeadAndTail
  <1>3. \A c \in run.chunks : IsChunk(c, total)
    BY DEF Stored
  <1>4. Runs!Assembled(run)
           = IF tail = {} THEN [head |-> Runs!Bytes(head), omitted |-> 0, tail |-> {}]
             ELSE [head |-> Runs!Bytes(head), omitted |-> skipTo - Cardinality(Runs!Bytes(head)),
                   tail |-> {k \in Runs!Bytes(tail) : k >= skipTo}]
    <2>1. \A S : Runs!Cardinality(S) = Cardinality(S)
      BY DEF Runs!Cardinality, Cardinality
    <2> QED
      BY <2>1 DEF Runs!Assembled
  <1> HIDE DEF H, T
  <1>5. Runs!Bytes(head) = 0 .. (H - 1)
    <2>1. ASSUME NEW k \in Runs!Bytes(head) PROVE k \in 0 .. (H - 1)
      <3>1. PICK c \in head : k \in c.from .. (c.to - 1)
        BY DEF Runs!Bytes
      <3> QED
        BY <1>1, <1>2, <1>3, <3>1 DEF IsChunk
    <2>2. ASSUME NEW k \in 0 .. (H - 1) PROVE k \in Runs!Bytes(head)
      <3>1. k \in Nat /\ k < Cut /\ k < total
        BY <1>1, <1>2
      <3>2. PICK c \in run.chunks : c.from < HeadBytes /\ Holds(c, k)
        BY <3>1 DEF Stored, HeadKept
      <3>3. c \in head /\ k \in c.from .. (c.to - 1)
        BY <1>3, <3>1, <3>2 DEF IsChunk, Holds
      <3> QED
        BY <3>3 DEF Runs!Bytes
    <2> QED
      BY <2>1, <2>2
  <1>6. CASE tail = {}
    <2>1. total <= Cut
      <3>1. ASSUME total > Cut PROVE FALSE
        <4>1. PICK f \in run.chunks : TailStarts(run, f)
          BY <3>1 DEF Stored
        <4>2. f \in tail
          BY <1>1, <1>3, <4>1 DEF TailStarts, IsChunk
        <4> QED
          BY <1>6, <4>2
      <3> QED
        BY <1>1, <1>2, <3>1
    <2>2. H = total /\ T = total /\ T - H = 0 /\ T .. (total - 1) = {}
      BY <1>1, <1>2, <2>1
    <2> QED
      BY <1>4, <1>5, <1>6, <2>2 DEF H, T
  <1>7. CASE tail # {}
    <2>1. total > Cut
      <3>1. PICK c \in tail : TRUE
        BY <1>7
      <3>2. c \in run.chunks /\ c.from \in Nat /\ ~(c.from < HeadBytes)
        BY <1>3, <3>1 DEF IsChunk
      <3> QED
        BY <1>1, <1>2, <1>3, <3>2 DEF IsChunk
    <2>2. PICK f \in run.chunks : TailStarts(run, f)
      BY <2>1 DEF Stored
    <2>3. /\ f.from \in Nat /\ f.from < total /\ f.from >= Cut /\ f.from <= T /\ f.from \notin Inside
          /\ f \in tail
      BY <1>1, <1>2, <1>3, <2>2 DEF TailStarts, IsChunk, T
    <2>4. first = f.from
      <3> DEFINE F == {c.from : c \in tail}
      <3>1. F \subseteq Nat /\ f.from \in F
        BY <1>3, <2>3 DEF IsChunk
      <3>2. \A y \in F : f.from <= y
        BY <1>1, <1>3, <2>2 DEF TailStarts, IsChunk
      <3> HIDE DEF F
      <3>3. Runs!Min(F) \in F /\ Runs!Min(F) <= f.from
        BY <3>1, LeastOf
      <3>4. Runs!Min(F) \in Nat /\ f.from <= Runs!Min(F)
        BY <3>1, <3>2, <3>3
      <3>5. Runs!Min(F) = f.from
        BY <2>3, <3>3, <3>4
      <3> QED
        BY <3>5 DEF F
    <2>5. Runs!Bytes(tail) = f.from .. (total - 1)
      <3>1. ASSUME NEW k \in Runs!Bytes(tail) PROVE k \in f.from .. (total - 1)
        <4>1. PICK c \in tail : k \in c.from .. (c.to - 1)
          BY DEF Runs!Bytes
        <4>2. f.from <= c.from /\ c.from \in Nat /\ c.to \in Nat /\ c.to <= total
          BY <1>1, <1>3, <2>2, <4>1 DEF TailStarts, IsChunk
        <4> QED
          BY <1>1, <2>3, <4>1, <4>2
      <3>2. ASSUME NEW k \in f.from .. (total - 1) PROVE k \in Runs!Bytes(tail)
        <4>1. PICK c \in run.chunks : c.from >= HeadBytes /\ Holds(c, k)
          BY <2>2 DEF TailStarts
        <4>2. c \in tail /\ k \in c.from .. (c.to - 1)
          BY <1>1, <1>3, <2>3, <4>1 DEF IsChunk, Holds
        <4> QED
          BY <4>2 DEF Runs!Bytes
      <3> QED
        BY <3>1, <3>2
    <2>6. Cardinality(Runs!Bytes(tail)) = total - f.from
      <3> DEFINE last == total - 1
      <3>1. f.from \in Int /\ last \in Int /\ f.from <= last /\ last - f.from + 1 = total - f.from
        BY <1>1, <2>3
      <3> HIDE DEF last
      <3>2. Cardinality(f.from .. last) = last - f.from + 1
        BY <3>1, FS_Interval
      <3>3. Cardinality(f.from .. (total - 1)) = total - f.from
        BY <3>1, <3>2 DEF last
      <3> QED
        BY <2>5, <3>3
    <2>7. Cardinality(Runs!Bytes(head)) = H
      <3>1. H \in Nat
        BY <1>1, <1>2
      <3>2. Cardinality(0 .. (H - 1)) = H
        BY <3>1, FS_Interval
      <3> QED
        BY <1>5, <3>2
    <2>8. skipTo = T
      <3> DEFINE over == total - f.from - TailBytes
      <3>1. over \in Int
        BY <1>1, <2>3
      <3>2. skipTo = Runs!CeilBoundary(f.from + Runs!Max({0, over}))
        BY <2>4, <2>6
      <3> HIDE DEF over, skipTo
      <3>3. Runs!Max({0, over}) = IF 0 >= over THEN 0 ELSE over
        BY <3>1, MinMaxOfTwo
      <3>4. CASE 0 >= over
        <4>1. f.from + Runs!Max({0, over}) = f.from
          BY <2>3, <3>3, <3>4
        <4>2. LET c == Runs!CeilBoundary(f.from)
              IN  c \in Nat /\ f.from <= c /\ \A j \in Nat : f.from <= j /\ j \notin Inside => c <= j
          BY <2>3, CeilIsNext
        <4>3. skipTo = f.from
          BY <2>3, <3>2, <4>1, <4>2
        <4>4. Late(total) <= f.from
          BY <1>1, <1>2, <2>3, <3>4 DEF over
        <4> QED
          BY <1>1, <1>2, <2>1, <2>3, <4>3, <4>4
      <3>5. CASE over > 0
        <4>1. f.from + Runs!Max({0, over}) = total - TailBytes /\ total > TailBytes
          BY <1>1, <2>3, <3>3, <3>5 DEF over
        <4>2. skipTo = Late(total)
          BY <1>1, <3>2, <4>1 DEF Late
        <4>3. Late(total) > Cut
          BY <1>1, <1>2, <2>3, <3>5 DEF over
        <4> QED
          BY <1>1, <1>2, <2>1, <4>2, <4>3
      <3> QED
        BY <3>1, <3>4, <3>5
    <2>9. {k \in Runs!Bytes(tail) : k >= T} = T .. (total - 1)
      <3>1. T \in Nat
        BY <1>1, <1>2
      <3>2. {k \in f.from .. (total - 1) : k >= T} = T .. (total - 1)
        BY <1>1, <2>3, <3>1
      <3> QED
        BY <2>5, <3>2
    <2> HIDE DEF skipTo, head, tail
    <2> QED
      BY <1>4, <1>5, <1>7, <2>7, <2>8, <2>9 DEF H, T
  <1> QED
    BY <1>6, <1>7

-----------------------------------------------------------------------------
(* The runs of a deployment.                                               *)

Positions == 1 .. Len(PlannedRoots)
Active == {"pending", "running"}
Phases == {"idle", "plan", "mount", "script", "running", "exited", "finish",
           "unmount", "unmount_ok", "unmount_next", "done", "failed"}
Chunks == [from : Nat, to : Nat]
SomeRun == [state : {"open", "closed"}, exit : Int, total : Nat, chunks : SUBSET Chunks,
            attempt : Nat]

Shape ==
    /\ row \in Active \cup {"done", "failed", "cancelled"}
    /\ runs \in [Positions -> SomeRun \cup {Runs!NoRun}]
    /\ agent \in [pc : Phases, pos : Positions, exit : Int, attempt : Nat]
    /\ agent.pc = "unmount_next" => agent.pos < Len(PlannedRoots)
    /\ upload \in [pc : {"none", "opening", "checked", "open", "ended", "done", "broken", "cut"},
                   pos : Nat, pending : Nat, attempt : Nat]
    /\ ops \in Nat

(* The agent waits for its own upload; one that has no agent is cut off.   *)
Paired ==
    /\ agent.pc \in {"running", "exited"} =>
           /\ upload.pc \in {"opening", "checked", "open", "ended", "done", "broken"}
           /\ upload.attempt = agent.attempt
    /\ agent.pc = "idle" => upload.pc \in {"none", "cut"}
    /\ agent.pc \notin {"running", "exited", "idle"} => upload.pc = "none"
    /\ upload.pc # "none" => upload.pos \in Positions
    /\ agent.pc \in {"running", "exited"} => upload.pos = agent.pos
    /\ upload.pc \in {"opening", "checked"} => upload.pending = 0

Shown(p) == runs[p].state # "none"

(* The positions that the agent is done with.                              *)
Behind == 1 .. (IF agent.pc \in {"unmount_next", "unmount_ok", "done"}
                THEN agent.pos ELSE agent.pos - 1)

(* All runs are of one attempt; those behind the agent of its own, and     *)
(* while the row is running they exited with 0; those of an attempt that   *)
(* comes next carry a smaller number.                                      *)
Together ==
    /\ \A p, q \in Positions : Shown(p) /\ Shown(q) => runs[p].attempt = runs[q].attempt
    /\ \A p \in Positions : Shown(p) => runs[p].attempt <= ops
    /\ agent.attempt <= ops
InOrder ==
    agent.pc # "idle" =>
        /\ \A p \in Behind : Shown(p) => runs[p].attempt = agent.attempt
        /\ row = "running" =>
               /\ \A p \in Behind : /\ runs[p].state = "closed" /\ runs[p].exit = 0
                                    /\ runs[p].attempt = agent.attempt
               /\ \A p \in Positions :
                      Shown(p) /\ runs[p].attempt = agent.attempt => p <= agent.pos
Earlier ==
    agent.pc = "idle" /\ row \in Active =>
        \A p \in Positions : Shown(p) => runs[p].attempt < ops
AtHand ==
    /\ upload.pc \in {"open", "ended", "done"} /\ Shown(upload.pos) =>
           runs[upload.pos].attempt = upload.attempt
    /\ agent.pc = "finish" /\ Shown(agent.pos) => runs[agent.pos].attempt = agent.attempt

(* What is stored is well-formed, and a flush starts at a boundary.        *)
Outputs ==
    /\ \A p \in Positions : Shown(p) => Stored(runs[p])
    /\ \/ upload.pc \notin {"open", "ended", "cut"}
       \/ upload.pc = "cut" /\ upload.pending = 0
       \/ ~Shown(upload.pos)
       \/ runs[upload.pos].total \notin Inside

(* BoundedOutput's numbers.                                                *)
Counted ==
    /\ out \in [live : BOOLEAN, sent : Nat, tail : SUBSET Nat, omitted : Nat, made : Nat]
    /\ \A k \in out.tail : k < out.made
    /\ out.live => out.tail = {} /\ out.omitted = 0
    /\ Runs!NothingUncounted

RunsInv == /\ Shape /\ Paired /\ Together /\ InOrder /\ Earlier /\ AtHand /\ Outputs /\ Counted
           /\ Runs!SystemReleased
RunsInvariant == part = "runs" => RunsInv

(* Unaltered: runs that were only appended to, or closed.                  *)
Unaltered ==
    /\ runs' \in [Positions -> SomeRun \cup {Runs!NoRun}]
    /\ \A p \in Positions :
           /\ Shown(p)' <=> Shown(p)
           /\ Shown(p) => runs'[p].attempt = runs[p].attempt
           /\ runs[p].state = "closed" => runs'[p] = runs[p]

LEMMA LeavingKeeps ==
    ASSUME Shape, NEW state, state \in {"done", "failed", "cancelled"}, Runs!Leave(state)
    PROVE  /\ Unaltered /\ row' \in {"done", "failed", "cancelled"}
           /\ \A p \in Positions : Shown(p) => /\ runs'[p].total = runs[p].total
                                               /\ runs'[p].chunks = runs[p].chunks
  <1>1. CASE row \in Active
    <2>1. runs' = [p \in Positions |-> IF runs[p].state = "open"
                                       THEN [runs[p] EXCEPT !.state = "closed"] ELSE runs[p]]
      BY <1>1 DEF Runs!Leave, Runs!Closed, Runs!Positions, Positions, Active
    <2>2. row' = state
      BY <1>1 DEF Runs!Leave, Active
    <2>3. ASSUME NEW p \in Positions
          PROVE  /\ runs'[p] \in SomeRun \cup {Runs!NoRun}
                 /\ Shown(p)' <=> Shown(p)
                 /\ Shown(p) => /\ runs'[p].attempt = runs[p].attempt
                                /\ runs'[p].total = runs[p].total
                                /\ runs'[p].chunks = runs[p].chunks
                 /\ runs[p].state = "closed" => runs'[p] = runs[p]
      <3>1. CASE runs[p] = Runs!NoRun
        BY <2>1, <3>1 DEF Shown, Runs!NoRun
      <3>2. CASE runs[p] \in SomeRun
        BY <2>1, <3>2 DEF Shown, SomeRun
      <3> QED
        BY <3>1, <3>2 DEF Shape
    <2> QED
      BY <2>1, <2>2, <2>3 DEF Unaltered
  <1>2. CASE row \notin Active
    BY <1>2 DEF Runs!Leave, Active, Shape, Unaltered, Shown
  <1> QED
    BY <1>1, <1>2

LEMMA AppendingKeeps ==
    ASSUME Shape, Outputs, NEW n \in Nat \ {0}, NEW at \in Positions,
           runs[at].state = "open", runs[at].total \notin Inside,
           runs' = [runs EXCEPT ![at] = Runs!Appended(@, n)]
    PROVE  /\ Unaltered
           /\ \A p \in Positions : Shown(p) => Stored(runs'[p])
           /\ runs'[at].total = runs[at].total + n
  <1> DEFINE next == Runs!Appended(runs[at], n)
  <1>1. runs[at] \in SomeRun
    BY DEF Shape, Runs!NoRun
  <1>2. /\ runs'[at] = next /\ \A p \in Positions : p # at => runs'[p] = runs[p]
        /\ runs' = [p \in Positions |-> IF p = at THEN next ELSE runs[p]]
    BY DEF Shape
  <1>3. /\ next.total = runs[at].total + n
        /\ next.chunks = {c \in runs[at].chunks \cup Runs!KeptOutput(runs[at].total, next.total) :
                              ~(c.from >= HeadBytes /\ c.to <= next.total - TailBytes)}
        /\ next = [state |-> "open", exit |-> runs[at].exit, total |-> next.total,
                   chunks |-> next.chunks, attempt |-> runs[at].attempt]
    <2> DEFINE to == runs[at].total + n
               left == {c \in runs[at].chunks \cup Runs!KeptOutput(runs[at].total, to) :
                            ~(c.from >= HeadBytes /\ c.to <= to - TailBytes)}
    <2>1. next = [runs[at] EXCEPT !.total = to, !.chunks = left]
      BY DEF Runs!Appended
    <2> HIDE DEF left, to, next
    <2>2. next = [state |-> runs[at].state, exit |-> runs[at].exit, total |-> to,
                  chunks |-> left, attempt |-> runs[at].attempt]
      BY <1>1, <2>1 DEF SomeRun
    <2>3. next.total = to /\ next.chunks = left
      BY <2>2
    <2> QED
      BY <2>2, <2>3 DEF left, to
  <1> HIDE DEF next
  <1>4. Stored(next)
    <2>1. Stored(runs[at])
      BY DEF Outputs, Shown
    <2> QED
      BY <1>3, <2>1, AppendKeeps
  <1>5. next \in SomeRun
    <2>1. next.total \in Nat /\ next.chunks \subseteq Chunks
      BY <1>4 DEF Stored, IsChunk, Chunks
    <2> QED
      BY <1>1, <1>3, <2>1 DEF SomeRun
  <1>6. runs' \in [Positions -> SomeRun \cup {Runs!NoRun}]
    BY <1>2, <1>5 DEF Shape
  <1>7. next.state = "open" /\ next.attempt = runs[at].attempt
    BY <1>3
  <1> QED
    BY <1>2, <1>3, <1>4, <1>6, <1>7 DEF Unaltered, Outputs, Shown

LEMMA StartingAnew ==
    ASSUME Shape, Paired, Together, InOrder, Outputs, upload.pc = "checked",
           runs' = Runs!Started
    PROVE  /\ runs' \in [Positions -> SomeRun \cup {Runs!NoRun}]
           /\ \A p \in Positions :
                  /\ p < upload.pos => runs'[p] = runs[p]
                  /\ p > upload.pos => ~Shown(p)'
                  /\ Shown(p)' => runs'[p].attempt = agent.attempt /\ Stored(runs'[p])
           /\ runs'[upload.pos].total = 0 /\ runs'[upload.pos].state = "open"
           /\ upload.pos = agent.pos /\ upload.attempt = agent.attempt
           /\ agent.pc \in {"running", "exited"}
  <1>1. /\ upload.pos = agent.pos /\ upload.attempt = agent.attempt /\ upload.pos \in Positions
        /\ agent.pc \in {"running", "exited"} /\ agent.attempt \in Nat
    BY DEF Paired, Shape, Phases
  <1> DEFINE new == Runs!NewRun
  <1>2. /\ new = [state |-> "open", exit |-> -1, total |-> 0, chunks |-> {},
                  attempt |-> agent.attempt]
        /\ runs' = [p \in Positions |-> IF p < upload.pos THEN runs[p]
                                        ELSE IF p = upload.pos THEN new ELSE Runs!NoRun]
    BY <1>1 DEF Runs!Started, Runs!NewRun, Runs!Positions, Positions
  <1> HIDE DEF new
  <1>3. new \in SomeRun
    BY <1>1, <1>2 DEF SomeRun
  <1>4. Stored(new)
    <2>1. Cut \in Nat
      BY HeadAndTail, 0 \in Nat
    <2> QED
      BY <1>2, <2>1 DEF Stored, Apart, HeadKept
  <1>5. \A p \in Positions : p < upload.pos /\ Shown(p) => runs[p].attempt = agent.attempt
    BY <1>1 DEF InOrder, Behind, Positions, Shape
  <1>6. runs' \in [Positions -> SomeRun \cup {Runs!NoRun}]
    BY <1>2, <1>3 DEF Shape
  <1>7. new.attempt = agent.attempt /\ new.total = 0 /\ new.state = "open"
    BY <1>2
  <1>8. ASSUME NEW p \in Positions
        PROVE  /\ p < upload.pos => runs'[p] = runs[p]
               /\ p > upload.pos => ~Shown(p)'
               /\ Shown(p)' => runs'[p].attempt = agent.attempt /\ Stored(runs'[p])
    <2>1. p \in Int /\ upload.pos \in Int
      BY <1>1 DEF Positions
    <2>2. CASE p < upload.pos
      BY <1>2, <1>5, <2>1, <2>2 DEF Shown, Outputs
    <2>3. CASE p = upload.pos
      BY <1>2, <1>4, <1>7, <2>1, <2>3
    <2>4. CASE p > upload.pos
      BY <1>2, <2>1, <2>4 DEF Shown, Runs!NoRun
    <2> QED
      BY <2>1, <2>2, <2>3, <2>4
  <1>9. runs'[upload.pos] = new
    BY <1>1, <1>2 DEF Positions
  <1> QED
    BY <1>1, <1>6, <1>7, <1>8, <1>9

LEMMA ClosedRun ==
    ASSUME NEW run \in SomeRun, NEW code \in Int
    PROVE  [run EXCEPT !.state = "closed", !.exit = code]
               = [state |-> "closed", exit |-> code, total |-> run.total,
                  chunks |-> run.chunks, attempt |-> run.attempt]
  <1> DEFINE closed == [run EXCEPT !.state = "closed"]
  <1>1. closed = [state |-> "closed", exit |-> run.exit, total |-> run.total,
                  chunks |-> run.chunks, attempt |-> run.attempt]
    BY DEF SomeRun
  <1>2. [run EXCEPT !.state = "closed", !.exit = code] = [closed EXCEPT !.exit = code]
    OBVIOUS
  <1> HIDE DEF closed
  <1>3. [closed EXCEPT !.exit = code]
            = [state |-> "closed", exit |-> code, total |-> run.total,
               chunks |-> run.chunks, attempt |-> run.attempt]
    BY <1>1
  <1> QED
    BY <1>2, <1>3

LEMMA RootsExist == Len(PlannedRoots) \in Nat \ {0} /\ 1 \in Positions
  <1>1. Len(PlannedRoots) \in Nat \ {0}
    BY RunsAssumption
  <1> QED
    BY <1>1 DEF Positions

LEMMA BehindInRange ==
    ASSUME Shape
    PROVE  Behind \subseteq Positions
  BY DEF Behind, Shape, Positions

LEMMA StoredSame ==
    ASSUME NEW run, NEW next, Stored(run), next.total = run.total, next.chunks = run.chunks
    PROVE  Stored(next)
  BY DEF Stored, HeadKept, TailStarts

(* The system is released in every step that leaves the agent and what is  *)
(* mounted alone, and BoundedOutput's numbers in every step that leaves it *)
(* alone.                                                                  *)
LEMMA ReleasedSame ==
    ASSUME Runs!SystemReleased, mounts' = mounts, agent'.pc = agent.pc
    PROVE  Runs!SystemReleased'
  BY DEF Runs!SystemReleased

LEMMA CountedSame ==
    ASSUME Counted, UNCHANGED out
    PROVE  Counted'
  BY DEF Counted, Runs!NothingUncounted

-----------------------------------------------------------------------------
(* The row.                                                                *)

LEMMA CancelKeeps == ASSUME RunsInv, Runs!Cancel PROVE RunsInv'
  <1>0. /\ Shape /\ Paired /\ Together /\ InOrder /\ Earlier /\ AtHand /\ Outputs /\ Counted
        /\ Runs!SystemReleased
    BY DEF RunsInv
  <1>1. /\ ops' = ops + 1 /\ Runs!Leave("cancelled")
        /\ agent' = agent /\ mounts' = mounts /\ out' = out /\ upload' = upload
    BY DEF Runs!Cancel, Runs!Op
  <1>2. /\ Unaltered /\ row' \in {"done", "failed", "cancelled"}
        /\ \A p \in Positions : Shown(p) => /\ runs'[p].total = runs[p].total
                                            /\ runs'[p].chunks = runs[p].chunks
    BY <1>0, <1>1, LeavingKeeps
  <1>3. Shape' /\ Paired'
    BY <1>0, <1>1, <1>2 DEF Shape, Paired, Unaltered
  <1>4. Together'
    <2>1. \A p \in Positions : Shown(p)' => runs'[p].attempt \in Nat
      BY <1>0, <1>2 DEF Unaltered, SomeRun, Runs!NoRun, Shown
    <2> QED
      BY <1>0, <1>1, <1>2, <1>3, <2>1 DEF Together, Unaltered, Shape
  <1>5. InOrder' /\ Earlier'
    <2>1. Behind' = Behind /\ Behind \subseteq Positions
      BY <1>0, <1>1, BehindInRange DEF Behind
    <2> QED
      BY <1>0, <1>1, <1>2, <2>1 DEF InOrder, Earlier, Unaltered, Active
  <1>6. AtHand'
    BY <1>0, <1>1, <1>2 DEF AtHand, Unaltered, Paired, Shape
  <1>7. Outputs'
    <2>1. \A p \in Positions : Shown(p)' => Stored(runs'[p])
      BY <1>0, <1>2, StoredSame DEF Outputs, Unaltered
    <2> QED
      BY <1>0, <1>1, <1>2, <2>1 DEF Outputs, Unaltered, Paired
  <1> QED
    BY <1>0, <1>1, <1>3, <1>4, <1>5, <1>6, <1>7, ReleasedSame, CountedSame DEF RunsInv

LEMMA RetryKeeps == ASSUME RunsInv, Runs!Retry PROVE RunsInv'
  <1>0. /\ Shape /\ Paired /\ Together /\ InOrder /\ Earlier /\ AtHand /\ Outputs /\ Counted
        /\ Runs!SystemReleased
    BY DEF RunsInv
  <1>1. /\ ops' = ops + 1 /\ row' = "pending"
        /\ agent' = agent /\ mounts' = mounts /\ out' = out /\ upload' = upload
        /\ runs' = [p \in Positions |-> Runs!NoRun]
    BY DEF Runs!Retry, Runs!Op, Runs!Positions, Positions
  <1>2. \A p \in Positions : ~Shown(p)'
    BY <1>1 DEF Shown, Runs!NoRun
  <1>3. Shape' /\ Paired'
    BY <1>0, <1>1 DEF Shape, Paired, Active
  <1>4. Together' /\ Earlier'
    BY <1>0, <1>1, <1>2 DEF Together, Earlier, Shape
  <1>5. InOrder'
    BY <1>0, <1>1, <1>2 DEF InOrder, Behind, Shape, Positions
  <1>6. AtHand' /\ Outputs'
    BY <1>0, <1>1, <1>2 DEF AtHand, Outputs, Paired, Shape
  <1> QED
    BY <1>0, <1>1, <1>3, <1>4, <1>5, <1>6, ReleasedSame, CountedSame DEF RunsInv

LEMMA ReportKeeps == ASSUME RunsInv, Runs!Report PROVE RunsInv'
  <1>0. /\ Shape /\ Paired /\ Together /\ InOrder /\ Earlier /\ AtHand /\ Outputs /\ Counted
        /\ Runs!SystemReleased
    BY DEF RunsInv
  <1>1. /\ agent.pc \in {"done", "failed"} /\ Runs!Leave(agent.pc) /\ agent' = Runs!Idle
        /\ ops' = ops /\ mounts' = mounts /\ out' = out /\ upload' = upload
    BY DEF Runs!Report
  <1>2. /\ Unaltered /\ row' \in {"done", "failed", "cancelled"}
        /\ \A p \in Positions : Shown(p) => /\ runs'[p].total = runs[p].total
                                            /\ runs'[p].chunks = runs[p].chunks
    BY <1>0, <1>1, LeavingKeeps
  <1>3. agent' = [pc |-> "idle", pos |-> 1, exit |-> 0, attempt |-> 0] /\ 1 \in Positions
    BY <1>0, <1>1, RunsAssumption DEF Runs!Idle, Positions
  <1>4. Shape' /\ Paired'
    BY <1>0, <1>1, <1>2, <1>3 DEF Shape, Paired, Unaltered, Phases
  <1>5. Together'
    BY <1>0, <1>1, <1>2, <1>3 DEF Together, Unaltered, Shape
  <1>6. InOrder' /\ Earlier'
    BY <1>2, <1>3 DEF InOrder, Earlier, Active
  <1>7. AtHand'
    BY <1>0, <1>1, <1>2, <1>3 DEF AtHand, Unaltered, Paired
  <1>8. Outputs'
    <2>1. \A p \in Positions : Shown(p)' => Stored(runs'[p])
      BY <1>0, <1>2, StoredSame DEF Outputs, Unaltered
    <2> QED
      BY <1>0, <1>1, <1>2, <2>1 DEF Outputs, Unaltered, Paired
  <1>9. Runs!SystemReleased'
    BY <1>0, <1>1, <1>3 DEF Runs!SystemReleased
  <1> QED
    BY <1>0, <1>1, <1>4, <1>5, <1>6, <1>7, <1>8, <1>9, CountedSame DEF RunsInv

-----------------------------------------------------------------------------
(* The agent, on its own.                                                  *)

LEMMA StartKeeps == ASSUME RunsInv, Runs!Start PROVE RunsInv'
  <1>0. /\ Shape /\ Paired /\ Together /\ InOrder /\ Earlier /\ AtHand /\ Outputs /\ Counted
        /\ Runs!SystemReleased
    BY DEF RunsInv
  <1>1. /\ agent.pc = "idle" /\ row \in Active /\ upload.pc = "none" /\ row' = "running"
        /\ agent' = [pc |-> "plan", pos |-> 1, exit |-> 0, attempt |-> ops]
        /\ runs' = runs /\ mounts' = mounts /\ out' = out /\ upload' = upload /\ ops' = ops
    BY DEF Runs!Start, Runs!At, Runs!Idle, Runs!NoUpload, Active
  <1>2. Shape' /\ Paired'
    <2>1. Shape'
      BY <1>0, <1>1, RootsExist DEF Shape, Phases, Active
    <2>2. Paired'
      BY <1>1 DEF Paired
    <2> QED
      BY <2>1, <2>2
  <1>3. Together' /\ Earlier' /\ AtHand' /\ Outputs'
    BY <1>0, <1>1 DEF Together, Earlier, AtHand, Outputs, Shown, Shape
  <1>4. InOrder'
    <2>1. Behind' = {}
      BY <1>1 DEF Behind
    <2>2. \A p \in Positions : Shown(p) => runs[p].attempt \in Nat
      BY <1>0 DEF Shape, SomeRun, Shown, Runs!NoRun
    <2> QED
      BY <1>0, <1>1, <2>1, <2>2 DEF InOrder, Earlier, Shown, Shape
  <1>5. Runs!SystemReleased'
    BY <1>0, <1>1 DEF Runs!SystemReleased
  <1> QED
    BY <1>0, <1>1, <1>2, <1>3, <1>4, <1>5, CountedSame DEF RunsInv

LEMMA AgentGoes ==
    ASSUME RunsInv, NEW pc \in Phases \ {"idle", "running", "exited", "finish", "unmount_next"},
           agent.pc \notin {"idle", "running", "exited"},
           pc \in {"unmount_ok", "done"} => agent.pc = "unmount_ok",
           agent' = [agent EXCEPT !.pc = pc], UNCHANGED <<row, runs, out, upload, ops>>
    PROVE  (Runs!SystemReleased => RunsInv)'
  <1>0. /\ Shape /\ Paired /\ Together /\ InOrder /\ Earlier /\ AtHand /\ Outputs /\ Counted
    BY DEF RunsInv
  <1>1. agent' = [pc |-> pc, pos |-> agent.pos, exit |-> agent.exit, attempt |-> agent.attempt]
    BY <1>0 DEF Shape
  <1>2. Shape' /\ Paired'
    BY <1>0, <1>1 DEF Shape, Paired
  <1>3. Together' /\ Earlier' /\ AtHand' /\ Outputs'
    BY <1>0, <1>1 DEF Together, Earlier, AtHand, Outputs, Shown
  <1>4. InOrder'
    <2>1. Behind' \subseteq Behind
      BY <1>0, <1>1 DEF Behind, Shape, Positions
    <2> QED
      BY <1>0, <1>1, <2>1 DEF InOrder, Shown
  <1> QED
    BY <1>0, <1>1, <1>2, <1>3, <1>4, CountedSame DEF RunsInv

LEMMA PlanAndMountKeep == ASSUME RunsInv, Runs!Plan \/ Runs!Mount PROVE RunsInv'
  <1>0. Shape /\ Runs!SystemReleased
    BY DEF RunsInv
  <1>1. CASE Runs!Plan
    <2>1. PICK pc \in {"failed", "mount"} :
              /\ agent.pc = "plan" /\ agent' = [agent EXCEPT !.pc = pc]
              /\ UNCHANGED <<row, runs, mounts, out, upload, ops>>
      BY <1>1 DEF Runs!Plan, Runs!At, Runs!Go
    <2>2. Runs!SystemReleased'
      BY <1>0, <2>1 DEF Runs!SystemReleased
    <2> QED
      BY <2>1, <2>2, AgentGoes DEF Phases
  <1>2. CASE Runs!Mount
    <2>1. PICK pc \in {"failed", "script"} :
              /\ agent.pc = "mount" /\ agent' = [agent EXCEPT !.pc = pc]
              /\ UNCHANGED <<row, runs, out, upload, ops>>
              /\ pc = "failed" => mounts' = {}
      BY <1>2 DEF Runs!Mount, Runs!At, Runs!Go
    <2>2. agent'.pc = pc
      BY <1>0, <2>1 DEF Shape
    <2>3. Runs!SystemReleased'
      BY <2>1, <2>2 DEF Runs!SystemReleased
    <2> QED
      BY <2>1, <2>3, AgentGoes DEF Phases
  <1> QED
    BY <1>1, <1>2

LEMMA UnmountKeeps == ASSUME RunsInv, Runs!Unmount PROVE RunsInv'
  <1>0. /\ Shape /\ Paired /\ Together /\ InOrder /\ Earlier /\ AtHand /\ Outputs /\ Counted
    BY DEF RunsInv
  <1>1. /\ agent.pc \in {"unmount", "unmount_ok", "unmount_next"} /\ mounts' = {}
        /\ UNCHANGED <<row, runs, out, upload, ops>>
    BY DEF Runs!Unmount
  <1>2. Runs!SystemReleased'
    BY <1>1 DEF Runs!SystemReleased
  <1>3. CASE \E pc \in {"failed", "done"} : /\ agent' = [agent EXCEPT !.pc = pc]
                                            /\ pc = "done" => agent.pc = "unmount_ok"
    <2>1. PICK pc \in {"failed", "done"} : /\ agent' = [agent EXCEPT !.pc = pc]
                                           /\ pc = "done" => agent.pc = "unmount_ok"
      BY <1>3
    <2> QED
      BY <1>1, <1>2, <2>1, AgentGoes DEF Phases
  <1>4. CASE agent.pc = "unmount_next" /\ agent' = [agent EXCEPT !.pc = "mount", !.pos = @ + 1]
    <2>1. agent' = [pc |-> "mount", pos |-> agent.pos + 1, exit |-> agent.exit,
                    attempt |-> agent.attempt]
      BY <1>0, <1>4 DEF Shape
    <2>2. agent.pos + 1 \in Positions
      BY <1>0, <1>4, RootsExist DEF Shape, Positions
    <2>3. Shape' /\ Paired'
      BY <1>0, <1>1, <1>4, <2>1, <2>2 DEF Shape, Paired, Phases
    <2>4. Together' /\ Earlier' /\ AtHand' /\ Outputs'
      BY <1>0, <1>1, <2>1 DEF Together, Earlier, AtHand, Outputs, Shown
    <2>5. InOrder'
      <3>1. Behind' = Behind
        BY <1>0, <1>4, <2>1 DEF Behind, Shape, Positions
      <3>2. \A p \in Positions : p <= agent.pos => p <= agent'.pos
        BY <1>0, <2>1 DEF Shape, Positions
      <3> QED
        BY <1>0, <1>1, <1>4, <2>1, <3>1, <3>2 DEF InOrder, Shown
    <2> QED
      BY <1>0, <1>1, <1>2, <2>3, <2>4, <2>5, CountedSame DEF RunsInv
  <1> QED
    BY <1>1, <1>3, <1>4 DEF Runs!Unmount, Runs!At, Runs!Go

LEMMA FinishKeeps == ASSUME RunsInv, Runs!Finish PROVE RunsInv'
  <1>0. /\ Shape /\ Paired /\ Together /\ InOrder /\ Earlier /\ AtHand /\ Outputs /\ Counted
    BY DEF RunsInv
  <1> DEFINE open == row = "running" /\ runs[agent.pos].state = "open"
             closed == [runs EXCEPT ![agent.pos].state = "closed", ![agent.pos].exit = agent.exit]
             next == Runs!NextOf(agent.pos)
  <1>1. /\ agent.pc = "finish" /\ runs' = (IF open THEN closed ELSE runs)
        /\ IF open /\ agent.exit = 0
           THEN agent' = [agent EXCEPT !.pc = next, !.pos = IF next = "script" THEN @ + 1 ELSE @]
           ELSE agent' = [agent EXCEPT !.pc = "unmount"]
        /\ UNCHANGED <<row, mounts, out, upload, ops>>
    BY DEF Runs!Finish, Runs!At, Runs!Go
  <1>2. /\ agent.pos \in Positions /\ agent.pos \in Nat /\ upload.pc = "none"
        /\ Len(PlannedRoots) \in Nat
    <2>1. agent.pos \in Positions /\ upload.pc = "none"
      BY <1>0, <1>1 DEF Shape, Paired
    <2> QED
      BY <2>1, RootsExist DEF Positions
  <1>3. /\ next \in {"unmount_ok", "script", "unmount_next"}
        /\ next # "unmount_ok" => agent.pos < Len(PlannedRoots)
    BY <1>2 DEF Runs!NextOf, Positions
  <1> HIDE DEF next
  <1>4. CASE ~open
    <2>1. /\ agent' = [agent EXCEPT !.pc = "unmount"]
          /\ UNCHANGED <<row, runs, out, upload, ops>>
      BY <1>1, <1>4
    <2>2. agent'.pc = "unmount"
      BY <1>0, <2>1 DEF Shape
    <2>3. Runs!SystemReleased'
      BY <2>2 DEF Runs!SystemReleased
    <2> QED
      BY <1>1, <2>1, <2>3, AgentGoes DEF Phases
  <1>5. CASE open
    <2> DEFINE at == agent.pos
               ok == agent.exit = 0
    <2>1. /\ runs[at] \in SomeRun /\ runs[at].attempt = agent.attempt
          /\ row = "running"
      BY <1>0, <1>1, <1>2, <1>5 DEF Shape, AtHand, Shown, Runs!NoRun
    <2>2. /\ runs'[at] = [state |-> "closed", exit |-> agent.exit, total |-> runs[at].total,
                          chunks |-> runs[at].chunks, attempt |-> runs[at].attempt]
          /\ \A p \in Positions : p # at => runs'[p] = runs[p]
          /\ runs' \in [Positions -> SomeRun \cup {Runs!NoRun}]
      <3>1. runs' = [runs EXCEPT ![at] = [runs[at] EXCEPT !.state = "closed", !.exit = agent.exit]]
        BY <1>0, <1>1, <1>2, <1>5 DEF Shape
      <3>3. agent.exit \in Int
        BY <1>0 DEF Shape
      <3>2. [runs[at] EXCEPT !.state = "closed", !.exit = agent.exit]
                = [state |-> "closed", exit |-> agent.exit, total |-> runs[at].total,
                   chunks |-> runs[at].chunks, attempt |-> runs[at].attempt]
        BY <2>1, <3>3, ClosedRun
      <3> QED
        BY <1>0, <1>2, <2>1, <3>1, <3>2, <3>3 DEF Shape, SomeRun
    <2>3. /\ \A p \in Positions : Shown(p)' <=> Shown(p)
          /\ \A p \in Positions : /\ runs'[p].attempt = runs[p].attempt \/ ~Shown(p)
                                  /\ runs'[p].total = runs[p].total \/ ~Shown(p)
                                  /\ runs'[p].chunks = runs[p].chunks \/ ~Shown(p)
      <3> SUFFICES ASSUME NEW p \in Positions
                   PROVE  /\ Shown(p)' <=> Shown(p)
                          /\ runs'[p].attempt = runs[p].attempt
                          /\ runs'[p].total = runs[p].total
                          /\ runs'[p].chunks = runs[p].chunks
        OBVIOUS
      <3>1. CASE p = at
        BY <1>5, <2>2, <3>1 DEF Shown
      <3>2. CASE p # at
        BY <2>2, <3>2 DEF Shown
      <3> QED
        BY <3>1, <3>2
    <2>4. agent' = [pc |-> IF ok THEN next ELSE "unmount",
                    pos |-> IF ok /\ next = "script" THEN at + 1 ELSE at,
                    exit |-> agent.exit, attempt |-> agent.attempt]
      BY <1>0, <1>1, <1>5 DEF Shape
    <2>5. Shape' /\ Paired'
      <3>1. next = "script" => at + 1 \in Positions
        BY <1>2, <1>3 DEF Positions
      <3> QED
        BY <1>0, <1>1, <1>2, <1>3, <2>2, <2>4, <3>1 DEF Shape, Paired, Phases
    <2>6. Together' /\ Earlier' /\ AtHand'
      <3>1. Together'
        <4>1. agent'.attempt = agent.attempt /\ ops' = ops
          BY <1>1, <2>4
        <4> QED
          BY <1>0, <2>3, <4>1 DEF Together
      <3>2. agent'.pc \notin {"idle", "finish"}
        BY <1>3, <2>4
      <3> QED
        BY <1>1, <1>2, <3>1, <3>2 DEF Earlier, AtHand
    <2>7. Outputs'
      <3>1. \A p \in Positions : Shown(p)' => Stored(runs'[p])
        BY <1>0, <2>3, StoredSame DEF Outputs
      <3> QED
        BY <1>1, <1>2, <3>1 DEF Outputs
    <2>8. InOrder'
      <3>1. Behind = 1 .. (at - 1) /\ at \in 1 .. at /\ 1 .. at \subseteq Positions
        BY <1>1, <1>2 DEF Behind, Positions
      <3>2. /\ Behind' \subseteq 1 .. at
            /\ at \in Behind' => ok
            /\ at <= agent'.pos
        <4>1. CASE ~ok
          <5>1. agent'.pc = "unmount" /\ agent'.pos = at
            BY <2>4, <4>1
          <5>2. Behind' = 1 .. (at - 1)
            BY <5>1 DEF Behind
          <5> QED
            BY <1>2, <5>1, <5>2
        <4>2. CASE ok /\ next = "script"
          <5>1. agent'.pc = "script" /\ agent'.pos = at + 1
            BY <2>4, <4>2
          <5>2. Behind' = 1 .. (agent'.pos - 1)
            BY <5>1 DEF Behind
          <5> QED
            BY <1>2, <4>2, <5>1, <5>2
        <4>3. CASE ok /\ next \in {"unmount_ok", "unmount_next"}
          <5>1. agent'.pc = next /\ agent'.pos = at
            BY <2>4, <4>3
          <5>2. Behind' = 1 .. at
            BY <4>3, <5>1 DEF Behind
          <5> QED
            BY <1>2, <4>3, <5>1, <5>2
        <4> QED
          BY <1>3, <4>1, <4>2, <4>3
      <3>3. \A p \in Behind' : p \in Behind \/ (p = at /\ ok)
        <4>1. ASSUME NEW p \in Behind', p # at PROVE p \in Behind
          <5>1. p \in 1 .. at
            BY <3>2
          <5> QED
            BY <1>2, <3>1, <4>1, <5>1
        <4> QED
          BY <3>2, <4>1
      <3>4. runs[at].state # "closed"
        BY <1>5
      <3>5. \A p \in Behind : p # at /\ p \in Positions
        BY <1>2, <3>1
      <3>6. \A p \in Behind' : /\ runs'[p].state = "closed" /\ runs'[p].exit = 0
                               /\ runs'[p].attempt = agent.attempt
        BY <1>0, <1>1, <2>1, <2>2, <3>3, <3>5 DEF InOrder
      <3>7. \A p \in Positions : Shown(p)' /\ runs'[p].attempt = agent.attempt => p <= agent'.pos
        <4>1. \A p \in Positions : Shown(p)' /\ runs'[p].attempt = agent.attempt => p <= at
          BY <1>0, <1>1, <2>1, <2>3 DEF InOrder
        <4> QED
          BY <1>2, <2>4, <4>1 DEF Positions
      <3> QED
        BY <2>4, <3>6, <3>7 DEF InOrder
    <2>9. Runs!SystemReleased'
      BY <1>3, <2>4 DEF Runs!SystemReleased
    <2> QED
      BY <1>0, <1>1, <2>5, <2>6, <2>7, <2>8, <2>9, CountedSame DEF RunsInv
  <1> QED
    BY <1>4, <1>5

LEMMA UploadedKeeps == ASSUME RunsInv, Runs!Uploaded PROVE RunsInv'
  <1>0. /\ Shape /\ Paired /\ Together /\ InOrder /\ Earlier /\ AtHand /\ Outputs /\ Counted
    BY DEF RunsInv
  <1>1. /\ agent.pc = "exited" /\ upload.pc \in {"done", "broken"}
        /\ agent' = [agent EXCEPT !.pc = IF upload.pc = "done" THEN "finish" ELSE "unmount"]
        /\ upload' = [pc |-> "none", pos |-> 0, pending |-> 0, attempt |-> 0]
        /\ UNCHANGED <<row, runs, mounts, out, ops>>
    BY DEF Runs!Uploaded, Runs!At, Runs!Go, Runs!NoUpload
  <1>2. agent' = [pc |-> IF upload.pc = "done" THEN "finish" ELSE "unmount", pos |-> agent.pos,
                  exit |-> agent.exit, attempt |-> agent.attempt]
    BY <1>0, <1>1 DEF Shape
  <1>3. Shape' /\ Paired'
    BY <1>0, <1>1, <1>2 DEF Shape, Paired, Phases
  <1>4. Together' /\ Earlier' /\ Outputs'
    BY <1>0, <1>1, <1>2 DEF Together, Earlier, Outputs, Shown
  <1>5. AtHand'
    BY <1>0, <1>1, <1>2 DEF AtHand, Paired, Shown
  <1>6. InOrder'
    <2>1. Behind' = Behind
      BY <1>1, <1>2 DEF Behind
    <2> QED
      BY <1>0, <1>1, <1>2, <2>1 DEF InOrder, Shown
  <1>7. Runs!SystemReleased'
    BY <1>2 DEF Runs!SystemReleased
  <1> QED
    BY <1>0, <1>1, <1>3, <1>4, <1>5, <1>6, <1>7, CountedSame DEF RunsInv

-----------------------------------------------------------------------------
(* What the agent sends of an output.                                      *)

Buffers == [live : BOOLEAN, sent : Nat, tail : SUBSET Nat, omitted : Nat, made : Nat]

LEMMA HeldIs ==
    ASSUME NEW b, b.made \in Nat, b.tail \subseteq Nat, \A k \in b.tail : k < b.made
    PROVE  /\ Runs!HeldFrom(b) \in Nat /\ Runs!HeldFrom(b) <= b.made
           /\ b.tail = {} => Runs!HeldFrom(b) = b.made
           /\ b.tail # {} => Runs!HeldFrom(b) \in b.tail
           /\ \A k \in b.tail : Runs!HeldFrom(b) <= k
  <1>1. CASE b.tail = {}
    BY <1>1 DEF Runs!HeldFrom
  <1>2. CASE b.tail # {}
    <2>1. Runs!Min(b.tail) \in b.tail /\ \A k \in b.tail : Runs!Min(b.tail) <= k
      BY <1>2, LeastOf
    <2> QED
      BY <1>2, <2>1 DEF Runs!HeldFrom
  <1> QED
    BY <1>1, <1>2

(* LineCounts: a line that bounded takes is sent, held back, or counted.   *)
LEMMA LineCounts ==
    ASSUME Counted, NEW n \in Nat \ {0}, out' = Runs!Bounded(out, n)
    PROVE  Counted' /\ out'.sent >= out.sent
  <1> DEFINE made == out.made + n
             tail == {k \in out.tail \cup {out.made} : made - k <= KeptBytes}
             next == [out EXCEPT !.live = FALSE, !.made = made, !.tail = tail]
             from == Runs!HeldFrom(out)
             then == Runs!HeldFrom(next)
  <1>1. /\ out \in Buffers /\ \A k \in out.tail : k < out.made
        /\ out.live => out.tail = {} /\ out.omitted = 0
        /\ out.made = out.sent + (out.made - from) + out.omitted
        /\ out.made - from <= KeptBytes
    BY DEF Counted, Buffers, Runs!NothingUncounted, Runs!Held
  <1>2. /\ out.made \in Nat /\ out.sent \in Nat /\ out.omitted \in Nat /\ out.tail \subseteq Nat
        /\ made \in Nat /\ out.made < made
    BY <1>1 DEF Buffers
  <1>3. /\ from \in Nat /\ from <= out.made /\ \A k \in out.tail : from <= k
        /\ out.tail = {} => from = out.made
    BY <1>1, <1>2, HeldIs
  <1>4. KeptBytes \in Nat
    BY RunsAssumption
  <1>5. CASE out.live /\ out.sent + n <= LiveBytes
    <2>1. out' = [live |-> TRUE, sent |-> out.sent + n, tail |-> {}, omitted |-> 0,
                  made |-> made]
      <3>1. out' = [out EXCEPT !.sent = @ + n, !.made = @ + n]
        BY <1>5 DEF Runs!Bounded
      <3> QED
        BY <1>1, <1>5, <3>1 DEF Buffers
    <2>2. out.made = out.sent
      BY <1>1, <1>2, <1>3, <1>5
    <2>3. Runs!HeldFrom(out') = made
      BY <2>1 DEF Runs!HeldFrom
    <2>4. out' \in Buffers
      BY <1>2, <2>1 DEF Buffers
    <2> QED
      BY <1>2, <1>4, <2>1, <2>2, <2>3, <2>4 DEF Counted, Buffers, Runs!NothingUncounted, Runs!Held
  <1>6. CASE ~(out.live /\ out.sent + n <= LiveBytes)
    <2>1. out' = [next EXCEPT !.omitted = @ + then - from]
      <3> DEFINE sent == [out EXCEPT !.sent = @ + n, !.made = @ + n]
                 held == [next EXCEPT !.omitted = @ + then - from]
      <3>1. out' = IF out.live /\ out.sent + n <= LiveBytes THEN sent ELSE held
        BY DEF Runs!Bounded
      <3> HIDE DEF sent, held
      <3>2. out' = held
        BY <1>6, <3>1
      <3> QED
        BY <3>2 DEF held
    <2>2. \A k \in tail : k \in Nat /\ k < made /\ from <= k /\ made - k <= KeptBytes
      BY <1>1, <1>2, <1>3
    <2> HIDE DEF tail
    <2>3. /\ ~next.live /\ next.sent = out.sent /\ next.tail = tail
          /\ next.omitted = out.omitted /\ next.made = made
      BY <1>1 DEF Buffers
    <2>4. next \in Buffers
      BY <1>1, <1>2, <2>2 DEF Buffers
    <2> HIDE DEF next
    <2>5. /\ then \in Nat /\ then <= made
          /\ tail = {} => then = made
          /\ tail # {} => then \in tail
      BY <1>2, <2>2, <2>3, HeldIs
    <2>6. from <= then /\ made - then <= KeptBytes
      BY <1>2, <1>3, <1>4, <2>2, <2>5
    <2> HIDE DEF then
    <2>7. out.omitted + then - from \in Nat
      BY <1>2, <1>3, <2>5, <2>6
    <2>8. /\ ~out'.live /\ out'.sent = out.sent /\ out'.tail = tail
          /\ out'.omitted = out.omitted + then - from /\ out'.made = made
          /\ out' \in Buffers
      <3> DEFINE omitted == out.omitted + then - from
      <3>1. out' = [next EXCEPT !.omitted = omitted]
        BY <2>1, <2>3
      <3> HIDE DEF omitted
      <3>2. omitted \in Nat
        BY <2>7 DEF omitted
      <3>3. /\ ~out'.live /\ out'.sent = out.sent /\ out'.tail = tail
            /\ out'.omitted = omitted /\ out'.made = made /\ out' \in Buffers
        BY <2>3, <2>4, <3>1, <3>2 DEF Buffers
      <3> QED
        BY <3>3 DEF omitted
    <2>9. Runs!HeldFrom(out') = then
      BY <2>3, <2>8 DEF Runs!HeldFrom, then
    <2>10. out'.made = out'.sent + (out'.made - then) + out'.omitted
      BY <1>1, <1>2, <1>3, <2>5, <2>8
    <2> QED
      BY <1>2, <2>2, <2>6, <2>8, <2>9, <2>10
         DEF Counted, Buffers, Runs!NothingUncounted, Runs!Held
  <1> QED
    BY <1>5, <1>6

LEMMA SpawnKeeps == ASSUME RunsInv, Runs!Spawn PROVE RunsInv'
  <1>0. /\ Shape /\ Paired /\ Together /\ InOrder /\ Earlier /\ AtHand /\ Outputs
    BY DEF RunsInv
  <1>1. /\ agent.pc = "script" /\ agent' = [agent EXCEPT !.pc = "running"] /\ out' = Runs!Fresh
        /\ upload' = [pc |-> "opening", pos |-> agent.pos, pending |-> 0,
                      attempt |-> agent.attempt]
        /\ UNCHANGED <<row, runs, mounts, ops>>
    BY DEF Runs!Spawn, Runs!At, Runs!Go, Runs!NoUpload
  <1>2. agent' = [pc |-> "running", pos |-> agent.pos, exit |-> agent.exit,
                  attempt |-> agent.attempt]
    BY <1>0, <1>1 DEF Shape
  <1>3. Shape'
    BY <1>0, <1>1, <1>2 DEF Shape, Phases, Positions
  <1>4. Paired'
    BY <1>0, <1>1, <1>2 DEF Paired, Shape
  <1>5. Together' /\ Earlier' /\ AtHand' /\ Outputs'
    BY <1>0, <1>1, <1>2 DEF Together, Earlier, AtHand, Outputs, Shown
  <1>6. InOrder'
    <2>1. Behind' = Behind
      BY <1>1, <1>2 DEF Behind
    <2> QED
      BY <1>0, <1>1, <1>2, <2>1 DEF InOrder, Shown
  <1>7. Counted'
    <2>1. out' = [live |-> TRUE, sent |-> 0, tail |-> {}, omitted |-> 0, made |-> 0]
      BY <1>1 DEF Runs!Fresh
    <2>2. Runs!HeldFrom(out') = 0
      BY <2>1 DEF Runs!HeldFrom
    <2> QED
      BY <2>1, <2>2, RunsAssumption DEF Counted, Runs!NothingUncounted, Runs!Held
  <1>8. Runs!SystemReleased'
    BY <1>2 DEF Runs!SystemReleased
  <1> QED
    BY <1>3, <1>4, <1>5, <1>6, <1>7, <1>8 DEF RunsInv

LEMMA PrintLineKeeps ==
    ASSUME RunsInv, NEW n \in Lines, Runs!PrintLine(n) PROVE RunsInv'
  <1>0. /\ Shape /\ Paired /\ Together /\ InOrder /\ Earlier /\ AtHand /\ Outputs /\ Counted
        /\ Runs!SystemReleased
    BY DEF RunsInv
  <1>1. /\ out' = Runs!Bounded(out, n) /\ upload.pc \in {"open", "broken"}
        /\ upload' = (IF upload.pc = "open"
                      THEN [upload EXCEPT !.pending = @ + out'.sent - out.sent] ELSE upload)
        /\ UNCHANGED <<row, runs, agent, mounts, ops>>
    BY DEF Runs!PrintLine
  <1>2. Counted' /\ out'.sent >= out.sent
    BY <1>0, <1>1, LineCounts, RunsAssumption
  <1>3. out'.sent \in Nat /\ out.sent \in Nat
    BY <1>0, <1>2 DEF Counted
  <1>5. upload' \in [pc : {"open", "broken"}, pos : Nat, pending : Nat, attempt : Nat]
        /\ upload'.pc = upload.pc /\ upload'.pos = upload.pos /\ upload'.attempt = upload.attempt
    <2>1. CASE upload.pc = "open"
      <3> DEFINE pending == upload.pending + out'.sent - out.sent
      <3>1. pending \in Nat
        BY <1>0, <1>2, <1>3 DEF Shape
      <3>2. upload' = [upload EXCEPT !.pending = pending]
        BY <1>1, <2>1
      <3> HIDE DEF pending
      <3> QED
        BY <1>0, <2>1, <3>1, <3>2 DEF Shape
    <2>2. CASE upload.pc = "broken"
      BY <1>0, <1>1, <2>2 DEF Shape
    <2> QED
      BY <1>1, <2>1, <2>2
  <1>6. Shape' /\ Paired'
    BY <1>0, <1>1, <1>5 DEF Shape, Paired
  <1>7. Together' /\ Earlier' /\ AtHand' /\ Outputs'
    BY <1>0, <1>1, <1>5 DEF Together, Earlier, AtHand, Outputs, Shown
  <1>8. InOrder'
    <2>1. Behind' = Behind
      BY <1>1 DEF Behind
    <2> QED
      BY <1>0, <1>1, <2>1 DEF InOrder, Shown
  <1> QED
    BY <1>0, <1>1, <1>2, <1>6, <1>7, <1>8, ReleasedSame DEF RunsInv

LEMMA ExitKeeps ==
    ASSUME RunsInv, NEW code \in {0, 1}, Runs!Exit(code) PROVE RunsInv'
  <1>0. /\ Shape /\ Paired /\ Together /\ InOrder /\ Earlier /\ AtHand /\ Outputs /\ Counted
        /\ Runs!SystemReleased
    BY DEF RunsInv
  <1>1. /\ agent.pc = "running" /\ upload.pc \in {"open", "broken"}
        /\ agent' = [agent EXCEPT !.pc = "exited", !.exit = code]
        /\ upload' = (IF upload.pc = "open"
                      THEN [upload EXCEPT !.pc = "ended", !.pending = @ + Runs!Rest(out)] ELSE upload)
        /\ UNCHANGED <<row, runs, mounts, out, ops>>
    BY DEF Runs!Exit, Runs!At
  <1>2. agent'.pc = "exited" /\ agent'.pos = agent.pos /\ agent'.attempt = agent.attempt
        /\ agent' \in [pc : Phases, pos : Positions, exit : Int, attempt : Nat]
    <2> DEFINE exited == [agent EXCEPT !.pc = "exited"]
    <2>1. exited = [pc |-> "exited", pos |-> agent.pos, exit |-> agent.exit,
                    attempt |-> agent.attempt]
      BY <1>0 DEF Shape
    <2>2. agent' = [exited EXCEPT !.exit = code]
      BY <1>1
    <2> HIDE DEF exited
    <2>3. agent' = [pc |-> "exited", pos |-> agent.pos, exit |-> code, attempt |-> agent.attempt]
      BY <2>1, <2>2
    <2> QED
      BY <1>0, <2>3 DEF Shape, Phases
  <1>3. Runs!Rest(out) \in Nat
    <2>1. Runs!HeldFrom(out) \in Nat /\ Runs!HeldFrom(out) <= out.made /\ out.made \in Nat
      BY <1>0, HeldIs DEF Counted
    <2> QED
      BY <2>1, RunsAssumption DEF Runs!Rest, Runs!Held
  <1>4. /\ upload' \in [pc : {"ended", "broken"}, pos : Nat, pending : Nat, attempt : Nat]
        /\ upload'.pc = "ended" => upload.pc = "open"
        /\ upload'.pos = upload.pos /\ upload'.attempt = upload.attempt
    <2>1. upload.pending \in Nat /\ upload.pending + Runs!Rest(out) \in Nat
      BY <1>0, <1>3 DEF Shape
    <2> HIDE <1>3
    <2> QED
      BY <1>0, <1>1, <2>1 DEF Shape
  <1>5. Shape' /\ Paired'
    BY <1>0, <1>1, <1>2, <1>4 DEF Shape, Paired
  <1>6. Together' /\ Earlier' /\ AtHand' /\ Outputs'
    BY <1>0, <1>1, <1>2, <1>4 DEF Together, Earlier, AtHand, Outputs, Shown
  <1>7. InOrder'
    <2>1. Behind' = Behind
      BY <1>1, <1>2 DEF Behind
    <2> QED
      BY <1>0, <1>1, <1>2, <2>1 DEF InOrder, Shown
  <1>8. Runs!SystemReleased'
    BY <1>2 DEF Runs!SystemReleased
  <1> QED
    BY <1>0, <1>1, <1>5, <1>6, <1>7, <1>8, CountedSame DEF RunsInv

-----------------------------------------------------------------------------
(* The server.                                                             *)

LEMMA UploadChecksKeeps == ASSUME RunsInv, Runs!UploadChecks PROVE RunsInv'
  <1>0. /\ Shape /\ Paired /\ Together /\ InOrder /\ Earlier /\ AtHand /\ Outputs /\ Counted
        /\ Runs!SystemReleased
    BY DEF RunsInv
  <1>1. PICK pc \in {"checked", "broken"} :
            /\ upload.pc = "opening" /\ upload' = [upload EXCEPT !.pc = pc]
            /\ UNCHANGED <<row, runs, agent, mounts, out, ops>>
    BY DEF Runs!UploadChecks
  <1>2. upload' = [pc |-> pc, pos |-> upload.pos, pending |-> upload.pending,
                   attempt |-> upload.attempt]
    BY <1>0, <1>1 DEF Shape
  <1>3. Shape' /\ Paired'
    BY <1>0, <1>1, <1>2 DEF Shape, Paired
  <1>4. Together' /\ Earlier' /\ AtHand' /\ Outputs'
    BY <1>0, <1>1, <1>2 DEF Together, Earlier, AtHand, Outputs, Shown
  <1>5. InOrder'
    <2>1. Behind' = Behind
      BY <1>1 DEF Behind
    <2> QED
      BY <1>0, <1>1, <2>1 DEF InOrder, Shown
  <1> QED
    BY <1>0, <1>1, <1>3, <1>4, <1>5, ReleasedSame, CountedSame DEF RunsInv

LEMMA StartRunKeeps == ASSUME RunsInv, Runs!StartRun PROVE RunsInv'
  <1>0. /\ Shape /\ Paired /\ Together /\ InOrder /\ Earlier /\ AtHand /\ Outputs /\ Counted
        /\ Runs!SystemReleased
    BY DEF RunsInv
  <1>1. /\ upload.pc = "checked" /\ upload' = [upload EXCEPT !.pc = "open"]
        /\ runs' = Runs!Started
        /\ UNCHANGED <<row, agent, mounts, out, ops>>
    BY DEF Runs!StartRun
  <1>2. upload' = [pc |-> "open", pos |-> upload.pos, pending |-> upload.pending,
                   attempt |-> upload.attempt]
    BY <1>0, <1>1 DEF Shape
  <1>3. /\ runs' \in [Positions -> SomeRun \cup {Runs!NoRun}]
        /\ \A p \in Positions :
               /\ p < upload.pos => runs'[p] = runs[p]
               /\ p > upload.pos => ~Shown(p)'
               /\ Shown(p)' => runs'[p].attempt = agent.attempt /\ Stored(runs'[p])
        /\ runs'[upload.pos].total = 0
        /\ upload.pos = agent.pos /\ upload.attempt = agent.attempt
        /\ agent.pc \in {"running", "exited"}
    BY <1>0, <1>1, StartingAnew
  <1>4. Shape' /\ Paired'
    BY <1>0, <1>1, <1>2, <1>3 DEF Shape, Paired
  <1>5. Together'
    BY <1>0, <1>1, <1>3 DEF Together, Shape
  <1>6. Earlier' /\ AtHand' /\ Outputs'
    <2>1. 0 \notin Inside /\ upload.pos \in Positions
      BY <1>0, <1>1, RunsAssumption DEF Paired
    <2> QED
      BY <1>1, <1>2, <1>3, <2>1 DEF Earlier, AtHand, Outputs
  <1>7. InOrder'
    <2>1. Behind' = Behind /\ Behind = 1 .. (agent.pos - 1) /\ Behind \subseteq Positions
      BY <1>0, <1>1, <1>3, BehindInRange DEF Behind
    <2>2. agent.pos \in Int
      BY <1>0 DEF Shape, Positions
    <2>3. \A p \in Behind : runs'[p] = runs[p]
      BY <1>3, <2>1, <2>2
    <2>4. \A p \in Positions : Shown(p)' => p <= agent.pos
      BY <1>3, <2>2 DEF Positions
    <2> QED
      BY <1>0, <1>1, <1>3, <2>1, <2>3, <2>4 DEF InOrder, Shown
  <1> QED
    BY <1>0, <1>1, <1>4, <1>5, <1>6, <1>7, ReleasedSame, CountedSame DEF RunsInv

(* Unaltered runs stay of one attempt and in order.                        *)
LEMMA UnalteredInOrder ==
    ASSUME Shape, Together, InOrder, Earlier, Unaltered, UNCHANGED <<row, agent, ops>>
    PROVE  Together' /\ InOrder' /\ Earlier'
  <1>1. Together'
    BY DEF Together, Unaltered
  <1>2. InOrder'
    <2>1. Behind' = Behind /\ Behind \subseteq Positions
      BY BehindInRange DEF Behind
    <2>2. \A p \in Positions : Shown(p)' => runs'[p].attempt = runs[p].attempt
      BY DEF Unaltered
    <2>3. agent.pc # "idle" /\ row = "running" =>
              \A p \in Behind : /\ runs'[p].state = "closed" /\ runs'[p].exit = 0
                                /\ runs'[p].attempt = agent.attempt
      BY <2>1 DEF InOrder, Unaltered
    <2>4. agent.pc # "idle" => \A p \in Behind : Shown(p)' => runs'[p].attempt = agent.attempt
      BY <2>1, <2>2 DEF InOrder, Unaltered
    <2>5. agent.pc # "idle" /\ row = "running" =>
              \A p \in Positions : Shown(p)' /\ runs'[p].attempt = agent.attempt => p <= agent.pos
      BY <2>2 DEF InOrder, Unaltered
    <2> QED
      BY <2>1, <2>3, <2>4, <2>5 DEF InOrder
  <1>3. Earlier'
    BY DEF Earlier, Unaltered
  <1> QED
    BY <1>1, <1>2, <1>3

LEMMA AppendOutputKeeps ==
    ASSUME RunsInv, upload.pc \in {"open", "ended"}, Shown(upload.pos),
           NEW n \in Nat, n <= upload.pending, NEW pc \in {"open", "ended", "done"},
           pc # "done" => runs[upload.pos].total + n \notin Inside,
           Runs!AppendOutput(n, pc), UNCHANGED <<row, agent, mounts, out, ops>>
    PROVE  RunsInv'
  <1>0. /\ Shape /\ Paired /\ Together /\ InOrder /\ Earlier /\ AtHand /\ Outputs /\ Counted
        /\ Runs!SystemReleased
    BY DEF RunsInv
  <1>1. /\ agent.pc \in {"running", "exited"} /\ upload.pos \in Positions
        /\ runs[upload.pos].total \notin Inside
    BY <1>0 DEF Paired, Outputs
  <1> DEFINE at == upload.pos
  <1>2. /\ upload' \in [pc : {"open", "ended", "done", "broken"}, pos : Nat, pending : Nat,
                        attempt : Nat]
        /\ upload'.pos = at /\ upload'.attempt = upload.attempt
        /\ \/ upload'.pc = "broken" /\ runs' = runs
           \/ upload'.pc = pc /\ n = 0 /\ runs' = runs
           \/ /\ upload'.pc = pc /\ n # 0 /\ runs[at].state = "open"
              /\ runs' = [runs EXCEPT ![at] = Runs!Appended(@, n)]
    <2>1. CASE n = 0
      <3>1. upload' = [upload EXCEPT !.pc = pc] /\ runs' = runs
        BY <2>1 DEF Runs!AppendOutput
      <3> QED
        BY <1>0, <2>1, <3>1 DEF Shape
    <2>2. CASE n # 0 /\ runs[at].state = "open"
      <3> DEFINE pending == upload.pending - n
                 less == [upload EXCEPT !.pending = pending]
      <3>1. /\ upload' = [upload EXCEPT !.pending = pending, !.pc = pc]
            /\ runs' = [runs EXCEPT ![at] = Runs!Appended(@, n)]
        BY <2>2 DEF Runs!AppendOutput
      <3>2. pending \in Nat
        BY <1>0 DEF Shape
      <3> HIDE DEF pending
      <3>3. upload' = [less EXCEPT !.pc = pc]
        BY <3>1
      <3>4. less = [pc |-> upload.pc, pos |-> at, pending |-> pending,
                    attempt |-> upload.attempt]
        BY <1>0 DEF Shape
      <3> HIDE DEF less
      <3>5. upload' = [pc |-> pc, pos |-> at, pending |-> pending, attempt |-> upload.attempt]
        BY <3>3, <3>4
      <3> QED
        BY <1>0, <2>2, <3>1, <3>2, <3>5 DEF Shape
    <2>3. CASE n # 0 /\ runs[at].state # "open"
      <3>1. upload' = [upload EXCEPT !.pc = "broken"] /\ runs' = runs
        BY <2>3 DEF Runs!AppendOutput
      <3> QED
        BY <1>0, <3>1 DEF Shape
    <2> QED
      BY <2>1, <2>2, <2>3
  <1>3. /\ Unaltered
        /\ \A p \in Positions : Shown(p) => Stored(runs'[p])
        /\ upload'.pc # "broken" => runs'[at].total = runs[at].total + n
    <2>1. CASE runs' = runs /\ (n = 0 \/ upload'.pc = "broken")
      <3>1. Shown(at)
        OBVIOUS
      <3>2. runs[at].total \in Nat
        BY <1>0, <1>1, <3>1 DEF Outputs, Stored
      <3>3. runs[at].total + 0 = runs[at].total
        BY <3>2
      <3>4. upload'.pc # "broken" => runs'[at].total = runs[at].total + n
        BY <2>1, <3>3
      <3>5. Unaltered /\ \A p \in Positions : Shown(p) => Stored(runs'[p])
        BY <1>0, <2>1 DEF Shape, Unaltered, Shown, Outputs
      <3> QED
        BY <3>4, <3>5
    <2>2. CASE /\ n # 0 /\ runs[at].state = "open"
               /\ runs' = [runs EXCEPT ![at] = Runs!Appended(@, n)]
      BY <1>0, <1>1, <2>2, AppendingKeeps
    <2> QED
      BY <1>2, <2>1, <2>2
  <1>4. Shape' /\ Paired'
    BY <1>0, <1>1, <1>2, <1>3 DEF Shape, Paired, Unaltered
  <1>5. Together' /\ InOrder' /\ Earlier'
    BY <1>0, <1>3, UnalteredInOrder
  <1>6. AtHand'
    BY <1>0, <1>1, <1>2, <1>3 DEF AtHand, Unaltered
  <1>7. Outputs'
    <2>1. \A p \in Positions : Shown(p)' => Stored(runs'[p])
      BY <1>3 DEF Unaltered
    <2>2. upload'.pc \in {"open", "ended", "cut"} => runs'[at].total \notin Inside
      BY <1>2, <1>3
    <2> QED
      BY <1>2, <2>1, <2>2 DEF Outputs
  <1> QED
    BY <1>0, <1>4, <1>5, <1>6, <1>7, ReleasedSame, CountedSame DEF RunsInv

(* DecodedIs: what is decoded ends at a boundary.                          *)
LEMMA DecodedIs ==
    ASSUME Shape, Outputs, upload.pos \in Positions, Shown(upload.pos)
    PROVE  /\ Runs!Decoded \in Int /\ Runs!Decoded <= upload.pending
           /\ runs[upload.pos].total \in Nat
           /\ runs[upload.pos].total + Runs!Decoded \notin Inside
  <1> DEFINE total == runs[upload.pos].total
             upTo == Runs!FloorBoundary(total + upload.pending)
  <1>1. total \in Nat /\ upload.pending \in Nat
    BY DEF Shape, Outputs, Stored
  <1>2. total + upload.pending \in Nat
    BY <1>1
  <1>3. upTo \in 0 .. (total + upload.pending) /\ upTo \notin Inside
    BY <1>2, FloorIsLast
  <1>4. Runs!Decoded = upTo - total
    BY DEF Runs!Decoded
  <1> HIDE DEF total, upTo
  <1>5. total + (upTo - total) = upTo
    BY <1>1, <1>3
  <1> QED
    BY <1>1, <1>3, <1>4, <1>5 DEF total

LEMMA BreakingKeeps ==
    ASSUME RunsInv, upload.pc \in {"open", "ended"}, NEW pc \in {"broken", "done"},
           upload' = [upload EXCEPT !.pc = pc], ~Shown(upload.pos),
           UNCHANGED <<row, runs, agent, mounts, out, ops>>
    PROVE  RunsInv'
  <1>0. /\ Shape /\ Paired /\ Together /\ InOrder /\ Earlier /\ AtHand /\ Outputs /\ Counted
        /\ Runs!SystemReleased
    BY DEF RunsInv
  <1>1. upload' = [pc |-> pc, pos |-> upload.pos, pending |-> upload.pending,
                   attempt |-> upload.attempt]
    BY <1>0 DEF Shape
  <1>2. Shape' /\ Paired'
    BY <1>0, <1>1 DEF Shape, Paired
  <1>3. Together' /\ InOrder' /\ Earlier'
    <2>1. Unaltered
      BY <1>0 DEF Shape, Unaltered, Shown
    <2> QED
      BY <1>0, <2>1, UnalteredInOrder
  <1>4. AtHand' /\ Outputs'
    BY <1>0, <1>1 DEF AtHand, Outputs, Shown
  <1> QED
    BY <1>0, <1>2, <1>3, <1>4, ReleasedSame, CountedSame DEF RunsInv

LEMMA FlushKeeps == ASSUME RunsInv, Runs!Flush PROVE RunsInv'
  <1>0. Shape /\ Paired /\ Outputs
    BY DEF RunsInv
  <1>1. /\ upload.pc \in {"open", "ended"}
        /\ UNCHANGED <<row, agent, mounts, out, ops>>
    BY DEF Runs!Flush
  <1>2. upload.pos \in Positions /\ (Runs!HasRun <=> Shown(upload.pos))
    BY <1>0, <1>1 DEF Paired, Runs!HasRun, Shown
  <1>3. CASE Shown(upload.pos)
    <2>1. Runs!Decoded > 0 /\ Runs!AppendOutput(Runs!Decoded, upload.pc)
      BY <1>2, <1>3 DEF Runs!Flush
    <2>2. /\ Runs!Decoded \in Nat /\ Runs!Decoded <= upload.pending
          /\ runs[upload.pos].total + Runs!Decoded \notin Inside
      BY <1>0, <1>2, <1>3, <2>1, DecodedIs
    <2> QED
      BY <1>1, <1>3, <2>1, <2>2, AppendOutputKeeps
  <1>4. CASE ~Shown(upload.pos)
    <2>1. upload' = [upload EXCEPT !.pc = "broken"] /\ UNCHANGED runs
      BY <1>2, <1>4 DEF Runs!Flush
    <2> QED
      BY <1>1, <1>4, <2>1, BreakingKeeps
  <1> QED
    BY <1>3, <1>4

LEMMA UploadEndsKeeps == ASSUME RunsInv, Runs!UploadEnds PROVE RunsInv'
  <1>0. Shape /\ Paired /\ Outputs
    BY DEF RunsInv
  <1>1. /\ upload.pc = "ended" /\ upload.pending \in Nat
        /\ UNCHANGED <<row, agent, mounts, out, ops>>
    BY <1>0 DEF Runs!UploadEnds, Shape
  <1>2. Runs!HasRun <=> Shown(upload.pos)
    BY DEF Runs!HasRun, Shown
  <1>3. CASE Shown(upload.pos)
    <2>1. Runs!AppendOutput(upload.pending, "done")
      BY <1>2, <1>3 DEF Runs!UploadEnds
    <2> QED
      BY <1>1, <1>3, <2>1, AppendOutputKeeps
  <1>4. CASE ~Shown(upload.pos)
    <2>1. PICK pc \in {"broken", "done"} : upload' = [upload EXCEPT !.pc = pc] /\ UNCHANGED runs
      BY <1>2, <1>4 DEF Runs!UploadEnds
    <2> QED
      BY <1>1, <1>4, <2>1, BreakingKeeps
  <1> QED
    BY <1>3, <1>4

LEMMA CutKeeps == ASSUME RunsInv, Runs!CutFlush \/ Runs!CutEnds PROVE RunsInv'
  <1>0. /\ Shape /\ Paired /\ Together /\ InOrder /\ Earlier /\ AtHand /\ Outputs /\ Counted
        /\ Runs!SystemReleased
    BY DEF RunsInv
  <1>1. /\ upload.pc = "cut"
        /\ upload' = [pc |-> "none", pos |-> 0, pending |-> 0, attempt |-> 0]
        /\ UNCHANGED <<row, agent, mounts, out, ops>>
    BY DEF Runs!CutFlush, Runs!CutEnds, Runs!NoUpload
  <1>2. agent.pc = "idle" /\ upload.pos \in Positions
    BY <1>0, <1>1 DEF Paired
  <1>3. Unaltered /\ \A p \in Positions : Shown(p) => Stored(runs'[p])
    <2>1. CASE Runs!CutEnds
      BY <1>0, <2>1 DEF Runs!CutEnds, Shape, Unaltered, Shown, Outputs
    <2>2. CASE Runs!CutFlush
      <3> DEFINE at == upload.pos
                 n == Runs!Decoded
      <3>1. /\ Shown(at) /\ n > 0 /\ runs[at].state = "open"
            /\ runs' = [runs EXCEPT ![at] = Runs!Appended(@, n)]
        BY <2>2 DEF Runs!CutFlush, Runs!HasRun, Shown
      <3>2. n \in Int /\ n <= upload.pending
        BY <1>0, <1>2, <3>1, DecodedIs
      <3> HIDE DEF n
      <3>3. n \in Nat \ {0} /\ upload.pending # 0
        BY <1>0, <3>1, <3>2 DEF Shape
      <3>4. runs[at].total \notin Inside
        BY <1>0, <1>1, <3>1, <3>3 DEF Outputs
      <3> QED
        BY <1>0, <1>2, <3>1, <3>3, <3>4, AppendingKeeps
    <2> QED
      BY <2>1, <2>2
  <1>4. Shape' /\ Paired'
    BY <1>0, <1>1, <1>2, <1>3 DEF Shape, Paired, Unaltered
  <1>5. Together' /\ InOrder' /\ Earlier'
    BY <1>0, <1>1, <1>3, UnalteredInOrder
  <1>6. AtHand' /\ Outputs'
    BY <1>1, <1>2, <1>3 DEF AtHand, Outputs, Unaltered
  <1> QED
    BY <1>0, <1>1, <1>4, <1>5, <1>6, ReleasedSame, CountedSame DEF RunsInv

(* DropKeeps: a future that is dropped leaves an upload that is cut off;   *)
(* it is the last of its attempt.                                          *)
LEMMA DropKeeps ==
    ASSUME RunsInv, Runs!Drop, \/ row \notin Active /\ ops' = ops
                               \/ ops' = ops + 1
    PROVE  RunsInv'
  <1>0. /\ Shape /\ Paired /\ Together /\ InOrder /\ Earlier /\ AtHand /\ Outputs /\ Counted
    BY DEF RunsInv
  <1>1. /\ agent.pc # "idle" /\ mounts' = {} /\ row' = row /\ out' = out
        /\ agent' = [pc |-> "idle", pos |-> 1, exit |-> 0, attempt |-> 0]
        /\ upload' = Runs!BrokenOff
        /\ runs' = runs \/ (upload.pc = "checked" /\ runs' = Runs!Started)
    BY DEF Runs!Drop, Runs!At, Runs!Idle
  <1>2. \/ /\ upload' = [pc |-> "none", pos |-> 0, pending |-> 0, attempt |-> 0]
           /\ upload.pc # "checked"
        \/ /\ upload.pc \in {"opening", "checked", "open", "ended"}
           /\ upload' = [pc |-> "cut", pos |-> upload.pos, pending |-> upload.pending,
                         attempt |-> upload.attempt]
    <2>1. CASE upload.pc \in {"none", "done", "broken"}
      BY <1>1, <2>1 DEF Runs!BrokenOff, Runs!NoUpload
    <2>2. CASE upload.pc \notin {"none", "done", "broken"}
      <3>1. upload' = [upload EXCEPT !.pc = "cut"]
        BY <1>1, <2>2 DEF Runs!BrokenOff
      <3>2. upload.pc \in {"opening", "checked", "open", "ended"}
        BY <1>0, <1>1, <2>2 DEF Paired
      <3> QED
        BY <1>0, <3>1, <3>2 DEF Shape
    <2> QED
      BY <2>1, <2>2
  <1>3. /\ runs' \in [Positions -> SomeRun \cup {Runs!NoRun}]
        /\ \A p, q \in Positions : Shown(p)' /\ Shown(q)' => runs'[p].attempt = runs'[q].attempt
        /\ \A p \in Positions : Shown(p)' => /\ runs'[p].attempt \in Nat /\ runs'[p].attempt <= ops
                                             /\ Stored(runs'[p])
    <2>1. CASE runs' = runs
      BY <1>0, <2>1 DEF Shape, Together, Outputs, Shown, SomeRun, Runs!NoRun
    <2>2. CASE upload.pc = "checked" /\ runs' = Runs!Started
      <3>1. /\ runs' \in [Positions -> SomeRun \cup {Runs!NoRun}]
            /\ \A p \in Positions :
                   Shown(p)' => runs'[p].attempt = agent.attempt /\ Stored(runs'[p])
        BY <1>0, <2>2, StartingAnew
      <3>2. agent.attempt \in Nat /\ agent.attempt <= ops
        BY <1>0 DEF Shape, Together
      <3> QED
        BY <3>1, <3>2
    <2> QED
      BY <1>1, <2>1, <2>2
  <1>4. ops \in Nat /\ ops' \in Nat /\ ops <= ops'
    BY <1>0 DEF Shape
  <1>5. Shape' /\ Paired'
    <2>1. upload.pc # "none" => upload.pos \in Positions
      BY <1>0 DEF Paired
    <2> QED
      BY <1>0, <1>1, <1>2, <1>3, <1>4, <2>1, RootsExist DEF Shape, Paired, Phases
  <1>6. Together' /\ Earlier'
    BY <1>1, <1>3, <1>4 DEF Together, Earlier
  <1>7. InOrder' /\ AtHand'
    BY <1>1, <1>2 DEF InOrder, AtHand
  <1>8. Outputs'
    <2>1. CASE upload.pc \in {"open", "ended"} /\ upload'.pos = upload.pos
      <3>1. runs' = runs
        BY <1>1, <2>1
      <3> QED
        BY <1>0, <1>1, <1>2, <1>3, <2>1, <3>1 DEF Outputs, Shown
    <2>2. CASE upload'.pc = "none" \/ upload'.pending = 0
      BY <1>2, <1>3, <2>2 DEF Outputs
    <2>3. upload.pc \in {"opening", "checked"} => upload.pending = 0
      BY <1>0 DEF Paired
    <2> QED
      BY <1>2, <2>1, <2>2, <2>3
  <1>9. Runs!SystemReleased'
    BY <1>1 DEF Runs!SystemReleased
  <1> QED
    BY <1>0, <1>1, <1>5, <1>6, <1>7, <1>8, <1>9, CountedSame DEF RunsInv

-----------------------------------------------------------------------------
(* All of it.                                                              *)

LEMMA RunsStart == ASSUME Runs!Init PROVE RunsInv
  <1>1. /\ row = "pending" /\ runs = [p \in Positions |-> Runs!NoRun] /\ mounts = {} /\ ops = 0
        /\ agent = [pc |-> "idle", pos |-> 1, exit |-> 0, attempt |-> 0]
        /\ out = [live |-> TRUE, sent |-> 0, tail |-> {}, omitted |-> 0, made |-> 0]
        /\ upload = [pc |-> "none", pos |-> 0, pending |-> 0, attempt |-> 0]
    BY DEF Runs!Init, Runs!Positions, Positions, Runs!Idle, Runs!Fresh, Runs!NoUpload
  <1>2. \A p \in Positions : ~Shown(p)
    BY <1>1 DEF Shown, Runs!NoRun
  <1>3. Shape
    BY <1>1, RootsExist DEF Shape, Phases, Active
  <1>4. Paired /\ Together /\ InOrder /\ Earlier /\ AtHand /\ Outputs
    BY <1>1, <1>2 DEF Paired, Together, InOrder, Earlier, AtHand, Outputs
  <1>5. Counted
    <2>1. Runs!HeldFrom(out) = 0
      BY <1>1 DEF Runs!HeldFrom
    <2> QED
      BY <1>1, <2>1, RunsAssumption DEF Counted, Runs!NothingUncounted, Runs!Held
  <1> QED
    BY <1>1, <1>3, <1>4, <1>5 DEF RunsInv, Runs!SystemReleased

LEMMA RunsStep == ASSUME RunsInv, Runs!Next PROVE RunsInv'
  <1>1. CASE Runs!Cancel \/ Runs!Retry \/ Runs!Report
    BY <1>1, CancelKeeps, RetryKeeps, ReportKeeps
  <1>2. CASE Runs!Start \/ Runs!Plan \/ Runs!Mount \/ Runs!Unmount
    BY <1>2, StartKeeps, PlanAndMountKeep, UnmountKeeps
  <1>3. CASE Runs!Uploaded \/ Runs!Finish
    BY <1>3, UploadedKeeps, FinishKeeps
  <1>4. CASE Runs!Spawn \/ (\E n \in Lines : Runs!PrintLine(n))
             \/ (\E code \in {0, 1} : Runs!Exit(code))
    BY <1>4, SpawnKeeps, PrintLineKeeps, ExitKeeps
  <1>5. CASE Runs!UploadChecks \/ Runs!StartRun \/ Runs!Flush \/ Runs!UploadEnds
             \/ Runs!CutFlush \/ Runs!CutEnds
    BY <1>5, UploadChecksKeeps, StartRunKeeps, FlushKeeps, UploadEndsKeeps, CutKeeps
  <1>6. CASE Runs!Aborts \/ Runs!Crash
    BY <1>6, DropKeeps DEF Runs!Aborts, Runs!Crash, Runs!Op, Active
  <1> QED
    BY <1>1, <1>2, <1>3, <1>4, <1>5, <1>6 DEF Runs!Next

LEMMA RunsStutter ==
    ASSUME RunsInv, UNCHANGED <<ops, row, runs, agent, mounts, out, upload>>
    PROVE  RunsInv'
  <1>0. /\ Shape /\ Paired /\ Together /\ InOrder /\ Earlier /\ AtHand /\ Outputs /\ Counted
        /\ Runs!SystemReleased
    BY DEF RunsInv
  <1>1. Shape' /\ Paired' /\ Together' /\ Earlier' /\ AtHand' /\ Outputs'
    BY <1>0 DEF Shape, Paired, Together, Earlier, AtHand, Outputs, Shown
  <1>2. InOrder'
    BY <1>0 DEF InOrder, Behind, Shown
  <1> QED
    BY <1>0, <1>1, <1>2, ReleasedSame, CountedSame DEF RunsInv

(* RunsInvariant is what every state of a deployment's runs satisfies.     *)
LEMMA RunsHold == Spec => []RunsInvariant
  <1>1. Init => RunsInvariant
    BY RunsStart DEF Init, RunsInvariant
  <1>2. RunsInvariant /\ [Next]_vars => RunsInvariant'
    <2> SUFFICES ASSUME RunsInvariant, [Next]_vars PROVE RunsInvariant'
      OBVIOUS
    <2>1. part' = part
      BY DEF Next, vars
    <2>2. CASE part = "runs" /\ Next
      <3>1. RunsInv /\ Runs!Next
        BY <2>2 DEF RunsInvariant, Next
      <3> QED
        BY <3>1, RunsStep DEF RunsInvariant
    <2>3. CASE part = "runs" /\ UNCHANGED vars
      BY <2>3, RunsStutter DEF RunsInvariant, vars, runsVars
    <2>4. CASE part # "runs"
      BY <2>1, <2>4 DEF RunsInvariant
    <2> QED
      BY <2>2, <2>3, <2>4
  <1> QED
    BY <1>1, <1>2, PTL DEF Spec

(* ScriptsAreRunOnce: however run_scripts ends, the restored system is     *)
(* left unmounted; the runs that start_script_run records for a host are   *)
(* of one attempt, and a script only runs after all before it succeeded.   *)
THEOREM ScriptsAreRunOnce == Spec => []ScriptsRunOnce
  <1>1. RunsInvariant => ScriptsRunOnce
    <2> SUFFICES ASSUME RunsInv, part = "runs"
                 PROVE  Runs!TypeOK /\ Runs!SystemReleased /\ Runs!OneAttempt
      BY DEF RunsInvariant, ScriptsRunOnce
    <2>0. Shape /\ Together /\ InOrder
      BY DEF RunsInv
    <2>1. Runs!TypeOK
      <3>1. \A p \in Positions : runs[p].state \in {"none", "open", "closed"}
        BY <2>0 DEF Shape, SomeRun, Runs!NoRun
      <3> QED
        BY <2>0, <3>1 DEF Shape, Runs!TypeOK, Runs!Positions, Positions, Active
    <2>2. Runs!OneAttempt
      <3>1. \A p : p \in Runs!Present <=> p \in Positions /\ Shown(p)
        BY DEF Runs!Present, Runs!Positions, Positions, Shown
      <3>2. ASSUME row = "running", agent.pc # "idle", NEW p \in Positions, Shown(p),
                   runs[p].attempt = agent.attempt, NEW q \in 1 .. (p - 1)
            PROVE  runs[q].state = "closed" /\ runs[q].exit = 0
        <4>1. p <= agent.pos
          BY <2>0, <3>2 DEF InOrder
        <4>2. agent.pos \in Int /\ p \in Int
          BY <2>0 DEF Shape, Positions
        <4>3. q \in Behind
          BY <4>1, <4>2 DEF Behind
        <4> QED
          BY <2>0, <3>2, <4>3 DEF InOrder
      <3> QED
        BY <2>0, <3>1, <3>2 DEF Runs!OneAttempt, Runs!At, Together
    <2> QED
      BY <2>1, <2>2 DEF RunsInv
  <1> QED
    BY <1>1, RunsHold, PTL

(* OutputsAreKept: what the server shows of an output is exactly its head  *)
(* and its tail, and the bytes it says are missing are those, however      *)
(* append_script_output and kept_output cut it; what the agent sent, holds *)
(* back and counts as omitted is all that was printed.                     *)
THEOREM OutputsAreKept == Spec => []OutputKept
  <1>1. RunsInvariant => OutputKept
    <2> SUFFICES ASSUME RunsInv, part = "runs"
                 PROVE  Runs!OutputKept /\ Runs!NothingUncounted
      BY DEF RunsInvariant, OutputKept
    <2>1. \A p \in Positions : Shown(p) => Stored(runs[p])
      BY DEF RunsInv, Outputs
    <2>2. Runs!OutputKept
      BY <2>1, ShownIsWhole DEF Runs!OutputKept, Runs!Positions, Positions, Shown, Stored, Apart
    <2> QED
      BY <2>2 DEF RunsInv, Counted
  <1> QED
    BY <1>1, RunsHold, PTL
=============================================================================
