---------------------------- MODULE LibraryProofs ----------------------------
(***************************************************************************)
(* What the setup of an image shows: what was picked while it is under     *)
(* way, and what the server has once nothing is.  And what the library of  *)
(* scripts is, which an import leaves sound, and what an accepted          *)
(* deployment runs of it.                                                  *)
(***************************************************************************)
EXTENDS MCScripts, SequenceTheorems, FiniteSetTheorems, WellFoundedInduction, TLAPS

(* A set of numbers that is not empty has a least one.                     *)
LEMMA LeastNat ==
    ASSUME NEW T, T \subseteq Nat, T # {}
    PROVE  \E x \in T : \A y \in T : x <= y
  <1> DEFINE R == OpToRel(<, Nat)
  <1>1. IsWellFoundedOn(R, Nat)
    BY NatLessThanWellFounded
  <1>2. \A x, y \in Nat : y < x => <<y, x>> \in R
    BY DEF OpToRel
  <1> HIDE DEF R
  <1>3. PICK x \in T : \A y \in T : ~(<<y, x>> \in R)
    BY <1>1, WFMin
  <1>4. ASSUME NEW y \in T PROVE x <= y
    <2>1. x \in Nat /\ y \in Nat /\ ~(y < x)
      BY <1>2, <1>3
    <2> QED
      BY <2>1
  <1> QED
    BY <1>4

-----------------------------------------------------------------------------
(***************************************************************************)
(* The setup of an image.  A picker shows its choice before the server has *)
(* it, so what SetupIsKept says of a quiet page holds only because every   *)
(* choice that is shown is on its way or set, every list or root that      *)
(* changed on the server is about to be loaded, and a script that an order *)
(* on its way drops shows what was loaded.  SetupInv says so.              *)
(***************************************************************************)
\* A list of scripts, each once.
Entries == [script : SetupScripts, root : Setup!Roots]
Once(s) == \A j, k \in DOMAIN s : s[j] = s[k] => j = k
IsList(s) == s \in Seq(Entries) /\ Once(Setup!Order(s))
IsOrder(s) == s \in Seq(SetupScripts) /\ Once(s)

\* Requests: a whole order, or the root of the script at a position of the
\* order it was picked in.
Orders == [for : {"order"}, ids : Seq(SetupScripts), pc : {"sent", "done"}, heard : BOOLEAN]
Picks == [for : {"root"}, key : SetupScripts \cup {"image"}, at : Nat, root : Setup!Roots,
          back : Setup!Roots, order : Seq(SetupScripts), pc : {"sent", "done", "refused"}, heard : BOOLEAN]
Meant(r) ==
    /\ r.for = "order" => Once(r.ids)
    /\ r.for = "root" /\ r.key # "image" =>
          Once(r.order) /\ r.at \in DOMAIN r.order /\ r.order[r.at] = r.key

SetupTyped ==
    /\ IsList(setup) /\ IsList(current) /\ IsOrder(draft)
    /\ root \in Setup!Roots /\ saved \in Setup!Roots
    /\ shown \in [Setup!Pickers(draft) -> Setup!Roots]
    /\ reload \in [pc : {"idle", "asked", "read"}, list : Seq(Entries)] /\ IsList(reload.list)
    /\ poll \in [pc : {"idle", "asked", "read"}, root : Setup!Roots]
    /\ saving \in BOOLEAN
    /\ requests \in Seq(Orders \cup Picks)
    /\ \A k \in DOMAIN requests : Meant(requests[k])

\* The requests that are under way, each by its place.
Ask(k, kind) == k \in DOMAIN requests /\ requests[k].for = kind
AskFor(k, key, at) == Ask(k, "root") /\ requests[k].key = key /\ requests[k].pc = at
Tidy ==
    /\ \A k \in DOMAIN requests : requests[k].heard /\ requests[k].pc # "refused"
    /\ \A j, k \in DOMAIN requests :
          /\ Ask(j, "root") /\ Ask(k, "root") /\ requests[j].key = requests[k].key => j = k
          /\ Ask(j, "order") /\ Ask(k, "order") => j = k
    /\ \A k \in DOMAIN requests : Ask(k, "order") => saving

\* What the server has is loaded, or will be.
ListComes ==
    \/ \E k \in DOMAIN requests : requests[k].pc = "done" /\ ~AskFor(k, "image", "done")
    \/ reload.pc = "asked"
    \/ reload.pc = "read" /\ reload.list = setup
    \/ reload.pc = "idle" /\ current = setup
RootComes ==
    \/ \E k \in DOMAIN requests : AskFor(k, "image", "done")
    \/ poll.pc = "asked"
    \/ poll.pc = "read" /\ poll.root = root
    \/ poll.pc = "idle" /\ saved = root

\* A picker shows what was loaded, or what was picked and is under way or set.
Loaded(key) == Setup!SavedAt(current, saved, key)
Shows(key) ==
    \/ shown[key] = Loaded(key)
    \/ \E k \in DOMAIN requests : AskFor(k, key, "sent") /\ requests[k].root = shown[key]
    \/ /\ shown[key] = Setup!SavedAt(setup, root, key)
       /\ \A k \in DOMAIN requests : ~AskFor(k, key, "sent")
\* One that an order on its way is about to drop shows what was loaded.
Dropped ==
    \A k \in DOMAIN requests : Ask(k, "order") /\ requests[k].pc = "sent" =>
        \A key \in DOMAIN shown \ {"image"} :
            key \notin Setup!ToSet(requests[k].ids) => shown[key] = Loaded(key)

Followed == Tidy /\ ListComes /\ RootComes /\ Dropped /\ \A key \in DOMAIN shown : Shows(key)
SetupInv == SetupTyped /\ Setup!Lands /\ (clean => Followed)

\* Taking an element out of a sequence.
Was(j, k) == IF j < k THEN j ELSE j + 1
LEMMA WithoutOne ==
    ASSUME NEW S, NEW s \in Seq(S), NEW k \in DOMAIN s
    PROVE  /\ Setup!RemoveAt(s, k) \in Seq(S)
           /\ Len(Setup!RemoveAt(s, k)) = Len(s) - 1
           /\ DOMAIN Setup!RemoveAt(s, k) = 1 .. Len(s) - 1
           /\ \A j \in 1 .. Len(s) - 1 : Setup!RemoveAt(s, k)[j] = s[Was(j, k)]
  <1>1. Len(s) \in Nat /\ DOMAIN s = 1 .. Len(s) /\ k \in 1 .. Len(s)
    OBVIOUS
  <1> DEFINE a == SubSeq(s, 1, k - 1)
             b == SubSeq(s, k + 1, Len(s))
  <1>2. a \in Seq(S) /\ Len(a) = k - 1 /\ \A j \in 1 .. k - 1 : a[j] = s[j]
    BY <1>1
  <1>3. b \in Seq(S) /\ Len(b) = Len(s) - k /\ \A j \in 1 .. Len(s) - k : b[j] = s[k + j]
    BY <1>1
  <1>4. Setup!RemoveAt(s, k) = a \o b BY DEF Setup!RemoveAt
  <1> HIDE DEF a, b
  <1>5. a \o b \in Seq(S) /\ Len(a \o b) = Len(s) - 1
    <2>1. a \in Seq(S) /\ b \in Seq(S) BY <1>2, <1>3
    <2>2. a \o b \in Seq(S) /\ Len(a \o b) = Len(a) + Len(b) BY <2>1
    <2>3. k - 1 + (Len(s) - k) = Len(s) - 1 BY <1>1
    <2> QED BY <1>2, <1>3, <2>2, <2>3
  <1>6. ASSUME NEW j \in 1 .. Len(s) - 1 PROVE (a \o b)[j] = s[Was(j, k)]
    <2>1. CASE j < k BY <1>1, <1>2, <1>3, <2>1 DEF Was
    <2>2. CASE ~(j < k)
      <3>1. (a \o b)[j] = b[j - (k - 1)] BY <1>1, <1>2, <1>3, <2>2
      <3>2. j - (k - 1) \in 1 .. Len(s) - k BY <1>1, <2>2
      <3>3. k + (j - (k - 1)) = j + 1 /\ Was(j, k) = j + 1 BY <1>1, <2>2 DEF Was
      <3>4. b[j - (k - 1)] = s[k + (j - (k - 1))] BY <1>3, <3>2
      <3> QED BY <3>1, <3>3, <3>4
    <2> QED BY <2>1, <2>2
  <1> QED BY <1>4, <1>5, <1>6

\* The elements that stay, each at its place.
LEMMA TheOthersStay ==
    ASSUME NEW S, NEW s \in Seq(S), NEW k \in DOMAIN s, NEW t, t = Setup!RemoveAt(s, k)
    PROVE  /\ t \in Seq(S)
           /\ \A j \in DOMAIN t : \E i \in DOMAIN s \ {k} : i = Was(j, k) /\ t[j] = s[i]
           /\ \A i, j \in DOMAIN t : Was(i, k) = Was(j, k) => i = j
           /\ \A i \in DOMAIN s \ {k} : \E j \in DOMAIN t : i = Was(j, k) /\ t[j] = s[i]
  <1>1. /\ Len(s) \in Nat /\ DOMAIN s = 1 .. Len(s) /\ k \in 1 .. Len(s)
        /\ t \in Seq(S) /\ DOMAIN t = 1 .. Len(s) - 1
        /\ \A j \in 1 .. Len(s) - 1 : t[j] = s[Was(j, k)]
    BY WithoutOne
  <1>2. \A j \in DOMAIN t : Was(j, k) \in DOMAIN s \ {k}
    BY <1>1 DEF Was
  <1>3. \A i, j \in DOMAIN t : Was(i, k) = Was(j, k) => i = j
    BY <1>1 DEF Was
  <1>4. ASSUME NEW i \in DOMAIN s \ {k}
        PROVE  \E j \in DOMAIN t : i = Was(j, k) /\ t[j] = s[i]
    <2> DEFINE j == IF i < k THEN i ELSE i - 1
    <2>1. j \in DOMAIN t /\ i = Was(j, k) BY <1>1 DEF Was
    <2> HIDE DEF j
    <2> QED BY <1>1, <2>1
  <1> QED BY <1>1, <1>2, <1>3, <1>4

\* The order of a list, and the root a script has in it.
LEMMA OrderIs ==
    ASSUME NEW s \in Seq(Entries)
    PROVE  /\ Setup!Order(s) \in Seq(SetupScripts) /\ DOMAIN Setup!Order(s) = DOMAIN s
           /\ Len(Setup!Order(s)) = Len(s)
           /\ \A k \in DOMAIN s : /\ Setup!Order(s)[k] = s[k].script
                                  /\ s[k].script \in SetupScripts /\ s[k].root \in Setup!Roots
  <1>1. \A k \in DOMAIN s : s[k].script \in SetupScripts /\ s[k].root \in Setup!Roots
    <2>1. \A k \in DOMAIN s : s[k] \in Entries OBVIOUS
    <2> QED BY <2>1 DEF Entries
  <1>2. Setup!Order(s) = [k \in 1 .. Len(s) |-> s[k].script] /\ Len(s) \in Nat /\ DOMAIN s = 1 .. Len(s)
    BY DEF Setup!Order
  <1>3. \A k \in 1 .. Len(s) : s[k].script \in SetupScripts BY <1>1, <1>2
  <1>4. Setup!Order(s) \in Seq(SetupScripts) /\ DOMAIN Setup!Order(s) = 1 .. Len(s)
    BY <1>2, <1>3
  <1>5. Len(Setup!Order(s)) = Len(s) BY <1>2, <1>4
  <1> QED BY <1>1, <1>2, <1>4, <1>5

LEMMA RootInIs ==
    ASSUME NEW s, IsList(s)
    PROVE  /\ \A k \in DOMAIN s : Setup!RootIn(s, s[k].script) = s[k].root
           /\ \A x : (\A k \in DOMAIN s : s[k].script # x) => Setup!RootIn(s, x) = NoRoot
           /\ \A x : Setup!RootIn(s, x) \in Setup!Roots
  <1>1. s \in Seq(Entries) BY DEF IsList
  <1>2. \A j, k \in DOMAIN s : s[j].script = s[k].script => j = k
    BY <1>1, OrderIs DEF IsList, Once
  <1>3. ASSUME NEW k \in DOMAIN s PROVE Setup!RootIn(s, s[k].script) = s[k].root
    <2> DEFINE T == {j \in DOMAIN s : s[j].script = s[k].script}
    <2>1. T = {k} BY <1>2
    <2>2. Setup!RootIn(s, s[k].script) = IF T = {} THEN NoRoot ELSE s[CHOOSE j \in T : TRUE].root
      BY DEF Setup!RootIn
    <2> HIDE DEF T
    <2>3. (CHOOSE j \in T : TRUE) = k BY <2>1
    <2> QED BY <2>1, <2>2, <2>3
  <1>4. ASSUME NEW x, \A k \in DOMAIN s : s[k].script # x PROVE Setup!RootIn(s, x) = NoRoot
    <2>1. {j \in DOMAIN s : s[j].script = x} = {} BY <1>4
    <2> QED BY <2>1 DEF Setup!RootIn
  <1>5. \A x : Setup!RootIn(s, x) \in Setup!Roots
    BY <1>1, <1>3, <1>4, OrderIs DEF Setup!Roots
  <1> QED BY <1>3, <1>4, <1>5

-----------------------------------------------------------------------------
\* The types.
LEMMA AskTyped ==
    ASSUME SetupTyped, NEW k \in DOMAIN requests
    PROVE  /\ requests[k].for = "order" => requests[k] \in Orders
           /\ requests[k].for = "root" => requests[k] \in Picks
           /\ requests[k].for \in {"order", "root"} /\ Meant(requests[k])
  <1>1. requests[k] \in Orders \cup Picks BY DEF SetupTyped
  <1>2. Meant(requests[k]) BY DEF SetupTyped
  <1> QED BY <1>1, <1>2 DEF Orders, Picks

\* The server settles a request.
Same(r, t) ==
    /\ r.for = t.for /\ r.heard = t.heard
    /\ r.for = "order" => r.ids = t.ids
    /\ r.for = "root" => /\ r.key = t.key /\ r.at = t.at /\ r.root = t.root
                         /\ r.back = t.back /\ r.order = t.order
LEMMA SettledTyped ==
    ASSUME SetupTyped, NEW k \in DOMAIN requests, NEW p,
           p = "done" \/ (p = "refused" /\ requests[k].for = "root"),
           requests' = [requests EXCEPT ![k].pc = p]
    PROVE  /\ requests' \in Seq(Orders \cup Picks) /\ DOMAIN requests' = DOMAIN requests
           /\ \A j \in DOMAIN requests : j # k => requests'[j] = requests[j]
           /\ requests'[k].pc = p /\ Same(requests'[k], requests[k]) /\ Meant(requests'[k])
  <1> DEFINE r == [requests[k] EXCEPT !.pc = p]
  <1>1. requests' = [requests EXCEPT ![k] = r] OBVIOUS
  <1>2. r \in Orders \cup Picks /\ r.pc = p /\ Same(r, requests[k])
    <2>1. CASE requests[k].for = "order"
      <3>1. requests[k] \in Orders /\ p = "done" BY <2>1, AskTyped
      <3> QED BY <2>1, <3>1 DEF Orders, Same
    <2>2. CASE requests[k].for = "root"
      <3>1. requests[k] \in Picks /\ p \in {"done", "refused"} BY <2>2, AskTyped
      <3> QED BY <2>2, <3>1 DEF Picks, Same
    <2> QED BY <2>1, <2>2, AskTyped
  <1>3. Meant(r) BY <1>2, AskTyped DEF Meant, Same
  <1> HIDE DEF r
  <1>4. requests \in Seq(Orders \cup Picks) BY DEF SetupTyped
  <1>5. requests' \in Seq(Orders \cup Picks) /\ DOMAIN requests' = DOMAIN requests /\ requests'[k] = r
        /\ \A j \in DOMAIN requests : j # k => requests'[j] = requests[j]
    BY <1>1, <1>2, <1>4
  <1> QED BY <1>2, <1>3, <1>5

\* A request is taken off the list.
LEMMA TakenTyped ==
    ASSUME SetupTyped, NEW k \in DOMAIN requests, requests' = Setup!RemoveAt(requests, k)
    PROVE  /\ requests' \in Seq(Orders \cup Picks)
           /\ \A j \in DOMAIN requests' : Meant(requests'[j])
           /\ \A j \in DOMAIN requests' : \E i \in DOMAIN requests \ {k} : i = Was(j, k) /\ requests'[j] = requests[i]
           /\ \A i, j \in DOMAIN requests' : Was(i, k) = Was(j, k) => i = j
           /\ \A i \in DOMAIN requests \ {k} : \E j \in DOMAIN requests' : i = Was(j, k) /\ requests'[j] = requests[i]
  <1>1. requests \in Seq(Orders \cup Picks) BY DEF SetupTyped
  <1>2. /\ requests' \in Seq(Orders \cup Picks)
        /\ \A j \in DOMAIN requests' : \E i \in DOMAIN requests \ {k} : i = Was(j, k) /\ requests'[j] = requests[i]
        /\ \A i, j \in DOMAIN requests' : Was(i, k) = Was(j, k) => i = j
        /\ \A i \in DOMAIN requests \ {k} : \E j \in DOMAIN requests' : i = Was(j, k) /\ requests'[j] = requests[i]
    BY <1>1, TheOthersStay
  <1>3. \A i \in DOMAIN requests : Meant(requests[i]) BY DEF SetupTyped
  <1> QED BY <1>2, <1>3

\* A request is made.
LEMMA MadeTyped ==
    ASSUME SetupTyped, NEW r \in Orders \cup Picks, Meant(r), requests' = Append(requests, r)
    PROVE  /\ requests' \in Seq(Orders \cup Picks)
           /\ DOMAIN requests' = DOMAIN requests \cup {Len(requests) + 1}
           /\ Len(requests) + 1 \notin DOMAIN requests
           /\ requests'[Len(requests) + 1] = r
           /\ \A j \in DOMAIN requests : requests'[j] = requests[j]
           /\ \A j \in DOMAIN requests' : Meant(requests'[j])
  <1>1. /\ requests \in Seq(Orders \cup Picks) /\ Len(requests) \in Nat /\ DOMAIN requests = 1 .. Len(requests)
        /\ \A i \in DOMAIN requests : Meant(requests[i])
    BY DEF SetupTyped
  <1>2. /\ requests' \in Seq(Orders \cup Picks) /\ DOMAIN requests' = 1 .. Len(requests) + 1
        /\ requests'[Len(requests) + 1] = r
        /\ \A j \in 1 .. Len(requests) : requests'[j] = requests[j]
    BY <1>1
  <1> QED BY <1>1, <1>2

\* What pickers show.
LEMMA SavedIs ==
    ASSUME NEW s, IsList(s), NEW r \in Setup!Roots, NEW key
    PROVE  Setup!SavedAt(s, r, key) \in Setup!Roots
  BY RootInIs DEF Setup!SavedAt

LEMMA RenderedIs ==
    ASSUME SetupTyped, NEW ids, NEW s, IsList(s), NEW r \in Setup!Roots
    PROVE  /\ Setup!Rendered(ids, s, r) \in [Setup!Pickers(ids) -> Setup!Roots]
           /\ \A key \in Setup!Pickers(ids) :
                 Setup!Rendered(ids, s, r)[key] =
                    IF key \in DOMAIN shown /\ Setup!SavedAt(s, r, key) = Loaded(key)
                    THEN shown[key] ELSE Setup!SavedAt(s, r, key)
  <1>1. \A key \in Setup!Pickers(ids) : Setup!SavedAt(s, r, key) \in Setup!Roots
    BY SavedIs
  <1>2. \A key \in DOMAIN shown : shown[key] \in Setup!Roots
    BY DEF SetupTyped
  <1> QED BY <1>1, <1>2 DEF Setup!Rendered, Loaded

\* Some requests are waited for, others no more.
LEMMA HeardTyped ==
    ASSUME SetupTyped, NEW h \in [DOMAIN requests -> BOOLEAN],
           requests' = [k \in DOMAIN requests |-> [requests[k] EXCEPT !.heard = h[k]]]
    PROVE  /\ requests' \in Seq(Orders \cup Picks) /\ DOMAIN requests' = DOMAIN requests
           /\ \A k \in DOMAIN requests' : Meant(requests'[k])
           /\ (\A k \in DOMAIN requests : h[k] = requests[k].heard) => requests' = requests
  <1>1. /\ requests \in Seq(Orders \cup Picks) /\ Len(requests) \in Nat /\ DOMAIN requests = 1 .. Len(requests)
    BY DEF SetupTyped
  <1>2. ASSUME NEW k \in DOMAIN requests, NEW b \in BOOLEAN
        PROVE  /\ [requests[k] EXCEPT !.heard = b] \in Orders \cup Picks
               /\ Meant([requests[k] EXCEPT !.heard = b])
               /\ b = requests[k].heard => [requests[k] EXCEPT !.heard = b] = requests[k]
    <2>1. PICK q : q = [requests[k] EXCEPT !.heard = b] OBVIOUS
    <2>2. CASE requests[k].for = "order"
      <3>1. requests[k] \in Orders /\ Meant(requests[k]) BY <2>2, AskTyped
      <3>2. /\ q \in Orders /\ q.for = "order" /\ q.ids = requests[k].ids
            /\ b = requests[k].heard => q = requests[k]
        BY <2>1, <2>2, <3>1 DEF Orders
      <3>3. Meant(q) BY <2>2, <3>1, <3>2 DEF Meant
      <3> QED BY <2>1, <3>2, <3>3
    <2>3. CASE requests[k].for = "root"
      <3>1. requests[k] \in Picks /\ Meant(requests[k]) BY <2>3, AskTyped
      <3>2. /\ q \in Picks /\ q.for = "root" /\ q.key = requests[k].key /\ q.at = requests[k].at
            /\ q.order = requests[k].order
            /\ b = requests[k].heard => q = requests[k]
        BY <2>1, <2>3, <3>1 DEF Picks
      <3>3. Meant(q) BY <2>3, <3>1, <3>2 DEF Meant
      <3> QED BY <2>1, <3>2, <3>3
    <2> QED BY <2>2, <2>3, AskTyped
  <1>3. PICK f : f = [k \in DOMAIN requests |-> [requests[k] EXCEPT !.heard = h[k]]] OBVIOUS
  <1>4. DOMAIN f = DOMAIN requests /\ \A k \in DOMAIN requests : f[k] \in Orders \cup Picks /\ Meant(f[k])
    BY <1>2, <1>3
  <1>5. f = [k \in 1 .. Len(requests) |-> f[k]] BY <1>1, <1>3
  <1>6. f \in Seq(Orders \cup Picks) BY <1>1, <1>4, <1>5
  <1>7. ASSUME \A k \in DOMAIN requests : h[k] = requests[k].heard PROVE f = requests
    <2>1. \A k \in DOMAIN requests : f[k] = requests[k] BY <1>2, <1>3, <1>7
    <2>2. requests = [k \in 1 .. Len(requests) |-> requests[k]] BY <1>1
    <2> QED BY <1>1, <1>5, <2>1, <2>2
  <1> QED BY <1>3, <1>4, <1>6, <1>7

\* A draft that changed.
LEMMA RedraftTyped ==
    ASSUME SetupTyped, NEW ids, IsOrder(ids), Setup!Redraft(ids)
    PROVE  SetupTyped'
  <1> DEFINE h == [k \in DOMAIN requests |-> requests[k].heard /\ ~Setup!Orphan(requests[k], ids)]
  <1>1. /\ draft' = ids /\ shown' = Setup!Rendered(ids, current, saved)
        /\ requests' = [k \in DOMAIN requests |-> [requests[k] EXCEPT !.heard = h[k]]]
        /\ UNCHANGED <<setup, root, current, saved, reload, poll, saving>>
    BY DEF Setup!Redraft, Setup!serverVars
  <1>2. shown' \in [Setup!Pickers(draft') -> Setup!Roots]
    BY <1>1, RenderedIs DEF SetupTyped
  <1>3. h \in [DOMAIN requests -> BOOLEAN] OBVIOUS
  <1> HIDE DEF h
  <1>4. requests' \in Seq(Orders \cup Picks) /\ \A k \in DOMAIN requests' : Meant(requests'[k])
    BY <1>1, <1>3, HeardTyped
  <1> QED BY <1>1, <1>2, <1>4 DEF SetupTyped

LEMMA DraftsTyped ==
    ASSUME SetupTyped,
           \/ \E k \in Nat \ {0} : Setup!Swap(k) \/ Setup!Detach(k)
           \/ \E x \in SetupScripts : Setup!Attach(x)
           \/ Setup!Reset
    PROVE  SetupTyped' /\ \E ids : Setup!Redraft(ids)
  <1>1. draft \in Seq(SetupScripts) /\ Once(draft) BY DEF SetupTyped, IsOrder
  <1>2. ASSUME NEW k \in Nat \ {0}, Setup!Swap(k) PROVE SetupTyped' /\ \E ids : Setup!Redraft(ids)
    <2> DEFINE ids == [draft EXCEPT ![k] = draft[k + 1], ![k + 1] = draft[k]]
    <2>1. Setup!Redraft(ids) /\ k \in DOMAIN draft /\ k + 1 \in DOMAIN draft
      BY <1>1, <1>2 DEF Setup!Swap
    <2>2. ids \in Seq(SetupScripts) /\ DOMAIN ids = DOMAIN draft
      BY <1>1, <2>1
    <2>3. \A j \in DOMAIN ids : ids[j] = draft[IF j = k THEN k + 1 ELSE IF j = k + 1 THEN k ELSE j]
      BY <1>1, <2>1
    <2> HIDE DEF ids
    <2>4. IsOrder(ids)
      <3> SUFFICES ASSUME NEW i \in DOMAIN ids, NEW j \in DOMAIN ids, ids[i] = ids[j] PROVE i = j
        BY <2>2 DEF IsOrder, Once
      <3> DEFINE was(n) == IF n = k THEN k + 1 ELSE IF n = k + 1 THEN k ELSE n
      <3>1. was(i) \in DOMAIN draft /\ was(j) \in DOMAIN draft /\ draft[was(i)] = draft[was(j)]
        BY <2>1, <2>2, <2>3
      <3>2. was(i) = was(j)
        <4> HIDE DEF was
        <4> QED BY <1>1, <3>1 DEF Once
      <3> QED BY <3>2, <1>1, <2>2
    <2> QED BY <2>1, <2>4, RedraftTyped
  <1>3. ASSUME NEW k \in Nat \ {0}, Setup!Detach(k) PROVE SetupTyped' /\ \E ids : Setup!Redraft(ids)
    <2>1. PICK ids : ids = Setup!RemoveAt(draft, k) OBVIOUS
    <2>2. k \in DOMAIN draft /\ Setup!Redraft(ids) BY <1>3, <2>1 DEF Setup!Detach
    <2>3. /\ ids \in Seq(SetupScripts)
          /\ \A j \in DOMAIN ids : \E i \in DOMAIN draft \ {k} : i = Was(j, k) /\ ids[j] = draft[i]
          /\ \A i, j \in DOMAIN ids : Was(i, k) = Was(j, k) => i = j
      BY <1>1, <2>1, <2>2, TheOthersStay
    <2>4. IsOrder(ids)
      BY <1>1, <2>3 DEF IsOrder, Once
    <2> QED BY <2>2, <2>4, RedraftTyped
  <1>4. ASSUME NEW x \in SetupScripts, Setup!Attach(x) PROVE SetupTyped' /\ \E ids : Setup!Redraft(ids)
    <2>1. Setup!Redraft(Append(draft, x)) /\ \A j \in DOMAIN draft : draft[j] # x
      BY <1>4 DEF Setup!Attach, Setup!ToSet
    <2>2. IsOrder(Append(draft, x))
      <3>1. PICK ids : ids = Append(draft, x) OBVIOUS
      <3>2. /\ ids \in Seq(SetupScripts) /\ DOMAIN ids = 1 .. Len(draft) + 1 /\ DOMAIN draft = 1 .. Len(draft)
            /\ ids[Len(draft) + 1] = x /\ \A j \in 1 .. Len(draft) : ids[j] = draft[j]
            /\ Len(draft) \in Nat
        BY <1>1, <3>1
      <3>3. Once(ids)
        <4> SUFFICES ASSUME NEW i \in DOMAIN ids, NEW j \in DOMAIN ids, ids[i] = ids[j] PROVE i = j
          BY DEF Once
        <4>1. CASE i \in DOMAIN draft /\ j \in DOMAIN draft BY <1>1, <3>2, <4>1 DEF Once
        <4>2. CASE i \in DOMAIN draft /\ j \notin DOMAIN draft BY <2>1, <3>2, <4>2
        <4>3. CASE i \notin DOMAIN draft /\ j \in DOMAIN draft BY <2>1, <3>2, <4>3
        <4>4. CASE i \notin DOMAIN draft /\ j \notin DOMAIN draft BY <3>2, <4>4
        <4> QED BY <4>1, <4>2, <4>3, <4>4
      <3> QED BY <3>1, <3>2, <3>3 DEF IsOrder
    <2> QED BY <2>1, <2>2, RedraftTyped
  <1>5. ASSUME Setup!Reset PROVE SetupTyped' /\ \E ids : Setup!Redraft(ids)
    <2>1. Setup!Redraft(Setup!Order(current)) BY <1>5 DEF Setup!Reset
    <2>2. IsOrder(Setup!Order(current))
      BY OrderIs DEF SetupTyped, IsList, IsOrder
    <2> QED BY <2>1, <2>2, RedraftTyped
  <1> QED BY <1>2, <1>3, <1>4, <1>5

\* What the dashboard asks for.
LEMMA PickIs ==
    ASSUME NEW key \in SetupScripts \cup {"image"}, NEW at \in Nat, NEW p \in Setup!Roots,
           NEW b \in Setup!Roots, NEW o, IsOrder(o),
           key # "image" => at \in DOMAIN o /\ o[at] = key,
           NEW r, r = [for |-> "root", key |-> key, at |-> at, root |-> p, back |-> b, order |-> o,
                       pc |-> "sent", heard |-> TRUE]
    PROVE  /\ r \in Picks /\ Meant(r)
           /\ r.for = "root" /\ r.key = key /\ r.at = at /\ r.root = p /\ r.back = b /\ r.order = o
           /\ r.pc = "sent" /\ r.heard
  <1>1. /\ r.for = "root" /\ r.key = key /\ r.at = at /\ r.root = p /\ r.back = b /\ r.order = o
        /\ r.pc = "sent" /\ r.heard
    OBVIOUS
  <1>2. r \in Picks BY DEF Picks, IsOrder
  <1>3. Meant(r) BY <1>1 DEF Meant, IsOrder
  <1> QED BY <1>1, <1>2, <1>3

LEMMA AsksTyped ==
    ASSUME SetupTyped,
           \/ Setup!Save
           \/ \E key \in SetupScripts \cup {"image"}, p \in Setup!Roots : Setup!Pick(key, p)
    PROVE  SetupTyped'
  <1>1. CASE Setup!Save
    <2>1. PICK r : r = [for |-> "order", ids |-> draft, pc |-> "sent", heard |-> TRUE] OBVIOUS
    <2>2. /\ saving' = TRUE /\ requests' = Append(requests, r)
          /\ UNCHANGED <<setup, root, current, saved, draft, shown, reload, poll>>
      BY <1>1, <2>1 DEF Setup!Save, Setup!serverVars
    <2>3. r \in Orders /\ Meant(r)
      BY <2>1 DEF SetupTyped, IsOrder, Orders, Meant
    <2>4. requests' \in Seq(Orders \cup Picks) /\ \A j \in DOMAIN requests' : Meant(requests'[j])
      BY <2>2, <2>3, MadeTyped
    <2> QED BY <2>2, <2>4 DEF SetupTyped
  <1>2. ASSUME NEW key \in SetupScripts \cup {"image"}, NEW p \in Setup!Roots, Setup!Pick(key, p)
        PROVE  SetupTyped'
    <2>1. PICK r : r = [for |-> "root", key |-> key, at |-> Setup!Position(key), root |-> p,
                        back |-> Setup!SavedAt(current, saved, key), order |-> Setup!Order(current),
                        pc |-> "sent", heard |-> TRUE]
      OBVIOUS
    <2>2. /\ requests' = Append(requests, r) /\ shown' = [shown EXCEPT ![key] = p]
          /\ UNCHANGED <<setup, root, current, saved, draft, reload, poll, saving>>
          /\ Setup!Enabled(key)
      BY <1>2, <2>1 DEF Setup!Pick, Setup!serverVars
    <2>3. IsOrder(Setup!Order(current))
      BY OrderIs DEF SetupTyped, IsList, IsOrder
    <2>4. /\ Setup!Position(key) \in Nat
          /\ key # "image" => /\ Setup!Position(key) \in DOMAIN Setup!Order(current)
                              /\ Setup!Order(current)[Setup!Position(key)] = key
      <3>1. CASE key = "image" BY <3>1 DEF Setup!Position
      <3>2. CASE key # "image"
        <4>1. key \in Setup!Pickers(draft) /\ draft = Setup!Order(current)
          BY <2>2, <3>2 DEF SetupTyped, Setup!Enabled, Setup!Dirty
        <4>2. \E k \in DOMAIN draft : draft[k] = key
          BY <3>2, <4>1 DEF Setup!Pickers, Setup!ToSet
        <4>3. Setup!Position(key) \in DOMAIN draft /\ draft[Setup!Position(key)] = key
          BY <3>2, <4>2 DEF Setup!Position
        <4>4. DOMAIN draft \subseteq Nat BY DEF SetupTyped, IsOrder
        <4> QED BY <3>2, <4>1, <4>3, <4>4
      <3> QED BY <3>1, <3>2
    <2>5. Setup!SavedAt(current, saved, key) \in Setup!Roots BY SavedIs DEF SetupTyped
    <2>6. r \in Picks /\ Meant(r)
      <3>1. PICK at, b, o : /\ at = Setup!Position(key) /\ o = Setup!Order(current)
                            /\ b = Setup!SavedAt(current, saved, key)
        OBVIOUS
      <3>2. r = [for |-> "root", key |-> key, at |-> at, root |-> p, back |-> b, order |-> o,
                 pc |-> "sent", heard |-> TRUE]
        BY <2>1, <3>1
      <3>3. at \in Nat /\ b \in Setup!Roots /\ IsOrder(o) /\ (key # "image" => at \in DOMAIN o /\ o[at] = key)
        BY <2>3, <2>4, <2>5, <3>1
      <3> QED BY <3>2, <3>3, PickIs
    <2>8. requests' \in Seq(Orders \cup Picks) /\ \A j \in DOMAIN requests' : Meant(requests'[j])
      BY <2>2, <2>6, MadeTyped
    <2>9. shown' \in [Setup!Pickers(draft') -> Setup!Roots] BY <2>2 DEF SetupTyped
    <2> QED BY <2>2, <2>8, <2>9 DEF SetupTyped
  <1> QED BY <1>1, <1>2

-----------------------------------------------------------------------------
\* What becomes of the list on the server: a new order keeps the roots of the
\* scripts that stay.
LEMMA RelistIs ==
    ASSUME NEW s, IsList(s), NEW ids, IsOrder(ids), NEW t,
           t = [j \in DOMAIN ids |-> [script |-> ids[j], root |-> Setup!RootIn(s, ids[j])]]
    PROVE  /\ IsList(t)
           /\ \A x \in Setup!ToSet(ids) : Setup!RootIn(t, x) = Setup!RootIn(s, x)
  <1>1. ids \in Seq(SetupScripts) /\ Len(ids) \in Nat /\ DOMAIN ids = 1 .. Len(ids) BY DEF IsOrder
  <1>2. ASSUME NEW j \in DOMAIN ids
        PROVE  t[j] \in Entries /\ t[j].script = ids[j] /\ t[j].root = Setup!RootIn(s, ids[j])
    <2>1. Setup!RootIn(s, ids[j]) \in Setup!Roots /\ ids[j] \in SetupScripts BY <1>1, RootInIs
    <2>2. t[j] = [script |-> ids[j], root |-> Setup!RootIn(s, ids[j])] OBVIOUS
    <2>3. PICK q : q = Setup!RootIn(s, ids[j]) OBVIOUS
    <2> QED BY <2>1, <2>2, <2>3 DEF Entries
  <1>3. t \in Seq(Entries) /\ DOMAIN t = DOMAIN ids
    <2>1. DOMAIN t = 1 .. Len(ids) BY <1>1
    <2>2. t = [j \in 1 .. Len(ids) |-> t[j]] BY <1>1
    <2>3. \A j \in 1 .. Len(ids) : t[j] \in Entries BY <1>1, <1>2
    <2> QED BY <1>1, <2>1, <2>2, <2>3
  <1>4. \A j \in DOMAIN t : Setup!Order(t)[j] = ids[j] BY <1>2, <1>3, OrderIs
  <1>5. Once(Setup!Order(t)) BY <1>3, <1>4, OrderIs DEF Once, IsOrder
  <1>6. IsList(t) BY <1>3, <1>5 DEF IsList
  <1>7. ASSUME NEW x \in Setup!ToSet(ids) PROVE Setup!RootIn(t, x) = Setup!RootIn(s, x)
    <2>1. PICK j \in DOMAIN ids : ids[j] = x BY DEF Setup!ToSet
    <2>2. Setup!RootIn(t, t[j].script) = t[j].root BY <1>3, <1>6, RootInIs
    <2> QED BY <1>2, <2>1, <2>2
  <1> QED BY <1>6, <1>7

\* A root is set for the script at one place.
RootSet(s, k, p) == [s EXCEPT ![k].root = p]
LEMMA RootSetIs ==
    ASSUME NEW s, IsList(s), NEW k \in DOMAIN s, NEW p \in Setup!Roots, NEW t, t = RootSet(s, k, p)
    PROVE  /\ IsList(t) /\ DOMAIN t = DOMAIN s
           /\ \A j \in DOMAIN s : j # k => t[j] = s[j]
           /\ t[k] = [s[k] EXCEPT !.root = p]
           /\ Setup!RootIn(t, s[k].script) = p
           /\ \A x : x # s[k].script => Setup!RootIn(t, x) = Setup!RootIn(s, x)
  <1>1. s \in Seq(Entries) /\ \A i, j \in DOMAIN s : s[i].script = s[j].script => i = j
    BY OrderIs DEF IsList, Once
  <1>2. PICK e : e = [s[k] EXCEPT !.root = p] OBVIOUS
  <1>3. e \in Entries /\ e.script = s[k].script /\ e.root = p
    <2>1. s[k] \in Entries BY <1>1
    <2> QED BY <1>2, <2>1 DEF Entries
  <1>4. t = [s EXCEPT ![k] = e] BY <1>2 DEF RootSet
  <1>5. /\ t \in Seq(Entries) /\ DOMAIN t = DOMAIN s /\ t[k] = e
        /\ \A j \in DOMAIN s : j # k => t[j] = s[j]
    BY <1>1, <1>3, <1>4
  <1>6. \A j \in DOMAIN s : t[j].script = s[j].script BY <1>3, <1>5
  <1>7. Once(Setup!Order(t))
    <2>1. DOMAIN Setup!Order(t) = DOMAIN s /\ \A j \in DOMAIN s : Setup!Order(t)[j] = t[j].script
      BY <1>5, OrderIs
    <2>2. \A i, j \in DOMAIN s : t[i].script = t[j].script => i = j BY <1>1, <1>6
    <2> QED BY <2>1, <2>2 DEF Once
  <1>8. IsList(t) BY <1>5, <1>7 DEF IsList
  <1>9. Setup!RootIn(t, s[k].script) = p
    <2>1. Setup!RootIn(t, t[k].script) = t[k].root BY <1>5, <1>8, RootInIs
    <2>2. t[k].script = s[k].script /\ t[k].root = p BY <1>3, <1>5
    <2> QED BY <2>1, <2>2
  <1>10. ASSUME NEW x, x # s[k].script PROVE Setup!RootIn(t, x) = Setup!RootIn(s, x)
    <2>1. CASE \E j \in DOMAIN s : s[j].script = x
      <3>1. PICK j \in DOMAIN s : s[j].script = x BY <2>1
      <3>2. j # k /\ t[j] = s[j] BY <1>5, <1>10, <3>1
      <3>3. Setup!RootIn(t, t[j].script) = t[j].root BY <1>5, <1>8, RootInIs
      <3>4. Setup!RootIn(s, s[j].script) = s[j].root BY RootInIs
      <3> QED BY <3>1, <3>2, <3>3, <3>4
    <2>2. CASE \A j \in DOMAIN s : s[j].script # x
      <3>1. \A j \in DOMAIN t : t[j].script # x BY <1>5, <1>6, <2>2
      <3> QED BY <2>2, <3>1, <1>8, RootInIs
    <2> QED BY <2>1, <2>2
  <1> QED BY <1>2, <1>5, <1>8, <1>9, <1>10

LEMMA ReversedIs ==
    ASSUME NEW s, IsList(s), NEW t, t = Setup!Reverse(s)
    PROVE  IsList(t)
  <1>1. s \in Seq(Entries) /\ Len(s) \in Nat /\ DOMAIN s = 1 .. Len(s) BY DEF IsList
  <1>2. t = [i \in 1 .. Len(s) |-> s[(Len(s) - i) + 1]] BY DEF Setup!Reverse
  <1>3. \A i \in 1 .. Len(s) : (Len(s) - i) + 1 \in 1 .. Len(s) BY <1>1
  <1>4. t \in Seq(Entries) /\ DOMAIN t = 1 .. Len(s)
    <2>1. \A i \in 1 .. Len(s) : s[(Len(s) - i) + 1] \in Entries BY <1>1, <1>3
    <2> QED BY <1>1, <1>2, <2>1
  <1>5. \A i, j \in DOMAIN s : s[i].script = s[j].script => i = j
    BY <1>1, OrderIs DEF IsList, Once
  <1>6. ASSUME NEW i \in DOMAIN t, NEW j \in DOMAIN t, t[i].script = t[j].script PROVE i = j
    <2>1. (Len(s) - i) + 1 = (Len(s) - j) + 1 BY <1>1, <1>2, <1>3, <1>4, <1>5, <1>6
    <2> QED BY <1>1, <1>4, <2>1
  <1>7. Once(Setup!Order(t)) BY <1>4, <1>6, OrderIs DEF Once
  <1> QED BY <1>4, <1>7 DEF IsList
-----------------------------------------------------------------------------
\* A picker that nothing happened to.
LEMMA ShowsStays ==
    ASSUME NEW key, Shows(key), shown'[key] = shown[key], Loaded(key)' = Loaded(key),
           Setup!SavedAt(setup, root, key)' = Setup!SavedAt(setup, root, key),
           DOMAIN requests \subseteq DOMAIN requests',
           \A k \in DOMAIN requests : requests'[k].root = requests[k].root,
           \A k, at : AskFor(k, key, at)' <=> AskFor(k, key, at)
    PROVE  Shows(key)'
  <1>1. CASE shown[key] = Loaded(key) BY <1>1 DEF Shows
  <1>2. CASE \E k \in DOMAIN requests : AskFor(k, key, "sent") /\ requests[k].root = shown[key]
    <2>1. PICK k \in DOMAIN requests : AskFor(k, key, "sent") /\ requests[k].root = shown[key] BY <1>2
    <2>2. k \in DOMAIN requests' /\ AskFor(k, key, "sent")' /\ requests'[k].root = shown'[key] BY <2>1
    <2> QED BY <2>2 DEF Shows
  <1>3. CASE shown[key] = Setup!SavedAt(setup, root, key) /\ \A k \in DOMAIN requests : ~AskFor(k, key, "sent")
    <2>1. \A k : ~AskFor(k, key, "sent") BY <1>3 DEF AskFor, Ask
    <2>2. \A k : ~AskFor(k, key, "sent")' BY <2>1
    <2> QED BY <1>3, <2>2 DEF Shows
  <1> QED BY <1>1, <1>2, <1>3 DEF Shows

\* What is shown stays followed, action by action: a draft that changed,
LEMMA RedraftFollowed ==
    ASSUME SetupTyped, Followed, clean', NEW ids, Setup!Redraft(ids)
    PROVE  Followed'
  <1>1. /\ shown' = Setup!Rendered(ids, current, saved)
        /\ UNCHANGED <<setup, root, current, saved, reload, poll, saving, requests>>
    <2> DEFINE h == [k \in DOMAIN requests |-> requests[k].heard /\ ~Setup!Orphan(requests[k], ids)]
    <2>1. /\ requests' = [k \in DOMAIN requests |-> [requests[k] EXCEPT !.heard = h[k]]]
          /\ shown' = Setup!Rendered(ids, current, saved)
          /\ UNCHANGED <<setup, root, current, saved, reload, poll, saving>>
          /\ \A k \in DOMAIN requests : ~Setup!Orphan(requests[k], ids)
      BY DEF Setup!Redraft, Setup!serverVars
    <2>3. \A k \in DOMAIN requests : requests[k].heard BY DEF Followed, Tidy
    <2>4. \A k \in DOMAIN requests : requests[k].heard \in BOOLEAN
      <3> SUFFICES ASSUME NEW k \in DOMAIN requests PROVE requests[k].heard \in BOOLEAN OBVIOUS
      <3> QED BY AskTyped DEF Orders, Picks
    <2>2. h \in [DOMAIN requests -> BOOLEAN] OBVIOUS
    <2>5. \A k \in DOMAIN requests : h[k] = requests[k].heard BY <2>1, <2>3, <2>4
    <2> HIDE DEF h
    <2>6. requests' = requests BY <2>1, <2>2, <2>5, HeardTyped
    <2> QED BY <2>1, <2>6
  <1>2. Tidy' /\ ListComes' /\ RootComes'
    BY <1>1 DEF Followed, Tidy, ListComes, RootComes, Ask, AskFor
  <1>3. \A key : Loaded(key)' = Loaded(key) /\ Setup!SavedAt(setup, root, key)' = Setup!SavedAt(setup, root, key)
    BY <1>1 DEF Loaded
  <1>4. \A key \in DOMAIN shown' :
           \/ key \in DOMAIN shown /\ shown'[key] = shown[key]
           \/ shown'[key] = Loaded(key)
    <2>1. IsList(current) /\ saved \in Setup!Roots BY DEF SetupTyped
    <2>2. \A key : Setup!SavedAt(current, saved, key) = Loaded(key) BY DEF Loaded
    <2>3. PICK f : f = Setup!Rendered(ids, current, saved) OBVIOUS
    <2>4. /\ f \in [Setup!Pickers(ids) -> Setup!Roots]
          /\ \A key \in Setup!Pickers(ids) :
                f[key] = IF key \in DOMAIN shown /\ Setup!SavedAt(current, saved, key) = Loaded(key)
                         THEN shown[key] ELSE Setup!SavedAt(current, saved, key)
      BY <2>1, <2>3, RenderedIs
    <2>5. DOMAIN f = Setup!Pickers(ids) BY <2>4
    <2> QED BY <1>1, <2>2, <2>3, <2>4, <2>5
  <1>5. Dropped'
    BY <1>1, <1>3, <1>4 DEF Followed, Dropped, Ask
  <1>6. ASSUME NEW key \in DOMAIN shown' PROVE Shows(key)'
    <2>1. \A k, at : AskFor(k, key, at)' <=> AskFor(k, key, at) BY <1>1 DEF AskFor, Ask
    <2>2. CASE key \in DOMAIN shown /\ shown'[key] = shown[key]
      <3>1. Shows(key) BY <2>2 DEF Followed
      <3> QED BY <1>1, <1>3, <2>1, <2>2, <3>1 DEF Shows
    <2>3. CASE shown'[key] = Loaded(key) BY <1>3, <2>3 DEF Shows
    <2> QED BY <1>4, <2>2, <2>3
  <1> QED BY <1>2, <1>5, <1>6 DEF Followed

\* a whole order that is sent,
LEMMA SaveFollowed ==
    ASSUME SetupTyped, Followed, Setup!Save
    PROVE  Followed'
  <1>1. PICK r : r = [for |-> "order", ids |-> draft, pc |-> "sent", heard |-> TRUE] OBVIOUS
  <1>2. /\ ~saving /\ saving' = TRUE /\ requests' = Append(requests, r)
        /\ UNCHANGED <<setup, root, current, saved, draft, shown, reload, poll>>
    BY <1>1 DEF Setup!Save, Setup!serverVars
  <1>3. r \in Orders /\ Meant(r) /\ r.for = "order" /\ r.ids = draft /\ r.pc = "sent" /\ r.heard
    BY <1>1 DEF SetupTyped, IsOrder, Orders, Meant
  <1>4. PICK n : n = Len(requests) + 1 OBVIOUS
  <1>5. /\ DOMAIN requests' = DOMAIN requests \cup {n} /\ n \notin DOMAIN requests /\ requests'[n] = r
        /\ \A j \in DOMAIN requests : requests'[j] = requests[j]
    BY <1>2, <1>3, <1>4, MadeTyped
  <1>6. \A k \in DOMAIN requests : ~Ask(k, "order") BY <1>2 DEF Followed, Tidy
  <1>7. Tidy'
    <2>1. \A k \in DOMAIN requests' : requests'[k].heard /\ requests'[k].pc # "refused"
      BY <1>3, <1>5 DEF Followed, Tidy
    <2>2. \A k : (Ask(k, "root")' <=> Ask(k, "root")) /\ (Ask(k, "order")' <=> k = n)
      BY <1>3, <1>5, <1>6 DEF Ask
    <2>3. \A j, k \in DOMAIN requests' :
             Ask(j, "root")' /\ Ask(k, "root")' /\ requests'[j].key = requests'[k].key => j = k
      <3> SUFFICES ASSUME NEW j \in DOMAIN requests', NEW k \in DOMAIN requests',
                          Ask(j, "root")', Ask(k, "root")', requests'[j].key = requests'[k].key
                   PROVE  j = k
        OBVIOUS
      <3>1. j \in DOMAIN requests /\ k \in DOMAIN requests /\ Ask(j, "root") /\ Ask(k, "root") BY <2>2 DEF Ask
      <3>2. requests[j].key = requests[k].key BY <1>5, <3>1
      <3> QED BY <3>1, <3>2 DEF Followed, Tidy
    <2> QED BY <1>2, <2>1, <2>2, <2>3 DEF Tidy
  <1>8. \A k, key, at : AskFor(k, key, at)' <=> AskFor(k, key, at)
    BY <1>3, <1>5 DEF AskFor, Ask
  <1>9. ListComes' /\ RootComes'
    <2>1. ListComes'
      <3>1. CASE \E k \in DOMAIN requests : requests[k].pc = "done" /\ ~AskFor(k, "image", "done")
        BY <1>5, <1>8, <3>1 DEF ListComes
      <3> QED BY <1>2, <3>1 DEF Followed, ListComes
    <2>2. RootComes'
      BY <1>2, <1>5, <1>8 DEF Followed, RootComes
    <2> QED BY <2>1, <2>2
  <1>10. \A key : Loaded(key)' = Loaded(key) /\ Setup!SavedAt(setup, root, key)' = Setup!SavedAt(setup, root, key)
    BY <1>2 DEF Loaded
  <1>11. Dropped'
    <2> SUFFICES ASSUME NEW k \in DOMAIN requests', Ask(k, "order")', NEW key \in DOMAIN shown \ {"image"},
                        key \notin Setup!ToSet(requests'[k].ids)
                 PROVE  FALSE
      BY <1>2 DEF Dropped
    <2>1. requests'[k].ids = draft BY <1>3, <1>5, <1>6 DEF Ask
    <2>2. key \in Setup!Pickers(draft) BY DEF SetupTyped
    <2> QED BY <2>1, <2>2 DEF Setup!Pickers
  <1>12. ASSUME NEW key \in DOMAIN shown' PROVE Shows(key)'
    <2>1. key \in DOMAIN shown /\ shown'[key] = shown[key] /\ Shows(key) BY <1>2 DEF Followed
    <2>2. \A k \in DOMAIN requests : requests'[k].root = requests[k].root BY <1>5
    <2>3. DOMAIN requests \subseteq DOMAIN requests' BY <1>5
    <2> QED BY <1>8, <1>10, <2>1, <2>2, <2>3, ShowsStays
  <1> QED BY <1>7, <1>9, <1>11, <1>12 DEF Followed

\* a root that is picked,
LEMMA PickFollowed ==
    ASSUME SetupTyped, Followed, clean', NEW key \in SetupScripts \cup {"image"}, NEW p \in Setup!Roots,
           Setup!Pick(key, p)
    PROVE  Followed'
  <1>1. PICK r : r = [for |-> "root", key |-> key, at |-> Setup!Position(key), root |-> p,
                      back |-> Setup!SavedAt(current, saved, key), order |-> Setup!Order(current),
                      pc |-> "sent", heard |-> TRUE]
    OBVIOUS
  <1>2. /\ requests' = Append(requests, r) /\ shown' = [shown EXCEPT ![key] = p]
        /\ UNCHANGED <<setup, root, current, saved, draft, reload, poll, saving>>
        /\ Setup!Enabled(key)
        /\ \A k \in DOMAIN requests : requests[k].for = "root" => requests[k].key # key
    BY <1>1 DEF Setup!Pick, Setup!serverVars
  <1>3. r.for = "root" /\ r.key = key /\ r.root = p /\ r.pc = "sent" /\ r.heard
    BY <1>1
  <1>4. PICK n : n = Len(requests) + 1 OBVIOUS
  <1>5. /\ DOMAIN requests' = DOMAIN requests \cup {n} /\ n \notin DOMAIN requests /\ requests'[n] = r
        /\ \A j \in DOMAIN requests : requests'[j] = requests[j]
    <2>1. requests \in Seq(Orders \cup Picks) BY DEF SetupTyped
    <2> HIDE DEF Orders, Picks
    <2>2. /\ Len(requests) \in Nat /\ DOMAIN requests = 1 .. Len(requests)
      BY <2>1
    <2>3. /\ Len(requests') = Len(requests) + 1 /\ DOMAIN requests' = 1 .. Len(requests) + 1
          /\ requests'[n] = r /\ \A j \in 1 .. Len(requests) : requests'[j] = requests[j]
      BY <1>2, <1>4, <2>1
    <2> QED BY <1>4, <2>2, <2>3
  <1>6. key # "image" => \A k \in DOMAIN requests : ~Ask(k, "order")
    BY <1>2 DEF Followed, Tidy, Setup!Enabled
  <1>7. Tidy'
    <2>1. \A k \in DOMAIN requests' : requests'[k].heard /\ requests'[k].pc # "refused"
      BY <1>3, <1>5 DEF Followed, Tidy
    <2>2. \A k : (Ask(k, "order")' <=> Ask(k, "order")) /\ (Ask(k, "root")' <=> Ask(k, "root") \/ k = n)
      BY <1>3, <1>5 DEF Ask
    <2>3. \A j, k \in DOMAIN requests' :
             Ask(j, "root")' /\ Ask(k, "root")' /\ requests'[j].key = requests'[k].key => j = k
      BY <1>2, <1>3, <1>5, <2>2 DEF Followed, Tidy, Ask
    <2> QED BY <1>2, <1>5, <2>1, <2>2, <2>3 DEF Followed, Tidy, Ask
  <1>8. \A k, x, at : AskFor(k, x, at)' <=> AskFor(k, x, at) \/ (k = n /\ x = key /\ at = "sent")
    BY <1>3, <1>5 DEF AskFor, Ask
  <1>9. ListComes' /\ RootComes'
    <2>1. ListComes'
      <3>1. CASE \E k \in DOMAIN requests : requests[k].pc = "done" /\ ~AskFor(k, "image", "done")
        BY <1>5, <1>8, <3>1 DEF ListComes
      <3> QED BY <1>2, <3>1 DEF Followed, ListComes
    <2>2. RootComes'
      BY <1>2, <1>5, <1>8 DEF Followed, RootComes
    <2> QED BY <2>1, <2>2
  <1>10. \A x : Loaded(x)' = Loaded(x) /\ Setup!SavedAt(setup, root, x)' = Setup!SavedAt(setup, root, x)
    BY <1>2 DEF Loaded
  <1>11. /\ DOMAIN shown' = DOMAIN shown /\ shown'[key] = p
         /\ \A x \in DOMAIN shown : x # key => shown'[x] = shown[x]
    BY <1>2 DEF Setup!Enabled
  <1>12. Dropped'
    <2> SUFFICES ASSUME NEW k \in DOMAIN requests', Ask(k, "order")', requests'[k].pc = "sent",
                        NEW x \in DOMAIN shown' \ {"image"}, x \notin Setup!ToSet(requests'[k].ids)
                 PROVE  shown'[x] = Loaded(x)'
      BY DEF Dropped
    <2>1. k \in DOMAIN requests /\ requests'[k] = requests[k] /\ Ask(k, "order") BY <1>3, <1>5 DEF Ask
    <2>2. key = "image" BY <1>6, <2>1
    <2>3. x \in DOMAIN shown /\ x # key /\ shown'[x] = shown[x] BY <1>11, <2>2
    <2>4. shown[x] = Loaded(x) BY <2>1, <2>3 DEF Followed, Dropped
    <2> QED BY <1>10, <2>3, <2>4
  <1>13. ASSUME NEW x \in DOMAIN shown' PROVE Shows(x)'
    <2>1. CASE x = key
      <3>1. AskFor(n, x, "sent")' /\ requests'[n].root = shown'[x] /\ n \in DOMAIN requests'
        BY <1>3, <1>5, <1>8, <1>11, <2>1
      <3> QED BY <3>1 DEF Shows
    <2>2. CASE x # key
      <3>1. x \in DOMAIN shown /\ shown'[x] = shown[x] /\ Shows(x) BY <1>11, <2>2 DEF Followed
      <3>2. \A k \in DOMAIN requests : requests'[k].root = requests[k].root BY <1>5
      <3>3. \A k, at : AskFor(k, x, at)' <=> AskFor(k, x, at) BY <1>8, <2>2
      <3>4. DOMAIN requests \subseteq DOMAIN requests' BY <1>5
      <3> QED BY <1>10, <3>1, <3>2, <3>3, <3>4, ShowsStays
    <2> QED BY <2>1, <2>2
  <1> QED BY <1>7, <1>9, <1>12, <1>13 DEF Followed
\* an order that the server takes,
LEMMA SaveHandledKeeps ==
    ASSUME SetupTyped, NEW k \in DOMAIN requests, Setup!SaveHandled(k)
    PROVE  SetupTyped' /\ (Followed => Followed')
  <1>1. PICK ids : ids = requests[k].ids OBVIOUS
  <1>2. /\ requests[k].for = "order" /\ requests[k].pc = "sent"
        /\ setup' = [j \in DOMAIN ids |-> [script |-> ids[j], root |-> Setup!RootIn(setup, ids[j])]]
        /\ requests' = [requests EXCEPT ![k].pc = "done"]
        /\ UNCHANGED <<root, current, saved, draft, shown, reload, poll, saving>>
    BY <1>1 DEF Setup!SaveHandled, Setup!pageVars
  <1>3. IsOrder(ids)
    <2>1. requests[k] \in Orders /\ Meant(requests[k]) BY <1>2, AskTyped
    <2> QED BY <1>1, <2>1 DEF Orders, Meant, IsOrder
  <1>4. IsList(setup') /\ \A x \in Setup!ToSet(ids) : Setup!RootIn(setup', x) = Setup!RootIn(setup, x)
    <2>1. IsList(setup) BY DEF SetupTyped
    <2> QED BY <1>2, <1>3, <2>1, RelistIs
  <1>5. /\ requests' \in Seq(Orders \cup Picks) /\ DOMAIN requests' = DOMAIN requests
        /\ \A j \in DOMAIN requests : j # k => requests'[j] = requests[j]
        /\ requests'[k].pc = "done" /\ Same(requests'[k], requests[k]) /\ Meant(requests'[k])
    BY <1>2, SettledTyped
  <1>6. \A j \in DOMAIN requests' : Meant(requests'[j])
    BY <1>5 DEF SetupTyped
  <1>7. SetupTyped' BY <1>2, <1>4, <1>5, <1>6 DEF SetupTyped
  <1>8. ASSUME Followed PROVE Followed'
    <2>1. requests'[k].for = "order" /\ requests'[k].heard = requests[k].heard
      BY <1>2, <1>5 DEF Same
    <2>2. \A j, kind : Ask(j, kind)' <=> Ask(j, kind) BY <1>2, <1>5, <2>1 DEF Ask
    <2>3. \A j, key, at : AskFor(j, key, at)' <=> AskFor(j, key, at)
      BY <1>2, <1>5, <2>1 DEF AskFor, Ask
    <2>4. Tidy'
      BY <1>2, <1>5, <1>8, <2>1, <2>2 DEF Followed, Tidy, Ask
    <2>5. ListComes'
      BY <1>5, <2>1 DEF ListComes, AskFor, Ask
    <2>6. RootComes'
      BY <1>2, <1>5, <1>8, <2>3 DEF Followed, RootComes
    <2>7. \A key : Loaded(key)' = Loaded(key) BY <1>2 DEF Loaded
    <2>8. Dropped'
      <3> SUFFICES ASSUME NEW j \in DOMAIN requests', Ask(j, "order")', requests'[j].pc = "sent",
                          NEW key \in DOMAIN shown' \ {"image"}, key \notin Setup!ToSet(requests'[j].ids)
                   PROVE  shown'[key] = Loaded(key)'
        BY DEF Dropped
      <3>1. j # k /\ j \in DOMAIN requests /\ requests'[j] = requests[j] /\ Ask(j, "order")
        BY <1>5, <2>2
      <3>2. shown[key] = Loaded(key) BY <1>2, <1>8, <3>1 DEF Followed, Dropped
      <3> QED BY <1>2, <2>7, <3>2
    <2>9. ASSUME NEW key \in DOMAIN shown' PROVE Shows(key)'
      <3>1. key \in DOMAIN shown /\ shown'[key] = shown[key] /\ Shows(key) BY <1>2, <1>8 DEF Followed
      <3>2. CASE shown[key] = Loaded(key) BY <2>7, <3>1, <3>2 DEF Shows
      <3>3. CASE key = "image" \/ key \in Setup!ToSet(ids)
        <4>1. Setup!SavedAt(setup, root, key)' = Setup!SavedAt(setup, root, key)
          BY <1>2, <1>4, <3>3 DEF Setup!SavedAt
        <4>2. \A j \in DOMAIN requests : requests'[j].root = requests[j].root \/ j = k BY <1>5
        <4>3. \A at : ~AskFor(k, key, at) BY <1>2 DEF AskFor, Ask
        <4>4. CASE \E j \in DOMAIN requests : AskFor(j, key, "sent") /\ requests[j].root = shown[key]
          <5>1. PICK j \in DOMAIN requests : AskFor(j, key, "sent") /\ requests[j].root = shown[key]
            BY <4>4
          <5>2. j \in DOMAIN requests' /\ AskFor(j, key, "sent")' /\ requests'[j].root = shown'[key]
            BY <1>5, <2>3, <3>1, <4>2, <4>3, <5>1
          <5> QED BY <5>2 DEF Shows
        <4>5. CASE shown[key] = Setup!SavedAt(setup, root, key) /\ \A j \in DOMAIN requests : ~AskFor(j, key, "sent")
          BY <1>5, <2>3, <3>1, <4>1, <4>5 DEF Shows
        <4> QED BY <3>1, <3>2, <4>4, <4>5 DEF Shows
      <3>4. CASE key # "image" /\ key \notin Setup!ToSet(ids)
        <4>1. shown[key] = Loaded(key)
          BY <1>1, <1>2, <1>8, <3>1, <3>4 DEF Followed, Dropped, Ask
        <4> QED BY <3>2, <4>1
      <3> QED BY <3>3, <3>4
    <2> QED BY <2>4, <2>5, <2>6, <2>8, <2>9 DEF Followed
  <1> QED BY <1>7, <1>8

\* a root that it takes: the script at the position is the one it was picked
\* for, as long as the order is the one that was shown,
LEMMA PickHandledTyped ==
    ASSUME SetupTyped, NEW k \in DOMAIN requests, Setup!PickHandled(k)
    PROVE  /\ SetupTyped' /\ Setup!Lands'
           /\ clean' => requests'[k].pc = "done"
           /\ requests[k].key # "image" /\ clean' =>
                 /\ root' = root
                 /\ Setup!RootIn(setup', requests[k].key) = requests[k].root
                 /\ \A x : x # requests[k].key => Setup!RootIn(setup', x) = Setup!RootIn(setup, x)
           /\ requests[k].key = "image" => setup' = setup /\ root' = requests[k].root
  <1>1. PICK r : r = requests[k] OBVIOUS
  <1>2. PICK known \in BOOLEAN : known = (r.key = "image" \/ r.at \in DOMAIN setup) OBVIOUS
  <1>3. /\ r.for = "root" /\ r.pc = "sent"
        /\ requests' = [requests EXCEPT ![k].pc = IF known THEN "done" ELSE "refused"]
        /\ root' = IF r.key = "image" THEN r.root ELSE root
        /\ setup' = IF r.key # "image" /\ known THEN [setup EXCEPT ![r.at].root = r.root] ELSE setup
        /\ landed' = [was |-> TRUE, key |-> r.key, root |-> r.root, order |-> r.order, before |-> setup]
        /\ clean' = (clean /\ (r.key # "image" => r.order = Setup!Order(setup)))
        /\ UNCHANGED <<current, saved, draft, shown, reload, poll, saving>>
    BY <1>1, <1>2 DEF Setup!PickHandled, Setup!pageVars
  <1>4. /\ r.key \in SetupScripts \cup {"image"} /\ r.at \in Nat /\ r.root \in Setup!Roots
        /\ r.key # "image" => Once(r.order) /\ r.at \in DOMAIN r.order /\ r.order[r.at] = r.key
    <2>1. r \in Picks /\ Meant(r) BY <1>1, <1>3, AskTyped
    <2> QED BY <1>3, <2>1 DEF Picks, Meant
  <1>5. PICK p : p = IF known THEN "done" ELSE "refused" OBVIOUS
  <1>6. /\ requests' \in Seq(Orders \cup Picks) /\ DOMAIN requests' = DOMAIN requests
        /\ \A j \in DOMAIN requests : j # k => requests'[j] = requests[j]
        /\ requests'[k].pc = p /\ Meant(requests'[k])
    <2>1. requests' = [requests EXCEPT ![k].pc = p] BY <1>3, <1>5
    <2>2. p = "done" \/ (p = "refused" /\ requests[k].for = "root") BY <1>1, <1>3, <1>5
    <2> QED BY <2>1, <2>2, SettledTyped
  <1>7. \A j \in DOMAIN requests' : Meant(requests'[j]) BY <1>6 DEF SetupTyped
  <1>8. IsList(setup) BY DEF SetupTyped
  <1>9. ASSUME r.key # "image", known
        PROVE
           /\ IsList(setup') /\ DOMAIN setup' = DOMAIN setup /\ r.at \in DOMAIN setup
           /\ \A j \in DOMAIN setup : j # r.at => setup'[j] = setup[j]
           /\ setup'[r.at] = [setup[r.at] EXCEPT !.root = r.root]
           /\ Setup!RootIn(setup', setup[r.at].script) = r.root
           /\ \A x : x # setup[r.at].script => Setup!RootIn(setup', x) = Setup!RootIn(setup, x)
    <2>1. r.at \in DOMAIN setup BY <1>2, <1>9
    <2>2. setup' = RootSet(setup, r.at, r.root) BY <1>3, <1>9 DEF RootSet
    <2> QED BY <1>4, <1>8, <2>1, <2>2, RootSetIs
  <1>10. IsList(setup') /\ root' \in Setup!Roots
    BY <1>3, <1>4, <1>8, <1>9 DEF SetupTyped
  <1>11. SetupTyped' BY <1>3, <1>6, <1>7, <1>10 DEF SetupTyped
  <1>12. r.key # "image" /\ r.order = Setup!Order(setup) =>
            /\ known /\ setup[r.at].script = r.key
            /\ \A j \in DOMAIN setup : setup[j].script = r.key => j = r.at
    <2> SUFFICES ASSUME r.key # "image", r.order = Setup!Order(setup)
                 PROVE  /\ known /\ setup[r.at].script = r.key
                        /\ \A j \in DOMAIN setup : setup[j].script = r.key => j = r.at
      OBVIOUS
    <2>1. DOMAIN r.order = DOMAIN setup /\ \A j \in DOMAIN setup : r.order[j] = setup[j].script
      BY <1>8, OrderIs DEF IsList
    <2> QED BY <1>2, <1>4, <2>1 DEF Once
  <1>13. Setup!Lands'
    <2> SUFFICES ASSUME r.key # "image", r.order = Setup!Order(setup)
                 PROVE  setup' = [j \in DOMAIN setup |-> IF setup[j].script = r.key
                                                         THEN [setup[j] EXCEPT !.root = r.root] ELSE setup[j]]
      BY <1>3 DEF Setup!Lands
    <2>1. \A j \in DOMAIN setup' : setup'[j] = IF setup[j].script = r.key
                                              THEN [setup[j] EXCEPT !.root = r.root] ELSE setup[j]
      BY <1>9, <1>12
    <2>2. DOMAIN setup' = DOMAIN setup BY <1>9, <1>12
    <2>3. setup' \in Seq(Entries) BY <1>10 DEF IsList
    <2>4. setup' = [j \in DOMAIN setup |-> setup'[j]] BY <2>2, <2>3
    <2> QED BY <2>1, <2>2, <2>4
  <1>14. clean' => p = "done" BY <1>2, <1>3, <1>5, <1>12
  <1>15. r.key # "image" /\ clean' =>
           /\ root' = root /\ Setup!RootIn(setup', r.key) = r.root
           /\ \A x : x # r.key => Setup!RootIn(setup', x) = Setup!RootIn(setup, x)
    BY <1>3, <1>9, <1>12
  <1> QED BY <1>1, <1>3, <1>6, <1>11, <1>13, <1>14, <1>15

LEMMA PickHandledFollowed ==
    ASSUME SetupTyped, Followed, clean', NEW k \in DOMAIN requests, Setup!PickHandled(k)
    PROVE  Followed'
  <1>1. /\ requests[k].for = "root" /\ requests[k].pc = "sent"
        /\ UNCHANGED <<current, saved, draft, shown, reload, poll, saving>>
        /\ \E p : requests' = [requests EXCEPT ![k].pc = p] /\ (p = "done" \/ p = "refused")
    BY DEF Setup!PickHandled, Setup!pageVars
  <1>2. /\ DOMAIN requests' = DOMAIN requests
        /\ \A j \in DOMAIN requests : j # k => requests'[j] = requests[j]
        /\ Same(requests'[k], requests[k])
    BY <1>1, SettledTyped
  <1>3. requests'[k].pc = "done" BY PickHandledTyped
  <1>4. PICK key : key = requests[k].key OBVIOUS
  <1>5. requests'[k].for = "root" /\ requests'[k].key = key /\ requests'[k].heard = requests[k].heard
    BY <1>1, <1>2, <1>4 DEF Same
  <1>6. \A j, kind : Ask(j, kind)' <=> Ask(j, kind) BY <1>1, <1>2, <1>5 DEF Ask
  <1>7. \A j \in DOMAIN requests : requests[j].for = "root" => requests'[j].key = requests[j].key
    BY <1>2, <1>4, <1>5
  <1>8. \A j \in DOMAIN requests : Ask(j, "root") /\ requests[j].key = key => j = k
    BY <1>1, <1>4 DEF Followed, Tidy, Ask
  <1>9. Tidy'
    <2>1. \A j \in DOMAIN requests' : requests'[j].heard /\ requests'[j].pc # "refused"
      BY <1>2, <1>3, <1>5 DEF Followed, Tidy
    <2>2. ASSUME NEW i \in DOMAIN requests', NEW j \in DOMAIN requests', Ask(i, "root")', Ask(j, "root")',
                 requests'[i].key = requests'[j].key
          PROVE  i = j
      <3>1. Ask(i, "root") /\ Ask(j, "root") /\ i \in DOMAIN requests /\ j \in DOMAIN requests
        BY <1>2, <1>6, <2>2
      <3>2. requests[i].key = requests[j].key BY <1>7, <2>2, <3>1 DEF Ask
      <3> QED BY <3>1, <3>2 DEF Followed, Tidy
    <2> QED BY <1>1, <1>2, <1>6, <2>1, <2>2 DEF Followed, Tidy
  <1>10. \A j, x, at : x # key => (AskFor(j, x, at)' <=> AskFor(j, x, at))
    BY <1>2, <1>4, <1>5 DEF AskFor, Ask
  <1>11. /\ AskFor(k, key, "done")'
         /\ \A j : ~AskFor(j, key, "sent")'
    BY <1>2, <1>3, <1>5, <1>6, <1>7, <1>8 DEF AskFor, Ask
  <1>12. ListComes'
    <2>1. CASE key # "image" BY <1>2, <1>3, <1>5, <2>1 DEF ListComes, AskFor
    <2>2. CASE key = "image"
      <3>1. setup' = setup BY <1>4, <2>2, PickHandledTyped
      <3>2. CASE \E j \in DOMAIN requests : requests[j].pc = "done" /\ ~AskFor(j, "image", "done")
        <4>1. PICK j \in DOMAIN requests : requests[j].pc = "done" /\ ~AskFor(j, "image", "done") BY <3>2
        <4>2. j # k BY <1>1, <4>1
        <4>3. j \in DOMAIN requests' /\ requests'[j].pc = "done" /\ ~AskFor(j, "image", "done")'
          BY <1>2, <4>1, <4>2 DEF AskFor, Ask
        <4> QED BY <4>3 DEF ListComes
      <3> QED BY <1>1, <3>1, <3>2 DEF Followed, ListComes
    <2> QED BY <2>1, <2>2
  <1>13. RootComes'
    <2>1. CASE key = "image" BY <1>2, <1>11, <2>1 DEF RootComes
    <2>2. CASE key # "image"
      <3>1. root' = root BY <1>4, <2>2, PickHandledTyped
      <3> QED BY <1>1, <1>2, <1>10, <2>2, <3>1 DEF Followed, RootComes
    <2> QED BY <2>1, <2>2
  <1>14. \A x : Loaded(x)' = Loaded(x) BY <1>1 DEF Loaded
  <1>15. Dropped'
    <2> SUFFICES ASSUME NEW j \in DOMAIN requests', Ask(j, "order")', requests'[j].pc = "sent",
                        NEW x \in DOMAIN shown' \ {"image"}, x \notin Setup!ToSet(requests'[j].ids)
                 PROVE  shown'[x] = Loaded(x)'
      BY DEF Dropped
    <2>1. Ask(j, "order") /\ j \in DOMAIN requests BY <1>2, <1>6
    <2>2. j # k BY <1>1, <2>1 DEF Ask
    <2>3. shown[x] = Loaded(x) BY <1>1, <1>2, <2>1, <2>2 DEF Followed, Dropped
    <2> QED BY <1>1, <1>14, <2>3
  <1>16. ASSUME NEW x \in DOMAIN shown' PROVE Shows(x)'
    <2>1. x \in DOMAIN shown /\ shown'[x] = shown[x] /\ Shows(x) BY <1>1 DEF Followed
    <2>2. CASE x # key
      <3>1. Setup!SavedAt(setup, root, x)' = Setup!SavedAt(setup, root, x)
        BY <1>4, <2>2, PickHandledTyped DEF Setup!SavedAt
      <3>2. \A j, at : AskFor(j, x, at)' <=> AskFor(j, x, at) BY <1>10, <2>2
      <3>3. \A j \in DOMAIN requests : requests'[j].root = requests[j].root
        BY <1>1, <1>2 DEF Same
      <3>4. DOMAIN requests \subseteq DOMAIN requests' BY <1>2
      <3> QED BY <1>14, <2>1, <3>1, <3>2, <3>3, <3>4, ShowsStays
    <2>3. CASE x = key
      <3>1. CASE shown[x] = Loaded(x) BY <1>14, <2>1, <3>1 DEF Shows
      <3>2. CASE \E j \in DOMAIN requests : AskFor(j, x, "sent") /\ requests[j].root = shown[x]
        <4>1. requests[k].root = shown[x] BY <1>8, <2>3, <3>2 DEF AskFor
        <4>2. Setup!SavedAt(setup, root, x)' = requests[k].root
          BY <1>4, <2>3, PickHandledTyped DEF Setup!SavedAt
        <4> QED BY <1>11, <2>1, <2>3, <4>1, <4>2 DEF Shows
      <3>3. ~(\A j \in DOMAIN requests : ~AskFor(j, x, "sent"))
        BY <1>1, <1>4, <2>3 DEF AskFor, Ask
      <3> QED BY <2>1, <3>1, <3>2, <3>3 DEF Shows
    <2> QED BY <2>2, <2>3
  <1> QED BY <1>9, <1>12, <1>13, <1>15, <1>16 DEF Followed
\* a request that leaves the list,
LEMMA TakenTidy ==
    ASSUME SetupTyped, Tidy, NEW k \in DOMAIN requests, requests' = Setup!RemoveAt(requests, k)
    PROVE  /\ \A j \in DOMAIN requests' : requests'[j].heard /\ requests'[j].pc # "refused"
           /\ \A i, j \in DOMAIN requests' :
                 /\ Ask(i, "root")' /\ Ask(j, "root")' /\ requests'[i].key = requests'[j].key => i = j
                 /\ Ask(i, "order")' /\ Ask(j, "order")' => i = j
           /\ requests[k].for = "order" => \A j \in DOMAIN requests' : ~Ask(j, "order")'
           /\ saving \/ \A j \in DOMAIN requests' : ~Ask(j, "order")'
  <1>1. /\ \A j \in DOMAIN requests' : \E i \in DOMAIN requests \ {k} : i = Was(j, k) /\ requests'[j] = requests[i]
        /\ \A i, j \in DOMAIN requests' : Was(i, k) = Was(j, k) => i = j
    BY TakenTyped
  <1>2. \A j \in DOMAIN requests' : /\ Was(j, k) \in DOMAIN requests \ {k}
                                    /\ requests'[j] = requests[Was(j, k)]
    BY <1>1
  <1>3. \A j \in DOMAIN requests' : \A kind : Ask(j, kind)' => Ask(Was(j, k), kind)
    BY <1>2 DEF Ask
  <1>4. \A j \in DOMAIN requests' : requests'[j].heard /\ requests'[j].pc # "refused"
    BY <1>2 DEF Tidy
  <1>5. ASSUME NEW i \in DOMAIN requests', NEW j \in DOMAIN requests'
        PROVE  /\ Ask(i, "root")' /\ Ask(j, "root")' /\ requests'[i].key = requests'[j].key => i = j
               /\ Ask(i, "order")' /\ Ask(j, "order")' => i = j
    <2>1. Was(i, k) \in DOMAIN requests /\ Was(j, k) \in DOMAIN requests BY <1>2
    <2>2. CASE Ask(i, "root")' /\ Ask(j, "root")' /\ requests'[i].key = requests'[j].key
      <3>1. Was(i, k) = Was(j, k) BY <1>2, <1>3, <2>1, <2>2 DEF Tidy
      <3> QED BY <1>1, <3>1
    <2>3. CASE Ask(i, "order")' /\ Ask(j, "order")'
      <3>1. Was(i, k) = Was(j, k) BY <1>3, <2>1, <2>3 DEF Tidy
      <3> QED BY <1>1, <3>1
    <2> QED BY <1>1, <2>2, <2>3
  <1>6. ASSUME requests[k].for = "order", NEW j \in DOMAIN requests', Ask(j, "order")' PROVE FALSE
    <2>1. Ask(Was(j, k), "order") /\ Ask(k, "order") BY <1>3, <1>6 DEF Ask
    <2> QED BY <1>2, <2>1 DEF Tidy
  <1>7. saving \/ \A j \in DOMAIN requests' : ~Ask(j, "order")'
    BY <1>2, <1>3 DEF Tidy
  <1> QED BY <1>4, <1>5, <1>6, <1>7

LEMMA TakenAsks ==
    ASSUME SetupTyped, NEW k \in DOMAIN requests, requests' = Setup!RemoveAt(requests, k)
    PROVE  /\ \A j \in DOMAIN requests' : \E i \in DOMAIN requests \ {k} :
                 /\ requests'[j] = requests[i]
                 /\ \A kind : Ask(j, kind)' <=> Ask(i, kind)
                 /\ \A key, at : AskFor(j, key, at)' <=> AskFor(i, key, at)
           /\ \A i \in DOMAIN requests \ {k} : \E j \in DOMAIN requests' :
                 /\ requests'[j] = requests[i]
                 /\ \A kind : Ask(j, kind)' <=> Ask(i, kind)
                 /\ \A key, at : AskFor(j, key, at)' <=> AskFor(i, key, at)
  <1>1. /\ \A j \in DOMAIN requests' : \E i \in DOMAIN requests \ {k} : requests'[j] = requests[i]
        /\ \A i \in DOMAIN requests \ {k} : \E j \in DOMAIN requests' : requests'[j] = requests[i]
    BY TakenTyped
  <1>2. ASSUME NEW i \in DOMAIN requests, NEW j \in DOMAIN requests', requests'[j] = requests[i]
        PROVE  /\ \A kind : Ask(j, kind)' <=> Ask(i, kind)
               /\ \A key, at : AskFor(j, key, at)' <=> AskFor(i, key, at)
    BY <1>2 DEF AskFor, Ask
  <1> QED BY <1>1, <1>2

LEMMA TakenStays ==
    ASSUME SetupTyped, Followed, NEW k \in DOMAIN requests, requests' = Setup!RemoveAt(requests, k),
           UNCHANGED <<setup, root, current, saved>>
    PROVE  /\ (\E j \in DOMAIN requests : requests[j].pc = "done" /\ ~AskFor(j, "image", "done")) =>
                 \/ requests[k].pc = "done" /\ ~AskFor(k, "image", "done")
                 \/ \E j \in DOMAIN requests' : requests'[j].pc = "done" /\ ~AskFor(j, "image", "done")'
           /\ (\E j \in DOMAIN requests : AskFor(j, "image", "done")) =>
                 \/ AskFor(k, "image", "done")
                 \/ \E j \in DOMAIN requests' : AskFor(j, "image", "done")'
           /\ \A key \in DOMAIN shown :
                 DOMAIN shown' = DOMAIN shown /\ shown'[key] = shown[key] =>
                 AskFor(k, key, "sent") \/ Shows(key)'
           /\ \A j \in DOMAIN requests' : \A key \in DOMAIN shown \ {"image"} :
                 /\ Ask(j, "order")' /\ requests'[j].pc = "sent" /\ key \notin Setup!ToSet(requests'[j].ids)
                 => shown[key] = Loaded(key)'
  <1>1. \A key : Loaded(key)' = Loaded(key) /\ Setup!SavedAt(setup, root, key)' = Setup!SavedAt(setup, root, key)
    BY DEF Loaded
  <1>2. ASSUME NEW i \in DOMAIN requests, requests[i].pc = "done" /\ ~AskFor(i, "image", "done"), i # k
        PROVE  \E j \in DOMAIN requests' : requests'[j].pc = "done" /\ ~AskFor(j, "image", "done")'
    BY <1>2, TakenAsks
  <1>3. ASSUME NEW i \in DOMAIN requests, AskFor(i, "image", "done"), i # k
        PROVE  \E j \in DOMAIN requests' : AskFor(j, "image", "done")'
    BY <1>3, TakenAsks
  <1>4. ASSUME NEW key \in DOMAIN shown, DOMAIN shown' = DOMAIN shown, shown'[key] = shown[key],
               ~AskFor(k, key, "sent")
        PROVE  Shows(key)'
    <2>1. Shows(key) BY DEF Followed
    <2>2. CASE shown[key] = Loaded(key) BY <1>1, <1>4, <2>2 DEF Shows
    <2>3. CASE \E i \in DOMAIN requests : AskFor(i, key, "sent") /\ requests[i].root = shown[key]
      <3>1. PICK i \in DOMAIN requests : AskFor(i, key, "sent") /\ requests[i].root = shown[key] BY <2>3
      <3>2. \E j \in DOMAIN requests' : AskFor(j, key, "sent")' /\ requests'[j].root = shown'[key]
        BY <1>4, <3>1, TakenAsks
      <3> QED BY <3>2 DEF Shows
    <2>4. CASE shown[key] = Setup!SavedAt(setup, root, key) /\ \A i \in DOMAIN requests : ~AskFor(i, key, "sent")
      <3>1. \A j \in DOMAIN requests' : ~AskFor(j, key, "sent")' BY <2>4, TakenAsks
      <3> QED BY <1>1, <1>4, <2>4, <3>1 DEF Shows
    <2> QED BY <2>1, <2>2, <2>3, <2>4 DEF Shows
  <1>5. ASSUME NEW j \in DOMAIN requests', NEW key \in DOMAIN shown \ {"image"},
               Ask(j, "order")', requests'[j].pc = "sent", key \notin Setup!ToSet(requests'[j].ids)
        PROVE  shown[key] = Loaded(key)'
    <2>1. PICK i \in DOMAIN requests : requests'[j] = requests[i] /\ Ask(i, "order")
      BY <1>5, TakenAsks
    <2>2. shown[key] = Loaded(key) BY <1>5, <2>1 DEF Followed, Dropped
    <2> QED BY <1>1, <2>2
  <1> QED BY <1>2, <1>3, <1>4, <1>5

\* an answer,
LEMMA AnsweredKeeps ==
    ASSUME SetupTyped, NEW k \in DOMAIN requests, Setup!Answered(k)
    PROVE  SetupTyped' /\ (Followed => Followed')
  <1>1. PICK r : r = requests[k] OBVIOUS
  <1>2. /\ r.pc = "done" /\ requests' = Setup!RemoveAt(requests, k)
        /\ saving' = (saving /\ r.for = "root")
        /\ reload' = IF r.for = "root" /\ r.key = "image" THEN reload ELSE Setup!Restarted
        /\ poll' = IF r.for = "root" /\ r.key = "image" THEN Setup!PollRestarted ELSE poll
        /\ UNCHANGED <<setup, root, current, saved, draft, shown>>
    BY <1>1 DEF Setup!Answered, Setup!serverVars
  <1>3. requests' \in Seq(Orders \cup Picks) /\ \A j \in DOMAIN requests' : Meant(requests'[j])
    BY <1>2, TakenTyped
  <1>4. /\ reload' \in [pc : {"idle", "asked", "read"}, list : Seq(Entries)] /\ IsList(reload'.list)
        /\ poll' \in [pc : {"idle", "asked", "read"}, root : Setup!Roots]
    <2>1. Setup!Restarted \in [pc : {"idle", "asked", "read"}, list : Seq(Entries)]
          /\ Setup!Restarted.list = <<>> /\ IsList(<<>>)
      BY DEF Setup!Restarted, IsList, Once, Setup!Order
    <2>2. Setup!PollRestarted \in [pc : {"idle", "asked", "read"}, root : Setup!Roots]
      BY DEF Setup!PollRestarted, Setup!Roots
    <2> QED BY <1>2, <2>1, <2>2 DEF SetupTyped
  <1>5. SetupTyped' BY <1>2, <1>3, <1>4 DEF SetupTyped
  <1>6. ASSUME Followed PROVE Followed'
    <2>1. Tidy'
      <3>1. r.for = "order" \/ r.for = "root" BY <1>1, AskTyped
      <3> QED BY <1>1, <1>2, <1>6, <3>1, TakenTidy DEF Followed, Tidy
    <2>2. AskFor(k, "image", "done") <=> r.for = "root" /\ r.key = "image"
      BY <1>1, <1>2 DEF AskFor, Ask
    <2>3. \A key : ~AskFor(k, key, "sent") BY <1>1, <1>2 DEF AskFor
    <2>4. ListComes'
      <3>1. CASE r.for = "root" /\ r.key = "image"
        BY <1>2, <1>6, <2>2, <3>1, TakenStays DEF Followed, ListComes
      <3>2. CASE ~(r.for = "root" /\ r.key = "image")
        BY <1>2, <3>2 DEF ListComes, Setup!Restarted
      <3> QED BY <3>1, <3>2
    <2>5. RootComes'
      <3>1. CASE r.for = "root" /\ r.key = "image"
        BY <1>2, <3>1 DEF RootComes, Setup!PollRestarted
      <3>2. CASE ~(r.for = "root" /\ r.key = "image")
        BY <1>2, <1>6, <2>2, <3>2, TakenStays DEF Followed, RootComes
      <3> QED BY <3>1, <3>2
    <2>6. Dropped' BY <1>2, <1>6, TakenStays DEF Dropped
    <2>7. \A key \in DOMAIN shown' : Shows(key)' BY <1>2, <1>6, <2>3, TakenStays
    <2> QED BY <2>1, <2>4, <2>5, <2>6, <2>7 DEF Followed
  <1> QED BY <1>5, <1>6
\* a request that fails,
LEMMA FailsTyped ==
    ASSUME SetupTyped, NEW k \in DOMAIN requests, Setup!Fails(k)
    PROVE  SetupTyped'
  <1>1. /\ requests' = Setup!RemoveAt(requests, k)
        /\ saving' = (saving /\ requests[k].for = "root")
        /\ shown' = IF requests[k].for = "root"
                    THEN [shown EXCEPT ![requests[k].key] = requests[k].back] ELSE shown
        /\ UNCHANGED <<setup, root, current, saved, draft, reload, poll>>
    BY DEF Setup!Fails, Setup!serverVars
  <1>2. requests' \in Seq(Orders \cup Picks) /\ \A j \in DOMAIN requests' : Meant(requests'[j])
    BY <1>1, TakenTyped
  <1>3. requests[k].for = "root" => requests[k].back \in Setup!Roots
    BY AskTyped DEF Picks
  <1>4. shown' \in [Setup!Pickers(draft') -> Setup!Roots]
    BY <1>1, <1>3 DEF SetupTyped
  <1> QED BY <1>1, <1>2, <1>4 DEF SetupTyped

LEMMA FailsFollowed ==
    ASSUME SetupTyped, Followed, clean', NEW k \in DOMAIN requests, Setup!Fails(k)
    PROVE  Followed'
  <1>1. PICK r : r = requests[k] OBVIOUS
  <1>2. /\ requests' = Setup!RemoveAt(requests, k)
        /\ saving' = (saving /\ r.for = "root")
        /\ shown' = IF r.for = "root" THEN [shown EXCEPT ![r.key] = r.back] ELSE shown
        /\ UNCHANGED <<setup, root, current, saved, draft, reload, poll>>
        /\ r.pc # "done" /\ (r.for = "root" => r.back = Loaded(r.key))
    BY <1>1 DEF Setup!Fails, Setup!serverVars, Loaded
  <1>3. \A key : Loaded(key)' = Loaded(key) BY <1>2 DEF Loaded
  <1>4. DOMAIN shown' = DOMAIN shown
        /\ \A key \in DOMAIN shown : \/ shown'[key] = shown[key] /\ (r.for = "root" => r.key # key)
                                     \/ shown'[key] = Loaded(key)
    BY <1>2
  <1>5. Tidy'
    <2>1. r.for = "order" \/ r.for = "root" BY <1>1, AskTyped
    <2> QED BY <1>1, <1>2, <2>1, TakenTidy DEF Followed, Tidy
  <1>6. ~AskFor(k, "image", "done") /\ requests[k].pc # "done" BY <1>1, <1>2 DEF AskFor
  <1>7. ListComes' BY <1>2, <1>6, TakenStays DEF Followed, ListComes
  <1>8. RootComes' BY <1>2, <1>6, TakenStays DEF Followed, RootComes
  <1>9. Dropped'
    <2> SUFFICES ASSUME NEW j \in DOMAIN requests', Ask(j, "order")', requests'[j].pc = "sent",
                        NEW key \in DOMAIN shown' \ {"image"}, key \notin Setup!ToSet(requests'[j].ids)
                 PROVE  shown'[key] = Loaded(key)'
      BY DEF Dropped
    <2>1. shown[key] = Loaded(key)' BY <1>2, <1>4, TakenStays
    <2> QED BY <1>3, <1>4, <2>1
  <1>10. ASSUME NEW key \in DOMAIN shown' PROVE Shows(key)'
    <2>1. CASE shown'[key] = Loaded(key) BY <1>3, <2>1 DEF Shows
    <2>2. CASE shown'[key] = shown[key] /\ (r.for = "root" => r.key # key)
      <3>1. ~AskFor(k, key, "sent") BY <1>1, <2>2 DEF AskFor, Ask
      <3> QED BY <1>2, <1>4, <2>2, <3>1, TakenStays
    <2> QED BY <1>4, <2>1, <2>2
  <1> QED BY <1>5, <1>7, <1>8, <1>9, <1>10 DEF Followed

\* one that nobody waits for,
LEMMA UnheardKeeps ==
    ASSUME SetupTyped, NEW k \in DOMAIN requests, Setup!Unheard(k)
    PROVE  SetupTyped' /\ ~Followed
  <1>1. /\ requests' = Setup!RemoveAt(requests, k) /\ ~requests[k].heard
        /\ UNCHANGED <<setup, root, current, saved, draft, shown, reload, poll, saving>>
    BY DEF Setup!Unheard, Setup!serverVars, Setup!pageVars
  <1>2. requests' \in Seq(Orders \cup Picks) /\ \A j \in DOMAIN requests' : Meant(requests'[j])
    BY <1>1, TakenTyped
  <1>3. SetupTyped' BY <1>1, <1>2 DEF SetupTyped
  <1>4. ~Followed BY <1>1 DEF Followed, Tidy
  <1> QED BY <1>3, <1>4

\* the setup that is closed and opened again,
LEMMA ReopenTyped ==
    ASSUME SetupTyped, Setup!Reopen
    PROVE  /\ SetupTyped' /\ DOMAIN requests' = DOMAIN requests
           /\ \A key \in DOMAIN shown' : shown'[key] = Loaded(key)
  <1>1. /\ draft' = Setup!Order(current)
        /\ shown' = [key \in Setup!Pickers(Setup!Order(current)) |-> Setup!SavedAt(current, saved, key)]
        /\ requests' = [k \in DOMAIN requests |-> [requests[k] EXCEPT !.heard = FALSE]]
        /\ saving' = FALSE
        /\ UNCHANGED <<setup, root, current, saved, reload, poll>>
    BY DEF Setup!Reopen, Setup!serverVars
  <1> DEFINE h == [k \in DOMAIN requests |-> FALSE]
  <1>2. requests' = [k \in DOMAIN requests |-> [requests[k] EXCEPT !.heard = h[k]]] BY <1>1
  <1>3. h \in [DOMAIN requests -> BOOLEAN] OBVIOUS
  <1> HIDE DEF h
  <1>8. requests' \in Seq(Orders \cup Picks) /\ DOMAIN requests' = DOMAIN requests
        /\ \A k \in DOMAIN requests' : Meant(requests'[k])
    BY <1>2, <1>3, HeardTyped
  <1>9. IsOrder(draft') BY <1>1, OrderIs DEF SetupTyped, IsList, IsOrder
  <1>10. shown' \in [Setup!Pickers(draft') -> Setup!Roots]
    <2>1. \A key : Setup!SavedAt(current, saved, key) \in Setup!Roots BY SavedIs DEF SetupTyped
    <2> QED BY <1>1, <2>1
  <1>11. \A key \in DOMAIN shown' : shown'[key] = Loaded(key) BY <1>1 DEF Loaded
  <1>12. SetupTyped' BY <1>1, <1>8, <1>9, <1>10 DEF SetupTyped
  <1> QED BY <1>8, <1>11, <1>12

LEMMA ReopenFollowed ==
    ASSUME SetupTyped, Followed, clean', Setup!Reopen
    PROVE  Followed'
  <1>1. UNCHANGED <<setup, root, current, saved, reload, poll>> /\ requests = <<>>
    BY DEF Setup!Reopen, Setup!serverVars
  <1>2. DOMAIN requests = {} /\ DOMAIN requests' = {} BY <1>1, ReopenTyped
  <1>3. Tidy' /\ Dropped' BY <1>2 DEF Tidy, Dropped
  <1>4. ListComes' /\ RootComes' BY <1>1, <1>2 DEF Followed, ListComes, RootComes
  <1>5. \A key \in DOMAIN shown' : Shows(key)'
    <2>1. \A key : Loaded(key)' = Loaded(key) BY <1>1 DEF Loaded
    <2> QED BY <2>1, ReopenTyped DEF Shows
  <1> QED BY <1>3, <1>4, <1>5 DEF Followed
\* the list and the images that are asked for and read,
LEMMA ReadsKeep ==
    ASSUME SetupTyped, Setup!ReloadReads \/ Setup!PollAsks \/ Setup!PollReads
    PROVE  SetupTyped' /\ (Followed => Followed')
  <1>1. /\ UNCHANGED <<setup, root, current, saved, draft, shown, saving, requests>>
        /\ \/ reload' = [pc |-> "read", list |-> setup] /\ poll' = poll
           \/ reload' = reload /\ poll.pc = "idle" /\ poll' = Setup!PollRestarted
           \/ reload' = reload /\ poll.pc = "asked" /\ poll' = [pc |-> "read", root |-> root]
    BY DEF Setup!ReloadReads, Setup!PollAsks, Setup!PollReads, Setup!serverVars
  <1>2. /\ reload' \in [pc : {"idle", "asked", "read"}, list : Seq(Entries)] /\ IsList(reload'.list)
        /\ poll' \in [pc : {"idle", "asked", "read"}, root : Setup!Roots]
    <2>1. setup \in Seq(Entries) /\ IsList(setup) /\ root \in Setup!Roots BY DEF SetupTyped, IsList
    <2>2. PICK s : s = setup OBVIOUS
    <2>3. CASE reload' = [pc |-> "read", list |-> setup] /\ poll' = poll
      <3>1. reload' = [pc |-> "read", list |-> s] BY <2>2, <2>3
      <3>2. reload' \in [pc : {"idle", "asked", "read"}, list : Seq(Entries)] /\ reload'.list = s
        BY <2>1, <2>2, <3>1
      <3> QED BY <2>1, <2>2, <2>3, <3>2 DEF SetupTyped
    <2>4. CASE reload' = reload /\ poll' = Setup!PollRestarted
      BY <2>4 DEF SetupTyped, Setup!PollRestarted, Setup!Roots
    <2>5. CASE reload' = reload /\ poll' = [pc |-> "read", root |-> root]
      BY <2>5 DEF SetupTyped
    <2> QED BY <1>1, <2>3, <2>4, <2>5
  <1>3. SetupTyped' BY <1>1, <1>2 DEF SetupTyped
  <1>4. ASSUME Followed PROVE Followed'
    <2>1. \A j, kind : Ask(j, kind)' <=> Ask(j, kind) BY <1>1 DEF Ask
    <2>2. \A j, key, at : AskFor(j, key, at)' <=> AskFor(j, key, at) BY <1>1 DEF AskFor, Ask
    <2>3. Tidy' BY <1>1, <1>4, <2>1 DEF Followed, Tidy
    <2>4. \A key : Loaded(key)' = Loaded(key) /\ Setup!SavedAt(setup, root, key)' = Setup!SavedAt(setup, root, key)
      BY <1>1 DEF Loaded
    <2>5. Dropped' BY <1>1, <1>4, <2>1, <2>4 DEF Followed, Dropped
    <2>6. ListComes' BY <1>1, <1>4, <2>2 DEF Followed, ListComes
    <2>7. RootComes' BY <1>1, <1>4, <2>2 DEF Followed, RootComes, Setup!PollRestarted
    <2>8. ASSUME NEW key \in DOMAIN shown' PROVE Shows(key)'
      <3>1. shown'[key] = shown[key] /\ Shows(key) BY <1>1, <1>4, <2>8 DEF Followed
      <3>2. DOMAIN requests \subseteq DOMAIN requests' /\ \A j \in DOMAIN requests : requests'[j].root = requests[j].root
        BY <1>1
      <3> QED BY <2>2, <2>4, <3>1, <3>2, ShowsStays
    <2> QED BY <2>3, <2>5, <2>6, <2>7, <2>8 DEF Followed
  <1> QED BY <1>3, <1>4

\* loaded,
LEMMA LoadedFollowed ==
    ASSUME SetupTyped, SetupTyped', Followed, UNCHANGED <<setup, root, draft, saving, requests>>,
           shown' = Setup!Rendered(draft, current', saved'),
           ListComes', RootComes'
    PROVE  Followed'
  <1>1. \A key : Loaded(key)' = Setup!SavedAt(current', saved', key) BY DEF Loaded
  <1>2. DOMAIN shown = Setup!Pickers(draft) /\ DOMAIN shown' = Setup!Pickers(draft)
    <2>1. shown' \in [Setup!Pickers(draft') -> Setup!Roots] BY DEF SetupTyped
    <2> QED BY <2>1 DEF SetupTyped
  <1>3. ASSUME NEW key \in DOMAIN shown'
        PROVE  shown'[key] = IF Loaded(key)' = Loaded(key) THEN shown[key] ELSE Loaded(key)'
    <2>1. PICK s, r : s = current' /\ r = saved' OBVIOUS
    <2>2. IsList(s) /\ r \in Setup!Roots BY <2>1 DEF SetupTyped
    <2>3. PICK f : f = Setup!Rendered(draft, s, r) OBVIOUS
    <2>4. \A x \in Setup!Pickers(draft) :
             f[x] = IF x \in DOMAIN shown /\ Setup!SavedAt(s, r, x) = Loaded(x)
                    THEN shown[x] ELSE Setup!SavedAt(s, r, x)
      BY <2>2, <2>3, RenderedIs
    <2>5. shown' = f BY <2>1, <2>3
    <2>6. Loaded(key)' = Setup!SavedAt(s, r, key) BY <1>1, <2>1
    <2> QED BY <1>2, <2>4, <2>5, <2>6
  <1>4. \A j, kind : Ask(j, kind)' <=> Ask(j, kind) BY DEF Ask
  <1>5. \A j, key, at : AskFor(j, key, at)' <=> AskFor(j, key, at) BY DEF AskFor, Ask
  <1>6. Tidy' BY <1>4 DEF Followed, Tidy
  <1>7. Dropped'
    <2> SUFFICES ASSUME NEW j \in DOMAIN requests', Ask(j, "order")', requests'[j].pc = "sent",
                        NEW key \in DOMAIN shown' \ {"image"}, key \notin Setup!ToSet(requests'[j].ids)
                 PROVE  shown'[key] = Loaded(key)'
      BY DEF Dropped
    <2>1. shown[key] = Loaded(key) BY <1>2, <1>4 DEF Followed, Dropped
    <2> QED BY <1>3, <2>1
  <1>8. ASSUME NEW key \in DOMAIN shown' PROVE Shows(key)'
    <2>1. CASE shown'[key] = Loaded(key)' BY <2>1 DEF Shows
    <2>2. CASE Loaded(key)' = Loaded(key) /\ shown'[key] = shown[key]
      <3>1. Shows(key) BY <1>2 DEF Followed
      <3>2. Setup!SavedAt(setup, root, key)' = Setup!SavedAt(setup, root, key) OBVIOUS
      <3>3. DOMAIN requests \subseteq DOMAIN requests' /\ \A j \in DOMAIN requests : requests'[j].root = requests[j].root
        OBVIOUS
      <3> QED BY <1>5, <2>2, <3>1, <3>2, <3>3, ShowsStays
    <2> QED BY <1>3, <2>1, <2>2
  <1> QED BY <1>6, <1>7, <1>8 DEF Followed

LEMMA LoadsKeep ==
    ASSUME SetupTyped, Setup!Reloaded \/ Setup!Polled
    PROVE  SetupTyped' /\ (Followed => Followed')
  <1>1. /\ UNCHANGED <<setup, root, draft, saving, requests>>
        /\ shown' = Setup!Rendered(draft, current', saved')
        /\ \/ /\ reload.pc = "read" /\ current' = reload.list /\ reload' = Setup!Resting
              /\ saved' = saved /\ poll' = poll
           \/ /\ poll.pc = "read" /\ saved' = poll.root /\ poll' = Setup!PollResting
              /\ current' = current /\ reload' = reload
    BY DEF Setup!Reloaded, Setup!Polled, Setup!serverVars
  <1>2. IsList(current') /\ saved' \in Setup!Roots
    BY <1>1 DEF SetupTyped
  <1>3. shown' \in [Setup!Pickers(draft') -> Setup!Roots]
    <2>1. PICK s, r : s = current' /\ r = saved' OBVIOUS
    <2>2. Setup!Rendered(draft, s, r) \in [Setup!Pickers(draft) -> Setup!Roots]
      BY <1>2, <2>1, RenderedIs
    <2> QED BY <1>1, <2>1, <2>2
  <1>4. /\ reload' \in [pc : {"idle", "asked", "read"}, list : Seq(Entries)] /\ IsList(reload'.list)
        /\ poll' \in [pc : {"idle", "asked", "read"}, root : Setup!Roots]
    <2>1. Setup!Resting \in [pc : {"idle", "asked", "read"}, list : Seq(Entries)]
          /\ Setup!Resting.list = <<>> /\ IsList(<<>>)
      BY DEF Setup!Resting, IsList, Once, Setup!Order
    <2>2. Setup!PollResting \in [pc : {"idle", "asked", "read"}, root : Setup!Roots]
      BY DEF Setup!PollResting, Setup!Roots
    <2> QED BY <1>1, <2>1, <2>2 DEF SetupTyped
  <1>5. SetupTyped' BY <1>1, <1>2, <1>3, <1>4 DEF SetupTyped
  <1>6. ASSUME Followed PROVE ListComes' /\ RootComes'
    <2>1. \A j, key, at : AskFor(j, key, at)' <=> AskFor(j, key, at) BY <1>1 DEF AskFor, Ask
    <2>2. ListComes' BY <1>1, <1>6, <2>1 DEF Followed, ListComes, Setup!Resting
    <2>3. RootComes' BY <1>1, <1>6, <2>1 DEF Followed, RootComes, Setup!PollResting
    <2> QED BY <2>2, <2>3
  <1> QED BY <1>1, <1>5, <1>6, LoadedFollowed

\* and another dashboard's doing.
LEMMA ElsewhereTyped ==
    ASSUME SetupTyped, Setup!Elsewhere
    PROVE  SetupTyped' /\ clean' = FALSE
  <1>1. /\ UNCHANGED <<current, saved, draft, shown, reload, poll, saving, requests>> /\ clean' = FALSE
        /\ \/ setup' = Setup!Reverse(setup) /\ root' = root
           \/ \E k \in DOMAIN setup, p \in Setup!Roots : setup' = RootSet(setup, k, p) /\ root' = root
           \/ root' \in Setup!Roots /\ setup' = setup
    BY DEF Setup!Elsewhere, Setup!pageVars, RootSet
  <1>2. IsList(setup) /\ root \in Setup!Roots BY DEF SetupTyped
  <1>3. IsList(setup') /\ root' \in Setup!Roots
    <2>1. CASE setup' = Setup!Reverse(setup) /\ root' = root BY <1>2, <2>1, ReversedIs
    <2>2. ASSUME NEW k \in DOMAIN setup, NEW p \in Setup!Roots, setup' = RootSet(setup, k, p), root' = root
          PROVE  IsList(setup') /\ root' \in Setup!Roots
      BY <1>2, <2>2, RootSetIs
    <2> QED BY <1>1, <1>2, <2>1, <2>2
  <1> QED BY <1>1, <1>3 DEF SetupTyped
-----------------------------------------------------------------------------
LEMMA SetupStarts == ASSUME Setup!Init PROVE SetupInv
  <1>1. /\ setup = [k \in DOMAIN SetupAttached |-> [script |-> SetupAttached[k], root |-> NoRoot]]
        /\ root = NoRoot /\ current = setup /\ saved = root /\ draft = Setup!Order(setup)
        /\ shown = [key \in Setup!Pickers(draft) |-> NoRoot]
        /\ reload = Setup!Resting /\ poll = Setup!PollResting
        /\ saving = FALSE /\ requests = <<>> /\ landed = Setup!NoLanding
    BY DEF Setup!Init
  <1>2. /\ SetupAttached \in Seq(SetupScripts) /\ Once(SetupAttached)
        /\ DOMAIN SetupAttached = 1 .. Len(SetupAttached) /\ Len(SetupAttached) \in Nat
    BY SetupAssumption DEF Once
  <1>3. NoRoot \in Setup!Roots BY DEF Setup!Roots
  <1>4. ASSUME NEW k \in DOMAIN SetupAttached
        PROVE  setup[k] \in Entries /\ setup[k].script = SetupAttached[k] /\ setup[k].root = NoRoot
    <2>1. setup[k] = [script |-> SetupAttached[k], root |-> NoRoot] BY <1>1
    <2>2. SetupAttached[k] \in SetupScripts BY <1>2
    <2> QED BY <1>3, <2>1, <2>2 DEF Entries
  <1>5. setup \in Seq(Entries) /\ DOMAIN setup = DOMAIN SetupAttached
    <2>1. DOMAIN setup = 1 .. Len(SetupAttached) BY <1>1, <1>2
    <2>2. setup = [k \in 1 .. Len(SetupAttached) |-> setup[k]] BY <1>1, <1>2
    <2>3. \A k \in 1 .. Len(SetupAttached) : setup[k] \in Entries BY <1>2, <1>4
    <2> QED BY <1>2, <2>1, <2>2, <2>3
  <1>6. IsList(setup)
    <2>1. \A k \in DOMAIN setup : Setup!Order(setup)[k] = SetupAttached[k] BY <1>4, <1>5, OrderIs
    <2> QED BY <1>2, <1>5, <2>1, OrderIs DEF IsList, Once
  <1>7. IsOrder(draft) BY <1>1, <1>6, OrderIs DEF IsOrder, IsList
  <1>8. \A x : Setup!RootIn(setup, x) = NoRoot
    <2> SUFFICES ASSUME NEW x PROVE Setup!RootIn(setup, x) = NoRoot
      OBVIOUS
    <2>1. CASE \E k \in DOMAIN setup : setup[k].script = x
      <3>1. PICK k \in DOMAIN setup : setup[k].script = x BY <2>1
      <3>2. Setup!RootIn(setup, setup[k].script) = setup[k].root BY <1>6, <3>1, RootInIs
      <3> QED BY <1>4, <1>5, <3>1, <3>2
    <2>2. CASE \A k \in DOMAIN setup : setup[k].script # x BY <1>6, <2>2, RootInIs
    <2> QED BY <2>1, <2>2
  <1>9. /\ reload \in [pc : {"idle", "asked", "read"}, list : Seq(Entries)] /\ IsList(reload.list)
        /\ reload.pc = "idle"
    BY <1>1 DEF Setup!Resting, IsList, Once, Setup!Order
  <1>10. poll \in [pc : {"idle", "asked", "read"}, root : Setup!Roots] /\ poll.pc = "idle"
    BY <1>1 DEF Setup!PollResting, Setup!Roots
  <1>11. SetupTyped
    <2>1. shown \in [Setup!Pickers(draft) -> Setup!Roots] BY <1>1, <1>3
    <2>2. IsList(current) /\ root \in Setup!Roots /\ saved \in Setup!Roots /\ saving \in BOOLEAN
      BY <1>1, <1>3, <1>6
    <2>3. requests \in Seq(Orders \cup Picks) /\ \A k \in DOMAIN requests : Meant(requests[k])
      BY <1>1
    <2> QED BY <1>6, <1>7, <1>9, <1>10, <2>1, <2>2, <2>3 DEF SetupTyped
  <1>12. DOMAIN requests = {} BY <1>1
  <1>13. Tidy /\ Dropped BY <1>12 DEF Tidy, Dropped
  <1>14. ListComes /\ RootComes BY <1>1, <1>9, <1>10 DEF ListComes, RootComes
  <1>15. \A key \in DOMAIN shown : Shows(key)
    <2>1. \A key : Loaded(key) = NoRoot BY <1>1, <1>8 DEF Loaded, Setup!SavedAt
    <2> QED BY <1>1, <2>1 DEF Shows
  <1>16. Setup!Lands BY <1>1 DEF Setup!Lands, Setup!NoLanding
  <1> QED BY <1>11, <1>13, <1>14, <1>15, <1>16 DEF SetupInv, Followed

LEMMA SetupStep == ASSUME SetupInv, Setup!Next PROVE SetupInv'
  <1>1. SetupTyped /\ (clean => Followed) BY DEF SetupInv
  <1>2. ASSUME NEW k \in DOMAIN requests, Setup!PickHandled(k) PROVE SetupInv'
    <2>1. clean' => clean BY <1>2 DEF Setup!PickHandled
    <2> QED BY <1>1, <1>2, <2>1, PickHandledTyped, PickHandledFollowed DEF SetupInv
  <1>3. ASSUME landed' = Setup!NoLanding, SetupTyped', clean' => Followed' PROVE SetupInv'
    <2>1. Setup!Lands' BY <1>3 DEF Setup!Lands, Setup!NoLanding
    <2> QED BY <1>3, <2>1 DEF SetupInv
  <1>4. ASSUME landed' = Setup!NoLanding,
               \/ \E k \in 1 .. Setup!Cardinality(SetupScripts) : Setup!Swap(k) \/ Setup!Detach(k)
               \/ \E x \in SetupScripts : Setup!Attach(x)
               \/ Setup!Reset
        PROVE  SetupInv'
    <2>1. \/ \E k \in Nat \ {0} : Setup!Swap(k) \/ Setup!Detach(k)
          \/ \E x \in SetupScripts : Setup!Attach(x)
          \/ Setup!Reset
      <3>1. ASSUME NEW k, Setup!Swap(k) PROVE k \in Nat \ {0}
        <4>1. k \in 1 .. Len(draft) - 1 BY <3>1 DEF Setup!Swap
        <4> QED BY <1>1, <4>1 DEF SetupTyped, IsOrder
      <3>2. ASSUME NEW k, Setup!Detach(k) PROVE k \in Nat \ {0}
        <4>1. k \in DOMAIN draft BY <3>2 DEF Setup!Detach
        <4> QED BY <1>1, <4>1 DEF SetupTyped, IsOrder
      <3> QED BY <1>4, <3>1, <3>2
    <2>2. SetupTyped' /\ \E ids : Setup!Redraft(ids) BY <1>1, <2>1, DraftsTyped
    <2>3. clean' => clean BY <2>2 DEF Setup!Redraft
    <2>4. clean' => Followed' BY <1>1, <2>2, <2>3, RedraftFollowed
    <2> QED BY <1>3, <1>4, <2>2, <2>4
  <1>5. ASSUME landed' = Setup!NoLanding, Setup!Save PROVE SetupInv'
    <2>1. clean' = clean BY <1>5 DEF Setup!Save
    <2>2. SetupTyped' BY <1>1, <1>5, AsksTyped
    <2>3. clean' => Followed' BY <1>1, <1>5, <2>1, SaveFollowed
    <2> QED BY <1>3, <1>5, <2>2, <2>3
  <1>6. ASSUME landed' = Setup!NoLanding, NEW key \in SetupScripts \cup {"image"}, NEW p \in Setup!Roots,
               Setup!Pick(key, p)
        PROVE  SetupInv'
    <2>1. clean' => clean BY <1>6 DEF Setup!Pick
    <2>2. SetupTyped' BY <1>1, <1>6, AsksTyped
    <2>3. clean' => Followed' BY <1>1, <1>6, <2>1, PickFollowed
    <2> QED BY <1>3, <1>6, <2>2, <2>3
  <1>7. ASSUME landed' = Setup!NoLanding, Setup!Reopen PROVE SetupInv'
    <2>1. clean' => clean BY <1>7 DEF Setup!Reopen
    <2>2. SetupTyped' BY <1>1, <1>7, ReopenTyped
    <2>3. clean' => Followed' BY <1>1, <1>7, <2>1, ReopenFollowed
    <2> QED BY <1>3, <1>7, <2>2, <2>3
  <1>8. ASSUME landed' = Setup!NoLanding, NEW k \in DOMAIN requests,
               Setup!SaveHandled(k) \/ Setup!Answered(k) \/ Setup!Unheard(k)
        PROVE  SetupInv'
    <2>1. clean' = clean BY <1>8 DEF Setup!SaveHandled, Setup!Answered, Setup!Unheard
    <2>2. SetupTyped' /\ (Followed => Followed')
      BY <1>1, <1>8, SaveHandledKeeps, AnsweredKeeps, UnheardKeeps
    <2> QED BY <1>1, <1>3, <1>8, <2>1, <2>2
  <1>9. ASSUME landed' = Setup!NoLanding, NEW k \in DOMAIN requests, Setup!Fails(k) PROVE SetupInv'
    <2>1. clean' => clean BY <1>9 DEF Setup!Fails
    <2>2. SetupTyped' BY <1>1, <1>9, FailsTyped
    <2>3. clean' => Followed' BY <1>1, <1>9, <2>1, FailsFollowed
    <2> QED BY <1>3, <1>9, <2>2, <2>3
  <1>10. ASSUME landed' = Setup!NoLanding,
                \/ Setup!ReloadReads \/ Setup!Reloaded \/ Setup!PollAsks \/ Setup!PollReads \/ Setup!Polled
         PROVE  SetupInv'
    <2>1. clean' = clean
      BY <1>10 DEF Setup!ReloadReads, Setup!Reloaded, Setup!PollAsks, Setup!PollReads, Setup!Polled
    <2>2. SetupTyped' /\ (Followed => Followed') BY <1>1, <1>10, ReadsKeep, LoadsKeep
    <2> QED BY <1>1, <1>3, <1>10, <2>1, <2>2
  <1>11. ASSUME landed' = Setup!NoLanding, Setup!Elsewhere PROVE SetupInv'
    BY <1>1, <1>3, <1>11, ElsewhereTyped
  <1> QED BY <1>2, <1>4, <1>5, <1>6, <1>7, <1>8, <1>9, <1>10, <1>11 DEF Setup!Next

LEMMA SetupStutter == ASSUME SetupInv, UNCHANGED setupVars PROVE SetupInv'
  <1>1. UNCHANGED <<setup, root, current, saved, draft, shown, reload, poll, saving, requests, landed, clean>>
    BY DEF setupVars
  <1>2. SetupTyped' BY <1>1 DEF SetupInv, SetupTyped
  <1>3. Setup!Lands' BY <1>1 DEF SetupInv, Setup!Lands
  <1>4. \A j, kind : Ask(j, kind)' <=> Ask(j, kind) BY <1>1 DEF Ask
  <1>5. \A j, key, at : AskFor(j, key, at)' <=> AskFor(j, key, at) BY <1>1 DEF AskFor, Ask
  <1>6. \A key : Loaded(key)' = Loaded(key) BY <1>1 DEF Loaded
  <1>7. \A key : Setup!SavedAt(setup, root, key)' = Setup!SavedAt(setup, root, key) BY <1>1
  <1>8. ASSUME Followed PROVE Followed'
    <2>1. Tidy' BY <1>1, <1>4, <1>8 DEF Followed, Tidy
    <2>2. ListComes' /\ RootComes' BY <1>1, <1>5, <1>8 DEF Followed, ListComes, RootComes
    <2>3. Dropped' BY <1>1, <1>4, <1>6, <1>8 DEF Followed, Dropped
    <2>4. ASSUME NEW key \in DOMAIN shown' PROVE Shows(key)'
      <3>1. Shows(key) /\ shown'[key] = shown[key] BY <1>1, <1>8, <2>4 DEF Followed
      <3>2. DOMAIN requests \subseteq DOMAIN requests' /\ \A j \in DOMAIN requests : requests'[j].root = requests[j].root
        BY <1>1
      <3> QED BY <1>5, <1>6, <1>7, <3>1, <3>2, ShowsStays
    <2> QED BY <2>1, <2>2, <2>3, <2>4 DEF Followed
  <1> QED BY <1>1, <1>2, <1>3, <1>8 DEF SetupInv

(* SetupsAreKept: a root that is picked for a script is set for that       *)
(* script, though the request (set_root_for_image) only names its position *)
(* (Lands), and once nothing is on its way the list and the pickers        *)
(* (ScriptRootPicker, RootPartitionPicker) show what the server has        *)
(* (ShowsSaved), with the exceptions ImageSetup names.                     *)
THEOREM SetupsAreKept == Spec => []SetupIsKept
  <1> DEFINE Kept == part = "setup" => SetupInv
  <1>1. Init => Kept
    BY SetupStarts DEF Init
  <1>2. Kept /\ [Next]_vars => Kept'
    <2> SUFFICES ASSUME SetupInv, part = "setup", [Next]_vars PROVE SetupInv'
      <3>1. [Next]_vars => part' = part BY DEF Next, vars
      <3> QED BY <3>1
    <2>1. CASE Next BY <2>1, SetupStep DEF Next
    <2>2. CASE UNCHANGED vars BY <2>2, SetupStutter DEF vars
    <2> QED BY <2>1, <2>2
  <1>3. Kept => SetupIsKept
    <2> SUFFICES ASSUME SetupInv PROVE Setup!Lands /\ Setup!ShowsSaved
      BY DEF SetupIsKept, Setup!SetupIsKept
    <2>1. ASSUME clean, requests = <<>>, reload.pc = "idle", poll.pc = "idle"
          PROVE  /\ current = setup /\ saved = root
                 /\ \A key \in DOMAIN shown : shown[key] = Setup!SavedAt(setup, root, key)
      <3>1. DOMAIN requests = {} BY <2>1
      <3>2. current = setup /\ saved = root
        BY <2>1, <3>1 DEF SetupInv, Followed, ListComes, RootComes
      <3>3. ASSUME NEW key \in DOMAIN shown PROVE shown[key] = Setup!SavedAt(setup, root, key)
        <4>1. Loaded(key) = Setup!SavedAt(setup, root, key) BY <3>2 DEF Loaded
        <4>2. Shows(key) BY <2>1 DEF SetupInv, Followed
        <4> QED BY <3>1, <4>1, <4>2 DEF Shows
      <3> QED BY <3>2, <3>3
    <2>2. Setup!ShowsSaved BY <2>1 DEF Setup!ShowsSaved
    <2> QED BY <2>2 DEF SetupInv
  <1> QED BY <1>1, <1>2, <1>3, PTL DEF Spec

-----------------------------------------------------------------------------
(***************************************************************************)
(* The library of scripts.  Rows have names of their own below the next    *)
(* id, an image's list names rows that are there, each once (LibraryInv);  *)
(* an import goes through an archive script by script, and what holds      *)
(* after each (Progress) leaves the image with the archive's scripts and   *)
(* the rows of other images as they were.  What ImportedBy and Declared    *)
(* compute is found from their equations, by the least position at which   *)
(* it would not hold.                                                      *)
(***************************************************************************)
\* Lists.
LEMMA ListFacts ==
    ASSUME NEW s, IsSequence(s)
    PROVE  /\ Len(s) \in Nat /\ DOMAIN s = 1 .. Len(s)
           /\ \A k : k \in 1 .. Len(s) <=> k \in DOMAIN s
BY DEF IsSequence

LEMMA ListOf ==
    ASSUME NEW n \in Nat, NEW f, f = [k \in 1 .. n |-> f[k]]
    PROVE  IsSequence(f) /\ Len(f) = n /\ DOMAIN f = 1 .. n
<1>1. PICK S : S = {f[k] : k \in 1 .. n} OBVIOUS
<1>2. \A k \in 1 .. n : f[k] \in S BY <1>1
<1>3. f \in Seq(S) /\ Len(f) = n BY <1>2
<1> QED BY <1>3 DEF IsSequence

LEMMA EmptyList == IsSequence(<<>>) /\ Len(<<>>) = 0 /\ DOMAIN <<>> = {}
<1>1. Len(<<>>) = 0 /\ DOMAIN <<>> = {} OBVIOUS
<1>2. PICK s : s = <<>> OBVIOUS
<1>3. s = [k \in 1 .. 0 |-> s[k]] BY <1>2
<1>4. IsSequence(s) BY <1>3, ListOf
<1> QED BY <1>1, <1>2, <1>4, Zenon

\* One more element at the end.
Longer(s, e, t) == /\ IsSequence(t) /\ Len(t) = Len(s) + 1 /\ t[Len(s) + 1] = e
                   /\ \A k \in 1 .. Len(s) : t[k] = s[k]
Extended(s, e) == Append(s, e)
LEMMA AppendIs ==
    ASSUME NEW s, IsSequence(s), NEW e
    PROVE  Longer(s, e, Extended(s, e))
<1>1. PICK S : S = {s[k] : k \in 1 .. Len(s)} \cup {e} OBVIOUS
<1>2. Len(s) \in Nat /\ s = [k \in 1 .. Len(s) |-> s[k]] BY DEF IsSequence
<1>3. \A k \in 1 .. Len(s) : s[k] \in S BY <1>1
<1>4. s \in Seq(S) /\ e \in S BY <1>1, <1>2, <1>3
<1>5. PICK t : t = Append(s, e) OBVIOUS
<1>6. t \in Seq(S) /\ Len(t) = Len(s) + 1 /\ t[Len(s) + 1] = e /\ \A k \in 1 .. Len(s) : t[k] = s[k]
  BY <1>4, <1>5
<1>7. t = [k \in 1 .. Len(t) |-> t[k]] /\ Len(t) \in Nat BY <1>6
<1>8. IsSequence(t) BY <1>7 DEF IsSequence
<1> QED BY <1>5, <1>6, <1>8 DEF Longer, Extended

\* One list after the other.
Chained(a, b, c) ==
    /\ IsSequence(c) /\ Len(c) = Len(a) + Len(b)
    /\ \A k \in DOMAIN c : (k \in DOMAIN a /\ c[k] = a[k])
                           \/ (k - Len(a) \in DOMAIN b /\ c[k] = b[k - Len(a)])
    /\ \A k \in DOMAIN a : k \in DOMAIN c /\ c[k] = a[k]
    /\ \A k \in DOMAIN b : Len(a) + k \in DOMAIN c /\ c[Len(a) + k] = b[k]
Chain(a, b) == a \o b
LEMMA ChainIs ==
    ASSUME NEW a, IsSequence(a), NEW b, IsSequence(b)
    PROVE  Chained(a, b, Chain(a, b))
<1>0. PICK c : c = Chain(a, b) OBVIOUS
<1>1. PICK U : U = {a[k] : k \in 1 .. Len(a)} \cup {b[k] : k \in 1 .. Len(b)} OBVIOUS
<1>2. Len(a) \in Nat /\ a = [k \in 1 .. Len(a) |-> a[k]] BY DEF IsSequence
<1>3. Len(b) \in Nat /\ b = [k \in 1 .. Len(b) |-> b[k]] BY DEF IsSequence
<1>4. a \in Seq(U) /\ b \in Seq(U)
  <2>1. \A k \in 1 .. Len(a) : a[k] \in U BY <1>1
  <2>2. \A k \in 1 .. Len(b) : b[k] \in U BY <1>1
  <2>3. a \in Seq(U) BY <1>2, <2>1
  <2>4. b \in Seq(U) BY <1>3, <2>2
  <2> QED BY <2>3, <2>4
<1>5. c \in Seq(U) /\ Len(c) = Len(a) + Len(b) /\ DOMAIN c = 1 .. Len(a) + Len(b)
  BY <1>0, <1>4 DEF Chain
<1>6. IsSequence(c)
  <2>1. c = [k \in 1 .. Len(c) |-> c[k]] /\ Len(c) \in Nat BY <1>2, <1>3, <1>5
  <2> QED BY <2>1 DEF IsSequence
<1>7. \A k \in 1 .. Len(a) + Len(b) : c[k] = IF k <= Len(a) THEN a[k] ELSE b[k - Len(a)]
  BY <1>0, <1>2, <1>3, <1>4 DEF Chain
<1>8. DOMAIN a = 1 .. Len(a) /\ DOMAIN b = 1 .. Len(b) BY <1>2, <1>3
<1>9. Chained(a, b, c) BY <1>2, <1>3, <1>5, <1>6, <1>7, <1>8 DEF Chained
<1> QED BY <1>0, <1>9

-----------------------------------------------------------------------------
(* The import.                                                             *)
ImportStart == [lib |-> scripts, next |-> nextId, ids |-> <<>>]
ImportRun(i, list, n, f) ==
    f = [k \in 0 .. n |-> IF k = 0 THEN ImportStart ELSE Store!ImportScript(f[k - 1], i, list[k].def)]

\* An import has a state after each script.
LEMMA ImportRunExists == ASSUME NEW i, NEW list PROVE \A n \in Nat : \E f : ImportRun(i, list, n, f)
<1>1. PICK T : T = {n \in Nat : ~\E f : ImportRun(i, list, n, f)} OBVIOUS
<1>2. SUFFICES ASSUME T # {} PROVE FALSE BY <1>1
<1>3. PICK n \in T : \A y \in T : n <= y BY <1>1, <1>2, LeastNat
<1>4. n \in Nat /\ ~\E f : ImportRun(i, list, n, f) BY <1>1, <1>3
<1>5. n # 0
  <2> SUFFICES ASSUME n = 0 PROVE FALSE OBVIOUS
  <2>1. PICK f : f = [k \in 0 .. 0 |-> ImportStart] OBVIOUS
  <2>2. ImportRun(i, list, 0, f) BY <2>1 DEF ImportRun
  <2> QED BY <1>4, <2>2
<1>6. n - 1 \in Nat /\ n - 1 \notin T BY <1>3, <1>4, <1>5
<1>7. PICK f : ImportRun(i, list, n - 1, f) BY <1>1, <1>6
<1>8. PICK e : e = Store!ImportScript(f[n - 1], i, list[n].def) OBVIOUS
<1>9. PICK g : g = [k \in 0 .. n |-> IF k = n THEN e ELSE f[k]] OBVIOUS
<1>10. ASSUME NEW k \in 0 .. n
       PROVE  g[k] = IF k = 0 THEN ImportStart ELSE Store!ImportScript(g[k - 1], i, list[k].def)
  <2>1. CASE k = n
    <3>1. g[k] = e /\ g[k - 1] = f[n - 1] BY <1>4, <1>5, <1>6, <1>9, <2>1
    <3> QED BY <1>5, <1>8, <2>1, <3>1
  <2>2. CASE k # n
    <3>1. k \in 0 .. n - 1 /\ (k # 0 => k - 1 \in 0 .. n - 1) BY <1>4, <2>2
    <3>2. g[k] = f[k] /\ (k # 0 => g[k - 1] = f[k - 1]) BY <1>4, <1>9, <2>2, <3>1
    <3>3. f[k] = IF k = 0 THEN ImportStart ELSE Store!ImportScript(f[k - 1], i, list[k].def)
      BY <1>7, <3>1 DEF ImportRun
    <3> QED BY <3>2, <3>3
  <2> QED BY <2>1, <2>2
<1>11. ImportRun(i, list, n, g) BY <1>9, <1>10 DEF ImportRun
<1> QED BY <1>4, <1>11

\* ImportedBy is that.
LEMMA ImportedByIs ==
    ASSUME NEW i, NEW list, Len(list) \in Nat
    PROVE  ImportRun(i, list, Len(list), Store!ImportedBy(i, list))
<1>1. PICK f : ImportRun(i, list, Len(list), f) BY ImportRunExists
<1>2. PICK g : g = CHOOSE h : ImportRun(i, list, Len(list), h) OBVIOUS
<1>3. ImportRun(i, list, Len(list), g) BY <1>1, <1>2
<1>4. Store!ImportedBy(i, list) = g
  BY <1>2 DEF Store!ImportedBy, ImportRun, ImportStart
<1> QED BY <1>3, <1>4

\* The inputs of a script, and the library: rows with names of their own.
Inputs(l) == /\ IsSequence(l)
             /\ \A k \in DOMAIN l : Store!ValidInput(l[k])
             /\ \A j, k \in DOMAIN l : l[j].name = l[k].name => j = k
Titled(name) == IsSequence(name) /\ Len(name) \in 1 .. StoreNameLen
Definition(d) == IsSequence(d.name) /\ IsSequence(d.inputs) /\ Store!ValidScript(d)
Row(r) == /\ r = [name |-> r.name, body |-> r.body, inputs |-> r.inputs]
          /\ Titled(r.name) /\ Inputs(r.inputs)
Library(lib, next) ==
    /\ next \in Nat \ {0} /\ DOMAIN lib \subseteq 1 .. next - 1
    /\ lib = [id \in DOMAIN lib |-> lib[id]]
    /\ \A id \in DOMAIN lib : Row(lib[id])
    /\ \A j, k \in DOMAIN lib : lib[j].name = lib[k].name => j = k

\* A definition that validate_script lets through makes a row.
LEMMA DefinitionIs ==
    ASSUME NEW d, Definition(d)
    PROVE  Titled(d.name) /\ Inputs(d.inputs)
<1>1. Titled(d.name)
  <2>1. Len(d.name) \in Nat /\ Len(d.name) <= StoreNameLen /\ d.name # <<>> /\ IsSequence(d.name)
    BY DEF Definition, Store!ValidScript, IsSequence
  <2>2. Len(d.name) # 0
    <3>1. PICK n : n = d.name OBVIOUS
    <3>2. n = [k \in 1 .. Len(n) |-> n[k]] BY <2>1, <3>1 DEF IsSequence
    <3>3. Len(n) = 0 => n = <<>> BY <3>2
    <3> QED BY <2>1, <3>1, <3>3
  <2> QED BY <2>1, <2>2, LibraryAssumption DEF Titled
<1>2. Inputs(d.inputs)
  BY DEF Definition, Store!ValidScript, Inputs
<1> QED BY <1>1, <1>2

\* Writing a row under a name that no other row has.
Goes(lib, next, name, id, after) ==
    /\ \/ id \in DOMAIN lib /\ after = next
       \/ id = next /\ after = next + 1
    /\ \A j \in DOMAIN lib : lib[j].name = name => j = id
Writes(lib, next, name, id, after, d, new) ==
    /\ Library(lib, next) /\ Definition(d) /\ Titled(name) /\ Goes(lib, next, name, id, after)
    /\ new = Store!Written(lib, id, name, d)
Wrote(lib, name, id, after, d, new) ==
    /\ Library(new, after) /\ DOMAIN new = DOMAIN lib \cup {id}
    /\ new[id] = [name |-> name, body |-> d.body, inputs |-> d.inputs]
    /\ \A j \in DOMAIN lib \ {id} : new[j] = lib[j]
LEMMA WrittenIs ==
    ASSUME NEW lib, NEW next, NEW name, NEW id, NEW after, NEW d, NEW new,
           Writes(lib, next, name, id, after, d, new)
    PROVE  Wrote(lib, name, id, after, d, new)
<1> USE DEF Writes
<1>1. PICK r : r = [name |-> name, body |-> d.body, inputs |-> d.inputs] OBVIOUS
<1>2. new = [j \in DOMAIN lib \cup {id} |-> IF j = id THEN r ELSE lib[j]]
  BY <1>1 DEF Store!Written
<1>3. DOMAIN new = DOMAIN lib \cup {id} /\ new[id] = r /\ \A j \in DOMAIN lib \ {id} : new[j] = lib[j]
  BY <1>2
<1>4. next \in Nat \ {0} /\ DOMAIN lib \subseteq 1 .. next - 1 /\ \A j \in DOMAIN lib : Row(lib[j])
  BY DEF Library
<1>0. /\ \/ id \in DOMAIN lib /\ after = next
         \/ id = next /\ after = next + 1
      /\ \A j \in DOMAIN lib : lib[j].name = name => j = id
  BY DEF Goes
<1>5. after \in Nat \ {0} /\ DOMAIN new \subseteq 1 .. after - 1 BY <1>0, <1>3, <1>4
<1>6. Row(r) BY <1>1, DefinitionIs DEF Row
<1>7. \A j \in DOMAIN new : Row(new[j]) BY <1>3, <1>4, <1>6
<1>8. ASSUME NEW j \in DOMAIN new, NEW k \in DOMAIN new, new[j].name = new[k].name PROVE j = k
  <2>1. r.name = name BY <1>1
  <2>2. CASE j # id /\ k # id BY <1>3, <1>8, <2>2 DEF Library
  <2> QED BY <1>0, <1>3, <1>8, <2>1, <2>2
<1>9. new = [j \in DOMAIN new |-> new[j]] BY <1>2
<1> QED BY <1>1, <1>3, <1>5, <1>7, <1>8, <1>9 DEF Library, Wrote

\* The names an import makes up are of legal length, and each is another.
Base(name) == SubSeq(name, 1, IF Len(name) < StoreNameLen THEN Len(name) ELSE StoreNameLen - 1)
LEMMA BaseIs ==
    ASSUME NEW name, Titled(name), NEW b, b = Base(name)
    PROVE  IsSequence(b) /\ Len(b) \in 0 .. StoreNameLen - 1
<1>1. PICK m : m = IF Len(name) < StoreNameLen THEN Len(name) ELSE StoreNameLen - 1 OBVIOUS
<1>2. Len(name) \in Nat /\ StoreNameLen \in Nat /\ m \in Nat /\ m <= Len(name) /\ m <= StoreNameLen - 1
  BY <1>1, LibraryAssumption DEF Titled
<1>3. PICK S : S = {name[k] : k \in 1 .. Len(name)} OBVIOUS
<1>4. \A k \in 1 .. m : name[k] \in S BY <1>2, <1>3
<1>5. b = SubSeq(name, 1, m) BY <1>1 DEF Base
<1>6. b \in Seq(S) /\ Len(b) = IF 1 <= m THEN m - 1 + 1 ELSE 0
  BY <1>2, <1>4, <1>5, SubSeqProperties
<1>7. Len(b) = m BY <1>2, <1>6
<1>8. b = [k \in 1 .. Len(b) |-> b[k]] BY <1>6
<1> QED BY <1>2, <1>7, <1>8 DEF IsSequence

LEMMA ImportNameIs ==
    ASSUME NEW name, Titled(name), NEW a
    PROVE  /\ Titled(Store!ImportName(name, a))
           /\ a # 1 => Longer(Base(name), a, Store!ImportName(name, a))
<1>1. CASE a = 1 BY <1>1 DEF Store!ImportName
<1>2. CASE a # 1
  <2>1. PICK b, t : b = Base(name) /\ t = Extended(b, a) OBVIOUS
  <2>2. t = Store!ImportName(name, a) BY <1>2, <2>1 DEF Store!ImportName, Base, Extended
  <2>3. IsSequence(b) /\ Len(b) \in 0 .. StoreNameLen - 1 BY <2>1, BaseIs
  <2>4. Longer(b, a, t) BY <2>1, <2>3, AppendIs
  <2>5. Titled(t) BY <2>3, <2>4, LibraryAssumption DEF Titled, Longer
  <2> QED BY <2>1, <2>2, <2>4, <2>5
<1> QED BY <1>1, <1>2

\* One of its attempts finds a place.
LEMMA AttemptsEnd ==
    ASSUME NEW lib, NEW next, Library(lib, next), next <= StoreScripts + 1,
           NEW i, NEW d, Titled(d.name)
    PROVE  \E a \in 1 .. StoreScripts + 2 :
              /\ Store!Settles(lib, i, d, a)
              /\ \A b \in 1 .. a - 1 : ~Store!Settles(lib, i, d, b)
<1>1. PICK n : n = StoreScripts OBVIOUS
<1>2. n \in Nat /\ next \in Nat /\ DOMAIN lib \subseteq 1 .. n
  BY <1>1, LibraryAssumption DEF Library
<1>3. \E a \in 2 .. n + 2 : Store!Settles(lib, i, d, a)
  <2> SUFFICES ASSUME \A a \in 2 .. n + 2 : ~Store!Settles(lib, i, d, a) PROVE FALSE OBVIOUS
  <2>1. \A a \in 2 .. n + 2 : \E id \in DOMAIN lib : lib[id].name = Store!ImportName(d.name, a)
    BY DEF Store!Settles, Store!Named
  <2>2. PICK g : g = [a \in 2 .. n + 2 |-> CHOOSE id \in DOMAIN lib : lib[id].name = Store!ImportName(d.name, a)]
    OBVIOUS
  <2>3. \A a \in 2 .. n + 2 : g[a] \in DOMAIN lib /\ lib[g[a]].name = Store!ImportName(d.name, a)
    BY <2>1, <2>2
  <2>4. g \in [2 .. n + 2 -> 1 .. n] BY <1>2, <2>2, <2>3
  <2>5. IsFiniteSet(2 .. n + 2) /\ Cardinality(2 .. n + 2) = n + 1
    <3>1. IsFiniteSet(2 .. n + 2) /\ Cardinality(2 .. n + 2) = IF 2 > n + 2 THEN 0 ELSE (n + 2) - 2 + 1
      BY <1>2, FS_Interval
    <3> QED BY <1>2, <3>1
  <2>6. IsFiniteSet(1 .. n) /\ Cardinality(1 .. n) = n
    <3>1. IsFiniteSet(1 .. n) /\ Cardinality(1 .. n) = IF 1 > n THEN 0 ELSE n - 1 + 1
      BY <1>2, FS_Interval
    <3> QED BY <1>2, <3>1
  <2>7. Cardinality(1 .. n) < Cardinality(2 .. n + 2) BY <1>2, <2>5, <2>6
  <2>8. PICK a \in 2 .. n + 2, b \in 2 .. n + 2 : a # b /\ g[a] = g[b]
    BY <2>4, <2>5, <2>6, <2>7, FS_PigeonHole
  <2>9. Store!ImportName(d.name, a) = Store!ImportName(d.name, b) BY <2>3, <2>8
  <2>10. a # 1 /\ b # 1 BY <1>2
  <2>11. PICK t : t = Store!ImportName(d.name, a) OBVIOUS
  <2>12. Longer(Base(d.name), a, t) /\ Longer(Base(d.name), b, t) BY <2>9, <2>10, <2>11, ImportNameIs
  <2> QED BY <2>8, <2>12 DEF Longer
<1>4. PICK T : T = {a \in 1 .. n + 2 : Store!Settles(lib, i, d, a)} OBVIOUS
<1>5. T \subseteq Nat /\ T # {} BY <1>2, <1>3, <1>4
<1>6. PICK a \in T : \A b \in T : a <= b BY <1>5, LeastNat
<1>7. ASSUME NEW b \in 1 .. a - 1, Store!Settles(lib, i, d, b) PROVE FALSE
  <2>1. a \in 1 .. n + 2 BY <1>4
  <2>2. b \in 1 .. n + 2 /\ b < a BY <1>2, <2>1
  <2>3. a <= b BY <1>4, <1>6, <1>7, <2>2
  <2> QED BY <1>2, <2>1, <2>2, <2>3
<1> QED BY <1>1, <1>4, <1>6, <1>7

\* One script of an archive: it goes into a row of its name, or a new one; no
\* row that another image uses is changed.
Imports(st, i, d, t) ==
    \E id, name :
       /\ Titled(name)
       /\ \/ id \in DOMAIN st.lib /\ st.lib[id].name = name /\ t.next = st.next
          \/ id = st.next /\ t.next = st.next + 1 /\ \A j \in DOMAIN st.lib : st.lib[j].name # name
       /\ t = [lib |-> t.lib, next |-> t.next, ids |-> t.ids]
       /\ t.lib = Store!Written(st.lib, id, name, d) /\ Longer(st.ids, id, t.ids)
       /\ st.next <= StoreScripts + 1 /\ id \in DOMAIN st.lib =>
             \/ ~Store!UsedByOther(i, id)
             \/ st.lib[id].body = d.body /\ st.lib[id].inputs = d.inputs

LEMMA ImportScriptIs ==
    ASSUME NEW st, Library(st.lib, st.next), IsSequence(st.ids), NEW i, NEW d, Definition(d),
           NEW t, t = Store!ImportScript(st, i, d)
    PROVE  Imports(st, i, d, t)
<1>1. PICK a : a = CHOOSE b \in 1 .. (StoreScripts + 2) :
                      /\ Store!Settles(st.lib, i, d, b)
                      /\ \A c \in 1 .. (b - 1) : ~Store!Settles(st.lib, i, d, c)
  OBVIOUS
<1>2. PICK name : name = Store!ImportName(d.name, a) OBVIOUS
<1>3. PICK found : found = Store!Named(st.lib, name) OBVIOUS
<1>4. PICK id : id = IF found = {} THEN st.next ELSE CHOOSE j \in found : TRUE OBVIOUS
<1>5. t = [lib |-> Store!Written(st.lib, id, name, d),
           next |-> IF found = {} THEN st.next + 1 ELSE st.next,
           ids |-> Append(st.ids, id)]
  BY <1>1, <1>2, <1>3, <1>4 DEF Store!ImportScript
<1>6. Titled(name) BY <1>2, DefinitionIs, ImportNameIs
<1>7. found = {j \in DOMAIN st.lib : st.lib[j].name = name} BY <1>3 DEF Store!Named
<1>8. \/ id \in DOMAIN st.lib /\ st.lib[id].name = name /\ t.next = st.next /\ found # {}
      \/ id = st.next /\ t.next = st.next + 1 /\ \A j \in DOMAIN st.lib : st.lib[j].name # name
  BY <1>4, <1>5, <1>7
<1>9. t = [lib |-> t.lib, next |-> t.next, ids |-> t.ids]
      /\ t.lib = Store!Written(st.lib, id, name, d)
  BY <1>5
<1>10. Longer(st.ids, id, t.ids)
  <2>1. PICK s, u : s = st.ids /\ u = Extended(s, id) OBVIOUS
  <2>2. Longer(s, id, u) BY <2>1, AppendIs
  <2>3. t.ids = u BY <1>5, <2>1 DEF Extended
  <2> QED BY <2>1, <2>2, <2>3
<1>11. ASSUME st.next <= StoreScripts + 1, id \in DOMAIN st.lib
       PROVE  \/ ~Store!UsedByOther(i, id)
              \/ st.lib[id].body = d.body /\ st.lib[id].inputs = d.inputs
  <2>1. Store!Settles(st.lib, i, d, a)
    <3>1. Titled(d.name) BY DefinitionIs
    <3>2. \E b \in 1 .. StoreScripts + 2 : /\ Store!Settles(st.lib, i, d, b)
                                          /\ \A c \in 1 .. b - 1 : ~Store!Settles(st.lib, i, d, c)
      BY <1>11, <3>1, AttemptsEnd
    <3> QED BY <1>1, <3>2
  <2>2. st.lib[id].name = name
    <3>1. st.next \notin DOMAIN st.lib BY DEF Library
    <3> QED BY <1>8, <1>11, <3>1
  <2>3. \A j \in found : j = id BY <1>7, <1>11, <2>2 DEF Library
  <2>4. found # {} BY <1>7, <1>11, <2>2
  <2>5. \E j \in found : \/ st.lib[j].body = d.body /\ st.lib[j].inputs = d.inputs
                         \/ a = 1 /\ ~Store!UsedByOther(i, j)
    BY <1>2, <1>3, <2>1, <2>4 DEF Store!Settles
  <2> QED BY <2>3, <2>5
<1> QED BY <1>6, <1>8, <1>9, <1>10, <1>11 DEF Imports

\* What holds after each script of an archive: the rows that were there are
\* there, what was written stays as it is unless the row is written again,
\* and the rows that other images use are as they were.
Progress(i, list, k, st) ==
    /\ st = [lib |-> st.lib, next |-> st.next, ids |-> st.ids]
    /\ Library(st.lib, st.next) /\ IsSequence(st.ids) /\ Len(st.ids) = k
    /\ DOMAIN scripts \subseteq DOMAIN st.lib
    /\ \A j \in 1 .. k : st.ids[j] \in DOMAIN st.lib
    /\ \A j \in 1 .. k : (\A h \in j + 1 .. k : st.ids[h] # st.ids[j]) =>
          /\ st.lib[st.ids[j]].body = list[j].def.body
          /\ st.lib[st.ids[j]].inputs = list[j].def.inputs
    /\ st.next <= StoreScripts + 1 =>
          \A id \in DOMAIN scripts : Store!UsedByOther(i, id) => st.lib[id] = scripts[id]

\* Before the first script, and after one more.
LEMMA ImportBegins ==
    ASSUME Library(scripts, nextId), NEW i, NEW list
    PROVE  Progress(i, list, 0, ImportStart)
<1>1. PICK st : st = ImportStart OBVIOUS
<1>2. st.lib = scripts /\ st.next = nextId /\ st.ids = <<>>
      /\ st = [lib |-> st.lib, next |-> st.next, ids |-> st.ids]
  BY <1>1 DEF ImportStart
<1>3. IsSequence(st.ids) /\ Len(st.ids) = 0 BY <1>2, EmptyList
<1>4. Progress(i, list, 0, st) BY <1>2, <1>3 DEF Progress
<1> QED BY <1>1, <1>4

LEMMA ImportProceeds ==
    ASSUME NEW i, NEW list, NEW k \in Nat, NEW st, Progress(i, list, k, st),
           Definition(list[k + 1].def),
           NEW t, t = Store!ImportScript(st, i, list[k + 1].def)
    PROVE  Progress(i, list, k + 1, t)
<1>1. PICK d : d = list[k + 1].def OBVIOUS
<1>2. Library(st.lib, st.next) /\ IsSequence(st.ids) /\ Len(st.ids) = k BY DEF Progress
<1>3. Imports(st, i, d, t) BY <1>1, <1>2, ImportScriptIs
<1>4. PICK id, name :
         /\ Titled(name)
         /\ \/ id \in DOMAIN st.lib /\ st.lib[id].name = name /\ t.next = st.next
            \/ id = st.next /\ t.next = st.next + 1 /\ \A j \in DOMAIN st.lib : st.lib[j].name # name
         /\ t = [lib |-> t.lib, next |-> t.next, ids |-> t.ids]
         /\ t.lib = Store!Written(st.lib, id, name, d) /\ Longer(st.ids, id, t.ids)
         /\ st.next <= StoreScripts + 1 /\ id \in DOMAIN st.lib =>
               \/ ~Store!UsedByOther(i, id)
               \/ st.lib[id].body = d.body /\ st.lib[id].inputs = d.inputs
  BY <1>3 DEF Imports
<1>5. \A j \in DOMAIN st.lib : st.lib[j].name = name => j = id BY <1>2, <1>4 DEF Library
<1>6. /\ Library(t.lib, t.next) /\ DOMAIN t.lib = DOMAIN st.lib \cup {id}
      /\ t.lib[id] = [name |-> name, body |-> d.body, inputs |-> d.inputs]
      /\ \A j \in DOMAIN st.lib \ {id} : t.lib[j] = st.lib[j]
  <2>1. PICK lib, next, new, after : lib = st.lib /\ next = st.next /\ new = t.lib /\ after = t.next
    OBVIOUS
  <2>2. Definition(d) BY <1>1
  <2>3. Goes(lib, next, name, id, after) BY <1>4, <1>5, <2>1 DEF Goes
  <2>4. Library(lib, next) /\ new = Store!Written(lib, id, name, d) /\ Titled(name)
    BY <1>2, <1>4, <2>1
  <2>5. Writes(lib, next, name, id, after, d, new) BY <2>2, <2>3, <2>4 DEF Writes
  <2>6. Wrote(lib, name, id, after, d, new) BY <2>5, WrittenIs
  <2> QED BY <2>1, <2>6 DEF Wrote
<1>7. /\ IsSequence(t.ids) /\ Len(t.ids) = k + 1 /\ t.ids[k + 1] = id
      /\ \A j \in 1 .. k : t.ids[j] = st.ids[j]
  BY <1>2, <1>4 DEF Longer
<1>8. ASSUME NEW j \in 1 .. k + 1, \A h \in j + 1 .. k + 1 : t.ids[h] # t.ids[j]
      PROVE  /\ t.ids[j] \in DOMAIN t.lib
             /\ t.lib[t.ids[j]].body = list[j].def.body
             /\ t.lib[t.ids[j]].inputs = list[j].def.inputs
  <2>1. CASE j = k + 1 BY <1>1, <1>6, <1>7, <2>1
  <2>2. CASE j # k + 1
    <3>1. j \in 1 .. k /\ k + 1 \in j + 1 .. k + 1 /\ j + 1 .. k \subseteq j + 1 .. k + 1 BY <2>2
    <3>2. t.ids[j] # id /\ t.ids[j] = st.ids[j] BY <1>7, <1>8, <3>1
    <3>3. \A h \in j + 1 .. k : st.ids[h] # st.ids[j]
      <4> SUFFICES ASSUME NEW h \in j + 1 .. k PROVE st.ids[h] # st.ids[j] OBVIOUS
      <4>1. h \in 1 .. k /\ h \in j + 1 .. k + 1 BY <3>1
      <4> QED BY <1>7, <1>8, <3>2, <4>1
    <3>4. /\ st.ids[j] \in DOMAIN st.lib
          /\ st.lib[st.ids[j]].body = list[j].def.body /\ st.lib[st.ids[j]].inputs = list[j].def.inputs
      BY <3>1, <3>3 DEF Progress
    <3> QED BY <1>6, <3>2, <3>4
  <2> QED BY <2>1, <2>2
<1>9. ASSUME NEW j \in 1 .. k + 1 PROVE t.ids[j] \in DOMAIN t.lib
  <2>1. j \in 1 .. k \/ j = k + 1 OBVIOUS
  <2> QED BY <1>6, <1>7, <2>1 DEF Progress
<1>10. ASSUME t.next <= StoreScripts + 1, NEW x \in DOMAIN scripts, Store!UsedByOther(i, x)
       PROVE  t.lib[x] = scripts[x]
  <2>1. st.next <= StoreScripts + 1
    <3>1. st.next \in Nat BY <1>2 DEF Library
    <3>2. StoreScripts \in Nat BY LibraryAssumption
    <3> QED BY <1>4, <1>10, <3>1, <3>2
  <2>2. x \in DOMAIN st.lib /\ st.lib[x] = scripts[x] BY <1>10, <2>1 DEF Progress
  <2>3. CASE x # id BY <1>6, <2>2, <2>3
  <2>4. CASE x = id
    <3>1. st.lib[id].body = d.body /\ st.lib[id].inputs = d.inputs BY <1>4, <1>10, <2>1, <2>2, <2>4
    <3>2. st.lib[id].name = name
      <4>1. st.next \notin DOMAIN st.lib BY <1>2 DEF Library
      <4> QED BY <1>4, <2>2, <2>4, <4>1
    <3>3. st.lib[id] = [name |-> st.lib[id].name, body |-> st.lib[id].body, inputs |-> st.lib[id].inputs]
      BY <1>2, <2>2, <2>4 DEF Library, Row
    <3> QED BY <1>6, <2>2, <2>4, <3>1, <3>2, <3>3
  <2> QED BY <2>3, <2>4
<1> QED BY <1>4, <1>6, <1>7, <1>8, <1>9, <1>10 DEF Progress

\* So much holds of a whole archive.
LEMMA ImportedByProgress ==
    ASSUME Library(scripts, nextId), NEW i, NEW list, IsSequence(list),
           \A k \in DOMAIN list : Definition(list[k].def)
    PROVE  Progress(i, list, Len(list), Store!ImportedBy(i, list)[Len(list)])
<1>1. PICK f, n : f = Store!ImportedBy(i, list) /\ n = Len(list) OBVIOUS
<1>2. n \in Nat /\ DOMAIN list = 1 .. n BY <1>1 DEF IsSequence
<1>3. ImportRun(i, list, n, f) BY <1>1, <1>2, ImportedByIs
<1>4. \A k \in 0 .. n : f[k] = IF k = 0 THEN ImportStart ELSE Store!ImportScript(f[k - 1], i, list[k].def)
  BY <1>3 DEF ImportRun
<1>5. PICK T : T = {k \in 0 .. n : ~Progress(i, list, k, f[k])} OBVIOUS
<1>6. CASE T = {} BY <1>1, <1>2, <1>5, <1>6
<1>7. CASE T # {}
  <2>1. T \subseteq Nat BY <1>2, <1>5
  <2>2. PICK k \in T : \A j \in T : k <= j BY <1>7, <2>1, LeastNat
  <2>3. k \in 0 .. n /\ ~Progress(i, list, k, f[k]) BY <1>5, <2>2
  <2>4. k # 0
    <3>1. f[0] = ImportStart BY <1>2, <1>4
    <3> QED BY <2>3, <3>1, ImportBegins
  <2>5. PICK j : j = k - 1 OBVIOUS
  <2>6. j \in Nat /\ j \in 0 .. n /\ k = j + 1 /\ j + 1 \in 1 .. n BY <1>2, <2>3, <2>4, <2>5
  <2>7. Progress(i, list, j, f[j])
    <3>1. j \notin T BY <2>2, <2>3, <2>6
    <3> QED BY <1>5, <2>6, <3>1
  <2>8. f[k] = Store!ImportScript(f[j], i, list[k].def) BY <1>4, <2>3, <2>4, <2>5
  <2>9. Definition(list[j + 1].def) BY <1>2, <2>6
  <2>10. PICK s, t : s = f[j] /\ t = f[k] OBVIOUS
  <2>11. Progress(i, list, j + 1, t) BY <2>6, <2>7, <2>8, <2>9, <2>10, ImportProceeds
  <2> QED BY <2>3, <2>6, <2>10, <2>11
<1> QED BY <1>6, <1>7

-----------------------------------------------------------------------------
(* The library at work.                                                    *)

\* The scripts an image carries.
Carries(l, rows) == /\ IsSequence(l)
                    /\ \A k \in DOMAIN l : /\ l[k] = [script |-> l[k].script, root |-> l[k].root]
                                           /\ l[k].script \in rows
                    /\ \A j, k \in DOMAIN l : l[j].script = l[k].script => j = k
Carried == /\ links = [i \in StoreImages |-> links[i]]
           /\ \A i \in StoreImages : Carries(links[i], DOMAIN scripts)

LibraryInv ==
    /\ Library(scripts, nextId) /\ nextId <= StoreScripts + 1
    /\ Carried /\ plan.pc \in {"idle", "runs", "stale", "rootless"}
    /\ Store!ImportIsFaithful

\* No step but an import leaves one to be faithful to.
LEMMA FaithfulKept == ASSUME imported' = Store!NoImport PROVE Store!ImportIsFaithful'
BY DEF Store!ImportIsFaithful, Store!NoImport

\* A library that only grows has what the images carry.
LEMMA CarriedKept ==
    ASSUME Carried, UNCHANGED links, DOMAIN scripts \subseteq DOMAIN scripts'
    PROVE  Carried'
<1>1. PICK R, S : R = DOMAIN scripts /\ S = DOMAIN scripts' OBVIOUS
<1>2. ASSUME NEW i \in StoreImages PROVE Carries(links[i], S)
  <2>1. Carries(links[i], R) /\ R \subseteq S BY <1>1 DEF Carried
  <2> QED BY <2>1 DEF Carries
<1>3. \A i \in StoreImages : Carries(links[i], DOMAIN scripts)'
  <2> SUFFICES ASSUME NEW i \in StoreImages PROVE Carries(links[i], DOMAIN scripts)' OBVIOUS
  <2> QED BY <1>1, <1>2 DEF Carries
<1> QED BY <1>3 DEF Carried

\* A list that can be linked is one that an image may carry.
LEMMA LinkableCarried ==
    ASSUME NEW lib, NEW l, IsSequence(l), Store!Linkable(lib, l),
           \A k \in DOMAIN l : l[k] = [script |-> l[k].script, root |-> l[k].root]
    PROVE  Carries(l, DOMAIN lib)
BY DEF Store!Linkable, Carries

\* create_script, update_script and delete_script.
LEMMA CreateKeepsLibrary ==
    ASSUME LibraryInv, NEW d \in StoreDefinitions, Store!CreateScript(d) PROVE LibraryInv'
<1>1. /\ Store!ValidScript(d) /\ Store!Named(scripts, d.name) = {} /\ nextId \in 1 .. StoreScripts
      /\ scripts' = Store!Written(scripts, nextId, d.name, d) /\ nextId' = nextId + 1
      /\ UNCHANGED <<links, rootOf, deleting, reader, task, plan>> /\ imported' = Store!NoImport
  BY DEF Store!CreateScript, Store!Op, Store!Elsewhere, Store!Ids
<1>2. Definition(d) BY <1>1, LibraryAssumption DEF Definition
<1>3. Goes(scripts, nextId, d.name, nextId, nextId + 1)
  BY <1>1 DEF Goes, Store!Named
<1>4. PICK new : new = scripts' OBVIOUS
<1>5. Library(new, nextId + 1) /\ DOMAIN new = DOMAIN scripts \cup {nextId}
  <2>1. PICK name, lib, next, after :
         name = d.name /\ lib = scripts /\ next = nextId /\ after = nextId + 1
    OBVIOUS
  <2>2. Titled(name) /\ Goes(lib, next, name, next, after) /\ Library(lib, next)
    BY <1>2, <1>3, <2>1, DefinitionIs DEF LibraryInv
  <2>3. new = Store!Written(lib, next, name, d) BY <1>1, <1>4, <2>1
  <2>4. Writes(lib, next, name, next, after, d, new) BY <1>2, <2>2, <2>3 DEF Writes
  <2>5. Wrote(lib, name, next, after, d, new) BY <2>4, WrittenIs
  <2> QED BY <2>1, <2>5 DEF Wrote
<1>6. Library(scripts, nextId)' BY <1>1, <1>4, <1>5
<1>7. nextId' <= StoreScripts + 1 BY <1>1, LibraryAssumption
<1>8. Carried' BY <1>1, <1>4, <1>5, CarriedKept DEF LibraryInv
<1> QED BY <1>1, <1>6, <1>7, <1>8, FaithfulKept DEF LibraryInv

LEMMA UpdateKeepsLibrary ==
    ASSUME LibraryInv, NEW id \in DOMAIN scripts, NEW d \in StoreDefinitions, Store!UpdateScript(id, d)
    PROVE  LibraryInv'
<1>1. /\ Store!ValidScript(d) /\ Store!Named(scripts, d.name) \subseteq {id}
      /\ scripts' = Store!Written(scripts, id, d.name, d) /\ nextId' = nextId
      /\ UNCHANGED <<links, rootOf, deleting, reader, task, plan>> /\ imported' = Store!NoImport
  BY DEF Store!UpdateScript, Store!Op, Store!Elsewhere
<1>2. Definition(d) BY <1>1, LibraryAssumption DEF Definition
<1>3. Goes(scripts, nextId, d.name, id, nextId)
  BY <1>1 DEF Goes, Store!Named
<1>4. PICK new : new = scripts' OBVIOUS
<1>5. Library(new, nextId) /\ DOMAIN new = DOMAIN scripts \cup {id}
  <2>1. PICK name, lib, next : name = d.name /\ lib = scripts /\ next = nextId
    OBVIOUS
  <2>2. Titled(name) /\ Goes(lib, next, name, id, next) /\ Library(lib, next)
    BY <1>2, <1>3, <2>1, DefinitionIs DEF LibraryInv
  <2>3. new = Store!Written(lib, id, name, d) BY <1>1, <1>4, <2>1
  <2>4. Writes(lib, next, name, id, next, d, new) BY <1>2, <2>2, <2>3 DEF Writes
  <2>5. Wrote(lib, name, id, next, d, new) BY <2>4, WrittenIs
  <2> QED BY <2>1, <2>5 DEF Wrote
<1>6. Library(scripts, nextId)' BY <1>1, <1>4, <1>5
<1>8. Carried' BY <1>1, <1>4, <1>5, CarriedKept DEF LibraryInv
<1> QED BY <1>1, <1>6, <1>8, FaithfulKept DEF LibraryInv

LEMMA DeleteKeepsLibrary == ASSUME LibraryInv, Store!DeleteWrites PROVE LibraryInv'
<1>1. /\ UNCHANGED <<nextId, links, rootOf, reader, task, plan>> /\ imported' = Store!NoImport
      /\ \/ scripts' = scripts
         \/ /\ \A i \in StoreImages : ~Store!Uses(i, deleting)
            /\ scripts' = [j \in DOMAIN scripts \ {deleting} |-> scripts[j]]
  BY DEF Store!DeleteWrites, Store!Quiet, Store!Rows
<1>2. PICK new : new = scripts' OBVIOUS
<1>3. DOMAIN new \subseteq DOMAIN scripts /\ (\A j \in DOMAIN new : new[j] = scripts[j])
      /\ new = [j \in DOMAIN new |-> new[j]]
  <2>1. scripts = [j \in DOMAIN scripts |-> scripts[j]] BY DEF LibraryInv, Library
  <2> QED BY <1>1, <1>2, <2>1
<1>4. Library(new, nextId) BY <1>3 DEF LibraryInv, Library
<1>5. Library(scripts, nextId)' BY <1>1, <1>2, <1>4
<1>6. ASSUME NEW i \in StoreImages, NEW k \in DOMAIN links[i] PROVE links[i][k].script \in DOMAIN new
  <2>1. links[i][k].script \in DOMAIN scripts BY DEF LibraryInv, Carried, Carries
  <2> QED BY <1>1, <1>2, <2>1 DEF Store!Uses
<1>7. Carried'
  <2>1. ASSUME NEW i \in StoreImages PROVE Carries(links[i], DOMAIN scripts)'
    BY <1>1, <1>2, <1>6 DEF LibraryInv, Carried, Carries
  <2> QED BY <1>1, <2>1 DEF LibraryInv, Carried
<1> QED BY <1>1, <1>5, <1>7, FaithfulKept DEF LibraryInv

\* Another list for one image.
LEMMA RelinkKeeps ==
    ASSUME LibraryInv, UNCHANGED <<scripts, nextId, plan>>, imported' = Store!NoImport,
           NEW i \in StoreImages, NEW l, Carries(l, DOMAIN scripts),
           links' = [links EXCEPT ![i] = l]
    PROVE  LibraryInv'
<1>1. links' = [j \in StoreImages |-> IF j = i THEN l ELSE links[j]] BY DEF LibraryInv, Carried
<1>2. Carried'
  <2>1. ASSUME NEW j \in StoreImages PROVE Carries(links[j], DOMAIN scripts)'
    BY <1>1 DEF LibraryInv, Carried, Carries
  <2>2. links' = [j \in StoreImages |-> links'[j]] BY <1>1
  <2> QED BY <2>1, <2>2 DEF Carried
<1>3. Library(scripts, nextId)' BY DEF LibraryInv, Library, Row
<1> QED BY <1>2, <1>3, FaithfulKept DEF LibraryInv

\* set_for_image and set_root_for_image.
LEMMA SetForImageKeepsLibrary ==
    ASSUME LibraryInv, NEW i \in StoreImages, NEW ids \in Store!SeqOf(Store!Ids, 2),
           Store!SetForImage(i, ids)
    PROVE  LibraryInv'
<1>1. PICK l, roots :
         /\ roots = [id \in {ids[k] : k \in DOMAIN ids} |->
                       IF Store!Uses(i, id)
                       THEN links[i][CHOOSE k \in DOMAIN links[i] : links[i][k].script = id].root
                       ELSE NoRoot]
         /\ l = [k \in DOMAIN ids |-> [script |-> ids[k], root |-> roots[ids[k]]]]
  OBVIOUS
<1>2. /\ Store!Linkable(scripts, l) /\ links' = [links EXCEPT ![i] = l]
      /\ UNCHANGED <<scripts, nextId, plan>> /\ imported' = Store!NoImport
  BY <1>1 DEF Store!SetForImage, Store!Op, Store!Elsewhere
<1>3. PICK m \in 0 .. 2 : ids \in [1 .. m -> Store!Ids] BY DEF Store!SeqOf
<1>4. l = [k \in 1 .. m |-> l[k]] /\ DOMAIN l = 1 .. m BY <1>1, <1>3
<1>5. IsSequence(l) BY <1>4, ListOf
<1>6. \A k \in DOMAIN l : l[k] = [script |-> l[k].script, root |-> l[k].root] BY <1>1
<1>7. Carries(l, DOMAIN scripts) BY <1>2, <1>5, <1>6, LinkableCarried
<1> QED BY <1>2, <1>7, RelinkKeeps

LEMMA SetRootKeepsLibrary ==
    ASSUME LibraryInv, NEW i \in StoreImages, NEW k, NEW p, Store!SetRootForImage(i, k, p)
    PROVE  LibraryInv'
<1>1. /\ k \in DOMAIN links[i] /\ links' = [links EXCEPT ![i][k].root = p]
      /\ UNCHANGED <<scripts, nextId, plan>> /\ imported' = Store!NoImport
  BY DEF Store!SetRootForImage, Store!Op, Store!Elsewhere
<1>2. PICK old, r, l : /\ old = links[i] /\ r = [old[k] EXCEPT !.root = p]
                       /\ l = [old EXCEPT ![k] = r]
  OBVIOUS
<1>3. links' = [links EXCEPT ![i] = l] BY <1>1, <1>2
<1>4. Carries(old, DOMAIN scripts) BY <1>2 DEF LibraryInv, Carried
<1>5. /\ Len(old) \in Nat /\ DOMAIN old = 1 .. Len(old) /\ old = [j \in 1 .. Len(old) |-> old[j]]
  BY <1>4 DEF Carries, IsSequence
<1>6. l = [j \in 1 .. Len(old) |-> IF j = k THEN r ELSE old[j]] BY <1>1, <1>2, <1>5
<1>7. IsSequence(l) /\ DOMAIN l = DOMAIN old
  <2>1. l = [j \in 1 .. Len(old) |-> l[j]] BY <1>6
  <2> QED BY <1>5, <2>1, ListOf
<1>8. r = [script |-> old[k].script, root |-> p]
  <2>1. old[k] = [script |-> old[k].script, root |-> old[k].root] BY <1>1, <1>2, <1>4 DEF Carries
  <2> QED BY <1>2, <2>1
<1>9. \A j \in DOMAIN l : l[j] = [script |-> old[j].script, root |-> l[j].root]
  <2> SUFFICES ASSUME NEW j \in DOMAIN l PROVE l[j] = [script |-> old[j].script, root |-> l[j].root]
    OBVIOUS
  <2>1. CASE j = k BY <1>5, <1>6, <1>7, <1>8, <2>1
  <2>2. CASE j # k BY <1>4, <1>5, <1>6, <1>7, <2>2 DEF Carries
  <2> QED BY <2>1, <2>2
<1>10. \A j \in DOMAIN l : l[j].script = old[j].script /\ l[j] = [script |-> l[j].script, root |-> l[j].root]
  BY <1>9
<1>11. Carries(l, DOMAIN scripts) BY <1>4, <1>7, <1>10 DEF Carries
<1> QED BY <1>1, <1>3, <1>11, RelinkKeeps

\* The last step of an import: what is written is what the archive lists, in
\* rows that other images do not use.
LinkedAs(list, ids) == [k \in DOMAIN list |-> [script |-> ids[k], root |-> list[k].root]]
LEMMA ImportKeepsLibrary ==
    ASSUME LibraryInv, NEW i \in StoreImages, NEW list \in StoreArchives,
           Store!ImportForImage(i, list)
    PROVE  LibraryInv' /\ Store!KeepsOthers
<1>1. PICK end, l, n :
         /\ end = Store!ImportedBy(i, list)[Len(list)] /\ n = Len(list)
         /\ l = LinkedAs(list, end.ids)
  OBVIOUS
<1>2. /\ \A k \in DOMAIN list : Store!ValidScript(list[k].def)
      /\ end.next <= StoreScripts + 1 /\ Store!Linkable(end.lib, l)
      /\ scripts' = end.lib /\ nextId' = end.next
      /\ links' = [links EXCEPT ![i] = l]
      /\ imported' = [image |-> i, list |-> list]
      /\ UNCHANGED <<deleting, reader, task, plan, rootOf>>
  BY <1>1 DEF Store!ImportForImage, Store!Elsewhere, LinkedAs
<1>3. IsSequence(list) /\ \A k \in DOMAIN list : Definition(list[k].def)
  BY <1>2, LibraryAssumption DEF Definition
<1>4. Progress(i, list, n, end)
  BY <1>1, <1>3, ImportedByProgress DEF LibraryInv
<1>5. n \in Nat /\ DOMAIN list = 1 .. n BY <1>1, <1>3 DEF IsSequence
<1>6. /\ Library(end.lib, end.next) /\ DOMAIN scripts \subseteq DOMAIN end.lib
      /\ \A id \in DOMAIN scripts : Store!UsedByOther(i, id) => end.lib[id] = scripts[id]
  BY <1>2, <1>4 DEF Progress
<1>7. /\ l = [k \in 1 .. n |-> l[k]] /\ DOMAIN l = 1 .. n
      /\ \A k \in 1 .. n : l[k].script = end.ids[k] /\ l[k].root = list[k].root
                           /\ l[k] = [script |-> l[k].script, root |-> l[k].root]
  BY <1>1, <1>5 DEF LinkedAs
<1>8. IsSequence(l) BY <1>5, <1>7, ListOf
<1>9. Carries(l, DOMAIN end.lib) BY <1>2, <1>7, <1>8, LinkableCarried
<1>10. links' = [j \in StoreImages |-> IF j = i THEN l ELSE links[j]]
  BY <1>2 DEF LibraryInv, Carried
<1>11. Carried'
  <2>1. PICK S : S = DOMAIN end.lib OBVIOUS
  <2>2. ASSUME NEW j \in StoreImages PROVE Carries(links'[j], S)
    <3>1. CASE j = i BY <1>9, <1>10, <2>1, <3>1
    <3>2. CASE j # i
      <4>1. PICK m : m = links[j] OBVIOUS
      <4>2. links'[j] = m BY <1>10, <3>2, <4>1
      <4>3. Carries(m, DOMAIN scripts) BY <4>1 DEF LibraryInv, Carried
      <4>4. Carries(m, S) BY <1>6, <2>1, <4>3 DEF Carries
      <4> QED BY <4>2, <4>4
    <3> QED BY <3>1, <3>2
  <2>3. links' = [j \in StoreImages |-> links'[j]] BY <1>10
  <2> QED BY <1>2, <2>1, <2>2, <2>3 DEF Carried
<1>12. Library(scripts, nextId)'
  <2>1. PICK lib, next : lib = end.lib /\ next = end.next OBVIOUS
  <2>2. Library(lib, next) BY <1>6, <2>1
  <2>3. scripts' = lib /\ nextId' = next BY <1>2, <2>1
  <2> QED BY <2>2, <2>3
<1>13. ASSUME NEW k \in 1 .. n
       PROVE  /\ end.lib[l[k].script].body = list[k].def.body
              /\ end.lib[l[k].script].inputs = list[k].def.inputs
  <2>1. \A h \in k + 1 .. n : end.ids[h] # end.ids[k]
    <3> SUFFICES ASSUME NEW h \in k + 1 .. n PROVE end.ids[h] # end.ids[k] OBVIOUS
    <3>1. h \in 1 .. n /\ h # k BY <1>5
    <3>2. l[h].script # l[k].script BY <1>2, <1>7, <3>1 DEF Store!Linkable
    <3> QED BY <1>7, <3>1, <3>2
  <2> QED BY <1>4, <1>7, <2>1 DEF Progress
<1>14. Store!ImportIsFaithful'
  <2>1. links'[i] = l /\ imported'.image = i /\ imported'.list = list BY <1>2, <1>10
  <2>2. [k \in DOMAIN l |-> LET e == l[k] IN <<end.lib[e.script].body, end.lib[e.script].inputs, e.root>>]
        = [k \in DOMAIN list |-> <<list[k].def.body, list[k].def.inputs, list[k].root>>]
    BY <1>5, <1>7, <1>13
  <2> QED BY <1>2, <2>1, <2>2 DEF Store!ImportIsFaithful
<1>15. LibraryInv' BY <1>2, <1>11, <1>12, <1>14 DEF LibraryInv
<1>16. Store!KeepsOthers
  <2> SUFFICES ASSUME NEW j \in StoreImages \ {i}
               PROVE  /\ links'[j] = links[j]
                      /\ \A k \in DOMAIN links[j] :
                            scripts'[links[j][k].script] = scripts[links[j][k].script]
    BY <1>2 DEF Store!KeepsOthers
  <2>1. links'[j] = links[j] BY <1>10
  <2>2. ASSUME NEW k \in DOMAIN links[j]
        PROVE  scripts'[links[j][k].script] = scripts[links[j][k].script]
    <3>1. PICK id : id = links[j][k].script OBVIOUS
    <3>2. id \in DOMAIN scripts BY <3>1 DEF LibraryInv, Carried, Carries
    <3>3. Store!UsedByOther(i, id) BY <3>1 DEF Store!UsedByOther, Store!Uses
    <3> QED BY <1>2, <1>6, <3>1, <3>2, <3>3
  <2> QED BY <2>1, <2>2
<1> QED BY <1>15, <1>16

\* Whatever else happens leaves the library alone.
LEMMA OthersKeepLibrary ==
    ASSUME LibraryInv, UNCHANGED <<scripts, nextId, links>>, imported' = Store!NoImport,
           plan'.pc \in {"idle", "runs", "stale", "rootless"}
    PROVE  LibraryInv'
<1>1. Library(scripts, nextId)' BY DEF LibraryInv
<1>2. Carried' BY CarriedKept DEF LibraryInv
<1> QED BY <1>1, <1>2, FaithfulKept DEF LibraryInv

\* Only an import could change the scripts of another image.
LEMMA NoImportKeepsOthers == ASSUME imported' = Store!NoImport PROVE Store!KeepsOthers
BY DEF Store!KeepsOthers

\* All of it.
LEMMA LibraryStep ==
    ASSUME LibraryInv, Store!Next PROVE LibraryInv' /\ Store!KeepsOthers
<1>1. ASSUME NEW d \in StoreDefinitions, Store!CreateScript(d) PROVE LibraryInv' /\ Store!KeepsOthers
  BY <1>1, CreateKeepsLibrary, NoImportKeepsOthers DEF Store!CreateScript, Store!Op
<1>2. ASSUME NEW id \in DOMAIN scripts, NEW d \in StoreDefinitions, Store!UpdateScript(id, d)
      PROVE  LibraryInv' /\ Store!KeepsOthers
  BY <1>2, UpdateKeepsLibrary, NoImportKeepsOthers DEF Store!UpdateScript, Store!Op
<1>3. ASSUME NEW id \in DOMAIN scripts, Store!DeleteChecks(id) PROVE LibraryInv' /\ Store!KeepsOthers
  <2>1. UNCHANGED <<scripts, nextId, links, plan>> /\ imported' = Store!NoImport
    BY <1>3 DEF Store!DeleteChecks, Store!Op, Store!libVars
  <2> QED BY <2>1, OthersKeepLibrary, NoImportKeepsOthers DEF LibraryInv
<1>4. ASSUME Store!DeleteWrites PROVE LibraryInv' /\ Store!KeepsOthers
  BY <1>4, DeleteKeepsLibrary, NoImportKeepsOthers DEF Store!DeleteWrites, Store!Quiet
<1>5. ASSUME NEW i \in StoreImages, NEW ids \in Store!SeqOf(Store!Ids, 2), Store!SetForImage(i, ids)
      PROVE  LibraryInv' /\ Store!KeepsOthers
  BY <1>5, SetForImageKeepsLibrary, NoImportKeepsOthers DEF Store!SetForImage, Store!Op
<1>6. ASSUME NEW i \in StoreImages, NEW k, NEW p, Store!SetRootForImage(i, k, p)
      PROVE  LibraryInv' /\ Store!KeepsOthers
  BY <1>6, SetRootKeepsLibrary, NoImportKeepsOthers DEF Store!SetRootForImage, Store!Op
<1>7. ASSUME NEW i \in StoreImages, NEW p, Store!SetRootPartition(i, p)
      PROVE  LibraryInv' /\ Store!KeepsOthers
  <2>1. UNCHANGED <<scripts, nextId, links, plan>> /\ imported' = Store!NoImport
    BY <1>7 DEF Store!SetRootPartition, Store!Op, Store!Elsewhere
  <2> QED BY <2>1, OthersKeepLibrary, NoImportKeepsOthers DEF LibraryInv
<1>8. ASSUME NEW i \in StoreImages, NEW list \in StoreArchives, Store!ImportForImage(i, list)
      PROVE  LibraryInv' /\ Store!KeepsOthers
  BY <1>8, ImportKeepsLibrary
<1>9. ASSUME NEW for, NEW i, NEW req, Store!Read(for, i, req) PROVE LibraryInv' /\ Store!KeepsOthers
  <2>1. UNCHANGED <<scripts, nextId, links, plan>> /\ imported' = Store!NoImport
    BY <1>9 DEF Store!Read, Store!Quiet, Store!libVars
  <2> QED BY <2>1, OthersKeepLibrary, NoImportKeepsOthers DEF LibraryInv
<1>10. ASSUME Store!DeployWrites PROVE LibraryInv' /\ Store!KeepsOthers
  <2>1. UNCHANGED <<scripts, nextId, links>> /\ imported' = Store!NoImport /\ plan' = Store!Idle
    BY <1>10 DEF Store!DeployWrites, Store!Quiet, Store!libVars
  <2>2. plan'.pc = "idle" BY <2>1 DEF Store!Idle
  <2> QED BY <2>1, <2>2, OthersKeepLibrary, NoImportKeepsOthers
<1>11. ASSUME Store!PlanAnswers PROVE LibraryInv' /\ Store!KeepsOthers
  <2>1. UNCHANGED <<scripts, nextId, links>> /\ imported' = Store!NoImport
        /\ plan'.pc \in {"idle", "runs", "stale", "rootless"}
    BY <1>11 DEF Store!PlanAnswers, Store!Quiet, Store!libVars
  <2> QED BY <2>1, OthersKeepLibrary, NoImportKeepsOthers
<1> QED
  BY <1>1, <1>2, <1>3, <1>4, <1>5, <1>6, <1>7, <1>8, <1>9, <1>10, <1>11
  DEF Store!Next, Store!Rows, Store!DeployReads, Store!PlanReads

LEMMA LibraryStarts == ASSUME Store!Init PROVE LibraryInv
<1>1. scripts = <<>> /\ nextId = 1 /\ links = [i \in StoreImages |-> <<>>]
      /\ plan.pc = "idle" /\ imported = Store!NoImport
  BY DEF Store!Init, Store!Idle
<1>2. PICK lib : lib = scripts OBVIOUS
<1>3. DOMAIN lib = {} /\ lib = [id \in DOMAIN lib |-> lib[id]] BY <1>1, <1>2, EmptyList
<1>4. Library(lib, 1) BY <1>3 DEF Library
<1>5. Carried
  <2>1. PICK e, S : e = <<>> /\ S = DOMAIN scripts OBVIOUS
  <2>2. IsSequence(e) /\ DOMAIN e = {} BY <2>1, EmptyList
  <2>3. Carries(e, S) BY <2>2 DEF Carries
  <2>4. \A i \in StoreImages : links[i] = e BY <1>1, <2>1
  <2>5. links = [i \in StoreImages |-> links[i]] BY <1>1
  <2> QED BY <2>1, <2>3, <2>4, <2>5 DEF Carried
<1> QED BY <1>1, <1>2, <1>4, <1>5, LibraryAssumption DEF LibraryInv, Store!ImportIsFaithful

LEMMA LibraryStays == ASSUME LibraryInv, UNCHANGED storeVars PROVE LibraryInv'
<1>1. UNCHANGED <<scripts, nextId, links, plan, imported>> BY DEF storeVars
<1>2. Library(scripts, nextId)' BY <1>1 DEF LibraryInv
<1>3. Carried' BY <1>1, CarriedKept DEF LibraryInv
<1>4. Store!ImportIsFaithful' BY <1>1 DEF LibraryInv, Store!ImportIsFaithful
<1> QED BY <1>1, <1>2, <1>3, <1>4 DEF LibraryInv

LEMMA LibraryShows == ASSUME LibraryInv PROVE Store!TypeOK /\ Store!LinksLive /\ Store!ImportIsFaithful
<1>1. Store!TypeOK
  <2>1. nextId \in Nat \ {0} /\ DOMAIN scripts \subseteq 1 .. (nextId - 1)
    BY DEF LibraryInv, Library
  <2>2. \A i, j \in DOMAIN scripts : i # j => scripts[i].name # scripts[j].name
    BY DEF LibraryInv, Library
  <2>3. \A i \in DOMAIN scripts : Len(scripts[i].name) \in 1 .. StoreNameLen
    BY DEF LibraryInv, Library, Row, Titled
  <2> QED BY <2>1, <2>2, <2>3 DEF LibraryInv, Store!TypeOK, Store!Rows
<1>2. Store!LinksLive
  BY DEF LibraryInv, Carried, Carries, Store!LinksLive, Store!Linkable
<1> QED BY <1>1, <1>2 DEF LibraryInv

Sound == part = "store" => LibraryInv
LEMMA LibraryHolds == Spec => []Sound
  <1>1. Init => Sound
    BY LibraryStarts DEF Init, Sound
  <1>2. Sound /\ [Next]_vars => Sound'
    <2> SUFFICES ASSUME LibraryInv, part = "store", [Next]_vars PROVE LibraryInv'
      <3>1. [Next]_vars => part' = part BY DEF Next, vars
      <3> QED BY <3>1 DEF Sound
    <2>1. CASE Next BY <2>1, LibraryStep DEF Next
    <2>2. CASE UNCHANGED vars BY <2>2, LibraryStays DEF vars
    <2> QED BY <2>1, <2>2
  <1> QED BY <1>1, <1>2, PTL DEF Spec

(* LibraryStaysSound: whatever is written, deleted or imported, names are  *)
(* unique and of legal length (import_name), an image's scripts exist and  *)
(* are each carried once, though delete_script checks and deletes in two   *)
(* statements, and after an import (import_for_image) they are exactly the *)
(* archive's.                                                              *)
THEOREM LibraryStaysSound == Spec => []LibraryIsSound
  <1>1. Sound => LibraryIsSound
    BY LibraryShows DEF LibraryIsSound, Sound
  <1> QED BY <1>1, LibraryHolds, PTL

(* ImportsKeepOthers: an import (import_script) takes over a row only when *)
(* no other image uses it or it is the same script already, so that what   *)
(* other images run stays.                                                 *)
THEOREM ImportsKeepOthers == Spec => ImportKeepsOthers
  <1>1. Sound /\ [Next]_vars => [part = "store" => Store!KeepsOthers]_vars
    BY LibraryStep DEF Next, Sound
  <1> QED BY <1>1, LibraryHolds, PTL DEF Spec, ImportKeepsOthers

-----------------------------------------------------------------------------
(* A deployment that was accepted.                                         *)

\* What Declared makes of a list of scripts: the inputs of all of them.
Lists(list) == IsSequence(list) /\ \A k \in DOMAIN list : Inputs(list[k].inputs)
DeclaredRun(list, n, f) ==
    f = [k \in 0 .. n |-> IF k = 0 THEN <<>> ELSE f[k - 1] \o list[k].inputs]

\* There is a list of inputs after each script.
LEMMA DeclaredRunExists == ASSUME NEW list PROVE \A n \in Nat : \E f : DeclaredRun(list, n, f)
<1>1. PICK T : T = {n \in Nat : ~\E f : DeclaredRun(list, n, f)} OBVIOUS
<1>2. SUFFICES ASSUME T # {} PROVE FALSE BY <1>1
<1>3. PICK n \in T : \A y \in T : n <= y BY <1>1, <1>2, LeastNat
<1>4. n \in Nat /\ ~\E f : DeclaredRun(list, n, f) BY <1>1, <1>3
<1>5. n # 0
  <2> SUFFICES ASSUME n = 0 PROVE FALSE OBVIOUS
  <2>1. PICK f : f = [k \in 0 .. 0 |-> <<>>] OBVIOUS
  <2>2. DeclaredRun(list, 0, f) BY <2>1 DEF DeclaredRun
  <2> QED BY <1>4, <2>2
<1>6. n - 1 \in Nat /\ n - 1 \notin T BY <1>3, <1>4, <1>5
<1>7. PICK f : DeclaredRun(list, n - 1, f) BY <1>1, <1>6
<1>8. PICK e : e = f[n - 1] \o list[n].inputs OBVIOUS
<1>9. PICK g : g = [k \in 0 .. n |-> IF k = n THEN e ELSE f[k]] OBVIOUS
<1>10. ASSUME NEW k \in 0 .. n
       PROVE  g[k] = IF k = 0 THEN <<>> ELSE g[k - 1] \o list[k].inputs
  <2>1. CASE k = n
    <3>1. g[k] = e /\ g[k - 1] = f[n - 1] BY <1>4, <1>5, <1>6, <1>9, <2>1
    <3> QED BY <1>5, <1>8, <2>1, <3>1
  <2>2. CASE k # n
    <3>1. k \in 0 .. n - 1 /\ (k # 0 => k - 1 \in 0 .. n - 1) BY <1>4, <2>2
    <3>2. g[k] = f[k] /\ (k # 0 => g[k - 1] = f[k - 1]) BY <1>4, <1>9, <2>2, <3>1
    <3>3. f[k] = IF k = 0 THEN <<>> ELSE f[k - 1] \o list[k].inputs
      BY <1>7, <3>1 DEF DeclaredRun
    <3> QED BY <3>2, <3>3
  <2> QED BY <2>1, <2>2
<1>11. DeclaredRun(list, n, g) BY <1>9, <1>10 DEF DeclaredRun
<1> QED BY <1>4, <1>11

\* The inputs of the first n scripts, each of them and nothing else.
Gathers(list, n, all) ==
    /\ IsSequence(all)
    /\ \A k \in DOMAIN all : \E j \in 1 .. n : \E a \in DOMAIN list[j].inputs :
          all[k] = list[j].inputs[a]
    /\ \A j \in 1 .. n : \A a \in DOMAIN list[j].inputs :
          \E k \in DOMAIN all : all[k] = list[j].inputs[a]

\* One more script, and so all of them.
LEMMA GathersMore ==
    ASSUME NEW list, NEW n \in Nat, NEW all, Gathers(list, n, all),
           Inputs(list[n + 1].inputs), NEW more, more = all \o list[n + 1].inputs
    PROVE  Gathers(list, n + 1, more)
<1>1. PICK l : l = list[n + 1].inputs OBVIOUS
<1>2. IsSequence(l) /\ IsSequence(all) BY <1>1 DEF Inputs, Gathers
<1>3. Chained(all, l, more)
  <2>1. PICK c : c = Chain(all, l) OBVIOUS
  <2>2. Chained(all, l, c) BY <1>2, <2>1, ChainIs
  <2>3. more = c BY <1>1, <2>1 DEF Chain
  <2> QED BY <2>2, <2>3
<1>4. ASSUME NEW k \in DOMAIN more
      PROVE  \E j \in 1 .. n + 1 : \E a \in DOMAIN list[j].inputs : more[k] = list[j].inputs[a]
  <2>1. CASE k \in DOMAIN all /\ more[k] = all[k]
    <3>1. PICK j \in 1 .. n : \E a \in DOMAIN list[j].inputs : all[k] = list[j].inputs[a]
      BY <2>1 DEF Gathers
    <3>2. j \in 1 .. n + 1 OBVIOUS
    <3> QED BY <2>1, <3>1, <3>2
  <2>2. CASE k - Len(all) \in DOMAIN l /\ more[k] = l[k - Len(all)]
    <3>1. n + 1 \in 1 .. n + 1 OBVIOUS
    <3> QED BY <1>1, <2>2, <3>1
  <2> QED BY <1>3, <2>1, <2>2 DEF Chained
<1>5. ASSUME NEW j \in 1 .. n + 1, NEW a \in DOMAIN list[j].inputs
      PROVE  \E k \in DOMAIN more : more[k] = list[j].inputs[a]
  <2>1. CASE j = n + 1
    <3>1. a \in DOMAIN l BY <1>1, <2>1
    <3>2. PICK k : k = Len(all) + a OBVIOUS
    <3>3. k \in DOMAIN more /\ more[k] = l[a] BY <1>3, <3>1, <3>2 DEF Chained
    <3> QED BY <1>1, <2>1, <3>3
  <2>2. CASE j # n + 1
    <3>1. j \in 1 .. n BY <2>2
    <3>2. PICK k \in DOMAIN all : all[k] = list[j].inputs[a] BY <3>1 DEF Gathers
    <3>3. k \in DOMAIN more /\ more[k] = all[k] BY <1>3 DEF Chained
    <3> QED BY <3>2, <3>3
  <2> QED BY <2>1, <2>2
<1>6. IsSequence(more) BY <1>3 DEF Chained
<1> QED BY <1>4, <1>5, <1>6 DEF Gathers

LEMMA DeclaredIs ==
    ASSUME NEW list, Lists(list)
    PROVE  Gathers(list, Len(list), Store!Declared(list))
<1>1. PICK n : n = Len(list) OBVIOUS
<1>2. n \in Nat /\ DOMAIN list = 1 .. n BY <1>1 DEF Lists, IsSequence
<1>3. PICK f : f = CHOOSE g : DeclaredRun(list, n, g) OBVIOUS
<1>4. DeclaredRun(list, n, f)
  <2>1. PICK g : DeclaredRun(list, n, g) BY <1>2, DeclaredRunExists
  <2> QED BY <1>3, <2>1
<1>5. Store!Declared(list) = f[n] BY <1>1, <1>3 DEF Store!Declared, DeclaredRun
<1>6. \A k \in 0 .. n : f[k] = IF k = 0 THEN <<>> ELSE f[k - 1] \o list[k].inputs
  BY <1>4 DEF DeclaredRun
<1>7. PICK T : T = {k \in 0 .. n : ~Gathers(list, k, f[k])} OBVIOUS
<1>8. CASE T = {}
  <2>1. n \in 0 .. n BY <1>2
  <2>2. Gathers(list, n, f[n]) BY <1>7, <1>8, <2>1
  <2> QED BY <1>1, <1>5, <2>2
<1>9. CASE T # {}
  <2>1. T \subseteq Nat BY <1>2, <1>7
  <2>2. PICK k \in T : \A j \in T : k <= j BY <1>9, <2>1, LeastNat
  <2>3. k \in 0 .. n /\ ~Gathers(list, k, f[k]) BY <1>7, <2>2
  <2>4. k # 0
    <3>1. PICK e : e = f[0] OBVIOUS
    <3>2. e = <<>> BY <1>2, <1>6, <3>1
    <3>3. IsSequence(e) /\ DOMAIN e = {} BY <3>2, EmptyList
    <3>4. Gathers(list, 0, e) BY <3>3 DEF Gathers
    <3> QED BY <2>3, <3>1, <3>4
  <2>5. PICK j : j = k - 1 OBVIOUS
  <2>6. j \in Nat /\ j \in 0 .. n /\ k = j + 1 /\ j + 1 \in 1 .. n BY <1>2, <2>3, <2>4, <2>5
  <2>7. PICK all, more : all = f[j] /\ more = f[k] OBVIOUS
  <2>8. Gathers(list, j, all)
    <3>1. j \notin T BY <2>2, <2>3, <2>6
    <3> QED BY <1>7, <2>6, <2>7, <3>1
  <2>9. more = all \o list[j + 1].inputs BY <1>6, <2>3, <2>4, <2>5, <2>6, <2>7
  <2>10. Inputs(list[j + 1].inputs) BY <1>2, <2>6 DEF Lists
  <2>11. Gathers(list, j + 1, more) BY <2>6, <2>8, <2>9, <2>10, GathersMore
  <2> QED BY <2>3, <2>6, <2>7, <2>11
<1> QED BY <1>8, <1>9

\* Of the values that are stored, each input of the accepted scripts has its
\* own, as long as an input's name tells which input it is.
OneMeaning(all) == \A j, k \in DOMAIN all : all[j].name = all[k].name => all[j] = all[k]
Valid(all) == IsSequence(all) /\ \A k \in DOMAIN all : Store!ValidInput(all[k])

LEMMA GatheredAreValid ==
    ASSUME NEW list, Lists(list), NEW all, Gathers(list, Len(list), all)
    PROVE  Valid(all) /\ (~Store!SharedInput(list) => OneMeaning(all))
<1>1. DOMAIN list = 1 .. Len(list) BY DEF Lists, IsSequence
<1>2. ASSUME NEW k \in DOMAIN all PROVE Store!ValidInput(all[k])
  <2>1. PICK j \in DOMAIN list : \E a \in DOMAIN list[j].inputs : all[k] = list[j].inputs[a]
    BY <1>1 DEF Gathers
  <2> QED BY <2>1 DEF Lists, Inputs
<1>3. ASSUME ~Store!SharedInput(list), NEW j \in DOMAIN all, NEW k \in DOMAIN all,
             all[j].name = all[k].name
      PROVE  all[j] = all[k]
  <2>1. PICK p \in DOMAIN list : \E a \in DOMAIN list[p].inputs : all[j] = list[p].inputs[a]
    BY <1>1 DEF Gathers
  <2>2. PICK a \in DOMAIN list[p].inputs : all[j] = list[p].inputs[a] BY <2>1
  <2>3. PICK q \in DOMAIN list : \E b \in DOMAIN list[q].inputs : all[k] = list[q].inputs[b]
    BY <1>1 DEF Gathers
  <2>4. PICK b \in DOMAIN list[q].inputs : all[k] = list[q].inputs[b] BY <2>3
  <2>5. all[j] = list[p].inputs[a] /\ all[k] = list[q].inputs[b] BY <2>2, <2>4
  <2>6. p = q BY <1>3, <2>5 DEF Store!SharedInput
  <2>7. a = b BY <1>3, <2>5, <2>6 DEF Lists, Inputs
  <2> QED BY <2>6, <2>7, <2>5
<1> QED BY <1>2, <1>3 DEF Valid, OneMeaning, Gathers

\* A bounded set has a greatest number.
LEMMA GreatestNat ==
    ASSUME NEW n \in Nat, NEW T, T \subseteq 1 .. n, T # {}
    PROVE  \E x \in T : \A y \in T : y <= x
<1>1. PICK D : D = {n - x : x \in T} OBVIOUS
<1>2. D \subseteq Nat /\ D # {}
  <2>1. \A x \in T : n - x \in Nat OBVIOUS
  <2> QED BY <1>1, <2>1
<1>3. PICK d \in D : \A e \in D : d <= e BY <1>2, LeastNat
<1>4. PICK x \in T : d = n - x BY <1>1, <1>3
<1>5. ASSUME NEW y \in T PROVE y <= x
  <2>1. n - y \in D BY <1>1
  <2>2. d <= n - y /\ x \in Int /\ y \in Int BY <1>3, <2>1
  <2> QED BY <1>4, <2>2
<1> QED BY <1>5

\* Every input is given the value it was accepted with, or its default.
LEMMA ResolvedFits ==
    ASSUME NEW all, Valid(all), OneMeaning(all), NEW req, Store!Acceptable(all, req),
           NEW h \in StoreHosts, NEW k \in DOMAIN all
    PROVE  Store!Fits(all[k], Store!Resolved(all, req, h))
<1>1. PICK src : src = [j \in DOMAIN all |-> Store!SourceFor(all[j], req, h)] OBVIOUS
<1>2. PICK val : val = [j \in DOMAIN all |-> Store!ValueFrom(all[j], src[j])] OBVIOUS
<1>3. PICK has : has = {j \in DOMAIN all : Store!ValueFrom(all[j], Store!SourceFor(all[j], req, h)) # NoValue}
  OBVIOUS
<1>4. \A j \in DOMAIN all : j \in has <=> val[j] # NoValue BY <1>1, <1>2, <1>3
<1>5. PICK last : last = [m \in {all[j].name : j \in has} |->
                            CHOOSE j \in has : /\ all[j].name = m
                                               /\ \A i \in has : all[i].name = m => i <= j]
  OBVIOUS
<1>6. PICK values : values = Store!Resolved(all, req, h) OBVIOUS
<1>7. values = [m \in {all[j].name : j \in has} |->
                  Store!ValueFrom(all[last[m]], Store!SourceFor(all[last[m]], req, h))]
  BY <1>3, <1>5, <1>6 DEF Store!Resolved
<1>8. PICK input : input = all[k] OBVIOUS
<1>9. Store!Fits(input, src[k]) /\ Store!ValidInput(input)
  BY <1>1, <1>8 DEF Store!Acceptable, Valid
<1>10. CASE k \in has
  <2>1. PICK m : m = input.name OBVIOUS
  <2>2. m \in {all[j].name : j \in has} BY <1>8, <1>10, <2>1
  <2>3. \E j \in has : all[j].name = m /\ \A i \in has : all[i].name = m => i <= j
    <3>1. PICK T : T = {j \in has : all[j].name = m} OBVIOUS
    <3>2. Len(all) \in Nat /\ DOMAIN all = 1 .. Len(all) BY DEF Valid, IsSequence
    <3>3. T \subseteq 1 .. Len(all) /\ T # {} BY <1>3, <1>8, <1>10, <2>1, <3>1, <3>2
    <3>4. PICK x \in T : \A y \in T : y <= x BY <3>2, <3>3, GreatestNat
    <3> QED BY <3>1, <3>4
  <2>4. last[m] \in has /\ all[last[m]].name = m BY <1>5, <2>2, <2>3
  <2>5. PICK j : j = last[m] OBVIOUS
  <2>6. j \in DOMAIN all /\ all[j] = input BY <1>3, <1>8, <2>1, <2>4, <2>5 DEF OneMeaning
  <2>7. src[j] = src[k] BY <1>1, <1>8, <2>6
  <2>8. values[m] = val[k]
    <3>1. values[m] = Store!ValueFrom(all[j], Store!SourceFor(all[j], req, h)) BY <1>7, <2>2, <2>5
    <3>2. val[k] = Store!ValueFrom(input, src[k]) BY <1>2, <1>8
    <3> QED BY <1>1, <2>6, <2>7, <3>1, <3>2
  <2>9. m \in DOMAIN values BY <1>7, <2>2
  <2>10. val[k] = Store!ValueFrom(input, src[k]) /\ val[k] # NoValue BY <1>2, <1>4, <1>8, <1>10
  <2>11. Store!ValueFrom(input, values) = val[k]
    <3>1. Store!ValueFrom(input, values) = IF values[m] # Empty THEN values[m] ELSE input.default
      BY <2>1, <2>9 DEF Store!ValueFrom
    <3>2. val[k] # Empty \/ input.default = val[k] BY <2>10 DEF Store!ValueFrom
    <3> QED BY <2>8, <3>1, <3>2
  <2> QED BY <1>6, <1>8, <1>9, <2>10, <2>11 DEF Store!Fits
<1>11. CASE k \notin has
  <2>1. input.name \notin DOMAIN values
    <3>1. ASSUME NEW j \in has, all[j].name = input.name PROVE FALSE
      <4>1. j \in DOMAIN all /\ all[j] = input BY <1>3, <1>8, <3>1 DEF OneMeaning
      <4>2. val[j] = val[k] BY <1>1, <1>2, <1>8, <4>1
      <4> QED BY <1>3, <1>4, <1>11, <4>1, <4>2
    <3> QED BY <1>7, <3>1
  <2>2. Store!ValueFrom(input, values) = input.default BY <2>1 DEF Store!ValueFrom
  <2>3. Store!ValueFrom(input, src[k]) = NoValue BY <1>2, <1>4, <1>8, <1>11
  <2>4. ~input.required BY <1>9, <2>3 DEF Store!Fits
  <2>5. input.default # NoValue => Store!Checks(input, input.default)
    BY <1>9 DEF Store!ValidInput
  <2> QED BY <1>6, <1>8, <2>2, <2>4, <2>5 DEF Store!Fits
<1> QED BY <1>10, <1>11

\* What is being read, and the deployment.
Reads == /\ reader.pc \in {"idle", "deploy", "plan"}
         /\ reader.pc # "idle" => IsSequence(reader.rows) /\ reader.image \in StoreImages
         /\ reader.pc = "plan" => reader.req \in StoreHosts /\ task # Store!NoTask
Accepted ==
    task # Store!NoTask =>
       /\ Lists(task.seen) /\ task.image \in StoreImages
       /\ \E req : /\ Store!Acceptable(Store!Declared(task.seen), req)
                   /\ task.values = [h \in StoreHosts |-> Store!Resolved(Store!Declared(task.seen), req, h)]
DeployInv == LibraryInv /\ Reads /\ Accepted /\ Store!AcceptedRuns

\* What get_for_image answers is a list of scripts, whatever happened between
\* its queries.
LEMMA AssembledLists ==
    ASSUME LibraryInv, IsSequence(reader.rows) PROVE Lists(Store!Assembled)
<1>1. PICK r, l : r = reader.rows /\ l = Store!Assembled OBVIOUS
<1>2. l = [k \in DOMAIN r |-> [body |-> r[k].body, inputs |-> Store!InputsOf(r[k].script)]]
  BY <1>1 DEF Store!Assembled
<1>3. Len(r) \in Nat /\ DOMAIN r = 1 .. Len(r) BY <1>1 DEF IsSequence
<1>4. IsSequence(l) /\ DOMAIN l = DOMAIN r
  <2>1. l = [k \in 1 .. Len(r) |-> l[k]] BY <1>2, <1>3
  <2> QED BY <1>3, <2>1, ListOf
<1>5. ASSUME NEW k \in DOMAIN l PROVE Inputs(l[k].inputs)
  <2>1. PICK id : id = r[k].script OBVIOUS
  <2>2. l[k].inputs = Store!InputsOf(id) BY <1>2, <1>4, <2>1
  <2>3. Inputs(Store!InputsOf(id))
    <3>1. CASE id \in DOMAIN scripts
      <4>1. Row(scripts[id]) BY <3>1 DEF LibraryInv, Library
      <4> QED BY <3>1, <4>1 DEF Row, Store!InputsOf, Store!Rows
    <3>2. CASE id \notin DOMAIN scripts
      <4>1. PICK e : e = <<>> OBVIOUS
      <4>2. Inputs(e) BY <4>1, EmptyList DEF Inputs
      <4> QED BY <3>2, <4>1, <4>2 DEF Store!InputsOf, Store!Rows
    <3> QED BY <3>1, <3>2
  <2> QED BY <2>2, <2>3
<1> QED BY <1>1, <1>4, <1>5 DEF Lists

\* The steps of a deployment.
LEMMA ReadKeepsDeploy ==
    ASSUME DeployInv, NEW for \in {"deploy", "plan"}, NEW i \in StoreImages, NEW req,
           for = "plan" => req \in StoreHosts /\ task # Store!NoTask,
           Store!Read(for, i, req), LibraryInv'
    PROVE  DeployInv'
<1>1. /\ reader' = [pc |-> for, image |-> i, rows |-> Store!RowsOf(i), req |-> req]
      /\ UNCHANGED <<task, plan>>
  BY DEF Store!Read
<1>2. IsSequence(Store!RowsOf(i))
  <2>1. PICK m, r : m = links[i] /\ r = Store!RowsOf(i) OBVIOUS
  <2>2. Len(m) \in Nat /\ DOMAIN m = 1 .. Len(m)
    BY <2>1 DEF DeployInv, LibraryInv, Carried, Carries, IsSequence
  <2>3. r = [k \in DOMAIN m |-> r[k]] BY <2>1 DEF Store!RowsOf
  <2>4. IsSequence(r) BY <2>2, <2>3, ListOf
  <2> QED BY <2>1, <2>4
<1>3. Reads' BY <1>1, <1>2 DEF Reads
<1>4. Accepted' BY <1>1 DEF DeployInv, Accepted
<1>5. Store!AcceptedRuns' BY <1>1 DEF DeployInv, Store!AcceptedRuns
<1> QED BY <1>3, <1>4, <1>5 DEF DeployInv

LEMMA DeployWritesKeepsDeploy ==
    ASSUME DeployInv, Store!DeployWrites, LibraryInv' PROVE DeployInv'
<1>1. PICK seen : seen = Store!Assembled OBVIOUS
<1>2. /\ reader.pc = "deploy" /\ reader' = Store!Idle /\ plan' = Store!Idle
      /\ \/ task' = Store!NoTask
         \/ /\ Store!Acceptable(Store!Declared(seen), reader.req)
            /\ task' = [image |-> reader.image, seen |-> seen,
                        values |-> [h \in StoreHosts |->
                                       Store!Resolved(Store!Declared(seen), reader.req, h)]]
  BY <1>1 DEF Store!DeployWrites
<1>3. Lists(seen) BY <1>1, <1>2, AssembledLists DEF DeployInv, Reads
<1>4. Accepted'
  <2>1. CASE task' = Store!NoTask BY <2>1 DEF Accepted
  <2>2. CASE /\ Store!Acceptable(Store!Declared(seen), reader.req)
             /\ task' = [image |-> reader.image, seen |-> seen,
                         values |-> [h \in StoreHosts |->
                                        Store!Resolved(Store!Declared(seen), reader.req, h)]]
    <3>1. PICK req : req = reader.req OBVIOUS
    <3>2. /\ task'.seen = seen /\ task'.image \in StoreImages
          /\ task'.values = [h \in StoreHosts |-> Store!Resolved(Store!Declared(seen), req, h)]
          /\ Store!Acceptable(Store!Declared(seen), req)
      BY <1>2, <2>2, <3>1 DEF DeployInv, Reads
    <3> QED BY <1>3, <3>2 DEF Accepted
  <2> QED BY <1>2, <2>1, <2>2
<1>5. Reads' BY <1>2 DEF Reads, Store!Idle
<1>6. Store!AcceptedRuns' BY <1>2 DEF Store!AcceptedRuns, Store!Idle
<1> QED BY <1>4, <1>5, <1>6 DEF DeployInv

\* The heart of it: what is read again fits what was stored.
LEMMA PlanAnswersKeepsDeploy ==
    ASSUME DeployInv, Store!PlanAnswers, LibraryInv' PROVE DeployInv'
<1>1. PICK read, values, h : read = Store!Assembled /\ h = reader.req /\ values = task.values[h]
  OBVIOUS
<1>2. /\ reader.pc = "plan" /\ reader' = Store!Idle /\ UNCHANGED task /\ plan'.read = read
      /\ plan'.pc = "stale" =>
            \E k \in DOMAIN read : \E n \in DOMAIN read[k].inputs : ~Store!Fits(read[k].inputs[n], values)
  BY <1>1 DEF Store!PlanAnswers
<1>3. Reads' BY <1>2 DEF Reads, Store!Idle
<1>4. Accepted' BY <1>2 DEF DeployInv, Accepted
<1>5. ASSUME plan'.pc = "stale", read = task.seen, ~Store!SharedInput(read) PROVE FALSE
  <2>1. h \in StoreHosts /\ task # Store!NoTask BY <1>1, <1>2 DEF DeployInv, Reads
  <2>2. PICK all : all = Store!Declared(read) OBVIOUS
  <2>3. PICK req : /\ Store!Acceptable(all, req)
                   /\ task.values = [x \in StoreHosts |-> Store!Resolved(all, req, x)]
    BY <1>5, <2>1, <2>2 DEF DeployInv, Accepted
  <2>4. values = Store!Resolved(all, req, h) BY <1>1, <2>1, <2>3
  <2>5. Lists(read) BY <1>5, <2>1 DEF DeployInv, Accepted
  <2>6. Gathers(read, Len(read), all) BY <2>2, <2>5, DeclaredIs
  <2>7. Valid(all) /\ OneMeaning(all) BY <1>5, <2>5, <2>6, GatheredAreValid
  <2>8. PICK k, n : /\ k \in DOMAIN read /\ n \in DOMAIN read[k].inputs
                    /\ ~Store!Fits(read[k].inputs[n], values)
    BY <1>2, <1>5
  <2>12. DOMAIN read = 1 .. Len(read) BY <2>5 DEF Lists, IsSequence
  <2>9. k \in 1 .. Len(read) BY <2>8, <2>12
  <2>10. PICK m \in DOMAIN all : all[m] = read[k].inputs[n] BY <2>6, <2>8, <2>9 DEF Gathers
  <2>11. Store!Fits(all[m], Store!Resolved(all, req, h)) BY <2>1, <2>3, <2>7, ResolvedFits
  <2> QED BY <2>4, <2>8, <2>10, <2>11
<1>6. Store!AcceptedRuns' BY <1>2, <1>5 DEF Store!AcceptedRuns, Store!SharedInput
<1> QED BY <1>3, <1>4, <1>6 DEF DeployInv

LEMMA DeployStays == ASSUME DeployInv, UNCHANGED storeVars PROVE DeployInv'
<1>1. UNCHANGED <<reader, task, plan>> BY DEF storeVars
<1>2. LibraryInv' BY LibraryStays DEF DeployInv
<1>3. Reads' BY <1>1 DEF DeployInv, Reads
<1>4. Accepted' BY <1>1 DEF DeployInv, Accepted
<1>5. Store!AcceptedRuns' BY <1>1 DEF DeployInv, Store!AcceptedRuns
<1> QED BY <1>2, <1>3, <1>4, <1>5 DEF DeployInv

LEMMA ElsewhereKeepsDeploy ==
    ASSUME DeployInv, LibraryInv', UNCHANGED <<reader, task, plan>> PROVE DeployInv'
<1>1. Reads' BY DEF DeployInv, Reads
<1>2. Accepted' BY DEF DeployInv, Accepted
<1>3. Store!AcceptedRuns' BY DEF DeployInv, Store!AcceptedRuns
<1> QED BY <1>1, <1>2, <1>3 DEF DeployInv

\* All of it.
LEMMA DeployStep == ASSUME DeployInv, Store!Next PROVE DeployInv'
<1>0. LibraryInv' BY LibraryStep DEF DeployInv
<1>1. CASE UNCHANGED <<reader, task, plan>> BY <1>0, <1>1, ElsewhereKeepsDeploy
<1>2. ASSUME NEW i \in StoreImages, NEW req \in StoreRequests, Store!DeployReads(i, req) PROVE DeployInv'
  <2>1. Store!Read("deploy", i, req) BY <1>2 DEF Store!DeployReads
  <2> QED BY <1>0, <2>1, ReadKeepsDeploy
<1>3. CASE Store!DeployWrites BY <1>0, <1>3, DeployWritesKeepsDeploy
<1>4. ASSUME NEW h \in StoreHosts, Store!PlanReads(h) PROVE DeployInv'
  <2>1. task # Store!NoTask /\ Store!Read("plan", task.image, h) BY <1>4 DEF Store!PlanReads
  <2>2. task.image \in StoreImages BY <2>1 DEF DeployInv, Accepted
  <2> QED BY <1>0, <2>1, <2>2, ReadKeepsDeploy
<1>5. CASE Store!PlanAnswers BY <1>0, <1>5, PlanAnswersKeepsDeploy
<1>6. ASSUME NEW d, Store!CreateScript(d) PROVE UNCHANGED <<reader, task, plan>>
  BY <1>6 DEF Store!CreateScript, Store!Elsewhere
<1>7. ASSUME NEW id, NEW d, Store!UpdateScript(id, d) PROVE UNCHANGED <<reader, task, plan>>
  BY <1>7 DEF Store!UpdateScript, Store!Elsewhere
<1>8. ASSUME NEW id, Store!DeleteChecks(id) PROVE UNCHANGED <<reader, task, plan>>
  BY <1>8 DEF Store!DeleteChecks
<1>9. ASSUME Store!DeleteWrites PROVE UNCHANGED <<reader, task, plan>>
  BY <1>9 DEF Store!DeleteWrites
<1>10. ASSUME NEW i, NEW ids, Store!SetForImage(i, ids) PROVE UNCHANGED <<reader, task, plan>>
  BY <1>10 DEF Store!SetForImage, Store!Elsewhere
<1>11. ASSUME NEW i, NEW k, NEW p, Store!SetRootForImage(i, k, p) PROVE UNCHANGED <<reader, task, plan>>
  BY <1>11 DEF Store!SetRootForImage, Store!Elsewhere
<1>12. ASSUME NEW i, NEW p, Store!SetRootPartition(i, p) PROVE UNCHANGED <<reader, task, plan>>
  BY <1>12 DEF Store!SetRootPartition, Store!Elsewhere
<1>13. ASSUME NEW i, NEW list, Store!ImportForImage(i, list) PROVE UNCHANGED <<reader, task, plan>>
  BY <1>13 DEF Store!ImportForImage, Store!Elsewhere
<1> QED
  BY <1>1, <1>2, <1>3, <1>4, <1>5, <1>6, <1>7, <1>8, <1>9, <1>10, <1>11, <1>12, <1>13
  DEF Store!Next

LEMMA DeployStarts == ASSUME Store!Init PROVE DeployInv
<1>1. reader.pc = "idle" /\ plan.pc = "idle" /\ task = Store!NoTask
  BY DEF Store!Init, Store!Idle
<1> QED BY <1>1, LibraryStarts DEF DeployInv, Reads, Accepted, Store!AcceptedRuns

(* AcceptedDeploymentsRun: the inputs that resolve_inputs accepted and     *)
(* stored fit the scripts they were accepted for, so that planned_scripts  *)
(* refuses them as stale only when it reads other scripts, or two of them  *)
(* share an input's name.                                                  *)
THEOREM AcceptedDeploymentsRun == Spec => []AcceptedRuns
  <1> DEFINE Kept == part = "store" => DeployInv
  <1>1. Init => Kept
    BY DeployStarts DEF Init
  <1>2. Kept /\ [Next]_vars => Kept'
    <2> SUFFICES ASSUME DeployInv, part = "store", [Next]_vars PROVE DeployInv'
      <3>1. [Next]_vars => part' = part BY DEF Next, vars
      <3> QED BY <3>1
    <2>1. CASE Next BY <2>1, DeployStep DEF Next
    <2>2. CASE UNCHANGED vars BY <2>2, DeployStays DEF vars
    <2> QED BY <2>1, <2>2
  <1>3. Kept => AcceptedRuns
    BY DEF AcceptedRuns, DeployInv
  <1> QED BY <1>1, <1>2, <1>3, PTL DEF Spec
=============================================================================
