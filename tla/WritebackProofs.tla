--------------------------- MODULE WritebackProofs ---------------------------
(***************************************************************************)
(* Proofs about the write-back queue, for any number of files, callers,     *)
(* transfers and uploads, and for any delay.                                *)
(*                                                                         *)
(* The inductive invariant is WbInv.  Beside the three properties it says   *)
(* that a file lookup knows is on the heap or uploading (KnownOK), and that *)
(* a timer that does not run is at rest or has just fired (TimerOK).        *)
(***************************************************************************)
EXTENDS Writeback, SumTheorems, SequenceTheorems

Call == [op : {"none", "Add", "Remove", "Rename"}, pc : {"idle", "cancelled", "wait"},
         item : Nat, waits : Nat, run : Nat]

\* A call that waits holds on to items that exist.
CallsOK ==
    /\ calls \in [Callers -> Call]
    /\ \A p \in Callers :
         IF calls[p].pc = "idle" THEN calls[p] = NoCall
         ELSE calls[p].item \in DOMAIN items /\ calls[p].waits \in DOMAIN items

RunsOK == \A r \in DOMAIN runs : runs[r].item \in DOMAIN items

KnownOK == \A h \in Handles : Known(h) =>
    /\ items[lookup[h]].id = h
    /\ items[lookup[h]].onHeap \/ items[lookup[h]].uploading

TimerOK == ~armed => alarm <= clock /\ (alarm # -1 => fired > 0)

WbInv == /\ WbTypeOK /\ CallsOK /\ RunsOK /\ KnownOK /\ TimerOK
         /\ HeadScheduled /\ NothingForgotten

-----------------------------------------------------------------------------
(* The items                                                                *)

\* What a section of Add, Remove or Rename may do to the items: new ones come
\* at the end, and of the old ones only the time and the place may change.
Grown(a, b) ==
    /\ b \in Seq(Item)
    /\ Len(b) >= Len(a)
    /\ \A o \in 1..Len(b) :
         IF o <= Len(a) THEN /\ b[o].id = a[o].id
                             /\ b[o].uploading = a[o].uploading
                             /\ b[o].run = a[o].run
         ELSE ~b[o].uploading

\* The same, with the heap given as well.
Moved(a, b, heap) ==
    /\ Grown(a, b)
    /\ Len(b) = Len(a)
    /\ \A o \in 1..Len(b) : b[o].onHeap <=> o \in heap

LEMMA ItemFields ==
    ASSUME NEW item \in Item
    PROVE  /\ item.id \in Handles /\ item.expiry \in Nat /\ item.delay \in Nat
           /\ item.uploading \in BOOLEAN /\ item.onHeap \in BOOLEAN /\ item.run \in Nat
  BY DEF Item

LEMMA HeapIs ==
    ASSUME NEW a \in Seq(Item)
    PROVE  /\ Heap(a) \subseteq 1..Len(a)
           /\ \A o \in 1..Len(a) : a[o].onHeap <=> o \in Heap(a)
  BY DEF Heap

LEMMA MovedSame ==
    ASSUME NEW a \in Seq(Item)
    PROVE  Moved(a, a, Heap(a))
  BY HeapIs DEF Moved, Grown

LEMMA MovedTwice ==
    ASSUME NEW a \in Seq(Item), NEW b, NEW c, NEW hb, NEW hc, Moved(a, b, hb), Moved(b, c, hc)
    PROVE  Moved(a, c, hc)
  BY DEF Moved, Grown

LEMMA UpdatedMoves ==
    ASSUME NEW a \in Seq(Item), NEW o \in 1..Len(a), NEW e \in Nat
    PROVE  Moved(a, Updated(a, o, e), Heap(a))
<1> DEFINE b == Updated(a, o, e)
<1>1. \A q \in 1..Len(a) : a[q] \in Item
  OBVIOUS
<1>2. \A q \in 1..Len(a) : b[q] = IF q = o THEN [a[q] EXCEPT !.expiry = e] ELSE a[q]
  BY DEF Updated
<1>3. DOMAIN b = 1..Len(a)
  BY DEF Updated
<1>4. \A q \in 1..Len(a) : /\ b[q] \in Item /\ b[q].id = a[q].id /\ b[q].run = a[q].run
                           /\ b[q].uploading = a[q].uploading /\ b[q].onHeap = a[q].onHeap
  <2>1. \A item \in Item : LET new == [item EXCEPT !.expiry = e] IN
           /\ new \in Item /\ new.id = item.id /\ new.run = item.run
           /\ new.uploading = item.uploading /\ new.onHeap = item.onHeap
    BY DEF Item
  <2> HIDE DEF b
  <2> QED
    BY <1>1, <1>2, <2>1
<1>5. b \in Seq(Item) /\ Len(b) = Len(a)
  <2>1. b = [q \in 1..Len(a) |-> b[q]]
    BY <1>3 DEF Updated
  <2> HIDE DEF b
  <2> QED
    BY <1>3, <1>4, <2>1
<1> HIDE DEF b
<1> QED
  BY <1>4, <1>5, HeapIs DEF Moved, Grown, b

LEMMA PushedMoves ==
    ASSUME NEW a \in Seq(Item), NEW o \in 1..Len(a)
    PROVE  Moved(a, Pushed(a, o), Heap(a) \cup {o})
<1> DEFINE b == Pushed(a, o)
<1>1. \A q \in 1..Len(a) : a[q] \in Item
  OBVIOUS
<1>6. PICK yes \in BOOLEAN : yes = TRUE
  OBVIOUS
<1>7. b = [a EXCEPT ![o].onHeap = yes]
  BY <1>6 DEF Pushed
<1>2. \A q \in 1..Len(a) : b[q] = IF q = o THEN [a[q] EXCEPT !.onHeap = yes] ELSE a[q]
  <2> HIDE DEF b
  <2> QED
    BY <1>7
<1>3. DOMAIN b = 1..Len(a)
  BY DEF Pushed
<1>4. \A q \in 1..Len(a) : /\ b[q] \in Item /\ b[q].id = a[q].id /\ b[q].run = a[q].run
                           /\ b[q].uploading = a[q].uploading
                           /\ b[q].onHeap <=> (q = o \/ a[q].onHeap)
  <2>1. \A item \in Item : LET new == [item EXCEPT !.onHeap = yes] IN
           /\ new \in Item /\ new.id = item.id /\ new.run = item.run
           /\ new.uploading = item.uploading /\ new.onHeap = yes
    BY DEF Item
  <2> HIDE DEF b
  <2>2. ASSUME NEW q \in 1..Len(a)
        PROVE  /\ b[q] \in Item /\ b[q].id = a[q].id /\ b[q].run = a[q].run
               /\ b[q].uploading = a[q].uploading
               /\ b[q].onHeap <=> (q = o \/ a[q].onHeap)
    <3>1. CASE q = o
      <4>1. b[q] = [a[q] EXCEPT !.onHeap = yes] /\ a[q] \in Item
        BY <1>1, <1>2, <3>1
      <4> QED
        BY <1>6, <2>1, <3>1, <4>1
    <3>2. CASE q # o
      BY <1>1, <1>2, <3>2
    <3> QED
      BY <3>1, <3>2
  <2> QED
    BY <2>2
<1>5. b \in Seq(Item) /\ Len(b) = Len(a)
  <2>1. b = [q \in 1..Len(a) |-> b[q]]
    BY <1>3 DEF Pushed
  <2> HIDE DEF b
  <2> QED
    BY <1>3, <1>4, <2>1
<1> HIDE DEF b
<1> QED
  BY <1>4, <1>5, HeapIs DEF Moved, Grown, b

LEMMA RemovedMoves ==
    ASSUME NEW a \in Seq(Item), NEW os
    PROVE  Moved(a, Removed(a, os), Heap(a) \ os)
<1> DEFINE b == Removed(a, os)
<1>1. \A q \in 1..Len(a) : a[q] \in Item
  OBVIOUS
<1>2. \A q \in 1..Len(a) : b[q] = [a[q] EXCEPT !.onHeap = a[q].onHeap /\ q \notin os]
  BY DEF Removed
<1>3. DOMAIN b = 1..Len(a)
  BY DEF Removed
<1>4. \A q \in 1..Len(a) : /\ b[q] \in Item /\ b[q].id = a[q].id /\ b[q].run = a[q].run
                           /\ b[q].uploading = a[q].uploading
                           /\ b[q].onHeap <=> (a[q].onHeap /\ q \notin os)
  <2> SUFFICES ASSUME NEW q \in 1..Len(a)
               PROVE  /\ b[q] \in Item /\ b[q].id = a[q].id /\ b[q].run = a[q].run
                      /\ b[q].uploading = a[q].uploading
                      /\ b[q].onHeap <=> (a[q].onHeap /\ q \notin os)
    OBVIOUS
  <2>1. PICK x \in BOOLEAN : x = (a[q].onHeap /\ q \notin os)
    OBVIOUS
  <2>2. b[q] = [a[q] EXCEPT !.onHeap = x]
    BY <1>2, <2>1
  <2> HIDE DEF b
  <2> QED
    BY <1>1, <2>1, <2>2 DEF Item
<1>5. b \in Seq(Item) /\ Len(b) = Len(a)
  <2>1. b = [q \in 1..Len(a) |-> b[q]]
    BY <1>3 DEF Removed
  <2> HIDE DEF b
  <2> QED
    BY <1>3, <1>4, <2>1
<1> HIDE DEF b
<1> QED
  BY <1>4, <1>5, HeapIs DEF Moved, Grown, b

\* The item that Add makes.
LEMMA NewMoves ==
    ASSUME NEW a \in Seq(Item), NEW item \in Item, ~item.uploading
    PROVE  /\ Grown(a, Append(a, item))
           /\ Len(Append(a, item)) = Len(a) + 1
           /\ Append(a, item)[Len(a) + 1] = item
           /\ \A o \in 1..Len(a) : Append(a, item)[o] = a[o]
<1> DEFINE b == Append(a, item)
<1>1. b \in Seq(Item) /\ Len(b) = Len(a) + 1 /\ b[Len(a) + 1] = item
      /\ \A o \in 1..Len(a) : b[o] = a[o]
  OBVIOUS
<1>2. \A o \in 1..Len(b) : o <= Len(a) \/ o = Len(a) + 1
  BY <1>1
<1> HIDE DEF b
<1>3. Grown(a, b)
  BY <1>1, <1>2 DEF Grown
<1> QED
  BY <1>1, <1>3 DEF b

LEMMA HeadIsLeast ==
    ASSUME NEW a \in Seq(Item), Heap(a) # {}
    PROVE  /\ HeadExpiry(a) \in Nat
           /\ \E o \in Heap(a) : a[o].expiry = HeadExpiry(a)
<1> DEFINE T == {a[o].expiry : o \in Heap(a)}
<1>1. T \subseteq Nat /\ T # {}
  BY HeapIs, ItemFields
<1>2. \E x \in T : \A y \in T : x <= y
  BY <1>1, LeastNatural
<1>3. HeadExpiry(a) \in T
  BY <1>2 DEF HeadExpiry, Min
<1> QED
  BY <1>1, <1>3

-----------------------------------------------------------------------------
(* The timer                                                                *)

\* _resetTimer leaves a timer that runs for the head, unless one has fired.
LEMMA ResetSchedules ==
    ASSUME alarm \in Nat \cup {-1}, armed \in BOOLEAN, clock \in Nat, fired \in Nat,
           TimerOK, NEW a \in Seq(Item), ResetTimer(a), clock' = clock, fired' = fired
    PROVE  /\ alarm' \in Nat \cup {-1} /\ armed' \in BOOLEAN
           /\ TimerOK'
           /\ Heap(a) # {} => (armed' /\ alarm' = HeadExpiry(a)) \/ fired' > 0
<1>1. CASE Heap(a) = {}
  <2>1. alarm' = -1 /\ armed' = FALSE
    BY <1>1 DEF ResetTimer, StopTimer
  <2>2. TimerOK'
    BY <2>1 DEF TimerOK
  <2> QED
    BY <1>1, <2>1, <2>2
<1>2. CASE Heap(a) # {} /\ alarm = HeadExpiry(a)
  <2>1. alarm' = alarm /\ armed' = armed /\ alarm \in Nat
    BY <1>2, HeadIsLeast DEF ResetTimer
  <2>2. armed \/ fired > 0
    BY <2>1 DEF TimerOK
  <2>3. TimerOK'
    BY <2>1 DEF TimerOK
  <2> QED
    BY <1>2, <2>1, <2>2, <2>3
<1>3. CASE Heap(a) # {} /\ alarm # HeadExpiry(a)
  <2>1. alarm' = HeadExpiry(a) /\ armed' = TRUE
    BY <1>3 DEF ResetTimer
  <2>2. TimerOK'
    BY <2>1 DEF TimerOK
  <2> QED
    BY <1>3, <2>1, <2>2, HeadIsLeast
<1> QED
  BY <1>1, <1>2, <1>3

\* A section that ends with _resetTimer.
LEMMA LeaveSchedules ==
    ASSUME WbInv, NEW a \in Seq(Item), Leave(a), clock' = clock, fired' = fired
    PROVE  /\ alarm' \in Nat \cup {-1} /\ armed' \in BOOLEAN
           /\ TimerOK' /\ HeadScheduled' /\ items' = a
<1>1. items' = a /\ ResetTimer(a)
  BY DEF Leave
<1>2. /\ alarm' \in Nat \cup {-1} /\ armed' \in BOOLEAN
      /\ TimerOK'
      /\ Heap(a) # {} => (armed' /\ alarm' = HeadExpiry(a)) \/ fired' > 0
  BY <1>1, ResetSchedules DEF WbInv, WbTypeOK, WritebackAssumption
<1>3. HeadScheduled'
  BY <1>1, <1>2 DEF HeadScheduled
<1> QED
  BY <1>1, <1>2, <1>3

-----------------------------------------------------------------------------
(* The types                                                                *)

\* The runs of upload with the same items, and none has ended.
SameRuns(rs) ==
    /\ rs \in Seq(Run)
    /\ Len(rs) = Len(runs)
    /\ \A r \in 1..Len(runs) : rs[r].item = runs[r].item /\ rs[r].over = runs[r].over

LEMMA ActiveFinite ==
    ASSUME NEW rs \in Seq(Run)
    PROVE  /\ IsFiniteSet({r \in DOMAIN rs : ~rs[r].over})
           /\ Cardinality({r \in DOMAIN rs : ~rs[r].over}) \in Nat
<1>1. DOMAIN rs = 1..Len(rs) /\ Len(rs) \in Nat
  OBVIOUS
<1>2. IsFiniteSet(DOMAIN rs)
  BY <1>1, FS_Interval
<1> QED
  BY <1>2, FS_Subset, FS_CardinalityType

LEMMA RunFields ==
    ASSUME NEW run \in Run
    PROVE  /\ run.item \in Nat /\ run.cancelled \in BOOLEAN /\ run.stale \in BOOLEAN
           /\ run.over \in BOOLEAN /\ run.closed \in BOOLEAN
  BY DEF Run

LEMMA SectionTypes ==
    ASSUME WbInv, Grown(items, items'), SameRuns(runs'),
           lookup' \in [Handles -> 0..Len(items')], pending' \subseteq Handles,
           alarm' \in Nat \cup {-1}, armed' \in BOOLEAN,
           UNCHANGED <<clock, uploads, fired>>
    PROVE  WbTypeOK' /\ RunsOK'
<1>1. items \in Seq(Item) /\ runs \in Seq(Run)
  BY DEF WbInv, WbTypeOK
<1>2. items' \in Seq(Item) /\ runs' \in Seq(Run) /\ DOMAIN runs' = DOMAIN runs
      /\ DOMAIN items' = 1..Len(items') /\ DOMAIN items = 1..Len(items)
      /\ DOMAIN items \subseteq DOMAIN items' /\ DOMAIN runs = 1..Len(runs)
  BY <1>1 DEF Grown, SameRuns
<1>3. Active' = Active
  BY <1>1, <1>2 DEF Active, SameRuns
<1>4. ASSUME NEW o \in DOMAIN items', items'[o].uploading
      PROVE  items'[o].run \in Active' /\ runs'[items'[o].run].item = o
  <2>1. o \in DOMAIN items /\ items[o].uploading /\ items'[o].run = items[o].run
    BY <1>2, <1>4 DEF Grown
  <2>2. items[o].run \in Active /\ runs[items[o].run].item = o
    BY <2>1 DEF WbInv, WbTypeOK
  <2>3. items[o].run \in 1..Len(runs)
    BY <2>2, <1>2 DEF Active
  <2> QED
    BY <2>1, <2>2, <2>3, <1>3 DEF SameRuns
<1>5. WbTypeOK'
  <2>1. /\ clock' \in 0..MaxClock /\ fired' \in 0..MaxFired
        /\ uploads' = Cardinality(Active') /\ uploads' <= Transfers
    BY <1>3 DEF WbInv, WbTypeOK
  <2> QED
    BY <1>2, <1>4, <2>1 DEF WbTypeOK
<1>6. RunsOK'
  BY <1>2 DEF RunsOK, SameRuns, WbInv
<1> QED
  BY <1>5, <1>6

\* What the changes and cancellations do to the runs.
LEMMA RunsKept ==
    ASSUME WbInv
    PROVE  /\ SameRuns(runs)
           /\ \A v : SameRuns(CancelRun(v))
           /\ \A h : SameRuns(Outdated(runs, h))
           /\ \A h, v : SameRuns(Outdated(CancelRun(v), h))
<1>1. runs \in Seq(Run) /\ DOMAIN runs = 1..Len(runs)
  BY DEF WbInv, WbTypeOK
<1>2. SameRuns(runs)
  BY <1>1 DEF SameRuns
<1>3. ASSUME NEW v PROVE SameRuns(CancelRun(v))
  <2> DEFINE c == CancelRun(v)
  <2>1. PICK yes \in BOOLEAN : yes = TRUE
    OBVIOUS
  <2>2. PICK k : k = items[v].run
    OBVIOUS
  <2>3. c = [runs EXCEPT ![k].cancelled = yes]
    BY <2>1, <2>2 DEF CancelRun
  <2> HIDE DEF c
  <2>4. \A r \in 1..Len(runs) : c[r] = IF r = k THEN [runs[r] EXCEPT !.cancelled = yes] ELSE runs[r]
    BY <1>1, <2>3
  <2>5. \A r \in 1..Len(runs) : c[r] \in Run /\ c[r].item = runs[r].item /\ c[r].over = runs[r].over
    <3> SUFFICES ASSUME NEW r \in 1..Len(runs)
                 PROVE  c[r] \in Run /\ c[r].item = runs[r].item /\ c[r].over = runs[r].over
      OBVIOUS
    <3>1. runs[r] \in Run
      BY <1>1
    <3>2. CASE r = k
      BY <2>1, <2>4, <3>1, <3>2 DEF Run
    <3>3. CASE r # k
      BY <2>4, <3>1, <3>3
    <3> QED
      BY <3>2, <3>3
  <2>6. c = [r \in 1..Len(runs) |-> c[r]]
    BY <1>1, <2>3
  <2>7. c \in Seq(Run) /\ Len(c) = Len(runs)
    BY <1>1, <2>5, <2>6
  <2> QED
    BY <2>5, <2>7 DEF SameRuns, c
<1>4. ASSUME NEW rs, SameRuns(rs), NEW h PROVE SameRuns(Outdated(rs, h))
  <2> DEFINE d == Outdated(rs, h)
  <2>1. rs \in Seq(Run) /\ DOMAIN rs = 1..Len(runs)
    BY <1>1, <1>4 DEF SameRuns
  <2>2. \A r \in 1..Len(runs) :
          d[r] = [rs[r] EXCEPT !.stale = rs[r].stale \/ items[rs[r].item].id = h]
    BY <2>1 DEF Outdated
  <2>3. d = [r \in 1..Len(runs) |-> d[r]]
    BY <2>1 DEF Outdated
  <2> HIDE DEF d
  <2>4. ASSUME NEW r \in 1..Len(runs)
        PROVE  d[r] \in Run /\ d[r].item = rs[r].item /\ d[r].over = rs[r].over
    <3>1. rs[r] \in Run
      BY <2>1
    <3>2. PICK x \in BOOLEAN : x = (rs[r].stale \/ items[rs[r].item].id = h)
      OBVIOUS
    <3>3. d[r] = [rs[r] EXCEPT !.stale = x]
      BY <2>2, <3>2
    <3> QED
      BY <3>1, <3>2, <3>3 DEF Run
  <2>5. d \in Seq(Run) /\ Len(d) = Len(runs)
    BY <1>1, <2>3, <2>4
  <2> QED
    BY <1>4, <2>4, <2>5 DEF SameRuns, d
<1> QED
  BY <1>2, <1>3, <1>4

-----------------------------------------------------------------------------
(* The sections of Add, Remove and Rename                                   *)

\* Why the change of h is not forgotten.
Covered(h) ==
    \/ \E o \in DOMAIN items : items[o].id = h /\ items[o].onHeap
    \/ \E r \in Active : ~runs[r].stale /\ items[runs[r].item].id = h
    \/ \E p \in Callers : calls[p].op = "Add" /\ items[calls[p].item].id = h

LEMMA ForgottenMeans == NothingForgotten <=> \A h \in pending : Covered(h)
  BY DEF NothingForgotten, Covered

LEMMA InvTypes ==
    ASSUME WbInv
    PROVE  /\ items \in Seq(Item) /\ runs \in Seq(Run)
           /\ DOMAIN items = 1..Len(items) /\ DOMAIN runs = 1..Len(runs)
           /\ Len(items) \in Nat /\ Len(runs) \in Nat
           /\ clock \in Nat /\ fired \in Nat /\ NewExpiry \in Nat
           /\ alarm \in Nat \cup {-1} /\ armed \in BOOLEAN /\ uploads \in Nat
           /\ lookup \in [Handles -> 0..Len(items)] /\ pending \subseteq Handles
           /\ \A o \in 1..Len(items) : items[o] \in Item
           /\ \A r \in 1..Len(runs) : runs[r] \in Run /\ runs[r].item \in 1..Len(items)
<1>1. items \in Seq(Item) /\ runs \in Seq(Run)
  BY DEF WbInv, WbTypeOK
<1>2. uploads \in Nat
  BY <1>1, ActiveFinite DEF WbInv, WbTypeOK, Active
<1>3. clock \in Nat /\ fired \in Nat /\ NewExpiry \in Nat
  BY WritebackAssumption DEF WbInv, WbTypeOK, NewExpiry
<1> QED
  BY <1>1, <1>2, <1>3 DEF WbInv, WbTypeOK, RunsOK

\* lookup leads to an item of the file, which is on the heap unless it is
\* uploading.
LEMMA KnownIs ==
    ASSUME WbInv, NEW h \in Handles, Known(h)
    PROVE  /\ lookup[h] \in 1..Len(items) /\ items[lookup[h]].id = h
           /\ ~Uploading(h) => items[lookup[h]].onHeap
           /\ Uploading(h) => items[lookup[h]].uploading
<1>1. lookup[h] \in 1..Len(items)
  BY InvTypes DEF Known
<1> QED
  BY <1>1 DEF WbInv, KnownOK, Uploading

LEMMA GrownIs ==
    ASSUME WbInv, Grown(items, items')
    PROVE  \A o \in 1..Len(items) :
              /\ o \in DOMAIN items' /\ o \in 1..Len(items') /\ items'[o].id = items[o].id
              /\ items'[o].uploading = items[o].uploading /\ items'[o].run = items[o].run
<1>1. Len(items) \in Nat
  BY InvTypes
<1>2. Len(items') \in Nat /\ Len(items') >= Len(items) /\ DOMAIN items' = 1..Len(items')
  BY DEF Grown
<1>3. \A o \in 1..Len(items) : o \in 1..Len(items') /\ o <= Len(items)
  BY <1>1, <1>2
<1> QED
  BY <1>2, <1>3 DEF Grown

\* A section takes no item from the heap but those of the files ids it drops,
\* and what it changes of the files new is covered.
Section(ids, new) ==
    /\ new \subseteq Handles
    /\ pending' \subseteq (pending \ ids) \cup new
    /\ \A h \in new : Covered(h)'
    /\ \A o \in 1..Len(items) :
          items[o].id \notin ids /\ items[o].onHeap => items'[o].onHeap
    /\ \A r \in 1..Len(runs) :
          items[runs[r].item].id \notin new /\ ~runs[r].stale => ~runs'[r].stale
    /\ \A p \in Callers :
          calls[p].op = "Add" => calls'[p] = calls[p] \/ items[calls[p].item].id \in new

LEMMA SectionKeeps ==
    ASSUME WbInv, Grown(items, items'), SameRuns(runs'),
           lookup' \in [Handles -> 0..Len(items')], KnownOK', CallsOK',
           NEW ids, NEW new, Section(ids, new),
           alarm' \in Nat \cup {-1}, armed' \in BOOLEAN, TimerOK', HeadScheduled',
           UNCHANGED <<clock, uploads, fired>>
    PROVE  WbInv'
<1> USE DEF Section
<1>1. pending' \subseteq Handles
  BY InvTypes
<1>2. WbTypeOK' /\ RunsOK'
  BY <1>1, SectionTypes
<1>3. ASSUME NEW h \in pending' PROVE Covered(h)'
  <2>1. CASE h \in new
    BY <2>1
  <2>2. CASE h \notin new
    <3>1. h \in pending /\ h \notin ids
      BY <2>2
    <3>2. Covered(h)
      BY <3>1, ForgottenMeans DEF WbInv
    <3>3. CASE \E o \in DOMAIN items : items[o].id = h /\ items[o].onHeap
      <4>1. PICK o \in DOMAIN items : items[o].id = h /\ items[o].onHeap
        BY <3>3
      <4>2. o \in 1..Len(items) /\ o \in DOMAIN items' /\ items'[o].id = h
        BY <4>1, InvTypes, GrownIs
      <4>3. items'[o].onHeap
        BY <4>1, <4>2, <3>1
      <4> QED
        BY <4>2, <4>3 DEF Covered
    <3>4. CASE \E r \in Active : ~runs[r].stale /\ items[runs[r].item].id = h
      <4>1. PICK r \in Active : ~runs[r].stale /\ items[runs[r].item].id = h
        BY <3>4
      <4>2. r \in 1..Len(runs) /\ ~runs[r].over
        BY <4>1, InvTypes DEF Active
      <4>3. ~runs'[r].stale
        BY <4>1, <4>2, <2>2
      <4>4. r \in Active' /\ runs'[r].item = runs[r].item
        BY <4>2 DEF SameRuns, Active
      <4>5. items'[runs[r].item].id = h
        <5>1. runs[r].item \in 1..Len(items)
          BY <4>2, InvTypes
        <5> QED
          BY <4>1, <5>1, GrownIs
      <4>6. items'[runs'[r].item].id = h
        BY <4>4, <4>5
      <4> QED
        BY <4>3, <4>4, <4>6, Zenon DEF Covered
    <3>5. CASE \E p \in Callers : calls[p].op = "Add" /\ items[calls[p].item].id = h
      <4>1. PICK p \in Callers : calls[p].op = "Add" /\ items[calls[p].item].id = h
        BY <3>5
      <4>2. calls'[p] = calls[p]
        BY <4>1, <2>2
      <4>3. calls[p].item \in 1..Len(items)
        BY <4>1, InvTypes DEF WbInv, CallsOK, NoCall
      <4>4. items'[calls[p].item].id = h
        BY <4>1, <4>3, GrownIs
      <4>5. calls'[p].op = "Add" /\ items'[calls'[p].item].id = h
        BY <4>1, <4>2, <4>4
      <4> QED
        BY <4>5, Zenon DEF Covered
    <3> QED
      BY <3>2, <3>3, <3>4, <3>5 DEF Covered
  <2> QED
    BY <2>1, <2>2
<1>4. NothingForgotten'
  BY <1>3 DEF NothingForgotten, Covered
<1> QED
  BY <1>2, <1>4 DEF WbInv

\* Dropping the files ids, with their items.
LEMMA DropKeeps ==
    ASSUME WbInv, Grown(items, items'), NEW ids, lookup' = Without(ids),
           \A o \in 1..Len(items) :
              items[o].id \notin ids /\ items[o].onHeap => items'[o].onHeap
    PROVE  lookup' \in [Handles -> 0..Len(items')] /\ KnownOK'
<1>1. \A h \in Handles : lookup'[h] = IF h \in ids THEN 0 ELSE lookup[h]
  BY DEF Without
<1>2. Len(items') \in Nat /\ Len(items') >= Len(items)
  BY DEF Grown
<1>3. lookup' \in [Handles -> 0..Len(items')]
  <2>1. \A h \in Handles : lookup'[h] \in 0..Len(items')
    BY <1>1, <1>2, InvTypes
  <2> QED
    BY <2>1 DEF Without
<1>4. ASSUME NEW h \in Handles, lookup'[h] # 0
      PROVE  /\ items'[lookup'[h]].id = h
             /\ items'[lookup'[h]].onHeap \/ items'[lookup'[h]].uploading
  <2>1. h \notin ids /\ lookup'[h] = lookup[h] /\ Known(h)
    BY <1>1, <1>4 DEF Known
  <2>2. PICK o \in 1..Len(items) : o = lookup[h] /\ items[o].id = h
    BY <2>1, KnownIs
  <2>3. items[o].onHeap \/ items[o].uploading
    BY <2>1, <2>2 DEF WbInv, KnownOK
  <2>4. items'[o].id = items[o].id /\ items'[o].uploading = items[o].uploading
    BY <2>2, InvTypes DEF Grown
  <2> QED
    BY <2>1, <2>2, <2>3, <2>4
<1> QED
  BY <1>3, <1>4 DEF KnownOK, Known

LEMMA DropNothing ==
    ASSUME WbInv
    PROVE  Without({}) = lookup
  BY InvTypes DEF Without

LEMMA CallsStay ==
    ASSUME WbInv, Grown(items, items'), calls' = calls
    PROVE  CallsOK'
<1>1. \A o \in 1..Len(items) : o \in DOMAIN items'
  BY GrownIs
<1>2. DOMAIN items = 1..Len(items)
  BY InvTypes
<1> QED
  BY <1>1, <1>2 DEF CallsOK, WbInv

LEMMA CallsSet ==
    ASSUME WbInv, Grown(items, items'), NEW p \in Callers, NEW c \in Call,
           IF c.pc = "idle" THEN c = NoCall
           ELSE c.item \in 1..Len(items) /\ c.waits \in 1..Len(items),
           calls' = [calls EXCEPT ![p] = c]
    PROVE  /\ CallsOK' /\ calls'[p] = c
           /\ \A q \in Callers : q # p => calls'[q] = calls[q]
<1>1. \A o \in 1..Len(items) : o \in DOMAIN items'
  BY GrownIs
<1>2. DOMAIN items = 1..Len(items)
  BY InvTypes
<1>3. /\ calls' \in [Callers -> Call] /\ calls'[p] = c
      /\ \A q \in Callers : q # p => calls'[q] = calls[q]
  BY DEF CallsOK, WbInv
<1>4. ASSUME NEW q \in Callers
      PROVE  IF calls'[q].pc = "idle" THEN calls'[q] = NoCall
             ELSE calls'[q].item \in DOMAIN items' /\ calls'[q].waits \in DOMAIN items'
  <2>1. CASE q = p
    BY <1>1, <1>3, <2>1
  <2>2. CASE q # p
    BY <1>1, <1>2, <1>3, <2>2 DEF CallsOK, WbInv
  <2> QED
    BY <2>1, <2>2
<1> QED
  BY <1>3, <1>4 DEF CallsOK

LEMMA NoCallType == NoCall \in Call /\ NoCall.pc = "idle" /\ NoCall.op = "none"
  BY DEF NoCall, Call

\* The call of Cancels is for an item that exists.
LEMMA CancelsSets ==
    ASSUME WbInv, Grown(items, items'), NEW p \in Callers,
           NEW op \in {"Add", "Remove", "Rename"},
           NEW o \in 1..Len(items), NEW v \in 1..Len(items), Cancels(p, op, o, v)
    PROVE  /\ CallsOK' /\ calls'[p].op = op /\ calls'[p].item = o /\ calls'[p].waits = v
           /\ \A q \in Callers : q # p => calls'[q] = calls[q]
<1> DEFINE c == [op |-> op, pc |-> "cancelled", item |-> o, waits |-> v, run |-> 0]
<1>1. Len(items) \in Nat
  BY InvTypes
<1>2. /\ c \in Call /\ c.pc # "idle" /\ c.item = o /\ c.waits = v /\ c.op = op
      /\ calls' = [calls EXCEPT ![p] = c]
  BY <1>1 DEF Cancels, Call
<1> HIDE DEF c
<1> QED
  BY <1>2, CallsSet

\* Nothing happens to the items: what is left to show.
LEMMA SameItems ==
    ASSUME WbInv, items' = items
    PROVE  Grown(items, items')
  BY InvTypes, MovedSame DEF Moved

LEMMA HeadStays ==
    ASSUME WbInv, UNCHANGED <<items, alarm, armed, clock, uploads, fired>>,
           \A p \in Callers :
              \/ /\ calls'[p].op = calls[p].op /\ calls'[p].waits = calls[p].waits
                 /\ calls'[p].item = calls[p].item
              \/ calls[p].op # "Rename"
    PROVE  HeadScheduled' /\ TimerOK' /\ alarm' \in Nat \cup {-1} /\ armed' \in BOOLEAN
  BY InvTypes DEF WbInv, HeadScheduled, TimerOK

LEMMA AddNewKeeps ==
    ASSUME WbInv, NEW p \in Callers, NEW h \in Handles, AddNew(p, h)
    PROVE  WbInv'
<1>1. PICK no \in BOOLEAN : no = FALSE
  OBVIOUS
<1>2. PICK yes \in BOOLEAN : yes = TRUE
  OBVIOUS
<1> DEFINE item == [id |-> h, expiry |-> NewExpiry, delay |-> Delay,
                    uploading |-> no, onHeap |-> yes, run |-> 0]
<1>3. /\ Leave(Append(items, item)) /\ lookup' = [lookup EXCEPT ![h] = Len(items) + 1]
      /\ Changed(h) /\ UNCHANGED <<clock, uploads, fired, calls>>
  BY <1>1, <1>2 DEF AddNew
<1>4. item \in Item /\ ~item.uploading /\ item.onHeap /\ item.id = h
  BY <1>1, <1>2, InvTypes, WritebackAssumption DEF Item
<1> HIDE DEF item
<1>5. /\ Grown(items, Append(items, item)) /\ Len(Append(items, item)) = Len(items) + 1
      /\ Append(items, item)[Len(items) + 1] = item
      /\ \A o \in 1..Len(items) : Append(items, item)[o] = items[o]
  BY <1>4, InvTypes, NewMoves
<1>6. /\ alarm' \in Nat \cup {-1} /\ armed' \in BOOLEAN
      /\ TimerOK' /\ HeadScheduled' /\ items' = Append(items, item)
  BY <1>3, <1>5, LeaveSchedules DEF Grown
<1>7. /\ Grown(items, items') /\ Len(items') = Len(items) + 1
      /\ items'[Len(items) + 1] = item
      /\ \A o \in 1..Len(items) : items'[o] = items[o]
  BY <1>5, <1>6
<1>8. SameRuns(runs') /\ pending' = pending \cup {h}
      /\ \A r \in 1..Len(runs) : runs'[r] =
            [runs[r] EXCEPT !.stale = runs[r].stale \/ items[runs[r].item].id = h]
  <2>1. runs' = Outdated(runs, h) /\ pending' = pending \cup {h}
    BY <1>3 DEF Changed
  <2> QED
    BY <2>1, RunsKept, InvTypes DEF Outdated
<1>9. lookup' \in [Handles -> 0..Len(items')] /\ KnownOK'
  <2>1. \A k \in Handles : lookup'[k] = IF k = h THEN Len(items) + 1 ELSE lookup[k]
    BY <1>3, InvTypes
  <2>2. \A k \in Handles : lookup'[k] \in 0..Len(items')
    BY <1>7, <2>1, InvTypes
  <2>3. lookup' \in [Handles -> 0..Len(items')]
    BY <1>3, <2>2, InvTypes
  <2>4. ASSUME NEW k \in Handles, lookup'[k] # 0
        PROVE  /\ items'[lookup'[k]].id = k
               /\ items'[lookup'[k]].onHeap \/ items'[lookup'[k]].uploading
    <3>1. CASE k = h
      BY <1>4, <1>7, <2>1, <3>1
    <3>2. CASE k # h
      <4>1. lookup'[k] = lookup[k] /\ Known(k)
        BY <2>1, <2>4, <3>2 DEF Known
      <4>2. lookup[k] \in 1..Len(items) /\ items'[lookup[k]] = items[lookup[k]]
        BY <1>7, <4>1, KnownIs
      <4> QED
        BY <4>1, <4>2 DEF WbInv, KnownOK
    <3> QED
      BY <3>1, <3>2
  <2> QED
    BY <2>3, <2>4 DEF KnownOK, Known
<1>10. CallsOK'
  BY <1>3, <1>7, CallsStay
<1>11. Covered(h)'
  <2>1. Len(items) + 1 \in DOMAIN items'
    BY <1>7, InvTypes DEF Grown
  <2>2. items'[Len(items) + 1].id = h /\ items'[Len(items) + 1].onHeap
    BY <1>4, <1>7
  <2> QED
    BY <2>1, <2>2 DEF Covered
<1>12. \A r \in 1..Len(runs) :
          items[runs[r].item].id \notin {h} /\ ~runs[r].stale => ~runs'[r].stale
  <2> SUFFICES ASSUME NEW r \in 1..Len(runs), items[runs[r].item].id # h, ~runs[r].stale
               PROVE  ~runs'[r].stale
    OBVIOUS
  <2>1. PICK x \in BOOLEAN : x = (runs[r].stale \/ items[runs[r].item].id = h)
    OBVIOUS
  <2>2. runs'[r] = [runs[r] EXCEPT !.stale = x] /\ ~x
    BY <1>8, <2>1
  <2> QED
    BY <2>2, InvTypes DEF Run
<1>13. Section({}, {h})
  BY <1>3, <1>7, <1>8, <1>11, <1>12 DEF Section
<1> QED
  BY <1>3, <1>6, <1>7, <1>8, <1>9, <1>10, <1>13, SectionKeeps

\* The runs for other files than ids are as fresh as they were.
Fresh(rs, ids) ==
    \A r \in 1..Len(runs) : items[runs[r].item].id \notin ids /\ ~runs[r].stale => ~rs[r].stale

LEMMA FreshRuns ==
    ASSUME WbInv
    PROVE  /\ Fresh(runs, {})
           /\ \A v : Fresh(CancelRun(v), {})
           /\ \A h : Fresh(Outdated(runs, h), {h})
           /\ \A h, v : Fresh(Outdated(CancelRun(v), h), {h})
<1>1. runs \in Seq(Run) /\ DOMAIN runs = 1..Len(runs) /\ \A r \in 1..Len(runs) : runs[r] \in Run
  BY InvTypes
<1>2. ASSUME NEW v, NEW r \in 1..Len(runs) PROVE CancelRun(v)[r].stale = runs[r].stale
  <2> DEFINE c == CancelRun(v)
  <2>1. PICK yes \in BOOLEAN : yes = TRUE
    OBVIOUS
  <2>2. PICK k : k = items[v].run
    OBVIOUS
  <2>3. c = [runs EXCEPT ![k].cancelled = yes]
    BY <2>1, <2>2 DEF CancelRun
  <2> HIDE DEF c
  <2>4. c[r] = IF r = k THEN [runs[r] EXCEPT !.cancelled = yes] ELSE runs[r]
    BY <1>1, <2>3
  <2>5. CASE r = k
    BY <1>1, <2>1, <2>4, <2>5 DEF Run, c
  <2>6. CASE r # k
    BY <2>4, <2>6 DEF c
  <2> QED
    BY <2>5, <2>6
<1>3. ASSUME NEW rs, SameRuns(rs), NEW h, Fresh(rs, {}) PROVE Fresh(Outdated(rs, h), {h})
  <2> SUFFICES ASSUME NEW r \in 1..Len(runs), items[runs[r].item].id # h, ~runs[r].stale
               PROVE  ~Outdated(rs, h)[r].stale
    BY DEF Fresh
  <2>1. rs[r] \in Run /\ rs[r].item = runs[r].item /\ r \in DOMAIN rs
    BY <1>1, <1>3 DEF SameRuns
  <2>2. ~rs[r].stale
    BY <1>3 DEF Fresh
  <2>3. PICK x \in BOOLEAN : x = (rs[r].stale \/ items[rs[r].item].id = h)
    OBVIOUS
  <2>4. ~x
    BY <2>1, <2>2, <2>3
  <2>5. Outdated(rs, h)[r] = [rs[r] EXCEPT !.stale = x]
    BY <2>1, <2>3 DEF Outdated
  <2> QED
    BY <2>1, <2>4, <2>5 DEF Run
<1>4. Fresh(runs, {}) /\ \A v : Fresh(CancelRun(v), {})
  BY <1>2 DEF Fresh
<1> QED
  BY <1>3, <1>4, RunsKept

\* A section that keeps the runs and the pending files, ...
LEMMA QuietSection ==
    ASSUME WbInv, NEW heap, Moved(items, items', heap), Heap(items) \subseteq heap,
           SameRuns(runs'), Fresh(runs', {}), UNCHANGED <<lookup, pending, clock, uploads, fired>>,
           CallsOK', TimerOK', HeadScheduled', alarm' \in Nat \cup {-1}, armed' \in BOOLEAN,
           \A p \in Callers : calls[p].op = "Add" => calls'[p] = calls[p]
    PROVE  WbInv'
<1>1. Grown(items, items') /\ Len(items') = Len(items)
  BY DEF Moved
<1>2. \A o \in 1..Len(items) : items[o].onHeap => items'[o].onHeap
  BY <1>1, InvTypes, HeapIs DEF Moved
<1>3. lookup' \in [Handles -> 0..Len(items')] /\ KnownOK'
  <2>1. lookup' = Without({})
    BY DropNothing
  <2> QED
    BY <1>1, <1>2, <2>1, DropKeeps
<1>4. Section({}, {})
  BY <1>2 DEF Section, Fresh
<1> QED
  BY <1>1, <1>3, <1>4, SectionKeeps

\* ... one that changes the file h, which is on the heap then or has an Add
\* that waits, ...
LEMMA ChangingSection ==
    ASSUME WbInv, NEW heap, Moved(items, items', heap), Heap(items) \subseteq heap,
           NEW h \in Handles, Covered(h)', pending' = pending \cup {h},
           SameRuns(runs'), Fresh(runs', {h}), UNCHANGED <<lookup, clock, uploads, fired>>,
           CallsOK', TimerOK', HeadScheduled', alarm' \in Nat \cup {-1}, armed' \in BOOLEAN,
           \A p \in Callers : calls[p].op = "Add" =>
              calls'[p] = calls[p] \/ items[calls[p].item].id = h
    PROVE  WbInv'
<1>1. Grown(items, items') /\ Len(items') = Len(items)
  BY DEF Moved
<1>2. \A o \in 1..Len(items) : items[o].onHeap => items'[o].onHeap
  BY <1>1, InvTypes, HeapIs DEF Moved
<1>3. lookup' \in [Handles -> 0..Len(items')] /\ KnownOK'
  <2>1. lookup' = Without({})
    BY DropNothing
  <2> QED
    BY <1>1, <1>2, <2>1, DropKeeps
<1>4. Section({}, {h})
  BY <1>2 DEF Section, Fresh
<1> QED
  BY <1>1, <1>3, <1>4, SectionKeeps

\* ... and one that drops the files ids.
LEMMA DroppingSection ==
    ASSUME WbInv, NEW heap, Moved(items, items', heap), NEW ids,
           \A o \in Heap(items) : items[o].id \notin ids => o \in heap,
           lookup' = Without(ids), pending' = pending \ ids,
           SameRuns(runs'), Fresh(runs', {}), UNCHANGED <<clock, uploads, fired>>,
           CallsOK', TimerOK', HeadScheduled', alarm' \in Nat \cup {-1}, armed' \in BOOLEAN,
           \A p \in Callers : calls[p].op = "Add" => calls'[p] = calls[p]
    PROVE  WbInv'
<1>1. Grown(items, items') /\ Len(items') = Len(items)
  BY DEF Moved
<1>2. \A o \in 1..Len(items) : items[o].id \notin ids /\ items[o].onHeap => items'[o].onHeap
  BY <1>1, InvTypes, HeapIs DEF Moved
<1>3. lookup' \in [Handles -> 0..Len(items')] /\ KnownOK'
  BY <1>1, <1>2, DropKeeps
<1>4. Section(ids, {})
  BY <1>2 DEF Section, Fresh
<1> QED
  BY <1>1, <1>3, <1>4, SectionKeeps

-----------------------------------------------------------------------------
(* The actions of the callers, one by one                                   *)

\* A section that leaves the items so, with this heap.
LEMMA LeaveMoves ==
    ASSUME WbInv, NEW a, NEW heap, Moved(items, a, heap), Leave(a), clock' = clock, fired' = fired
    PROVE  /\ Moved(items, items', heap) /\ Grown(items, items')
           /\ alarm' \in Nat \cup {-1} /\ armed' \in BOOLEAN /\ TimerOK' /\ HeadScheduled'
<1>1. a \in Seq(Item)
  BY DEF Moved, Grown
<1> QED
  BY <1>1, LeaveSchedules DEF Moved

LEMMA AddAgainKeeps ==
    ASSUME WbInv, NEW p \in Callers, NEW h \in Handles, NEW modified \in BOOLEAN,
           AddAgain(p, h, modified)
    PROVE  WbInv'
<1>1. /\ Known(h) /\ ~(Uploading(h) /\ modified) /\ Leave(Updated(items, lookup[h], NewExpiry))
      /\ UNCHANGED <<clock, lookup, uploads, fired, calls>>
  BY DEF AddAgain
<1>2. PICK o \in 1..Len(items) : o = lookup[h] /\ items[o].id = h /\ (~Uploading(h) => items[o].onHeap)
  BY <1>1, KnownIs
<1>3. Moved(items, Updated(items, o, NewExpiry), Heap(items))
  BY InvTypes, UpdatedMoves
<1>4. /\ Moved(items, items', Heap(items)) /\ Grown(items, items')
      /\ alarm' \in Nat \cup {-1} /\ armed' \in BOOLEAN /\ TimerOK' /\ HeadScheduled'
  BY <1>1, <1>2, <1>3, LeaveMoves
<1>5. CallsOK'
  BY <1>1, <1>4, CallsStay
<1>6. CASE modified
  <2>1. pending' = pending \cup {h} /\ runs' = Outdated(runs, h) /\ o \in Heap(items)
    BY <1>1, <1>2, <1>6, InvTypes, HeapIs DEF AddAgain, Changed
  <2>2. SameRuns(runs') /\ Fresh(runs', {h})
    BY <2>1, RunsKept, FreshRuns
  <2>3. Covered(h)'
    <3>1. \E q \in DOMAIN items' : items'[q].id = h /\ items'[q].onHeap
      BY <1>2, <1>4, <2>1, GrownIs DEF Moved
    <3> QED
      BY <3>1 DEF Covered
  <2> QED
    BY <1>1, <1>4, <1>5, <2>1, <2>2, <2>3, ChangingSection
<1>7. CASE ~modified
  <2>1. pending' = pending /\ runs' = runs
    BY <1>7 DEF AddAgain
  <2>2. SameRuns(runs') /\ Fresh(runs', {})
    BY <2>1, RunsKept, FreshRuns
  <2> QED
    BY <1>1, <1>4, <1>5, <2>1, <2>2, QuietSection
<1> QED
  BY <1>6, <1>7

LEMMA SetExpiryKeeps ==
    ASSUME WbInv, NEW h \in Handles, NEW expiry \in 0..MaxClock, SetExpiry(h, expiry)
    PROVE  WbInv'
<1>1. /\ Known(h) /\ Leave(Updated(items, lookup[h], expiry))
      /\ UNCHANGED <<clock, lookup, runs, uploads, fired, calls, pending>>
  BY DEF SetExpiry
<1>2. PICK o \in 1..Len(items) : o = lookup[h]
  BY <1>1, KnownIs
<1>3. Moved(items, Updated(items, o, expiry), Heap(items))
  BY InvTypes, UpdatedMoves
<1>4. /\ Moved(items, items', Heap(items)) /\ Grown(items, items')
      /\ alarm' \in Nat \cup {-1} /\ armed' \in BOOLEAN /\ TimerOK' /\ HeadScheduled'
  BY <1>1, <1>2, <1>3, LeaveMoves
<1>5. CallsOK'
  BY <1>1, <1>4, CallsStay
<1>6. SameRuns(runs') /\ Fresh(runs', {})
  BY <1>1, RunsKept, FreshRuns
<1> QED
  BY <1>1, <1>4, <1>5, <1>6, QuietSection

\* A caller that was idle has no Add or Rename that waits.
LEMMA IdleHasNone ==
    ASSUME WbInv, NEW p \in Callers, Idle(p)
    PROVE  calls[p].op = "none"
  BY NoCallType DEF WbInv, CallsOK, Idle

\* The steps that end in the wait for an upload, items and timer as before.
LEMMA CancelKeeps ==
    ASSUME WbInv, NEW p \in Callers, NEW h \in Handles,
           NEW op \in {"Remove", "Rename"}, Idle(p), Uploading(h),
           Cancels(p, op, lookup[h], lookup[h]), runs' = CancelRun(lookup[h]),
           UNCHANGED <<clock, items, lookup, uploads, alarm, armed, fired, pending>>
    PROVE  WbInv'
<1>1. PICK o \in 1..Len(items) : o = lookup[h]
  BY KnownIs DEF Uploading
<1>2. Grown(items, items') /\ Moved(items, items', Heap(items))
  BY SameItems, InvTypes, MovedSame
<1>3. CallsOK' /\ \A q \in Callers : q # p => calls'[q] = calls[q]
  <2>1. Cancels(p, op, o, o)
    BY <1>1
  <2> QED
    BY <1>2, <2>1, CancelsSets
<1>4. calls[p].op = "none"
  BY IdleHasNone
<1>5. HeadScheduled' /\ TimerOK' /\ alarm' \in Nat \cup {-1} /\ armed' \in BOOLEAN
  BY <1>3, <1>4, HeadStays
<1>6. SameRuns(runs') /\ Fresh(runs', {})
  BY RunsKept, FreshRuns
<1> QED
  BY <1>2, <1>3, <1>4, <1>5, <1>6, QuietSection

LEMMA AddCancelsKeeps ==
    ASSUME WbInv, NEW p \in Callers, NEW h \in Handles, AddCancels(p, h)
    PROVE  WbInv'
<1>1. PICK o \in 1..Len(items) : o = lookup[h] /\ items[o].id = h
  BY KnownIs DEF AddCancels, Uploading
<1>2. Grown(items, items') /\ Moved(items, items', Heap(items)) /\ items' = items
  BY SameItems, InvTypes, MovedSame DEF AddCancels
<1>3. /\ CallsOK' /\ calls'[p].op = "Add" /\ calls'[p].item = o
      /\ \A q \in Callers : q # p => calls'[q] = calls[q]
  <2>1. Cancels(p, "Add", o, o)
    BY <1>1 DEF AddCancels
  <2> QED
    BY <1>2, <2>1, CancelsSets
<1>4. calls[p].op = "none"
  BY IdleHasNone DEF AddCancels
<1>5. HeadScheduled' /\ TimerOK' /\ alarm' \in Nat \cup {-1} /\ armed' \in BOOLEAN
  BY <1>3, <1>4, HeadStays DEF AddCancels
<1>6. SameRuns(runs') /\ Fresh(runs', {h})
  BY RunsKept, FreshRuns DEF AddCancels
<1>7. Covered(h)'
  <2>1. \E q \in Callers : calls'[q].op = "Add" /\ items'[calls'[q].item].id = h
    BY <1>1, <1>2, <1>3
  <2> QED
    BY <2>1 DEF Covered
<1>8. pending' = pending \cup {h} /\ UNCHANGED <<lookup, clock, uploads, fired>>
  BY DEF AddCancels
<1> QED
  BY <1>2, <1>3, <1>4, <1>5, <1>6, <1>7, <1>8, ChangingSection

LEMMA RemoveNowKeeps ==
    ASSUME WbInv, NEW p \in Callers, NEW h \in Handles, RemoveNow(p, h)
    PROVE  WbInv'
<1>1. /\ Leave(Removed(items, {lookup[h]})) /\ lookup' = Without({h}) /\ pending' = pending \ {h}
      /\ UNCHANGED <<clock, runs, uploads, fired, calls>>
  BY DEF RemoveNow
<1>2. PICK heap : heap = Heap(items) \ {lookup[h]}
  OBVIOUS
<1>3. Moved(items, Removed(items, {lookup[h]}), heap)
  BY <1>2, InvTypes, RemovedMoves
<1>4. /\ Moved(items, items', heap) /\ Grown(items, items')
      /\ alarm' \in Nat \cup {-1} /\ armed' \in BOOLEAN /\ TimerOK' /\ HeadScheduled'
  BY <1>1, <1>3, LeaveMoves
<1>5. CallsOK'
  BY <1>1, <1>4, CallsStay
<1>6. SameRuns(runs') /\ Fresh(runs', {})
  BY <1>1, RunsKept, FreshRuns
<1>7. \A o \in Heap(items) : items[o].id \notin {h} => o \in heap
  <2> SUFFICES ASSUME NEW o \in Heap(items), o = lookup[h] PROVE items[o].id = h
    BY <1>2
  <2>1. lookup[h] # 0
    BY InvTypes, HeapIs
  <2> QED
    BY <2>1, KnownIs DEF Known
<1> QED
  BY <1>1, <1>4, <1>5, <1>6, <1>7, DroppingSection

\* The loop of Rename, for an item that may just have been pushed, after the
\* removal of the files gone.
LEMMA RenameLoopKeeps ==
    ASSUME WbInv, NEW p \in Callers, calls[p].op # "Add", NEW o \in 1..Len(items),
           NEW its, NEW heap, Moved(items, its, heap), NEW gone,
           \A q \in Heap(items) : items[q].id \notin gone => q \in heap,
           RenameLoop(p, o, its, gone), UNCHANGED <<clock, uploads, fired>>
    PROVE  WbInv'
<1> DEFINE others == Handles \ (gone \cup {items[o].id})
<1>1. PICK hs \in SUBSET {h \in others : Known(h) /\ ~Uploading(h)} :
        LET left == Removed(its, {lookup[h] : h \in hs}) IN
        /\ lookup' = Without(gone \cup hs)
        /\ pending' = pending \ (gone \cup hs)
        /\ \/ /\ Leave(Updated(left, o, NewExpiry))
              /\ calls' = [calls EXCEPT ![p] = NoCall]
              /\ UNCHANGED runs
           \/ \E v \in {h \in others : Uploading(h)} :
                /\ items' = left
                /\ IF gone \cup hs = {} THEN UNCHANGED <<alarm, armed>>
                                       ELSE ResetTimer(left)
                /\ Cancels(p, "Rename", o, lookup[v])
                /\ runs' = CancelRun(lookup[v])
  BY DEF RenameLoop
<1>2. PICK left : left = Removed(its, {lookup[h] : h \in hs})
  OBVIOUS
<1>3. PICK rest : rest = heap \ {lookup[h] : h \in hs}
  OBVIOUS
<1>4. Moved(items, left, rest)
  <2>1. its \in Seq(Item) /\ Heap(its) = heap \cap 1..Len(its)
    BY DEF Moved, Grown, Heap
  <2>2. Moved(its, left, Heap(its) \ {lookup[h] : h \in hs})
    BY <1>2, <2>1, RemovedMoves
  <2>3. Moved(its, left, rest)
    BY <1>3, <2>1, <2>2 DEF Moved
  <2> QED
    BY <2>3, InvTypes, MovedTwice
<1>5. \A q \in Heap(items) : items[q].id \notin gone \cup hs => q \in rest
  <2> SUFFICES ASSUME NEW q \in Heap(items), items[q].id \notin gone, items[q].id \notin hs
               PROVE  q \in rest
    OBVIOUS
  <2>1. q \in heap
    OBVIOUS
  <2>2. \A h \in hs : items[lookup[h]].id = h
    BY KnownIs
  <2> QED
    BY <1>3, <2>1, <2>2
<1>6. left \in Seq(Item) /\ Len(left) = Len(items)
  BY <1>4 DEF Moved, Grown
<1>7. CASE /\ Leave(Updated(left, o, NewExpiry))
           /\ calls' = [calls EXCEPT ![p] = NoCall]
           /\ UNCHANGED runs
  <2>1. Moved(items, Updated(left, o, NewExpiry), rest)
    <3>1. Moved(left, Updated(left, o, NewExpiry), Heap(left))
      BY <1>6, InvTypes, UpdatedMoves
    <3>2. \A q \in 1..Len(left) : q \in Heap(left) <=> q \in rest
      BY <1>4, <1>6, HeapIs DEF Moved
    <3>3. Moved(left, Updated(left, o, NewExpiry), rest)
      BY <3>1, <3>2 DEF Moved
    <3> QED
      BY <1>4, <3>3, InvTypes, MovedTwice
  <2>2. /\ Moved(items, items', rest) /\ Grown(items, items')
        /\ alarm' \in Nat \cup {-1} /\ armed' \in BOOLEAN /\ TimerOK' /\ HeadScheduled'
    BY <1>7, <2>1, LeaveMoves
  <2>3. CallsOK' /\ \A q \in Callers : q # p => calls'[q] = calls[q]
    BY <1>7, <2>2, NoCallType, CallsSet
  <2>4. SameRuns(runs') /\ Fresh(runs', {})
    BY <1>7, RunsKept, FreshRuns
  <2>5. lookup' = Without(gone \cup hs) /\ pending' = pending \ (gone \cup hs)
    BY <1>1
  <2> QED
    BY <1>5, <2>2, <2>3, <2>4, <2>5, DroppingSection
<1>8. CASE \E v \in {h \in others : Uploading(h)} :
             /\ items' = left
             /\ IF gone \cup hs = {} THEN UNCHANGED <<alarm, armed>>
                                    ELSE ResetTimer(left)
             /\ Cancels(p, "Rename", o, lookup[v])
             /\ runs' = CancelRun(lookup[v])
  <2>1. PICK v \in {h \in others : Uploading(h)} :
             /\ items' = left
             /\ IF gone \cup hs = {} THEN UNCHANGED <<alarm, armed>>
                                    ELSE ResetTimer(left)
             /\ Cancels(p, "Rename", o, lookup[v])
             /\ runs' = CancelRun(lookup[v])
    BY <1>8
  <2>2. PICK w \in 1..Len(items) : w = lookup[v] /\ items[w].id = v
    BY <2>1, KnownIs DEF Uploading
  <2>3. w # o
    BY <2>1, <2>2
  <2>4. Moved(items, items', rest) /\ Grown(items, items')
    BY <1>4, <2>1 DEF Moved
  <2>5. /\ CallsOK' /\ calls'[p].op = "Rename" /\ calls'[p].item = o /\ calls'[p].waits = w
        /\ \A q \in Callers : q # p => calls'[q] = calls[q]
    <3>1. Cancels(p, "Rename", o, w)
      BY <2>1, <2>2
    <3> QED
      BY <2>4, <3>1, CancelsSets
  <2>6. HeadScheduled'
    BY <2>3, <2>5 DEF HeadScheduled
  <2>7. alarm' \in Nat \cup {-1} /\ armed' \in BOOLEAN /\ TimerOK'
    <3>1. TimerOK /\ clock' = clock /\ fired' = fired
      BY DEF WbInv
    <3>2. CASE gone \cup hs = {}
      <4>1. alarm' = alarm /\ armed' = armed
        BY <2>1, <3>2
      <4> QED
        BY <3>1, <4>1, InvTypes DEF TimerOK
    <3>3. CASE gone \cup hs # {}
      <4>1. ResetTimer(left)
        BY <2>1, <3>3
      <4> QED
        BY <1>6, <3>1, <4>1, InvTypes, ResetSchedules
    <3> QED
      BY <3>2, <3>3
  <2>8. SameRuns(runs') /\ Fresh(runs', {})
    BY <2>1, RunsKept, FreshRuns
  <2>9. lookup' = Without(gone \cup hs) /\ pending' = pending \ (gone \cup hs)
    BY <1>1
  <2> QED
    BY <1>5, <2>4, <2>5, <2>6, <2>7, <2>8, <2>9, DroppingSection
<1> QED
  BY <1>1, <1>2, <1>7, <1>8

LEMMA RenameNowKeeps ==
    ASSUME WbInv, NEW p \in Callers, NEW h \in Handles, RenameNow(p, h)
    PROVE  WbInv'
<1>1. PICK o \in 1..Len(items) : o = lookup[h]
  BY KnownIs DEF RenameNow
<1>2. RenameLoop(p, o, items, {}) /\ UNCHANGED <<clock, uploads, fired>>
  BY <1>1 DEF RenameNow
<1>3. calls[p].op # "Add"
  BY IdleHasNone DEF RenameNow
<1>4. Moved(items, items, Heap(items))
  BY InvTypes, MovedSame
<1> QED
  BY <1>2, <1>3, <1>4, RenameLoopKeeps

\* A call that was waiting names items that exist.
LEMMA WaitingIs ==
    ASSUME WbInv, NEW p \in Callers, NEW op, Released(p, op)
    PROVE  calls[p].item \in 1..Len(items) /\ calls[p].waits \in 1..Len(items) /\ calls[p].op = op
  BY InvTypes DEF WbInv, CallsOK, Released

LEMMA AddResumesKeeps ==
    ASSUME WbInv, NEW p \in Callers, AddResumes(p)
    PROVE  WbInv'
<1>1. PICK o \in 1..Len(items) : o = calls[p].item
  BY WaitingIs DEF AddResumes
<1>2. /\ Leave(Updated(Pushed(items, o), o, NewExpiry)) /\ pending' = pending \cup {items[o].id}
      /\ calls' = [calls EXCEPT ![p] = NoCall]
      /\ UNCHANGED <<clock, lookup, runs, uploads, fired>>
  BY <1>1 DEF AddResumes
<1>3. PICK pushed : pushed = Pushed(items, o)
  OBVIOUS
<1>4. PICK heap : heap = Heap(items) \cup {o}
  OBVIOUS
<1>5. Moved(items, pushed, heap)
  BY <1>3, <1>4, InvTypes, PushedMoves
<1>6. pushed \in Seq(Item) /\ Len(pushed) = Len(items)
  BY <1>5 DEF Moved, Grown
<1>7. Moved(items, Updated(pushed, o, NewExpiry), heap)
  <2>1. Moved(pushed, Updated(pushed, o, NewExpiry), Heap(pushed))
    BY <1>6, InvTypes, UpdatedMoves
  <2>2. \A q \in 1..Len(pushed) : q \in Heap(pushed) <=> q \in heap
    BY <1>5, <1>6, HeapIs DEF Moved
  <2>3. Moved(pushed, Updated(pushed, o, NewExpiry), heap)
    BY <2>1, <2>2 DEF Moved
  <2> QED
    BY <1>5, <2>3, InvTypes, MovedTwice
<1>8. /\ Moved(items, items', heap) /\ Grown(items, items')
      /\ alarm' \in Nat \cup {-1} /\ armed' \in BOOLEAN /\ TimerOK' /\ HeadScheduled'
  BY <1>2, <1>3, <1>7, LeaveMoves
<1>9. CallsOK' /\ \A q \in Callers : q # p => calls'[q] = calls[q]
  BY <1>2, <1>8, NoCallType, CallsSet
<1>10. PICK h \in Handles : h = items[o].id
  BY InvTypes, ItemFields
<1>11. SameRuns(runs') /\ Fresh(runs', {h})
  BY <1>2, RunsKept, FreshRuns DEF Fresh
<1>12. Covered(h)'
  <2>1. \E q \in DOMAIN items' : items'[q].id = h /\ items'[q].onHeap
    BY <1>4, <1>8, <1>10, GrownIs DEF Moved
  <2> QED
    BY <2>1 DEF Covered
<1>13. \A q \in Callers : calls[q].op = "Add" =>
          calls'[q] = calls[q] \/ items[calls[q].item].id = h
  BY <1>1, <1>9, <1>10
<1>14. Heap(items) \subseteq heap
  BY <1>4
<1> QED
  BY <1>2, <1>8, <1>9, <1>10, <1>11, <1>12, <1>13, <1>14, ChangingSection

LEMMA RemoveResumesKeeps ==
    ASSUME WbInv, NEW p \in Callers, RemoveResumes(p)
    PROVE  WbInv'
<1>1. PICK o \in 1..Len(items) : o = calls[p].item /\ calls[p].op = "Remove"
  BY WaitingIs DEF RemoveResumes
<1>2. PICK h : h = items[o].id
  OBVIOUS
<1>3. /\ Leave(Removed(items, {o})) /\ lookup' = Without({h}) /\ pending' = pending \ {h}
      /\ calls' = [calls EXCEPT ![p] = NoCall]
      /\ UNCHANGED <<clock, runs, uploads, fired>>
  BY <1>1, <1>2 DEF RemoveResumes
<1>4. Moved(items, Removed(items, {o}), Heap(items) \ {o})
  BY InvTypes, RemovedMoves
<1>5. /\ Moved(items, items', Heap(items) \ {o}) /\ Grown(items, items')
      /\ alarm' \in Nat \cup {-1} /\ armed' \in BOOLEAN /\ TimerOK' /\ HeadScheduled'
  BY <1>3, <1>4, LeaveMoves
<1>6. CallsOK' /\ \A q \in Callers : q # p => calls'[q] = calls[q]
  BY <1>3, <1>5, NoCallType, CallsSet
<1>7. SameRuns(runs') /\ Fresh(runs', {})
  BY <1>3, RunsKept, FreshRuns
<1>8. \A q \in Heap(items) : items[q].id \notin {h} => q \in Heap(items) \ {o}
  BY <1>2
<1> QED
  BY <1>1, <1>3, <1>5, <1>6, <1>7, <1>8, DroppingSection

LEMMA RenameResumesKeeps ==
    ASSUME WbInv, NEW p \in Callers, RenameResumes(p)
    PROVE  WbInv'
<1>1. PICK o \in 1..Len(items) : o = calls[p].item
  BY WaitingIs DEF RenameResumes
<1>2. PICK v \in 1..Len(items) : v = calls[p].waits
  BY WaitingIs DEF RenameResumes
<1>3. calls[p].op # "Add" /\ UNCHANGED <<clock, uploads, fired>>
  BY WaitingIs DEF RenameResumes
<1>4. CASE v = o
  <2>1. RenameLoop(p, o, Pushed(items, o), {})
    BY <1>1, <1>2, <1>4 DEF RenameResumes
  <2>2. Moved(items, Pushed(items, o), Heap(items) \cup {o})
    BY InvTypes, PushedMoves
  <2>3. \A q \in Heap(items) : items[q].id \notin {} => q \in Heap(items) \cup {o}
    OBVIOUS
  <2> QED
    BY <1>3, <2>1, <2>2, <2>3, RenameLoopKeeps
<1>5. CASE v # o
  <2>1. RenameLoop(p, o, Removed(items, {v}), {items[v].id})
    BY <1>1, <1>2, <1>5 DEF RenameResumes
  <2>2. Moved(items, Removed(items, {v}), Heap(items) \ {v})
    BY InvTypes, RemovedMoves
  <2>3. \A q \in Heap(items) : items[q].id \notin {items[v].id} => q \in Heap(items) \ {v}
    OBVIOUS
  <2> QED
    BY <1>3, <2>1, <2>2, <2>3, RenameLoopKeeps
<1> QED
  BY <1>4, <1>5

LEMMA ReadDoneKeeps ==
    ASSUME WbInv, NEW p \in Callers, ReadDone(p)
    PROVE  WbInv'
<1>1. /\ calls[p].pc = "cancelled" /\ calls' = [calls EXCEPT ![p].pc = "wait", ![p].run = items[calls[p].waits].run]
      /\ UNCHANGED <<clock, items, lookup, runs, uploads, alarm, armed, fired, pending>>
  BY DEF ReadDone
<1>2. /\ calls[p] \in Call /\ calls[p].item \in 1..Len(items) /\ calls[p].waits \in 1..Len(items)
  BY <1>1, InvTypes DEF WbInv, CallsOK
<1>3. PICK k \in Nat : k = items[calls[p].waits].run
  BY <1>2, InvTypes, ItemFields
<1>4. PICK c : c = [calls[p] EXCEPT !.pc = "wait", !.run = k]
  OBVIOUS
<1>5. calls' = [calls EXCEPT ![p] = c]
  BY <1>1, <1>3, <1>4 DEF WbInv, CallsOK
<1>6. /\ c \in Call /\ c.pc = "wait" /\ c.item = calls[p].item /\ c.waits = calls[p].waits
      /\ c.op = calls[p].op
  BY <1>2, <1>4 DEF Call
<1>7. Grown(items, items') /\ Moved(items, items', Heap(items))
  BY <1>1, SameItems, InvTypes, MovedSame
<1>8. CallsOK' /\ calls'[p] = c /\ \A q \in Callers : q # p => calls'[q] = calls[q]
  BY <1>2, <1>5, <1>6, <1>7, CallsSet
<1>9. HeadScheduled' /\ TimerOK' /\ alarm' \in Nat \cup {-1} /\ armed' \in BOOLEAN
  BY <1>1, <1>6, <1>8, HeadStays
<1>10. WbTypeOK' /\ RunsOK' /\ KnownOK'
  <2>1. SameRuns(runs') /\ lookup' \in [Handles -> 0..Len(items')] /\ pending' \subseteq Handles
    BY <1>1, RunsKept, InvTypes
  <2>2. WbTypeOK' /\ RunsOK'
    BY <1>1, <1>7, <1>9, <2>1, SectionTypes
  <2>3. KnownOK'
    BY <1>1 DEF WbInv, KnownOK, Known
  <2> QED
    BY <2>2, <2>3
<1>11. NothingForgotten'
  <2> SUFFICES ASSUME NEW h \in pending PROVE Covered(h)'
    BY <1>1 DEF NothingForgotten, Covered
  <2>1. Covered(h)
    BY ForgottenMeans DEF WbInv
  <2>2. \A q \in Callers : calls'[q].op = calls[q].op /\ calls'[q].item = calls[q].item
    BY <1>6, <1>8
  <2>3. Active' = Active
    BY <1>1 DEF Active
  <2> QED
    BY <1>1, <2>1, <2>2, <2>3 DEF Covered
<1> QED
  BY <1>8, <1>9, <1>10, <1>11 DEF WbInv

-----------------------------------------------------------------------------
(* Time, and the end of an upload                                           *)

LEMMA TickKeeps ==
    ASSUME WbInv, Tick
    PROVE  WbInv'
<1>1. /\ clock < MaxClock /\ clock' = clock + 1
      /\ UNCHANGED <<items, lookup, runs, uploads, alarm, armed, fired, calls, pending>>
  BY DEF Tick
<1>2. Active' = Active
  BY <1>1 DEF Active
<1>3. clock' \in 0..MaxClock
  BY <1>1, WritebackAssumption DEF WbInv, WbTypeOK
<1>4. WbTypeOK'
  BY <1>1, <1>2, <1>3 DEF WbInv, WbTypeOK
<1>5. TimerOK'
  <2>1. ~armed => alarm <= clock /\ (alarm # -1 => fired > 0)
    BY DEF WbInv, TimerOK
  <2> QED
    BY <1>1, <2>1, InvTypes DEF TimerOK
<1>6. CallsOK' /\ RunsOK' /\ KnownOK' /\ HeadScheduled' /\ NothingForgotten'
  BY <1>1, <1>2 DEF WbInv, CallsOK, RunsOK, KnownOK, Known, HeadScheduled, NothingForgotten
<1> QED
  BY <1>4, <1>5, <1>6 DEF WbInv

LEMMA TimerFiresKeeps ==
    ASSUME WbInv, TimerFires
    PROVE  WbInv'
<1>1. /\ clock >= alarm /\ fired < MaxFired /\ armed' = FALSE /\ fired' = fired + 1
      /\ UNCHANGED <<clock, items, lookup, runs, uploads, alarm, calls, pending>>
  BY DEF TimerFires
<1>2. Active' = Active
  BY <1>1 DEF Active
<1>3. fired' \in 0..MaxFired /\ fired' > 0
  BY <1>1, WritebackAssumption DEF WbInv, WbTypeOK
<1>4. WbTypeOK'
  BY <1>1, <1>2, <1>3 DEF WbInv, WbTypeOK
<1>5. TimerOK' /\ HeadScheduled'
  BY <1>1, <1>3, InvTypes DEF TimerOK, HeadScheduled
<1>6. CallsOK' /\ RunsOK' /\ KnownOK' /\ NothingForgotten'
  BY <1>1, <1>2 DEF WbInv, CallsOK, RunsOK, KnownOK, Known, NothingForgotten
<1> QED
  BY <1>4, <1>5, <1>6 DEF WbInv

\* The other runs are as they were, and one goroutine less is counted.
LEMMA EndedIs ==
    ASSUME WbInv, NEW r \in 1..Len(runs), ~runs[r].over, runs' = Ended(r), uploads' = uploads - 1
    PROVE  /\ runs' \in Seq(Run) /\ DOMAIN runs' = 1..Len(runs)
           /\ \A i \in 1..Len(runs) : /\ runs'[i].item = runs[i].item
                                      /\ runs'[i].stale = runs[i].stale
           /\ Active' = Active \ {r}
           /\ uploads' = Cardinality(Active') /\ uploads' <= Transfers
<1>1. PICK k : k = Current(r)
  OBVIOUS
<1>2. runs' = [i \in 1..Len(runs) |->
                [runs[i] EXCEPT !.over = @ \/ i = r, !.cancelled = @ \/ i = k, !.closed = @ \/ i = k]]
  BY <1>1, InvTypes DEF Ended
<1>3. ASSUME NEW i \in 1..Len(runs)
      PROVE  /\ runs'[i] \in Run /\ runs'[i].item = runs[i].item /\ runs'[i].stale = runs[i].stale
             /\ runs'[i].over <=> (runs[i].over \/ i = r)
  <2>1. runs[i] \in Run
    BY InvTypes
  <2>2. PICK x \in BOOLEAN : x = (runs[i].over \/ i = r)
    OBVIOUS
  <2>3. PICK y \in BOOLEAN : y = (runs[i].cancelled \/ i = k)
    OBVIOUS
  <2>4. PICK z \in BOOLEAN : z = (runs[i].closed \/ i = k)
    OBVIOUS
  <2>5. runs'[i] = [runs[i] EXCEPT !.over = x, !.cancelled = y, !.closed = z]
    BY <1>2, <2>2, <2>3, <2>4
  <2> QED
    BY <2>1, <2>2, <2>3, <2>4, <2>5 DEF Run
<1>4. runs' \in Seq(Run) /\ DOMAIN runs' = 1..Len(runs)
  <2>1. runs' = [i \in 1..Len(runs) |-> runs'[i]] /\ DOMAIN runs' = 1..Len(runs)
    BY <1>2
  <2>2. PICK n \in Nat : n = Len(runs)
    BY InvTypes
  <2>3. runs' \in [1..n -> Run]
    BY <1>3, <2>1, <2>2
  <2> QED
    BY <2>1, <2>2, <2>3
<1>5. Active' = Active \ {r}
  BY <1>3, <1>4, InvTypes DEF Active
<1>6. uploads' = Cardinality(Active') /\ uploads' <= Transfers
  <2>1. IsFiniteSet(Active) /\ Cardinality(Active) \in Nat /\ r \in Active
    BY InvTypes, ActiveFinite DEF Active
  <2>2. Cardinality(Active \ {r}) = Cardinality(Active) - 1
    BY <2>1, FS_RemoveElement
  <2>3. uploads = Cardinality(Active) /\ uploads <= Transfers
    BY DEF WbInv, WbTypeOK
  <2> QED
    BY <1>5, <2>1, <2>2, <2>3, WritebackAssumption
<1> QED
  BY <1>3, <1>4, <1>5, <1>6

\* The item o has ended one of its uploads, and may be on the heap for it.
Settled(o) ==
    /\ items' \in Seq(Item) /\ Len(items') = Len(items)
    /\ \A q \in 1..Len(items) :
         /\ items'[q].id = items[q].id /\ items'[q].run = items[q].run
         /\ items'[q].uploading <=> (items[q].uploading /\ q # o)
         /\ items[q].onHeap => items'[q].onHeap

LEMMA EndTypes ==
    ASSUME WbInv, NEW r \in 1..Len(runs), ~runs[r].over, runs' = Ended(r), uploads' = uploads - 1,
           Settled(runs[r].item), lookup' \in [Handles -> 0..Len(items)], pending' \subseteq pending,
           alarm' \in Nat \cup {-1}, armed' \in BOOLEAN, UNCHANGED <<clock, fired, calls>>
    PROVE  WbTypeOK' /\ RunsOK' /\ CallsOK'
<1> DEFINE o == runs[r].item
<1>1. DOMAIN items' = 1..Len(items) /\ DOMAIN items = 1..Len(items)
  BY InvTypes DEF Settled
<1>2. ASSUME NEW q \in DOMAIN items', items'[q].uploading
      PROVE  items'[q].run \in Active' /\ runs'[items'[q].run].item = q
  <2>1. q \in 1..Len(items) /\ items[q].uploading /\ q # o /\ items'[q].run = items[q].run
    BY <1>1, <1>2 DEF Settled
  <2>2. items[q].run \in Active /\ runs[items[q].run].item = q
    BY <1>1, <2>1 DEF WbInv, WbTypeOK
  <2>3. items[q].run \in 1..Len(runs) /\ items[q].run # r
    BY <2>1, <2>2, InvTypes DEF Active
  <2> QED
    BY <2>1, <2>2, <2>3, EndedIs
<1>3. WbTypeOK'
  <2>1. /\ clock' \in 0..MaxClock /\ fired' \in 0..MaxFired /\ pending' \subseteq Handles
        /\ items' \in Seq(Item) /\ lookup' \in [Handles -> 0..Len(items')]
    BY DEF WbInv, WbTypeOK, Settled
  <2>2. runs' \in Seq(Run) /\ uploads' = Cardinality(Active') /\ uploads' <= Transfers
    BY EndedIs
  <2> QED
    BY <1>2, <2>1, <2>2 DEF WbTypeOK
<1>4. RunsOK'
  BY <1>1, EndedIs, InvTypes DEF RunsOK
<1>5. CallsOK'
  BY <1>1 DEF CallsOK, WbInv
<1> QED
  BY <1>3, <1>4, <1>5

\* The change of a file is still covered, unless by the upload that ended.
LEMMA EndCovers ==
    ASSUME WbInv, NEW r \in 1..Len(runs), ~runs[r].over, runs' = Ended(r), uploads' = uploads - 1,
           Settled(runs[r].item), calls' = calls, NEW h \in pending,
           runs[r].stale \/ items[runs[r].item].id # h
    PROVE  Covered(h)'
<1>1. DOMAIN items' = 1..Len(items) /\ DOMAIN items = 1..Len(items)
  BY InvTypes DEF Settled
<1>2. Covered(h)
  BY ForgottenMeans DEF WbInv
<1>3. CASE \E q \in DOMAIN items : items[q].id = h /\ items[q].onHeap
  <2>1. \E q \in DOMAIN items' : items'[q].id = h /\ items'[q].onHeap
    BY <1>1, <1>3 DEF Settled
  <2> QED
    BY <2>1 DEF Covered
<1>4. CASE \E i \in Active : ~runs[i].stale /\ items[runs[i].item].id = h
  <2>1. PICK i \in Active : ~runs[i].stale /\ items[runs[i].item].id = h
    BY <1>4
  <2>2. i \in 1..Len(runs) /\ i # r
    BY <2>1, InvTypes DEF Active
  <2>3. i \in Active' /\ ~runs'[i].stale /\ runs'[i].item = runs[i].item
    BY <2>1, <2>2, EndedIs
  <2>4. items'[runs'[i].item].id = h
    <3>1. runs[i].item \in 1..Len(items)
      BY <2>2, InvTypes
    <3> QED
      BY <2>1, <2>3, <3>1 DEF Settled
  <2> QED
    BY <2>3, <2>4 DEF Covered
<1>5. CASE \E p \in Callers : calls[p].op = "Add" /\ items[calls[p].item].id = h
  <2>1. PICK p \in Callers : calls[p].op = "Add" /\ items[calls[p].item].id = h
    BY <1>5
  <2>2. calls[p].item \in 1..Len(items)
    BY <1>1, <2>1, NoCallType DEF WbInv, CallsOK
  <2>3. calls'[p].op = "Add" /\ items'[calls'[p].item].id = h
    BY <2>1, <2>2 DEF Settled
  <2> QED
    BY <2>3 DEF Covered
<1> QED
  BY <1>2, <1>3, <1>4, <1>5 DEF Covered

LEMMA UploadSucceedsKeeps ==
    ASSUME WbInv, NEW r \in DOMAIN runs, UploadSucceeds(r)
    PROVE  WbInv'
<1>1. r \in 1..Len(runs) /\ runs[r].item \in 1..Len(items)
  BY InvTypes
<1>2. PICK o \in 1..Len(items) : o = runs[r].item
  BY <1>1
<1>3. PICK no \in BOOLEAN : no = FALSE
  OBVIOUS
<1>4. PICK a : a = [items EXCEPT ![o].uploading = no]
  OBVIOUS
<1>5. /\ ~runs[r].over /\ uploads' = uploads - 1 /\ runs' = Ended(r)
      /\ UNCHANGED <<clock, fired, calls>>
      /\ Leave(a) /\ lookup' = Without({items[o].id})
      /\ pending' = IF runs[r].stale THEN pending ELSE pending \ {items[o].id}
  BY <1>2, <1>3, <1>4 DEF UploadSucceeds, UploadEnds
<1>6. \A q \in 1..Len(items) : a[q] = IF q = o THEN [items[q] EXCEPT !.uploading = no] ELSE items[q]
  BY <1>4, InvTypes
<1>7. ASSUME NEW q \in 1..Len(items)
      PROVE  /\ a[q] \in Item /\ a[q].id = items[q].id /\ a[q].run = items[q].run
             /\ a[q].uploading <=> (items[q].uploading /\ q # o)
             /\ a[q].onHeap = items[q].onHeap
  <2>1. items[q] \in Item
    BY InvTypes
  <2>2. CASE q = o
    BY <1>3, <1>6, <2>1, <2>2 DEF Item
  <2>3. CASE q # o
    BY <1>6, <2>1, <2>3
  <2> QED
    BY <2>2, <2>3
<1>8. a \in Seq(Item) /\ Len(a) = Len(items)
  <2>1. PICK n \in Nat : n = Len(items)
    BY InvTypes
  <2>2. a = [q \in 1..n |-> a[q]]
    BY <1>4, <2>1, InvTypes
  <2>3. a \in [1..n -> Item]
    BY <1>7, <2>1, <2>2
  <2> QED
    BY <2>1, <2>3
<1>9. /\ alarm' \in Nat \cup {-1} /\ armed' \in BOOLEAN
      /\ TimerOK' /\ HeadScheduled' /\ items' = a
  BY <1>5, <1>8, LeaveSchedules
<1>10. Settled(o)
  BY <1>7, <1>8, <1>9 DEF Settled
<1>11. lookup' \in [Handles -> 0..Len(items)] /\ \A h \in Handles :
          lookup'[h] = IF h = items[o].id THEN 0 ELSE lookup[h]
  BY <1>5, InvTypes DEF Without
<1>12. WbTypeOK' /\ RunsOK' /\ CallsOK'
  <2>1. pending' \subseteq pending
    BY <1>5
  <2> QED
    BY <1>1, <1>2, <1>5, <1>9, <1>10, <1>11, <2>1, EndTypes
<1>13. KnownOK'
  <2> SUFFICES ASSUME NEW h \in Handles, lookup'[h] # 0
               PROVE  /\ items'[lookup'[h]].id = h
                      /\ items'[lookup'[h]].onHeap \/ items'[lookup'[h]].uploading
    BY DEF KnownOK, Known
  <2>1. h # items[o].id /\ lookup'[h] = lookup[h] /\ Known(h)
    BY <1>11 DEF Known
  <2>2. PICK q \in 1..Len(items) : q = lookup[h] /\ items[q].id = h
    BY <2>1, KnownIs
  <2>3. items[q].onHeap \/ items[q].uploading
    BY <2>1, <2>2 DEF WbInv, KnownOK
  <2> QED
    BY <1>10, <2>1, <2>2, <2>3 DEF Settled
<1>14. NothingForgotten'
  <2> SUFFICES ASSUME NEW h \in pending' PROVE Covered(h)'
    BY DEF NothingForgotten, Covered
  <2>1. h \in pending /\ (runs[r].stale \/ items[runs[r].item].id # h)
    BY <1>2, <1>5
  <2> QED
    BY <1>1, <1>2, <1>5, <1>10, <2>1, EndCovers
<1> QED
  BY <1>9, <1>12, <1>13, <1>14 DEF WbInv

LEMMA UploadFailsKeeps ==
    ASSUME WbInv, NEW r \in DOMAIN runs, NEW cancelled \in BOOLEAN, UploadFails(r, cancelled)
    PROVE  WbInv'
<1>1. r \in 1..Len(runs) /\ runs[r].item \in 1..Len(items)
  BY InvTypes
<1>2. PICK o \in 1..Len(items) : o = runs[r].item
  BY <1>1
<1>3. PICK no \in BOOLEAN : no = FALSE
  OBVIOUS
<1>4. PICK yes \in BOOLEAN : yes = TRUE
  OBVIOUS
<1>5. PICK d : d = IF cancelled THEN Delay ELSE Min({2 * items[o].delay, MaxDelay})
  OBVIOUS
<1>6. d \in Nat
  <2>1. items[o].delay \in Nat
    BY InvTypes, ItemFields
  <2>2. Min({2 * items[o].delay, MaxDelay}) \in {2 * items[o].delay, MaxDelay}
    <3> DEFINE T == {2 * items[o].delay, MaxDelay}
    <3>1. \E x \in T : \A y \in T : x <= y
      BY <2>1, WritebackAssumption
    <3> QED
      BY <3>1 DEF Min
  <2> QED
    BY <1>5, <2>1, <2>2, WritebackAssumption
<1>7. PICK b : b = [items[o] EXCEPT !.uploading = no, !.onHeap = yes, !.delay = d,
                                    !.expiry = clock + d]
  OBVIOUS
<1>8. PICK a : a = [items EXCEPT ![o] = b]
  OBVIOUS
<1>9. /\ ~runs[r].over /\ uploads' = uploads - 1 /\ runs' = Ended(r)
      /\ UNCHANGED <<clock, fired, calls, lookup, pending>> /\ Leave(a)
  BY <1>2, <1>3, <1>4, <1>5, <1>7, <1>8 DEF UploadFails, UploadEnds
<1>10. b \in Item /\ b.id = items[o].id /\ b.run = items[o].run /\ ~b.uploading /\ b.onHeap
  <2>1. items[o] \in Item /\ clock + d \in Nat
    BY <1>6, InvTypes
  <2> QED
    BY <1>3, <1>4, <1>6, <1>7, <2>1 DEF Item
<1>11. ASSUME NEW q \in 1..Len(items)
       PROVE  /\ a[q] \in Item /\ a[q].id = items[q].id /\ a[q].run = items[q].run
              /\ a[q].uploading <=> (items[q].uploading /\ q # o)
              /\ a[q].onHeap <=> (items[q].onHeap \/ q = o)
  <2>1. items[q] \in Item
    BY InvTypes
  <2>2. CASE q = o
    BY <1>8, <1>10, <2>2, InvTypes
  <2>3. CASE q # o
    <3>1. a[q] = items[q]
      BY <1>8, <2>3, InvTypes
    <3> QED
      BY <2>1, <2>3, <3>1
  <2> QED
    BY <2>2, <2>3
<1>12. a \in Seq(Item) /\ Len(a) = Len(items)
  <2>1. PICK n \in Nat : n = Len(items)
    BY InvTypes
  <2>2. a = [q \in 1..n |-> a[q]]
    BY <1>8, <2>1, InvTypes
  <2>3. a \in [1..n -> Item]
    BY <1>11, <2>1, <2>2
  <2> QED
    BY <2>1, <2>3
<1>13. /\ alarm' \in Nat \cup {-1} /\ armed' \in BOOLEAN
       /\ TimerOK' /\ HeadScheduled' /\ items' = a
  BY <1>9, <1>12, LeaveSchedules
<1>14. Settled(o)
  BY <1>11, <1>12, <1>13 DEF Settled
<1>15. WbTypeOK' /\ RunsOK' /\ CallsOK'
  BY <1>1, <1>2, <1>9, <1>13, <1>14, InvTypes, EndTypes
<1>16. KnownOK'
  <2> SUFFICES ASSUME NEW h \in Handles, lookup[h] # 0
               PROVE  /\ items'[lookup[h]].id = h
                      /\ items'[lookup[h]].onHeap \/ items'[lookup[h]].uploading
    BY <1>9 DEF KnownOK, Known
  <2>1. PICK q \in 1..Len(items) : q = lookup[h] /\ items[q].id = h
    BY KnownIs DEF Known
  <2>2. items[q].onHeap \/ items[q].uploading
    BY <2>1 DEF WbInv, KnownOK, Known
  <2> QED
    BY <1>11, <1>13, <2>1, <2>2
<1>17. NothingForgotten'
  <2> SUFFICES ASSUME NEW h \in pending PROVE Covered(h)'
    BY <1>9 DEF NothingForgotten, Covered
  <2>1. CASE items[o].id = h
    <3>1. o \in DOMAIN items' /\ items'[o].id = h /\ items'[o].onHeap
      BY <1>11, <1>12, <1>13, <2>1
    <3> QED
      BY <3>1 DEF Covered
  <2>2. CASE items[o].id # h
    BY <1>1, <1>2, <1>9, <1>14, <2>2, EndCovers
  <2> QED
    BY <2>1, <2>2
<1> QED
  BY <1>13, <1>15, <1>16, <1>17 DEF WbInv

-----------------------------------------------------------------------------
(* processItems                                                             *)

LEMMA BeforeOrders ==
    ASSUME WbInv, NEW x \in Heap(items), NEW y \in Heap(items), NEW z \in Heap(items)
    PROVE  /\ ~Before(x, x)
           /\ Before(x, y) /\ Before(y, z) => Before(x, z)
           /\ x = y \/ Before(x, y) \/ Before(y, x)
           /\ Before(x, y) => items[x].expiry <= items[y].expiry
<1>1. \A o \in Heap(items) : o \in Nat /\ items[o].expiry \in Nat /\ items[o].id \in Nat
  <2>1. \A o \in Heap(items) : o \in 1..Len(items) /\ items[o] \in Item
    BY InvTypes, HeapIs
  <2>2. Handles \subseteq Nat /\ Len(items) \in Nat
    BY InvTypes, WritebackAssumption
  <2>3. \A item \in Item : item.id \in Handles /\ item.expiry \in Nat
    BY ItemFields
  <2>4. \A o \in 1..Len(items) : o \in Nat
    BY <2>2
  <2> QED
    BY <2>1, <2>2, <2>3, <2>4
<1> QED
  BY <1>1 DEF Before

LEMMA HeapFinite ==
    ASSUME WbInv, NEW T \in SUBSET Heap(items)
    PROVE  IsFiniteSet(T) /\ Cardinality(T) \in Nat
<1>1. IsFiniteSet(1..Len(items))
  BY InvTypes, FS_Interval
<1> QED
  BY <1>1, InvTypes, HeapIs, FS_Subset, FS_CardinalityType

\* Some items of the heap have a first one and a last one among them.
LEMMA FirstAndLast ==
    ASSUME WbInv, NEW T \in SUBSET Heap(items), T # {}
    PROVE  /\ \E x \in T : \A y \in T : y = x \/ Before(x, y)
           /\ \E x \in T : \A y \in T : y = x \/ Before(y, x)
<1> DEFINE S == Heap(items)
           Good == {U \in SUBSET S : U # {} =>
                      /\ \E x \in U : \A y \in U : y = x \/ Before(x, y)
                      /\ \E x \in U : \A y \in U : y = x \/ Before(y, x)}
<1>1. IsFiniteSet(S)
  BY HeapFinite
<1>2. ASSUME NEW U \in SUBSET S, \A x \in U : U \ {x} \in Good
      PROVE  U \in Good
  <2> SUFFICES ASSUME U # {}
               PROVE  /\ \E x \in U : \A y \in U : y = x \/ Before(x, y)
                      /\ \E x \in U : \A y \in U : y = x \/ Before(y, x)
    OBVIOUS
  <2>1. PICK u \in U : TRUE
    OBVIOUS
  <2>2. CASE U = {u}
    BY <2>2
  <2>3. CASE U # {u}
    <3>1. U \ {u} # {} /\ U \ {u} \in Good
      BY <1>2, <2>1, <2>3
    <3>2. PICK f \in U \ {u} : \A y \in U \ {u} : y = f \/ Before(f, y)
      BY <3>1
    <3>3. PICK l \in U \ {u} : \A y \in U \ {u} : y = l \/ Before(y, l)
      BY <3>1
    <3> HIDE DEF Good
    <3>4. \E x \in U : \A y \in U : y = x \/ Before(x, y)
      <4>1. CASE Before(f, u)
        <5>1. \A y \in U : y = f \/ Before(f, y)
          BY <3>2, <4>1
        <5> QED
          BY <5>1
      <4>2. CASE Before(u, f)
        <5>1. \A y \in U : y = u \/ Before(u, y)
          BY <2>1, <3>2, <4>2, BeforeOrders
        <5> QED
          BY <2>1, <5>1
      <4> QED
        BY <2>1, <3>2, <4>1, <4>2, BeforeOrders
    <3>5. \E x \in U : \A y \in U : y = x \/ Before(y, x)
      <4>1. CASE Before(u, l)
        <5>1. \A y \in U : y = l \/ Before(y, l)
          BY <3>3, <4>1
        <5> QED
          BY <5>1
      <4>2. CASE Before(l, u)
        <5>1. \A y \in U : y = u \/ Before(y, u)
          BY <2>1, <3>3, <4>2, BeforeOrders
        <5> QED
          BY <2>1, <5>1
      <4> QED
        BY <2>1, <3>3, <4>1, <4>2, BeforeOrders
    <3> QED
      BY <3>4, <3>5
  <2> QED
    BY <2>2, <2>3
<1>3. \A U \in SUBSET S : U \in Good
  <2> HIDE DEF Good, S
  <2> QED
    BY <1>1, <1>2, FiniteInduction
<1> QED
  BY <1>3

\* No more are popped than there are transfers left: the last one popped has
\* all the others before it.
LEMMA PoppedFits ==
    ASSUME WbInv
    PROVE  /\ IsFiniteSet(Popped) /\ Cardinality(Popped) \in Nat
           /\ uploads + Cardinality(Popped) <= Transfers
<1>1. Popped \in SUBSET Heap(items) /\ IsFiniteSet(Popped) /\ Cardinality(Popped) \in Nat
  BY HeapFinite DEF Popped
<1>2. uploads \in Nat /\ uploads <= Transfers /\ Transfers \in Nat
  BY InvTypes, WritebackAssumption DEF WbInv, WbTypeOK
<1>3. CASE Popped = {}
  BY <1>1, <1>2, <1>3, FS_EmptySet
<1>4. CASE Popped # {}
  <2>1. PICK l \in Popped : \A y \in Popped : y = l \/ Before(y, l)
    BY <1>1, <1>4, FirstAndLast
  <2>2. PICK E \in SUBSET Heap(items) : E = {e \in Heap(items) : Before(e, l)}
    OBVIOUS
  <2>3. Cardinality(E) < Transfers - uploads /\ IsFiniteSet(E) /\ Cardinality(E) \in Nat
    BY <2>1, <2>2, HeapFinite DEF Popped
  <2>4. Popped \ {l} \subseteq E
    BY <1>1, <2>1, <2>2
  <2>5. Cardinality(Popped \ {l}) <= Cardinality(E)
    BY <2>3, <2>4, FS_Subset
  <2>6. Cardinality(Popped \ {l}) = Cardinality(Popped) - 1
    BY <1>1, <2>1, FS_RemoveElement
  <2> QED
    BY <1>1, <1>2, <2>3, <2>5, <2>6
<1> QED
  BY <1>1, <1>3, <1>4

\* If a transfer is left then everything that has expired is popped: the first
\* one that is not has all its predecessors popped, and too many of them.
LEMMA PoppedAll ==
    ASSUME WbInv, uploads + Cardinality(Popped) < Transfers
    PROVE  \A o \in Heap(items) \ Popped : items[o].expiry > clock
<1> DEFINE Late == {o \in Heap(items) \ Popped : items[o].expiry <= clock}
<1>0. \A o \in Heap(items) : items[o].expiry \in Nat
  BY InvTypes, HeapIs, ItemFields
<1>1. SUFFICES ASSUME Late # {} PROVE FALSE
  BY <1>0, InvTypes
<1>2. PICK f \in Late : \A y \in Late : y = f \/ Before(f, y)
  BY <1>1, FirstAndLast
<1>3. PICK E \in SUBSET Heap(items) : E = {e \in Heap(items) : Before(e, f)}
  OBVIOUS
<1>4. E \subseteq Popped
  <2> SUFFICES ASSUME NEW e \in E, e \notin Popped PROVE FALSE
    OBVIOUS
  <2>1. e \in Heap(items) /\ Before(e, f)
    BY <1>3
  <2>2. items[e].expiry <= items[f].expiry
    BY <2>1, BeforeOrders
  <2>3. e \in Late
    BY <1>0, <2>1, <2>2, InvTypes
  <2>4. e = f \/ Before(f, e)
    BY <1>2, <2>3
  <2> QED
    BY <2>1, <2>4, BeforeOrders
<1>5. Cardinality(E) <= Cardinality(Popped) /\ Cardinality(E) \in Nat
  BY <1>4, PoppedFits, FS_Subset, HeapFinite
<1>6. ~(Cardinality(E) < Transfers - uploads)
  BY <1>3 DEF Popped
<1> QED
  BY <1>5, <1>6, PoppedFits, InvTypes, WritebackAssumption

\* What SetToSeq gives: each element once.
LEMMA SeqOfSet ==
    ASSUME NEW S, IsFiniteSet(S)
    PROVE  /\ SetToSeq(S) \in Seq(S) /\ Len(SetToSeq(S)) = Cardinality(S)
           /\ \A x \in S : \E i \in 1..Cardinality(S) : SetToSeq(S)[i] = x
<1>1. PICK n \in Nat : n = Cardinality(S)
  BY FS_CardinalityType
<1>2. \E f \in [1..n -> S] : IsInjective(f)
  <2>1. ExistsBijection(1..n, S)
    BY <1>1, FS_CardinalityType
  <2> QED
    BY <2>1 DEF ExistsBijection, Bijection, Injection
<1>3. PICK f : f = SetToSeq(S)
  OBVIOUS
<1>4. f \in [1..n -> S] /\ IsInjective(f)
  BY <1>1, <1>2, <1>3 DEF SetToSeq
<1>5. f \in Seq(S) /\ Len(f) = n
  BY <1>4
<1>6. ASSUME NEW x \in S PROVE \E i \in 1..n : f[i] = x
  <2> SUFFICES ASSUME \A i \in 1..n : f[i] # x PROVE FALSE
    OBVIOUS
  <2>1. f \in [1..n -> S \ {x}]
    BY <1>4
  <2>2. IsFiniteSet(S \ {x}) /\ Cardinality(S \ {x}) = n - 1
    BY <1>1, FS_RemoveElement
  <2>3. IsFiniteSet(1..n) /\ Cardinality(1..n) = n
    BY FS_Interval
  <2>4. \E i, j \in 1..n : i # j /\ f[i] = f[j]
    BY <2>1, <2>2, <2>3, FS_PigeonHole
  <2> QED
    BY <1>4, <2>4 DEF IsInjective
<1> QED
  BY <1>1, <1>3, <1>5, <1>6

\* The items that are popped are uploading, each with a run of its own from
\* first on, and the others are as they were.
Started(its, first, n) ==
    /\ its \in Seq(Item) /\ Len(its) = Len(items)
    /\ \A o \in 1..Len(items) :
         IF o \notin Popped THEN its[o] = items[o]
         ELSE /\ its[o].id = items[o].id /\ ~its[o].onHeap /\ its[o].uploading
              /\ its[o].run \in (first + 1)..(first + n)

LEMMA TimerAfter ==
    ASSUME WbInv, NEW its, NEW first, NEW n, Started(its, first, n), items' = its,
           uploads' = uploads + Cardinality(Popped), clock' = clock,
           IF Heap(its) # {} /\ uploads' >= Transfers THEN StopTimer ELSE ResetTimer(its)
    PROVE  /\ alarm' \in Nat \cup {-1} /\ armed' \in BOOLEAN
           /\ TimerOK' /\ HeadScheduled'
<1>1. uploads' \in Nat /\ Transfers \in Nat
  BY PoppedFits, InvTypes, WritebackAssumption
<1>2. its \in Seq(Item) /\ Len(its) = Len(items)
  BY DEF Started
<1>3. CASE Heap(its) # {} /\ uploads' >= Transfers
  <2>1. alarm' = -1 /\ armed' = FALSE
    BY <1>3 DEF StopTimer
  <2>2. TimerOK'
    BY <2>1, InvTypes DEF TimerOK
  <2>3. HeadScheduled'
    BY <1>3 DEF HeadScheduled
  <2> QED
    BY <2>1, <2>2, <2>3
<1>4. CASE Heap(its) = {}
  <2>1. alarm' = -1 /\ armed' = FALSE
    BY <1>4 DEF ResetTimer, StopTimer
  <2>2. TimerOK'
    BY <2>1, InvTypes DEF TimerOK
  <2>3. HeadScheduled'
    BY <1>4 DEF HeadScheduled
  <2> QED
    BY <2>1, <2>2, <2>3
<1>5. CASE Heap(its) # {} /\ uploads' < Transfers
  <2>1. ResetTimer(its)
    BY <1>1, <1>5
  <2>2. \A o \in Heap(its) : o \in Heap(items) \ Popped /\ its[o] = items[o]
    BY <1>2, HeapIs, InvTypes DEF Started, Heap
  <2>3. \A o \in Heap(its) : its[o].expiry > clock
    BY <1>5, <2>2, PoppedAll
  <2>4. HeadExpiry(its) > clock /\ HeadExpiry(its) \in Nat
    BY <1>2, <1>5, <2>3, HeadIsLeast
  <2>5. armed' /\ alarm' = HeadExpiry(its) /\ armed' \in BOOLEAN
    <3>1. CASE alarm = HeadExpiry(its)
      <4>1. armed
        BY <2>4, <3>1, InvTypes DEF WbInv, TimerOK
      <4> QED
        BY <1>5, <2>1, <3>1, <4>1, InvTypes DEF ResetTimer
    <3>2. CASE alarm # HeadExpiry(its)
      BY <1>5, <2>1, <3>2 DEF ResetTimer
    <3> QED
      BY <3>1, <3>2
  <2>6. TimerOK' /\ HeadScheduled'
    BY <2>5 DEF TimerOK, HeadScheduled
  <2> QED
    BY <2>4, <2>5, <2>6
<1> QED
  BY <1>1, <1>3, <1>4, <1>5

LEMMA ProcessItemsKeeps ==
    ASSUME WbInv, ProcessItems
    PROVE  WbInv'
<1> DEFINE order == SetToSeq(Popped)
<1>2. PICK n \in Nat : n = Cardinality(Popped)
  BY PoppedFits
<1>3. /\ order \in Seq(Popped) /\ Len(order) = n /\ DOMAIN order = 1..n
      /\ \A o \in Popped : \E i \in 1..n : order[i] = o
  <2>1. SetToSeq(Popped) \in Seq(Popped) /\ Len(SetToSeq(Popped)) = n
    BY <1>2, PoppedFits, SeqOfSet
  <2>2. \A o \in Popped : \E i \in 1..n : SetToSeq(Popped)[i] = o
    BY <1>2, PoppedFits, SeqOfSet
  <2> QED
    BY <2>1, <2>2
<1>4. PICK base \in Nat : base = Len(runs)
  BY InvTypes
<1> DEFINE After(o) == IF o \notin Popped THEN items[o]
                       ELSE [items[o] EXCEPT !.onHeap = FALSE, !.uploading = TRUE,
                               !.run = Len(runs) + CHOOSE i \in DOMAIN order : order[i] = o]
<1>5. PICK its : its = [o \in DOMAIN items |-> After(o)]
  OBVIOUS
<1>6. PICK new : new = [i \in DOMAIN order |-> [item |-> order[i], cancelled |-> FALSE, stale |-> FALSE,
                                              over |-> FALSE, closed |-> FALSE]]
  OBVIOUS
<1>7. /\ fired > 0 /\ fired' = fired - 1 /\ items' = its /\ uploads' = uploads + n
      /\ runs' = runs \o new
      /\ IF Heap(its) # {} /\ uploads' >= Transfers THEN StopTimer ELSE ResetTimer(its)
      /\ UNCHANGED <<clock, lookup, calls, pending>>
  <2>1. /\ fired > 0 /\ fired' = fired - 1 /\ items' = its
        /\ uploads' = uploads + Len(order) /\ runs' = runs \o new
        /\ IF Heap(its) # {} /\ uploads' >= Transfers THEN StopTimer ELSE ResetTimer(its)
        /\ UNCHANGED <<clock, lookup, calls, pending>>
    BY <1>5, <1>6, Zenon DEF ProcessItems
  <2> QED
    BY <1>3, <2>1
<1>8. Popped \subseteq 1..Len(items)
  BY InvTypes, HeapIs DEF Popped
<1> DEFINE Num(o) == CHOOSE i \in DOMAIN order : order[i] = o
<1> HIDE DEF order
<1>9. \A o \in Popped : Num(o) \in 1..n /\ order[Num(o)] = o
  BY <1>3
<1>10. \A o \in Popped : /\ its[o].run = base + Num(o) /\ its[o].run \in Nat
                         /\ its[o] \in Item /\ its[o].id = items[o].id
                         /\ ~its[o].onHeap /\ its[o].uploading
  <2> SUFFICES ASSUME NEW o \in Popped
               PROVE  /\ its[o].run = base + Num(o) /\ its[o].run \in Nat
                      /\ its[o] \in Item /\ its[o].id = items[o].id
                      /\ ~its[o].onHeap /\ its[o].uploading
    OBVIOUS
  <2>1. PICK no \in BOOLEAN : no = FALSE
    OBVIOUS
  <2>2. PICK yes \in BOOLEAN : yes = TRUE
    OBVIOUS
  <2>3. PICK k \in 1..n : k = Num(o)
    BY <1>9
  <2>4. its[o] = [items[o] EXCEPT !.onHeap = no, !.uploading = yes, !.run = base + k]
    BY <1>4, <1>5, <1>8, <2>1, <2>2, <2>3, InvTypes
  <2>5. items[o] \in Item /\ base + k \in Nat
    BY <1>8, InvTypes
  <2> HIDE DEF Num
  <2> QED
    BY <2>1, <2>2, <2>3, <2>4, <2>5 DEF Item
<1> HIDE DEF Num
<1>11. \A o \in 1..Len(items) : o \notin Popped => its[o] = items[o]
  BY <1>5, InvTypes
<1>12. its \in Seq(Item) /\ Len(its) = Len(items)
  <2>1. PICK m \in Nat : m = Len(items)
    BY InvTypes
  <2>2. \A o \in 1..m : its[o] \in Item
    BY <1>10, <1>11, <2>1, InvTypes
  <2>3. DOMAIN items = 1..m
    BY <2>1, InvTypes
  <2>4. its \in [1..m -> Item]
    <3> HIDE DEF After
    <3> QED
      BY <1>5, <2>2, <2>3
  <2> QED
    BY <2>1, <2>4
<1>13. Started(its, base, n)
  BY <1>8, <1>9, <1>10, <1>11, <1>12 DEF Started
<1>14. /\ alarm' \in Nat \cup {-1} /\ armed' \in BOOLEAN
       /\ TimerOK' /\ HeadScheduled'
  BY <1>2, <1>7, <1>13, TimerAfter
<1>15. /\ new \in Seq(Run) /\ Len(new) = n
       /\ \A i \in 1..n : new[i].item = order[i] /\ ~new[i].over /\ ~new[i].stale
  <2>1. PICK no \in BOOLEAN : no = FALSE
    OBVIOUS
  <2>2. new = [i \in 1..n |-> [item |-> order[i], cancelled |-> no, stale |-> no,
                               over |-> no, closed |-> no]]
    BY <1>3, <1>6, <2>1
  <2>3. \A i \in 1..n : order[i] \in Nat
    <3>1. \A i \in 1..n : order[i] \in Popped
      BY <1>3
    <3>2. \A o \in Popped : o \in Nat
      BY <1>8, InvTypes
    <3> QED
      BY <3>1, <3>2
  <2>4. \A i \in 1..n : new[i] \in Run /\ new[i].item = order[i] /\ ~new[i].over /\ ~new[i].stale
    BY <2>1, <2>2, <2>3 DEF Run
  <2>5. new \in [1..n -> Run]
    BY <2>2, <2>4
  <2> QED
    BY <2>4, <2>5
<1>16. /\ runs' \in Seq(Run) /\ Len(runs') = base + n /\ DOMAIN runs' = 1..(base + n)
       /\ \A i \in 1..base : runs'[i] = runs[i]
       /\ \A i \in 1..n : runs'[base + i] = new[i]
  <2>1. runs \in Seq(Run) /\ Len(runs) = base /\ runs' = runs \o new
    BY <1>4, <1>7, InvTypes
  <2>2. runs \o new \in Seq(Run) /\ Len(runs \o new) = base + n
    <3>1. new \in Seq(Run) /\ Len(new) = n
      BY <1>15
    <3> QED
      BY <2>1, <3>1, ConcatProperties
  <2>3. \A i \in 1..(base + n) : (runs \o new)[i] = IF i <= base THEN runs[i] ELSE new[i - base]
    <3>1. new \in Seq(Run) /\ Len(new) = n
      BY <1>15
    <3> QED
      BY <2>1, <3>1, ConcatProperties
  <2>4. \A i \in 1..base : runs'[i] = runs[i]
    BY <2>1, <2>3
  <2>5. \A i \in 1..n : runs'[base + i] = new[i]
    <3> SUFFICES ASSUME NEW i \in 1..n PROVE runs'[base + i] = new[i]
      OBVIOUS
    <3>1. base + i \in 1..(base + n) /\ ~(base + i <= base) /\ (base + i) - base = i
      OBVIOUS
    <3> QED
      BY <2>1, <2>3, <3>1
  <2> QED
    BY <2>1, <2>2, <2>4, <2>5
<1>17. Active' = Active \cup ((base + 1)..(base + n))
  <2>1. Active \subseteq 1..base
    BY <1>4, InvTypes DEF Active
  <2>2. \A i \in 1..(base + n) : i \in 1..base \/ (i - base \in 1..n /\ i = base + (i - base))
    OBVIOUS
  <2>3. \A i \in 1..base : i \in Active' <=> i \in Active
    <3> SUFFICES ASSUME NEW i \in 1..base PROVE i \in Active' <=> i \in Active
      OBVIOUS
    <3>1. i \in 1..(base + n) /\ i \in DOMAIN runs /\ runs'[i] = runs[i]
      BY <1>4, <1>16, InvTypes
    <3>2. i \in DOMAIN runs'
      BY <1>16, <3>1
    <3> QED
      BY <3>1, <3>2 DEF Active
  <2>4. \A i \in (base + 1)..(base + n) : i \in Active'
    <3> SUFFICES ASSUME NEW i \in (base + 1)..(base + n) PROVE i \in Active'
      OBVIOUS
    <3>1. PICK k \in 1..n : i = base + k
      BY <2>2
    <3>2. runs'[i] = new[k] /\ i \in DOMAIN runs'
      BY <1>16, <3>1
    <3> QED
      BY <1>15, <3>2 DEF Active
  <2>5. Active' \subseteq 1..(base + n)
    BY <1>16 DEF Active
  <2>6. \A i \in 1..(base + n) : i \in 1..base \/ i \in (base + 1)..(base + n)
    OBVIOUS
  <2>7. 1..base \subseteq 1..(base + n) /\ (base + 1)..(base + n) \subseteq 1..(base + n)
    OBVIOUS
  <2>8. PICK A : A = Active'
    OBVIOUS
  <2>9. A \subseteq Active \cup ((base + 1)..(base + n))
    BY <2>3, <2>5, <2>6, <2>8, Zenon
  <2>10. Active \cup ((base + 1)..(base + n)) \subseteq A
    BY <2>1, <2>3, <2>4, <2>8, Zenon
  <2> QED
    BY <2>8, <2>9, <2>10
<1>18. uploads' = Cardinality(Active') /\ uploads' <= Transfers
  <2> DEFINE T == (base + 1)..(base + n)
  <2>1. IsFiniteSet(T) /\ Cardinality(T) = n
    BY FS_Interval
  <2>2. IsFiniteSet(Active) /\ Cardinality(Active) \in Nat
    BY InvTypes, ActiveFinite DEF Active
  <2>3. Active \cap T = {}
    BY <1>4, InvTypes DEF Active
  <2>4. Cardinality(Active \cup T) = Cardinality(Active) + n
    <3>1. Cardinality(Active \cap T) = 0
      BY <2>3, FS_EmptySet
    <3> HIDE DEF T
    <3> QED
      BY <2>1, <2>2, <3>1, FS_Union
  <2>5. uploads = Cardinality(Active)
    BY DEF WbInv, WbTypeOK
  <2> QED
    BY <1>2, <1>7, <1>17, <2>4, <2>5, PoppedFits
<1>19. \A o \in Popped : its[o].run \in Active' /\ runs'[its[o].run].item = o
                         /\ ~runs'[its[o].run].stale
  <2> SUFFICES ASSUME NEW o \in Popped
               PROVE  its[o].run \in Active' /\ runs'[its[o].run].item = o
                      /\ ~runs'[its[o].run].stale
    OBVIOUS
  <2>1. PICK k \in 1..n : k = Num(o) /\ order[k] = o
    BY <1>9
  <2>2. its[o].run = base + k /\ base + k \in (base + 1)..(base + n)
    BY <1>10, <2>1
  <2> QED
    BY <1>15, <1>16, <1>17, <2>1, <2>2
<1>20. WbTypeOK'
  <2>1. /\ clock' \in 0..MaxClock /\ fired' \in 0..MaxFired /\ pending' \subseteq Handles
        /\ lookup' \in [Handles -> 0..Len(items')]
    BY <1>7, <1>12, WritebackAssumption DEF WbInv, WbTypeOK
  <2>2. ASSUME NEW o \in DOMAIN items', items'[o].uploading
        PROVE  items'[o].run \in Active' /\ runs'[items'[o].run].item = o
    <3>1. o \in 1..Len(items)
      BY <1>7, <1>12
    <3>2. CASE o \in Popped
      BY <1>7, <1>19, <3>2
    <3>3. CASE o \notin Popped
      <4>1. items'[o] = items[o]
        BY <1>7, <1>11, <3>1, <3>3
      <4>2. items[o].run \in Active /\ runs[items[o].run].item = o
        BY <2>2, <3>1, <4>1, InvTypes DEF WbInv, WbTypeOK
      <4>3. items[o].run \in 1..base
        BY <1>4, <4>2, InvTypes DEF Active
      <4> QED
        BY <1>16, <1>17, <4>1, <4>2, <4>3
    <3> QED
      BY <3>2, <3>3
  <2> QED
    BY <1>7, <1>12, <1>14, <1>16, <1>18, <2>1, <2>2 DEF WbTypeOK
<1>21. RunsOK'
  <2>0. DOMAIN items' = 1..Len(items) /\ DOMAIN runs' = 1..(base + n)
    BY <1>7, <1>12, <1>16
  <2> SUFFICES ASSUME NEW i \in 1..(base + n) PROVE runs'[i].item \in 1..Len(items)
    BY <2>0 DEF RunsOK
  <2>1. CASE i \in 1..base
    BY <1>4, <1>16, <2>1, InvTypes
  <2>2. CASE i \notin 1..base
    <3>1. PICK k \in 1..n : i = base + k
      <4>1. i - base \in 1..n /\ i = base + (i - base)
        BY <2>2
      <4> QED
        BY <4>1
    <3>2. order[k] \in Popped
      BY <1>3
    <3>3. runs'[i] = new[k] /\ new[k].item = order[k]
      BY <1>15, <1>16, <3>1
    <3> QED
      BY <1>8, <3>2, <3>3
  <2> QED
    BY <2>1, <2>2
<1>22. CallsOK'
  <2>1. DOMAIN items' = DOMAIN items /\ calls' = calls
    BY <1>7, <1>12, InvTypes
  <2>2. CallsOK
    BY DEF WbInv
  <2> QED
    BY <2>1, <2>2 DEF CallsOK
<1>23. KnownOK'
  <2> SUFFICES ASSUME NEW h \in Handles, lookup[h] # 0
               PROVE  /\ items'[lookup[h]].id = h
                      /\ items'[lookup[h]].onHeap \/ items'[lookup[h]].uploading
    BY <1>7 DEF KnownOK, Known
  <2>1. PICK q \in 1..Len(items) : q = lookup[h] /\ items[q].id = h
    BY KnownIs DEF Known
  <2>2. items[q].onHeap \/ items[q].uploading
    BY <2>1 DEF WbInv, KnownOK, Known
  <2> QED
    BY <1>7, <1>10, <1>11, <2>1, <2>2
<1>24. NothingForgotten'
  <2> SUFFICES ASSUME NEW h \in pending PROVE Covered(h)'
    BY <1>7 DEF NothingForgotten, Covered
  <2>1. Covered(h)
    BY ForgottenMeans DEF WbInv
  <2>2. \A o \in 1..Len(items) : items'[o].id = items[o].id /\ o \in DOMAIN items'
    BY <1>7, <1>10, <1>11, <1>12
  <2>3. CASE \E o \in DOMAIN items : items[o].id = h /\ items[o].onHeap
    <3>1. PICK o \in 1..Len(items) : items[o].id = h /\ items[o].onHeap
      BY <2>3, InvTypes
    <3>2. CASE o \in Popped
      <4>1. \E r \in Active' : ~runs'[r].stale /\ items'[runs'[r].item].id = h
        BY <1>19, <2>2, <3>1, <3>2
      <4> QED
        BY <4>1 DEF Covered
    <3>3. CASE o \notin Popped
      <4>1. o \in DOMAIN items' /\ items'[o].id = h /\ items'[o].onHeap
        BY <1>7, <1>11, <2>2, <3>1, <3>3
      <4> QED
        BY <4>1 DEF Covered
    <3> QED
      BY <3>2, <3>3
  <2>4. CASE \E r \in Active : ~runs[r].stale /\ items[runs[r].item].id = h
    <3>1. PICK r \in Active : ~runs[r].stale /\ items[runs[r].item].id = h
      BY <2>4
    <3>2. r \in 1..base /\ runs[r].item \in 1..Len(items)
      BY <1>4, InvTypes DEF Active
    <3>3. r \in Active' /\ runs'[r] = runs[r]
      BY <1>16, <1>17, <3>2
    <3>4. ~runs'[r].stale /\ items'[runs'[r].item].id = h
      BY <2>2, <3>1, <3>2, <3>3
    <3> QED
      BY <3>3, <3>4 DEF Covered
  <2>5. CASE \E p \in Callers : calls[p].op = "Add" /\ items[calls[p].item].id = h
    <3>1. PICK p \in Callers : calls[p].op = "Add" /\ items[calls[p].item].id = h
      BY <2>5
    <3>2. calls[p].item \in 1..Len(items)
      BY <3>1, NoCallType, InvTypes DEF WbInv, CallsOK
    <3>3. calls'[p].op = "Add" /\ items'[calls'[p].item].id = h
      BY <1>7, <2>2, <3>1, <3>2
    <3> QED
      BY <3>3 DEF Covered
  <2> QED
    BY <2>1, <2>3, <2>4, <2>5 DEF Covered
<1> QED
  BY <1>14, <1>20, <1>21, <1>22, <1>23, <1>24 DEF WbInv

-----------------------------------------------------------------------------
(* The theorems                                                             *)

LEMMA InitHolds == WbInit => WbInv
<1> SUFFICES ASSUME WbInit PROVE WbInv
  OBVIOUS
<1> USE DEF WbInit
<1>1. DOMAIN items = {} /\ DOMAIN runs = {} /\ Len(items) = 0 /\ items \in Seq(Item) /\ runs \in Seq(Run)
  OBVIOUS
<1>2. Active = {} /\ Heap(items) = {}
  BY <1>1 DEF Active, Heap
<1>3. WbTypeOK
  <2>1. Cardinality(Active) = 0
    BY <1>2, FS_EmptySet
  <2>2. /\ clock \in 0..MaxClock /\ alarm \in Nat \cup {-1} /\ armed \in BOOLEAN
        /\ fired \in 0..MaxFired /\ pending \subseteq Handles
    <3>1. armed \in BOOLEAN
      BY Zenon
    <3>2. alarm \in Nat \cup {-1} /\ clock \in 0..MaxClock /\ fired \in 0..MaxFired
      BY WritebackAssumption
    <3> QED
      BY <3>1, <3>2
  <2>3. lookup \in [Handles -> 0..Len(items)]
    BY <1>1
  <2>4. uploads = Cardinality(Active) /\ uploads <= Transfers
    BY <2>1, WritebackAssumption
  <2> QED
    BY <1>1, <2>2, <2>3, <2>4 DEF WbTypeOK
<1>4. CallsOK
  BY NoCallType DEF CallsOK
<1>5. RunsOK /\ KnownOK /\ TimerOK /\ HeadScheduled /\ NothingForgotten
  BY <1>1, <1>2 DEF RunsOK, KnownOK, Known, TimerOK, HeadScheduled, NothingForgotten
<1> QED
  BY <1>3, <1>4, <1>5 DEF WbInv

LEMMA StepKeeps ==
    ASSUME WbInv, WbStep
    PROVE  WbInv'
<1>1. ASSUME NEW p \in Callers, NEW h \in Handles, RemoveCancels(p, h) PROVE WbInv'
  BY <1>1, CancelKeeps DEF RemoveCancels
<1>2. ASSUME NEW p \in Callers, NEW h \in Handles, RenameCancels(p, h) PROVE WbInv'
  BY <1>2, CancelKeeps DEF RenameCancels
<1> QED
  BY <1>1, <1>2, TickKeeps, TimerFiresKeeps, ProcessItemsKeeps, UploadSucceedsKeeps,
     UploadFailsKeeps, SetExpiryKeeps, ReadDoneKeeps, AddResumesKeeps, RemoveResumesKeeps,
     RenameResumesKeeps, AddNewKeeps, AddAgainKeeps, AddCancelsKeeps, RemoveNowKeeps,
     RenameNowKeeps
  DEF WbStep

LEMMA UnchangedKeeps ==
    ASSUME WbInv, UNCHANGED <<clock, items, lookup, runs, uploads, alarm, armed, fired, calls,
                              pending>>
    PROVE  WbInv'
<1>1. Active' = Active
  BY DEF Active
<1> QED
  BY <1>1 DEF WbInv, WbTypeOK, CallsOK, RunsOK, KnownOK, Known, TimerOK, HeadScheduled,
              NothingForgotten

\* The inductive invariant of the write-back queue, whatever calls, uploads and
\* timers interleave.
THEOREM WritebackInvariant == WbSpec => []WbInv
<1>1. WbInit => WbInv
  BY InitHolds
<1>2. WbInv /\ [WbNext]_wbVars => WbInv'
  <2> SUFFICES ASSUME WbInv, [WbNext]_wbVars PROVE WbInv'
    OBVIOUS
  <2>1. CASE WbStep
    BY <2>1, StepKeeps
  <2>2. CASE \E r \in DOMAIN runs : UploadPanics(r)
    BY <2>2, UnchangedKeeps DEF UploadPanics
  <2>3. CASE UNCHANGED wbVars
    BY <2>3, UnchangedKeeps DEF wbVars
  <2> QED
    BY <2>1, <2>2, <2>3 DEF WbNext
<1> QED
  BY <1>1, <1>2, PTL DEF WbSpec

\* processItems never starts more uploads than --transfers allows, and the
\* counter it goes by is the number of the goroutines, also when a file is put
\* back and started again before its last upload is over.
THEOREM TransfersLimited == WbSpec => []WbTypeOK
<1>1. WbInv => WbTypeOK
  BY DEF WbInv
<1> QED
  BY <1>1, WritebackInvariant, PTL

\* The head of the queue is never left without a timer: _resetTimer returns early
\* only when the timer it finds runs or has just fired.
THEOREM HeadIsScheduled == WbSpec => []HeadScheduled
<1>1. WbInv => HeadScheduled
  BY DEF WbInv
<1> QED
  BY <1>1, WritebackInvariant, PTL

\* No change is forgotten between Add, a cancelled upload and its retry.
THEOREM NoChangeForgotten == WbSpec => []NothingForgotten
<1>1. WbInv => NothingForgotten
  BY DEF WbInv
<1> QED
  BY <1>1, WritebackInvariant, PTL
=============================================================================
