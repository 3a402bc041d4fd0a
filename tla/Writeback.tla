----------------------------- MODULE Writeback ------------------------------
(***************************************************************************)
(* The write-back queue of the VFS cache (vfs/vfscache/writeback): files    *)
(* that were changed wait on a heap until they expire and are then uploaded *)
(* by at most Transfers goroutines; a change in the meantime cancels the    *)
(* upload and puts the file back.                                           *)
(*                                                                         *)
(* A step is a section under WriteBack.mu.  _cancelUpload gives the mutex   *)
(* up while it waits for the uploader, so an Add, Remove or Rename that     *)
(* cancels is three: up to the wait, reading the channel to wait for, and   *)
(* the rest.  The cache calls with no lock of its own held, so calls, also  *)
(* for the same file, uploads and the timer interleave freely.  With no     *)
(* delay (--vfs-write-back 0) the cache stores a file by itself and never   *)
(* calls Add.  The queue's context, which ends with the VFS's cache, is not *)
(* cancelled here.                                                          *)
(***************************************************************************)
EXTENDS Integers, Sequences, FiniteSets, FiniteSetsExt, SequencesExt

CONSTANTS
    Handles,     \* the files that may be written back
    Callers,     \* the goroutines of the VFS that call
    Transfers,   \* --transfers: how many uploads may run at once
    Delay,       \* opt.WriteBack, the time from a change to its upload
    MaxDelay,    \* maxUploadDelay
    MaxClock,    \* bound: the time that passes
    MaxItems,    \* bound: the writeBackItems created
    MaxRuns,     \* bound: the uploads started
    MaxFired     \* bound: the processItems goroutines that wait for the mutex

ASSUME WritebackAssumption ==
    /\ Handles \subseteq Nat \ {0} /\ IsFiniteSet(Handles) /\ Transfers \in Nat \ {0}
    /\ Delay \in Nat \ {0} /\ MaxDelay \in Nat
    /\ MaxClock \in Nat /\ MaxItems \in Nat /\ MaxRuns \in Nat /\ MaxFired \in Nat

VARIABLES
    clock,
    items,      \* every writeBackItem ever made, in the order of creation
    lookup,     \* WriteBack.lookup: handle -> item, or 0
    runs,       \* every upload goroutine ever started
    uploads,    \* WriteBack.uploads
    alarm,      \* WriteBack.expiry, or -1 for the zero time
    armed,      \* WriteBack.timer is running
    fired,      \* processItems goroutines that the timer has started
    calls,      \* caller -> its Add, Remove or Rename that waits
    pending,    \* the files with a change that is not uploaded yet
    panicked    \* a goroutine has panicked, and the program is gone

wbVars == <<clock, items, lookup, runs, uploads, alarm, armed, fired, calls,
            pending, panicked>>

Item == [id : Handles, expiry : Nat, delay : Nat, uploading : BOOLEAN,
         onHeap : BOOLEAN, run : Nat]
\* A run of upload, with the context and the channel that processItems made
\* for it.  stale: the file was changed again after the upload began; over: the
\* goroutine has ended; closed: the channel is.
Run  == [item : Nat, cancelled : BOOLEAN, stale : BOOLEAN, over : BOOLEAN,
         closed : BOOLEAN]
\* item is the one the call is for, waits the one whose upload it cancelled:
\* another one only in a Rename, for a file that had the new name.
NoCall == [op |-> "none", pc |-> "idle", item |-> 0, waits |-> 0, run |-> 0]

WbInit ==
    /\ clock = 0
    /\ items = <<>>
    /\ lookup = [h \in Handles |-> 0]
    /\ runs = <<>>
    /\ uploads = 0
    /\ alarm = -1 /\ armed = FALSE /\ fired = 0
    /\ calls = [p \in Callers |-> NoCall]
    /\ pending = {}
    /\ panicked = FALSE

(* The heap and the timer                                                  *)

Heap(its) == {o \in DOMAIN its : its[o].onHeap}
HeadExpiry(its) == Min({its[o].expiry : o \in Heap(its)})

Slip_KeepAlarm == UNCHANGED alarm /\ armed' = FALSE

StopTimer == alarm' = -1 /\ armed' = FALSE

\* _resetTimer, for the items as the section leaves them.
ResetTimer(its) ==
    IF Heap(its) = {} THEN StopTimer
    ELSE IF alarm = HeadExpiry(its) THEN UNCHANGED <<alarm, armed>>
    ELSE alarm' = HeadExpiry(its) /\ armed' = TRUE

\* The section leaves the items so, and ends with _resetTimer.
Leave(its) == items' = its /\ ResetTimer(its)

\* A timer that has fired is not stopped any more.
TimerFires ==
    /\ armed /\ clock >= alarm /\ fired < MaxFired
    /\ armed' = FALSE
    /\ fired' = fired + 1
    /\ UNCHANGED <<clock, items, lookup, runs, uploads, alarm, calls, pending>>

Tick ==
    /\ clock < MaxClock
    /\ clock' = clock + 1
    /\ UNCHANGED <<items, lookup, runs, uploads, alarm, armed, fired, calls, pending>>

NewExpiry == clock + Delay
\* _update leaves an item that is not on the heap out of it.
Updated(its, o, expiry) == [its EXCEPT ![o].expiry = expiry]
Pushed(its, o) == [its EXCEPT ![o].onHeap = TRUE]
Removed(its, os) == [o \in DOMAIN its |->
                       [its[o] EXCEPT !.onHeap = @ /\ o \notin os]]
\* _delItem goes by the id of the item, whichever item lookup has for it.
Without(ids) == [h \in Handles |-> IF h \in ids THEN 0 ELSE lookup[h]]

\* The file has changed, and what is being uploaded of it is out of date.
Outdated(rs, h) == [r \in DOMAIN rs |->
                      [rs[r] EXCEPT !.stale = @ \/ items[rs[r].item].id = h]]
Changed(h) == pending' = pending \cup {h} /\ runs' = Outdated(runs, h)

(* Add, Remove and Rename up to the wait for a cancelled upload            *)

Idle(p) == calls[p].pc = "idle"
Known(h) == lookup[h] # 0
Uploading(h) == Known(h) /\ items[lookup[h]].uploading

AddNew(p, h) ==
    /\ Idle(p) /\ ~Known(h)
    /\ Len(items) < MaxItems
    /\ Leave(Append(items, [id |-> h, expiry |-> NewExpiry, delay |-> Delay,
                            uploading |-> FALSE, onHeap |-> TRUE, run |-> 0]))
    /\ lookup' = [lookup EXCEPT ![h] = Len(items) + 1]
    /\ Changed(h)
    /\ UNCHANGED <<clock, uploads, fired, calls>>

\* The item is waiting already, or it is uploading and has not changed.
AddAgain(p, h, modified) ==
    /\ Idle(p) /\ Known(h)
    /\ ~(Uploading(h) /\ modified)
    /\ Leave(Updated(items, lookup[h], NewExpiry))
    /\ IF modified THEN Changed(h) ELSE UNCHANGED <<pending, runs>>
    /\ UNCHANGED <<clock, lookup, uploads, fired, calls>>

\* _cancelUpload up to mu.Unlock().
Cancels(p, op, o, v) ==
    calls' = [calls EXCEPT ![p] = [op |-> op, pc |-> "cancelled", item |-> o,
                                   waits |-> v, run |-> 0]]
CancelRun(v) == [runs EXCEPT ![items[v].run].cancelled = TRUE]

AddCancels(p, h) ==
    /\ Idle(p) /\ Uploading(h)
    /\ Cancels(p, "Add", lookup[h], lookup[h])
    /\ pending' = pending \cup {h}
    /\ runs' = Outdated(CancelRun(lookup[h]), h)
    /\ UNCHANGED <<clock, items, lookup, uploads, alarm, armed, fired>>

\* Remove of a file that is not uploading; what was pending is given up.
RemoveNow(p, h) ==
    /\ Idle(p) /\ ~Uploading(h)
    /\ Leave(Removed(items, {lookup[h]}))
    /\ lookup' = Without({h})
    /\ pending' = pending \ {h}
    /\ UNCHANGED <<clock, runs, uploads, fired, calls>>

RemoveCancels(p, h) ==
    /\ Idle(p) /\ Uploading(h)
    /\ Cancels(p, "Remove", lookup[h], lookup[h])
    /\ runs' = CancelRun(lookup[h])
    /\ UNCHANGED <<clock, items, lookup, uploads, alarm, armed, fired, pending>>

\* The loop of Rename over the files that have the new name (any others), for
\* the item o, from the items its and with the ids gone removed before: it
\* removes the files hs, and then meets one that is uploading or ends.
RenameLoop(p, o, its, gone) ==
    LET others == Handles \ (gone \cup {items[o].id}) IN
    \E hs \in SUBSET {h \in others : Known(h) /\ ~Uploading(h)} :
        LET left == Removed(its, {lookup[h] : h \in hs}) IN
        /\ lookup' = Without(gone \cup hs)
        /\ pending' = pending \ (gone \cup hs)
        /\ \/ /\ Leave(Updated(left, o, NewExpiry))
              /\ calls' = [calls EXCEPT ![p] = NoCall]
              /\ UNCHANGED runs
           \/ \E v \in {h \in others : Uploading(h)} :
                /\ items' = left
                /\ IF gone \cup hs = {} THEN UNCHANGED <<alarm, armed>>
                                       ELSE ResetTimer(left)
                /\ Cancels(p, "Rename", o, lookup[v])
                /\ runs' = CancelRun(lookup[v])

RenameNow(p, h) ==
    /\ Idle(p) /\ Known(h) /\ ~Uploading(h)
    /\ RenameLoop(p, lookup[h], items, {})
    /\ UNCHANGED <<clock, uploads, fired>>

RenameCancels(p, h) ==
    /\ Idle(p) /\ Uploading(h)
    /\ Cancels(p, "Rename", lookup[h], lookup[h])
    /\ runs' = CancelRun(lookup[h])
    /\ UNCHANGED <<clock, items, lookup, uploads, alarm, armed, fired, pending>>

\* SetExpiry, of the remote control: any time, the past included.
SetExpiry(h, expiry) ==
    /\ Known(h)
    /\ Leave(Updated(items, lookup[h], expiry))
    /\ UNCHANGED <<clock, lookup, runs, uploads, fired, calls, pending>>

(* The wait, and the rest of the call                                      *)

\* The channel is read after the mutex is given up: the item may have ended
\* and be uploading again by then, with another channel.
ReadDone(p) ==
    /\ calls[p].pc = "cancelled"
    /\ calls' = [calls EXCEPT ![p].pc = "wait", ![p].run = items[calls[p].waits].run]
    /\ UNCHANGED <<clock, items, lookup, runs, uploads, alarm, armed, fired, pending>>

Released(p, op) ==
    /\ calls[p].op = op /\ calls[p].pc = "wait"
    /\ runs[calls[p].run].closed

Slip_NotPutBack(p) ==
    LET o == calls[p].item IN
    /\ Released(p, "Add")
    /\ Leave(Updated(items, o, NewExpiry))
    /\ pending' = pending \cup {items[o].id}
    /\ calls' = [calls EXCEPT ![p] = NoCall]
    /\ UNCHANGED <<clock, lookup, runs, uploads, fired>>

AddResumes(p) ==
    LET o == calls[p].item IN
    /\ Released(p, "Add")
    /\ Leave(Updated(Pushed(items, o), o, NewExpiry))
    /\ pending' = pending \cup {items[o].id}
    /\ calls' = [calls EXCEPT ![p] = NoCall]
    /\ UNCHANGED <<clock, lookup, runs, uploads, fired>>

RemoveResumes(p) ==
    LET o == calls[p].item IN
    /\ Released(p, "Remove")
    /\ Leave(Removed(items, {o}))
    /\ lookup' = Without({items[o].id})
    /\ pending' = pending \ {items[o].id}
    /\ calls' = [calls EXCEPT ![p] = NoCall]
    /\ UNCHANGED <<clock, runs, uploads, fired>>

RenameResumes(p) ==
    LET o == calls[p].item
        v == calls[p].waits
    IN
    /\ Released(p, "Rename")
    /\ IF v = o THEN RenameLoop(p, o, Pushed(items, o), {})
                ELSE RenameLoop(p, o, Removed(items, {v}), {items[v].id})
    /\ UNCHANGED <<clock, uploads, fired>>

(* Uploads                                                                 *)

\* Less; two items of one file, which only a race leaves, in either order.
Before(o1, o2) ==
    \/ items[o1].expiry < items[o2].expiry
    \/ items[o1].expiry = items[o2].expiry /\ items[o1].id < items[o2].id
    \/ items[o1].expiry = items[o2].expiry /\ items[o1].id = items[o2].id /\ o1 < o2

\* What processItems pops: the expired items, as long as there is a transfer
\* left for them.
Popped == {o \in Heap(items) :
             /\ items[o].expiry <= clock
             /\ Cardinality({e \in Heap(items) : Before(e, o)}) < Transfers - uploads}

\* The goroutines are numbered in any order: none of them has run yet.  The
\* return when wb.ctx is cancelled is left out: it is the end of the queue, after
\* which nothing is scheduled and the next start finds the files in the cache.
ProcessItems ==
    LET order == SetToSeq(Popped)
        its   == [o \in DOMAIN items |->
                    IF o \notin Popped THEN items[o]
                    ELSE [items[o] EXCEPT !.onHeap = FALSE, !.uploading = TRUE,
                            !.run = Len(runs) + CHOOSE i \in DOMAIN order : order[i] = o]]
    IN
    /\ fired > 0
    /\ Len(runs) + Len(order) <= MaxRuns
    /\ fired' = fired - 1
    /\ items' = its
    /\ uploads' = uploads + Len(order)
    /\ runs' = runs \o [i \in DOMAIN order |->
                  [item |-> order[i], cancelled |-> FALSE, stale |-> FALSE, over |-> FALSE,
                   closed |-> FALSE]]
    /\ IF Heap(its) # {} /\ uploads' >= Transfers THEN StopTimer ELSE ResetTimer(its)
    /\ UNCHANGED <<clock, lookup, calls, pending>>

\* The upload whose context and channel wbItem.cancel and wbItem.done are.  It is
\* r itself, unless the item was put on the heap while it was uploading and was
\* started a second time.
Current(r) == items[runs[r].item].run

Ended(r) == [i \in DOMAIN runs |->
               [runs[i] EXCEPT !.over = @ \/ i = r, !.cancelled = @ \/ i = Current(r),
                               !.closed = @ \/ i = Current(r)]]

Slip_CancelledKeepsCount(r) ==
    /\ ~runs[r].over /\ ~runs[Current(r)].closed
    /\ uploads' = IF runs[r].cancelled THEN uploads ELSE uploads - 1
    /\ runs' = Ended(r)
    /\ UNCHANGED <<clock, fired, calls>>

UploadEnds(r) ==
    /\ ~runs[r].over /\ ~runs[Current(r)].closed
    /\ uploads' = uploads - 1
    /\ runs' = Ended(r)
    /\ UNCHANGED <<clock, fired, calls>>

\* upload after putFn has succeeded, cancelled or not.
UploadSucceeds(r) ==
    LET o == runs[r].item IN
    /\ UploadEnds(r)
    /\ Leave([items EXCEPT ![o].uploading = FALSE])
    /\ lookup' = Without({items[o].id})
    /\ pending' = IF runs[r].stale THEN pending ELSE pending \ {items[o].id}

\* upload after putFn has failed, with context.Canceled or otherwise.
UploadFails(r, cancelled) ==
    LET o     == runs[r].item
        delay == IF cancelled THEN Delay ELSE Min({2 * items[o].delay, MaxDelay})
    IN
    /\ UploadEnds(r)
    /\ cancelled => runs[r].cancelled
    /\ Leave([items EXCEPT ![o] = [@ EXCEPT !.uploading = FALSE, !.onHeap = TRUE,
                                            !.delay = delay, !.expiry = clock + delay]])
    /\ UNCHANGED <<lookup, pending>>

\* The end of an upload closes a channel that is closed already.
UploadPanics(r) ==
    /\ ~runs[r].over /\ runs[Current(r)].closed
    /\ panicked' = TRUE
    /\ UNCHANGED <<clock, items, lookup, runs, uploads, alarm, armed, fired, calls,
                   pending>>

WbStep ==
    \/ Tick
    \/ TimerFires
    \/ ProcessItems
    \/ \E r \in DOMAIN runs :
         \/ UploadSucceeds(r)
         \/ \E cancelled \in BOOLEAN : UploadFails(r, cancelled)
    \/ \E h \in Handles, expiry \in 0..MaxClock : SetExpiry(h, expiry)
    \/ \E p \in Callers : ReadDone(p) \/ AddResumes(p) \/ RemoveResumes(p) \/ RenameResumes(p)
    \/ \E p \in Callers, h \in Handles :
         \/ AddNew(p, h)
         \/ \E modified \in BOOLEAN : AddAgain(p, h, modified)
         \/ AddCancels(p, h)
         \/ RemoveNow(p, h)
         \/ RemoveCancels(p, h)
         \/ RenameNow(p, h)
         \/ RenameCancels(p, h)

WbNext ==
    /\ ~panicked
    /\ \/ WbStep /\ UNCHANGED panicked
       \/ \E r \in DOMAIN runs : UploadPanics(r)

WbSpec == WbInit /\ [][WbNext]_wbVars

(* Properties                                                              *)

Active == {r \in DOMAIN runs : ~runs[r].over}

\* The state has its types, an item that says so is being uploaded, by the last
\* goroutine started for it, and the counter that processItems compares with
\* --transfers is the number of the goroutines and within the limit, whatever
\* was cancelled, put back, removed or started again in the meantime.
WbTypeOK ==
    /\ clock \in 0..MaxClock /\ alarm \in Nat \cup {-1}
    /\ armed \in BOOLEAN /\ fired \in 0..MaxFired /\ pending \subseteq Handles
    /\ items \in Seq(Item) /\ runs \in Seq(Run)
    /\ lookup \in [Handles -> 0..Len(items)]
    /\ uploads = Cardinality(Active) /\ uploads <= Transfers
    /\ \A o \in DOMAIN items : items[o].uploading =>
         items[o].run \in Active /\ runs[items[o].run].item = o

\* A heap that is not empty is looked at again: the timer runs for its first
\* item, or has fired, or all transfers are taken and the end of one will set
\* it.  Only a Rename that waits for a second upload has pushed its own item
\* without setting the timer.
HeadScheduled ==
    Heap(items) # {} =>
        \/ armed /\ alarm = HeadExpiry(items)
        \/ fired > 0
        \/ uploads >= Transfers
        \/ \E p \in Callers : calls[p].op = "Rename" /\ calls[p].waits # calls[p].item

\* A change that is neither uploaded nor removed is never forgotten: its file
\* is on the heap, an upload that began after the change is running, or an Add
\* for it waits.
NothingForgotten ==
    \A h \in pending :
        \/ \E o \in DOMAIN items : items[o].id = h /\ items[o].onHeap
        \/ \E r \in Active : ~runs[r].stale /\ items[runs[r].item].id = h
        \/ \E p \in Callers : calls[p].op = "Add" /\ items[calls[p].item].id = h

\* An item that is being uploaded is not on the heap, as _cancelUpload says when
\* it puts its item back: otherwise processItems starts a second upload of it.
UploadingOffHeap == \A o \in DOMAIN items : items[o].uploading => ~items[o].onHeap
=============================================================================
