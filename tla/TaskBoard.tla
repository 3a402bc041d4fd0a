----------------------------- MODULE TaskBoard ------------------------------
(***************************************************************************)
(* What the sync engine promises its callers (the RPCs Sync and GetProgress *)
(* and the users of EnqueueTask and ResolveConflict), with no goroutine,    *)
(* queue slice or bridge job in sight.  A submitted task waits for its      *)
(* turn; the most urgent waiting task starts first, and among equals the    *)
(* one submitted first; a started task either completes or is held with a   *)
(* set of paths to decide, and completes once all of them are decided.      *)
(***************************************************************************)
EXTENDS Naturals

CONSTANTS Tasks,       \* task numbers, in submission order
          Items,       \* the paths a held task may ask about
          Urgencies    \* smaller is more urgent

VARIABLES phase,       \* task -> what a caller is told about it
          urgency,     \* task -> its urgency, 0 until it is submitted
          undecided    \* task -> the paths it is held for

boardVars == <<phase, urgency, undecided>>

Phases == {"none", "queued", "in_progress", "conflict", "completed"}

BoardInit ==
    /\ phase = [t \in Tasks |-> "none"]
    /\ urgency = [t \in Tasks |-> 0]
    /\ undecided = [t \in Tasks |-> {}]

Submit(t) ==
    /\ phase[t] = "none"
    /\ \A u \in Tasks : u < t => phase[u] # "none"
    /\ phase' = [phase EXCEPT ![t] = "queued"]
    /\ \E n \in Urgencies : urgency' = [urgency EXCEPT ![t] = n]
    /\ UNCHANGED undecided

\* t is served before u.
Before(t, u) == urgency[t] < urgency[u] \/ (urgency[t] = urgency[u] /\ t <= u)

Start(t) ==
    /\ phase[t] = "queued"
    /\ \A u \in Tasks : phase[u] = "queued" => Before(t, u)
    /\ phase' = [phase EXCEPT ![t] = "in_progress"]
    /\ UNCHANGED <<urgency, undecided>>

Hold(t) ==
    /\ phase[t] = "in_progress"
    /\ \E S \in (SUBSET Items) \ {{}} : undecided' = [undecided EXCEPT ![t] = S]
    /\ phase' = [phase EXCEPT ![t] = "conflict"]
    /\ UNCHANGED urgency

Decide(t, p) ==
    /\ phase[t] = "conflict"
    /\ p \in undecided[t]
    /\ undecided' = [undecided EXCEPT ![t] = @ \ {p}]
    /\ phase' = [phase EXCEPT
                   ![t] = IF undecided[t] = {p} THEN "in_progress" ELSE @]
    /\ UNCHANGED urgency

Finish(t) ==
    /\ phase[t] = "in_progress"
    /\ phase' = [phase EXCEPT ![t] = "completed"]
    /\ UNCHANGED <<urgency, undecided>>

BoardNext ==
    \E t \in Tasks : \/ Submit(t) \/ Start(t) \/ Hold(t) \/ Finish(t)
                     \/ \E p \in Items : Decide(t, p)

\* A task that may start does, and one that runs comes to an end.  Nobody is
\* obliged to submit or to decide.
BoardFairness ==
    \A t \in Tasks : WF_boardVars(Start(t)) /\ WF_boardVars(Hold(t) \/ Finish(t))

BoardSpec     == BoardInit /\ [][BoardNext]_boardVars
FairBoardSpec == BoardSpec /\ BoardFairness
=============================================================================
