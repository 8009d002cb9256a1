----------------------------- MODULE DueRecovery -----------------------------
(***************************************************************************)
(* The recovery worker that drives unfinished operations (recover_due).    *)
(*                                                                         *)
(* A pass visits the due creations, then the due deletions, each in        *)
(* ascending id order: it selects the first due operation after its cursor *)
(* whose lease is free, closes that session, attempts one iteration of it, *)
(* and moves the cursor.  One budget of attempts serves both loops.  An    *)
(* attempt that raises ends the loop it is in.  Requests take, advance and *)
(* release operations at any time.                                         *)
(***************************************************************************)
EXTENDS Integers

CONSTANTS Creations, Deletions,  \* operation ids
          MaxOperations          \* attempts of one pass

ASSUME IdAssumption == /\ Creations \cup Deletions \subseteq Nat \ {0}
                       /\ Creations \cap Deletions = {}
ASSUME BudgetAssumption == MaxOperations \in Nat

VARIABLES due,      \* operations in flight whose retry time is reached
          leased,   \* operations whose lease is live
          refused,  \* operations whose next attempt raises
          loop,     \* "idle", "creations" or "deletions"
          cursor, advanced,
          picked,   \* the selected operation, 0 for none
          waiting,  \* history: due with a free lease since the pass began, not yet selected
          cut       \* history: an error or the budget ended a loop of this pass

environment == <<due, leased, refused>>
duevars == <<environment, loop, cursor, advanced, picked, waiting, cut>>

Operations == Creations \cup Deletions

DueInit == /\ due = {} /\ leased = {} /\ refused = {}
           /\ loop = "idle"
           /\ cursor = 0 /\ advanced = 0 /\ picked = 0
           /\ waiting = {} /\ cut = FALSE

-----------------------------------------------------------------------------
(* The pass *)

\* The scheduler starts a pass when none runs (max_instances = 1).
StartPass == /\ loop = "idle"
             /\ loop' = "creations"
             /\ cursor' = 0 /\ advanced' = 0
             /\ waiting' = due \ leased
             /\ cut' = FALSE
             /\ UNCHANGED <<environment, picked>>

\* Mutant of EndLoop: the deletions start where the creations stopped.
EndLoopKeepsCursor == /\ loop' = IF loop = "creations" THEN "deletions" ELSE "idle"
                      /\ cursor' = cursor
                      /\ picked' = 0

EndLoop == /\ loop' = IF loop = "creations" THEN "deletions" ELSE "idle"
           /\ cursor' = 0
           /\ picked' = 0

OfLoop == IF loop = "creations" THEN Creations ELSE Deletions

Ready == {o \in OfLoop : o \in due \ leased /\ o > cursor}

\* The first due operation after the cursor, if there is one.
Selectable == {o \in Ready : \A p \in Ready : o <= p}

Select == /\ loop # "idle" /\ picked = 0
          /\ advanced < MaxOperations
          /\ picked' \in Selectable
          /\ waiting' = waiting \ {picked'}
          /\ UNCHANGED <<environment, loop, cursor, advanced, cut>>

NothingDue == /\ loop # "idle" /\ picked = 0
              /\ advanced < MaxOperations
              /\ Selectable = {}
              /\ EndLoop
              /\ UNCHANGED <<environment, advanced, waiting, cut>>

BudgetSpent == /\ loop # "idle" /\ picked = 0
               /\ advanced >= MaxOperations
               /\ EndLoop
               /\ cut' = TRUE
               /\ UNCHANGED <<environment, advanced, waiting>>

\* Mutant of Passed: a busy operation is selected again.
PassedIfFree(o) == /\ picked' = 0
                   /\ cursor' = IF o \in leased THEN cursor ELSE o
                   /\ advanced' = advanced + 1

Passed(o) == /\ picked' = 0
             /\ cursor' = o
             /\ advanced' = advanced + 1

\* One iteration of the selected operation: it moves on (or waits for its
\* backoff), or stays due: its leases are busy, the owner is draining, a lock
\* conflict rolled it back.
Attempt(o) == /\ o # 0 /\ picked = o
              /\ o \notin refused
              /\ due' \in IF o \in leased THEN {due} ELSE {due, due \ {o}}
              /\ Passed(o)
              /\ UNCHANGED <<leased, refused, loop, waiting, cut>>

\* An answer of 409, or any other exception, leaves the loop.
AttemptRaises(o) == /\ o # 0 /\ picked = o
                    /\ o \in refused \ leased
                    /\ EndLoop
                    /\ cut' = TRUE
                    /\ UNCHANGED <<environment, advanced, waiting>>

\* A busy lease is answered before the reason to refuse is met.
AttemptBusy(o) == /\ o # 0 /\ picked = o
                  /\ o \in refused \cap leased
                  /\ Passed(o)
                  /\ UNCHANGED <<environment, loop, waiting, cut>>

Pass == \/ StartPass \/ Select \/ NothingDue \/ BudgetSpent
        \/ \E o \in Operations : Attempt(o) \/ AttemptRaises(o) \/ AttemptBusy(o)

-----------------------------------------------------------------------------
(* Requests, time, and what an operation needs from the outside *)

Outside(d, l, r) == /\ due' = d /\ leased' = l /\ refused' = r
                    /\ waiting' = waiting \cap (d \ l)
                    /\ UNCHANGED <<loop, cursor, advanced, picked, cut>>

\* A new operation, or the end of a backoff.
BecomeDue(o) == o \notin due /\ Outside(due \cup {o}, leased, refused)

TakeLease(o) == o \notin leased /\ Outside(due, leased \cup {o}, refused)

\* A request ends its iteration, or its lease expires.
FreeLease(o) == o \in leased /\ \E d \in {due, due \ {o}} : Outside(d, leased \ {o}, refused)

\* A node is moved or its contract lost, and comes back.
Refuse(o) == o \notin refused /\ Outside(due, leased, refused \cup {o})
Accept(o) == o \in refused /\ Outside(due, leased, refused \ {o})

DueNext == \/ Pass
           \/ \E o \in Operations : \/ BecomeDue(o) \/ TakeLease(o) \/ FreeLease(o)
                                    \/ Refuse(o) \/ Accept(o)

\* The scheduler runs recover_due every RECOVER_SECONDS.
DueSpec == DueInit /\ [][DueNext]_duevars /\ WF_duevars(Pass)

-----------------------------------------------------------------------------
(* Properties *)

\* The pass variables keep the ranges of recover_due's locals.
DueTypeOK == /\ due \subseteq Operations /\ leased \subseteq Operations /\ refused \subseteq Operations
             /\ loop \in {"idle", "creations", "deletions"}
             /\ cursor \in Operations \cup {0} /\ picked \in Operations \cup {0}
             /\ advanced \in 0..MaxOperations
             /\ waiting \subseteq due \ leased
             /\ cut \in BOOLEAN

\* What a pass still has to visit lies after its cursor and after its
\* selection; the creations are done when the deletions begin.
PassInv == /\ DueTypeOK
           /\ loop = "idle" => picked = 0
           /\ picked # 0 => picked \in OfLoop /\ picked > cursor /\ advanced < MaxOperations
           /\ loop # "idle" => \A o \in waiting \cap OfLoop : o > cursor /\ o > picked
           /\ loop = "deletions" /\ ~cut => waiting \cap Creations = {}

\* A pass that neither an error nor the budget cut short has attempted every
\* operation that was due, with a free lease, from its start to its end,
\* whatever became due, was leased or finished meanwhile.
PassMissesNothing == [][loop = "deletions" /\ loop' = "idle" /\ ~cut' => waiting = {}]_duevars

AlwaysDue(o) == <>[](o \in due \ (leased \cup refused))

\* Once no operation raises, each one that stays due is attempted again and
\* again: a blocked operation with a lower id does not hold it up.
AttemptedUnlessSomeRaise ==
    <>[](refused = {}) => \A o \in Operations : AlwaysDue(o) => []<>(picked = o)

=============================================================================
