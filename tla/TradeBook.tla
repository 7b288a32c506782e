------------------------------ MODULE TradeBook ------------------------------
(***************************************************************************)
(* What the automation promises of its book, whatever runs beside what     *)
(* (docs/automation.md, "Exactly one position per job"): a job opens at    *)
(* most one position, a position is closed at most once, at one mark, and  *)
(* never opens again; the exit is written to the audit trail after it was  *)
(* booked and at most once.                                                *)
(***************************************************************************)
EXTENDS Integers

CONSTANTS Jobs, Automations

VARIABLES
    book,     \* "none", "open" or "closed", by job
    owner,    \* the automation that opened the job's position
    exit,     \* the profit booked for it, 0 until it is closed
    noted     \* CLOSED rows of the audit trail, by job

bookVars == <<book, owner, exit, noted>>

Nobody == "nobody"

BookInit ==
    /\ book = [j \in Jobs |-> "none"]
    /\ owner = [j \in Jobs |-> Nobody]
    /\ exit = [j \in Jobs |-> 0]
    /\ noted = [j \in Jobs |-> 0]

OpenPosition(j) == \E a \in Automations :
    /\ book[j] = "none"
    /\ book' = [book EXCEPT ![j] = "open"]
    /\ owner' = [owner EXCEPT ![j] = a]
    /\ UNCHANGED <<exit, noted>>

ClosePosition(j) ==
    /\ book[j] = "open"
    /\ book' = [book EXCEPT ![j] = "closed"]
    /\ exit'[j] \in Int
    /\ exit' = [exit EXCEPT ![j] = exit'[j]]
    /\ UNCHANGED <<owner, noted>>

NoteExit(j) ==
    /\ book[j] = "closed"
    /\ noted[j] = 0
    /\ noted' = [noted EXCEPT ![j] = 1]
    /\ UNCHANGED <<book, owner, exit>>

BookNext == \E j \in Jobs : OpenPosition(j) \/ ClosePosition(j) \/ NoteExit(j)

BookSpec == BookInit /\ [][BookNext]_bookVars
=============================================================================
