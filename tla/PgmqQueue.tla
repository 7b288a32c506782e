------------------------------ MODULE PgmqQueue ------------------------------
(***************************************************************************)
(* The durable queue driver, packages/queue/src/pgmq.ts: the dedupe table, *)
(* the pgmq messages and the statements the driver issues on them.  Every  *)
(* enqueue of the pipeline carries a dedupe id made of the stage and the   *)
(* job, so a message is named by that pair and exists at most once.        *)
(*                                                                         *)
(* The operations below are the driver's SQL statements, one step each;    *)
(* the modules that use the queue decide which process issues which one.   *)
(***************************************************************************)
EXTENDS Naturals

CONSTANT Jobs

VARIABLES claimed,            \* ids in table queue_dedupe
          msg,                \* where each message is
          readCt              \* pgmq's read_ct of each message

queueVars == <<claimed, msg, readCt>>

QUEUES == {"job", "evaluation", "consensus", "resolution"}

Messages == QUEUES \X Jobs

\* "ready" is visible, "leased" is invisible until its visibility timeout.
MsgStates == {"none", "ready", "leased", "deleted", "archived"}

QueueTypeOK ==
    /\ claimed \in SUBSET Messages
    /\ msg \in [Messages -> MsgStates]
    /\ readCt \in [Messages -> Nat]

QueueInit ==
    /\ claimed = {}
    /\ msg = [m \in Messages |-> "none"]
    /\ readCt = [m \in Messages |-> 0]

InQueue(m) == msg[m] \in {"ready", "leased"}

\* INSERT INTO queue_dedupe ... ON CONFLICT DO NOTHING, when it returns a row.
Claim(m) ==
    /\ m \notin claimed
    /\ claimed' = claimed \cup {m}
    /\ UNCHANGED <<msg, readCt>>

\* pgmq.send: a statement of its own, after the claim.
Send(m) ==
    /\ msg' = [msg EXCEPT ![m] = "ready"]
    /\ UNCHANGED <<claimed, readCt>>

\* Mutants of Read: no visibility timeout is set; only fresh messages are read.
ReadUnleased(m) ==
    /\ msg[m] = "ready"
    /\ readCt' = [readCt EXCEPT ![m] = @ + 1]
    /\ UNCHANGED <<claimed, msg>>

\* pgmq.read: one visible message becomes invisible and its read count grows.
Read(m) ==
    /\ msg[m] = "ready"
    /\ msg' = [msg EXCEPT ![m] = "leased"]
    /\ readCt' = [readCt EXCEPT ![m] = @ + 1]
    /\ UNCHANGED claimed

\* The visibility timeout elapses: the message can be read again.
Expire(m) ==
    /\ msg[m] = "leased"
    /\ msg' = [msg EXCEPT ![m] = "ready"]
    /\ UNCHANGED <<claimed, readCt>>

\* The statements below address the message by id, whoever holds it now; on a
\* message that has left the queue they touch no row.
MoveTo(m, s) ==
    /\ msg' = [msg EXCEPT ![m] = IF InQueue(m) THEN s ELSE @]
    /\ UNCHANGED <<claimed, readCt>>

Delete(m)  == MoveTo(m, "deleted")

\* pgmq.set_vt with the back-off: visible again almost at once.
SetVt(m)   == MoveTo(m, "ready")

Archive(m) == MoveTo(m, "archived")
==============================================================================
