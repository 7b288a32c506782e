--------------------------- MODULE PaymentPromise ----------------------------
(***************************************************************************)
(* What settlement promises of a reward (the header of settlement.ts and   *)
(* the table of docs/protocol.md): what is owed is paid at most once, and  *)
(* only a payment that was confirmed settles the debt.  The abstract       *)
(* specification that module Settlement is shown to implement.             *)
(***************************************************************************)
EXTENDS Naturals

CONSTANT Rewards

VARIABLES owed,               \* the rewards that have a row
          sent,               \* how many payments were sent for each
          confirmed,          \* the rewards one of whose payments landed
          settled             \* the rewards recorded as paid

promiseVars == <<owed, sent, confirmed, settled>>

PromiseInit ==
    /\ owed = {}
    /\ sent = [r \in Rewards |-> 0]
    /\ confirmed = {}
    /\ settled = {}

Owe(R) ==
    /\ owed' = owed \cup R
    /\ UNCHANGED <<sent, confirmed, settled>>

\* A payment may be confirmed in the act or still be on its way.
PayOnce(r) ==
    /\ r \in owed /\ sent[r] = 0
    /\ sent' = [sent EXCEPT ![r] = 1]
    /\ confirmed' \in {confirmed, confirmed \cup {r}}
    /\ UNCHANGED <<owed, settled>>

Settle(r) ==
    /\ r \in confirmed
    /\ settled' = settled \cup {r}
    /\ UNCHANGED <<owed, sent, confirmed>>

PromiseNext ==
    \/ \E R \in SUBSET Rewards : Owe(R)
    \/ \E r \in Rewards : PayOnce(r) \/ Settle(r)

PromiseSpec == PromiseInit /\ [][PromiseNext]_promiseVars
==============================================================================
