----------------------------- MODULE OrderLedger -----------------------------
(***************************************************************************)
(* What the bridge promises its callers about each client_order_id, with   *)
(* threads, store and crashes out of sight.  An id is accepted once; it is *)
(* then either voided, and never sent, or submitted; a submitted order is  *)
(* sent at most once, may be executed by the broker only then, and settles *)
(* at most once, as what the broker really did.  A caller is told nothing  *)
(* definite that is not, and will not stay, true.  A submitted order that  *)
(* never settles is the ambiguity the bridge hands to its operator.        *)
(***************************************************************************)
EXTENDS Naturals

CONSTANT Ids

VARIABLES
    phase,     \* how far each order has come
    sends,     \* how often it was sent to the broker
    executed,  \* the orders the broker has executed
    told       \* definite outcomes its callers were told

ledgerVars == <<phase, sends, executed, told>>

Phases == {"new", "accepted", "void", "submitted", "filled", "refused"}

LedgerInit ==
    /\ phase = [id \in Ids |-> "new"]
    /\ sends = [id \in Ids |-> 0]
    /\ executed = {}
    /\ told = [id \in Ids |-> {}]

Move(id, from, to) ==
    /\ phase[id] = from
    /\ phase' = [phase EXCEPT ![id] = to]

Accept(id) == Move(id, "new", "accepted") /\ UNCHANGED <<sends, executed, told>>

Void(id) ==
    /\ Move(id, "accepted", "void")
    /\ \/ UNCHANGED told
       \/ told' = [told EXCEPT ![id] = @ \cup {"denied"}]
    /\ UNCHANGED <<sends, executed>>

Commit(id) == Move(id, "accepted", "submitted") /\ UNCHANGED <<sends, executed, told>>

Send(id) ==
    /\ phase[id] = "submitted"
    /\ sends[id] = 0
    /\ sends' = [sends EXCEPT ![id] = 1]
    /\ executed' \in {executed, executed \cup {id}}
    /\ UNCHANGED <<phase, told>>

SettleFilled(id) ==
    /\ id \in executed
    /\ Move(id, "submitted", "filled")
    /\ UNCHANGED <<sends, executed, told>>

SettleRefused(id) ==
    /\ sends[id] = 1
    /\ id \notin executed
    /\ Move(id, "submitted", "refused")
    /\ told' = [told EXCEPT ![id] = @ \cup {"refused"}]
    /\ UNCHANGED <<sends, executed>>

AnswerFilled(id) ==
    /\ phase[id] = "filled"
    /\ told' = [told EXCEPT ![id] = @ \cup {"filled"}]
    /\ UNCHANGED <<phase, sends, executed>>

LedgerNext ==
    \E id \in Ids :
        \/ Accept(id) \/ Void(id) \/ Commit(id) \/ Send(id)
        \/ SettleFilled(id) \/ SettleRefused(id) \/ AnswerFilled(id)

LedgerSpec == LedgerInit /\ [][LedgerNext]_ledgerVars
=============================================================================
