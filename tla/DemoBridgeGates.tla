---------------------------- MODULE DemoBridgeGates ----------------------------
(***************************************************************************)
(* The gates of an opening order, watched while the world moves.  Each gate*)
(* of place_demo_order is looked at once, in a call of its own, and the    *)
(* order leaves several calls later: account, kill switch, report and      *)
(* position count may all have changed by then.  These history variables   *)
(* record what an order sent has to show for it.                           *)
(***************************************************************************)
EXTENDS DemoBridgeProperties

VARIABLES
    gates,      \* gates that held at some moment of each thread's opening request
    overlapped, \* two opening requests have been handled at once
    switched    \* the terminal has been logged in to another account

gateVars == <<vars, gates, overlapped, switched>>

AllGates == {"demo", "switch", "report", "count"}

Held ==
    {gate \in AllGates :
        CASE gate = "demo"   -> account = "demo"
          [] gate = "switch" -> killSwitch = "inactive"
          [] gate = "report" -> recon = "ok"
          [] OTHER           -> Cardinality(VisiblePositions) < MaxPositions}

\* The thread handles an opening order that it has not sent yet.
Opening(t) ==
    /\ threads[t].pc \in PreSubmission \cup BeforeSend
    /\ threads[t].req.action = "open"

GatesInit ==
    /\ Init
    /\ gates = [t \in Threads |-> {}]
    /\ overlapped = FALSE
    /\ switched = FALSE

GatesNext ==
    /\ Next
    /\ gates' = [t \in Threads |->
                    CASE ~Opening(t)' -> {}
                      [] Opening(t)' /\ ~Opening(t) -> Held'
                      [] OTHER -> gates[t] \cup Held']
    /\ overlapped' = (overlapped \/ Cardinality({t \in Threads : Opening(t)'}) > 1)
    /\ switched' = (switched \/ account' # "demo")

GatesSpec == GatesInit /\ [][GatesNext]_gateVars

\* An opening order is sent only if each of its gates was open at some moment
\* of its own request: no report, switch, account or count of an earlier
\* request or of an earlier life of the process lets an order through
\* (trading.py:299-378).
OpensPassedTheirGates ==
    \A t \in Threads : Opening(t) /\ threads[t].pc \in BeforeSend => gates[t] = AllGates

\* The position limit is kept, over ambiguous sends, refusals and crashes,
\* as long as opening requests do not overlap and the terminal stays with its
\* account (trading.py, TooManyPositionsError).
AtMostMaxPositions ==
    ~overlapped /\ ~switched => Cardinality(positions) <= MaxPositions
=============================================================================
