------------------------------- MODULE AgpsMC -------------------------------
(***************************************************************************)
(* The interface state machines for TLC: agnss_nif (ATL), internet_nif     *)
(* with the BIT daemon (BIT), wifi_nif (WIFI) and ds_nif (DS) of one       *)
(* engine, each with its own clients.  They share no state, so a behaviour *)
(* is one of a single machine, and which one is chosen at the start.       *)
(***************************************************************************)
EXTENDS AgpsStateMachine

CONSTANTS DSClients, MaxRequests

VARIABLES part,
          dsState, dsSubscribers, mRetries, timers, dsMsgs, dsi, up, dsClient, atl, requests,
          unstarted

\* A restart of the modem drops the daemon's subscription and tells the daemon
\* nothing; no client of Kind "BIT" is promised anything after one.
Bit == INSTANCE AgpsStateMachine WITH Kind <- "BIT", MaxRestarts <- 0
Wifi == INSTANCE AgpsStateMachine WITH Kind <- "WIFI", MaxFw <- 3
DS == INSTANCE DSStateMachine WITH
        mStatePtr <- dsState, mSubscribers <- dsSubscribers, msgs <- dsMsgs, client <- dsClient

dsVars == <<dsState, dsSubscribers, mRetries, timers, dsMsgs, dsi, up, dsClient, atl, requests,
            unstarted>>
allVars == <<part, vars, dsVars>>

MCInit == part \in {"ATL", "BIT", "WIFI", "DS"} /\ Init /\ DS!Init

MCNext == \/ part = "ATL" /\ Next /\ UNCHANGED <<part, dsVars>>
          \/ part = "BIT" /\ Bit!Next /\ UNCHANGED <<part, dsVars>>
          \/ part = "WIFI" /\ Wifi!Next /\ UNCHANGED <<part, dsVars>>
          \/ part = "DS" /\ DS!Next /\ UNCHANGED <<part, vars>>

\* The fairness of FairSpec and of DSStateMachine's Spec, for the part that runs.
MCHalStep == \/ part = "ATL" /\ HalStep
             \/ part = "BIT" /\ Bit!HalStep
             \/ part = "WIFI" /\ Wifi!HalStep
             \/ part = "DS" /\ DS!HalStep

MCSpec == /\ MCInit /\ [][MCNext]_allVars
          /\ WF_allVars(MCHalStep /\ MCNext)
          /\ WF_allVars(part # "DS" /\ FwOpens /\ MCNext)
          /\ WF_allVars(part # "DS" /\ FwCloses /\ MCNext)
          /\ WF_allVars(part = "DS" /\ DS!retryCallback /\ MCNext)
          /\ WF_allVars(part = "DS" /\ DS!DsAnswers /\ MCNext)

-----------------------------------------------------------------------------
(***************************************************************************)
(* A data call that is asked for is settled (DSStateMachine): its retries  *)
(* end, and AgpsPendingState is left.                                      *)
(***************************************************************************)
DataCallIsSettled == DS!DataCallIsSettled
=============================================================================
