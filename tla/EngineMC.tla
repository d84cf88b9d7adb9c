------------------------------- MODULE EngineMC ------------------------------
(***************************************************************************)
(* The parts of the location engine for TLC: the fix session, its mode and *)
(* ULP proxy, the settings, and the connection to the daemons.  Each       *)
(* module has its own view of the modem and of the MsgTask queue, so a     *)
(* behaviour is one of a single module, chosen at the start.               *)
(***************************************************************************)
EXTENDS LocEngSession

CONSTANTS Conf, Servers, MaxVal, MaxChanges, MaxRestarts,
          Daemons, MaxMessages,
          Modes, MaxProxies, MaxAsks, MaxSsr

\* Proxies are counted, and a position mode of the framework is a valid one;
\* settings have the names the code gives them and more than one value.
ASSUME EngineAssumption ==
  /\ MaxProxies \in Nat /\ "INVALID" \notin Modes
  /\ Conf \subseteq {"SUPL_VER", "LPP_PROFILE", "A_GLONASS"}
  /\ Servers \subseteq {"SUPL", "C2K"}
  /\ MaxVal \in Nat \ {0}

VARIABLES part,
          gps_conf, agpsStatus, hosts, adapter, agps_status_cb, gps_measurement_cb,
          q, fw, mt, told, phase, open, forgotten, ulpCaps, capsTold, asked, untold,
          overtaken,
          changes, restarts,
          server, thread_exit, thread_ready, pipe, msgqid, caller, written, lost, forwarded,
          answers, early,
          mUlp, mPosMode, mFixSet, deleted, given, mFixCriteria, inSession, ulpMsgs, asking,
          ssr, isOpen, running, want, asks, ssrs, raced, restarted

Config == INSTANCE LocEngConfig
Dmn == INSTANCE DmnConn
Ulp == INSTANCE LocEngUlp

configVars == <<gps_conf, agpsStatus, hosts, adapter, agps_status_cb, gps_measurement_cb, q, fw,
                mt, told, phase, open, forgotten, ulpCaps, capsTold, asked, untold,
          overtaken, changes,
                restarts>>
dmnVars == <<server, thread_exit, thread_ready, pipe, msgqid, caller, written, lost, forwarded,
             answers, early>>
ulpVars == <<mUlp, mPosMode, mFixSet, deleted, given, mFixCriteria, inSession, ulpMsgs, asking,
             ssr, isOpen, running, want, asks, ssrs, raced, restarted>>
allVars == <<part, vars, configVars, dmnVars, ulpVars>>

MCInit == /\ part \in {"session", "config", "dmn", "ulp"}
          /\ Init /\ (part # "session" => single)
          /\ Config!Init /\ (part # "config" => adapter)
          /\ Dmn!Init /\ Ulp!Init

MCNext ==
  /\ UNCHANGED part
  /\ \/ /\ part = "session" /\ Next
        /\ UNCHANGED <<configVars, dmnVars, ulpVars>>
     \/ /\ part = "config" /\ Config!Next
        /\ UNCHANGED <<vars, dmnVars, ulpVars>>
     \/ /\ part = "dmn" /\ Dmn!Next
        /\ UNCHANGED <<vars, configVars, ulpVars>>
     \/ /\ part = "ulp" /\ Ulp!Next
        /\ UNCHANGED <<vars, configVars, dmnVars>>

\* The fairness of FairSpec and of DmnConn's Spec, for the part that runs.
Session(A) == part = "session" /\ A /\ UNCHANGED <<part, configVars, dmnVars, ulpVars>>
Daemon(A) == part = "dmn" /\ A /\ UNCHANGED <<part, vars, configVars, ulpVars>>

MCSpec == /\ MCInit /\ [][MCNext]_allVars
          /\ WF_allVars(Session(MsgTaskStep))
          /\ WF_allVars(Session(Recover \/ handleEngineUpEvent))
          /\ WF_allVars(Daemon(Dmn!ServerSteps))
          /\ WF_allVars(Daemon(Dmn!CallerSteps))

-----------------------------------------------------------------------------
(***************************************************************************)
(* The modem has the settings the HAL holds (loc_eng_reinit).              *)
(***************************************************************************)
SettingsReachModem == part = "config" => Config!SettingsReachModem

(***************************************************************************)
(* The session follows the framework through changes of the mode and of    *)
(* the ULP proxy (LocEngAdapter::setUlpProxy).                             *)
(***************************************************************************)
SessionFollows == Ulp!SessionFollows

(***************************************************************************)
(* The requests of the daemons are served, and the server can be joined    *)
(* (loc_eng_dmn_conn_thread_helper.c).                                     *)
(***************************************************************************)
ServedAndJoined == Dmn!ServedAndJoined
=============================================================================
