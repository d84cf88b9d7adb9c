---------------------------- MODULE LocEngConfig ----------------------------
(***************************************************************************)
(* The settings of the location engine, loc.cpp, loc_eng.cpp, its adapter  *)
(* and loc_eng_xtra.cpp: what gps.conf, a carrier update, the network and  *)
(* the framework set, and how it reaches the modem through messages, again *)
(* after each restart of the modem.                                        *)
(*                                                                         *)
(* Two threads share gps_conf, agpsStatus and the server buffers without a *)
(* lock: the framework's, which writes and sends, and the MsgTask thread,  *)
(* where loc_eng_reinit reads each setting and then sends it.  The modem   *)
(* is what the calls of LocApi show: it keeps what it is told while open   *)
(* and has lost everything after a restart.  The lock and the measurement  *)
(* mask are told once and not repeated after a restart.                    *)
(***************************************************************************)
EXTENDS Naturals, Sequences, FiniteSets

CONSTANTS Conf,          \* of SUPL_VER, LPP_PROFILE, A_GLONASS: sent when they change
          Servers,       \* of SUPL, C2K
          MaxVal,        \* bound: values of a setting, 0 is "never told"
          MaxChanges,    \* bound: calls of the framework that change something
          MaxRestarts    \* bound: modem restarts

VARIABLES gps_conf, agpsStatus, hosts,
          adapter, agps_status_cb, gps_measurement_cb,
          q,             \* the MsgTask queue
          fw,            \* the framework's thread, inside a configuration update
          mt,            \* the MsgTask thread, inside loc_eng_reinit
          told,          \* setting -> the value the modem has
          phase, open,   \* the modem: "up", "down", "opening"; it takes calls
          forgotten,     \* settings it does not have and nobody will repeat
          ulpCaps,       \* capabilities last given to the ULP proxy
          capsTold,      \* capabilities last given to the framework
          asked,         \* servers, and the lock, last asked for
          untold,        \* settings whose last change had nothing to send
          overtaken,     \* settings whose older value was sent last
          changes, restarts

confVars == <<gps_conf, agpsStatus, hosts>>
halVars == <<adapter, agps_status_cb, gps_measurement_cb>>
modemVars == <<told, phase, open, forgotten>>
capVars == <<ulpCaps, capsTold>>
ghosts == <<asked, untold, overtaken>>
vars == <<confVars, halVars, q, fw, mt, modemVars, capVars, ghosts,
          changes, restarts>>

Vals == 0..MaxVal
\* Read once from the files and never changed: sensors, XTRA version check.
Fixed == {"SENSORS_AND_XTRA"}
Repeated == Conf \cup Servers \cup {"DATA"} \cup Fixed
\* Sent when they change; neither loc_eng_reinit nor the re-open repeats them.
OnceOnly == {"LOCK", "MEASUREMENT_MASK"}
Settings == Repeated \cup OnceOnly
ConfKeys == Conf \cup {"SUPL_MODE", "GPS_LOCK", "MEASUREMENTS"}

Set(k, v) == [op |-> "Set", k |-> k, v |-> v]
Msg(o) == [op |-> o]

\* The message classes: each keeps a value and hands it to LocApi in proc().
LocEngSuplVer(v) == Set("SUPL_VER", v)
LocEngLppConfig(v) == Set("LPP_PROFILE", v)
LocEngAGlonassProtocol(v) == Set("A_GLONASS", v)
LocEngEnableData(v) == Set("DATA", v)
LocEngSetServerUrl(v) == Set("SUPL", v)
LocEngSetServerIpv4(v) == Set("C2K", v)
LocEngUpdateRegistrationMask(v) == Set("MEASUREMENT_MASK", v)
setGpsLockMsg(v) == Set("LOCK", v)
\* LocEngSensorControlConfig, -Properties and -PerfControlConfig and the XTRA
\* version check carry what was read from the files once and for all.
LocEngSensorsAndXtra == Set("SENSORS_AND_XTRA", 1)

MsgFor(k, v) == CASE k = "SUPL_VER" -> LocEngSuplVer(v)
                  [] k = "LPP_PROFILE" -> LocEngLppConfig(v)
                  [] k = "A_GLONASS" -> LocEngAGlonassProtocol(v)
                  [] k = "DATA" -> LocEngEnableData(v)
                  [] k = "SUPL" -> LocEngSetServerUrl(v)
                  [] k = "C2K" -> LocEngSetServerIpv4(v)

Msgs == {Set(k, v) : k \in Settings, v \in Vals}
        \cup {Msg(o) : o \in {"Init", "Up", "Ssr", "SuplMode", "GnssConfig", "SetCapabilities"}}

\* The order in which settings are sent.
Only(K, k) == IF k \in K THEN <<k>> ELSE <<>>
Ordered(K) == Only(K, "SUPL_VER") \o Only(K, "LPP_PROFILE") \o Only(K, "A_GLONASS")
              \o Only(K, "DATA") \o Only(K, "SUPL") \o Only(K, "C2K")
MsgsFor(K, vals) == [i \in DOMAIN Ordered(K) |-> MsgFor(Ordered(K)[i], vals[Ordered(K)[i]])]

Idle == [at |-> "idle"]

TypeOK ==
  /\ gps_conf \in [ConfKeys -> Vals] /\ agpsStatus \in Vals /\ hosts \in [Servers -> Vals]
  /\ {adapter, agps_status_cb, gps_measurement_cb, open} \subseteq BOOLEAN
  /\ q \in Seq(Msgs)
  /\ fw.at \in {"idle", "send", "restore"} /\ mt.at \in {"idle", "reinit"}
  /\ told \in [Settings -> Vals] /\ phase \in {"up", "down", "opening"}
  /\ ulpCaps \in Vals /\ capsTold \in Vals
  /\ asked \in [Servers \cup {"LOCK"} -> Vals] /\ forgotten \subseteq OnceOnly
  /\ untold \subseteq Settings /\ overtaken \subseteq Settings
  /\ changes \in 0..MaxChanges /\ restarts \in 0..MaxRestarts

\* loc_eng_read_config has read gps.conf: every setting has its value 1.
loc_eng_read_config == gps_conf = [k \in ConfKeys |-> IF k = "MEASUREMENTS" THEN 0 ELSE 1]

\* Before loc_init, or when loc_init and loc_eng_agps_init are long done.
Init ==
  /\ loc_eng_read_config
  /\ agpsStatus = 0 /\ hosts = [t \in Servers |-> 0]
  /\ adapter \in BOOLEAN /\ agps_status_cb = adapter /\ gps_measurement_cb = FALSE
  /\ q = <<>> /\ fw = Idle /\ mt = Idle
  /\ told = [k \in Settings |-> IF adapter /\ k \in Conf \cup Fixed THEN 1 ELSE 0]
  /\ phase = "up" /\ open = TRUE
  /\ ulpCaps = IF adapter THEN 1 ELSE 0
  /\ capsTold = 0
  /\ asked = [t \in Servers \cup {"LOCK"} |-> 0] /\ untold = {} /\ overtaken = {} /\ forgotten = {}
  /\ changes = 0 /\ restarts = 0

\* What the HAL holds for a setting; of the lock, what it was last asked for.
held(k) == CASE k \in Conf -> gps_conf[k]
             [] k \in Servers -> hosts[k]
             [] k = "DATA" -> agpsStatus
             [] k = "LOCK" -> asked["LOCK"]
             [] k = "MEASUREMENT_MASK" -> IF gps_measurement_cb THEN 1 ELSE 0
             [] OTHER -> 1

-----------------------------------------------------------------------------
(* The framework's thread.  A new value is sent behind all older ones.     *)

Change == fw = Idle /\ changes < MaxChanges /\ changes' = changes + 1 /\ UNCHANGED restarts
Sends(ms) == q' = q \o ms
SentNow(K) == untold' = untold \ K /\ overtaken' = overtaken \ K

\* memset clears loc_eng_data, the buffered servers with it.
loc_eng_init == /\ adapter' = TRUE /\ agps_status_cb' = FALSE /\ gps_measurement_cb' = FALSE
                /\ hosts' = [t \in Servers |-> 0]

(***************************************************************************)
(* A second init finds the adapter and only sends the lock and the ULP     *)
(* capabilities again.                                                     *)
(***************************************************************************)
loc_init ==
  /\ Change
  /\ IF adapter THEN Sends(<<setGpsLockMsg(0)>>) /\ UNCHANGED <<halVars, hosts>>
     ELSE Sends(<<Msg("Init"), setGpsLockMsg(0)>>) /\ loc_eng_init
  /\ ulpCaps' = gps_conf["SUPL_MODE"]
  /\ asked' = [asked EXCEPT !["LOCK"] = 0]
  /\ UNCHANGED <<gps_conf, agpsStatus, fw, mt, modemVars, capsTold, untold, overtaken>>

\* The engine is kept; only the lock of gps.conf is put back.
loc_cleanup ==
  /\ Change
  /\ adapter
  /\ Sends(<<setGpsLockMsg(gps_conf["GPS_LOCK"])>>)
  /\ asked' = [asked EXCEPT !["LOCK"] = gps_conf["GPS_LOCK"]]
  /\ UNCHANGED <<confVars, halVars, fw, mt, modemVars, capVars, untold, overtaken>>

\* Of the servers that are set, a C2K host that does not resolve and a SUPL URL
\* that does not fit are not sent.
Reachable(S) == {K \in SUBSET S : K \subseteq {t \in S : hosts'[t] # 0}}

loc_eng_set_server(S) ==
  \E K \in Reachable(S) :
    /\ Sends(MsgsFor(K, hosts'))
    /\ untold' = (untold \ K) \cup (S \ K) /\ overtaken' = overtaken \ K

loc_eng_set_server_proxy(t, v) ==
  /\ Change
  /\ hosts' = [hosts EXCEPT ![t] = v] /\ asked' = [asked EXCEPT ![t] = v]
  /\ IF adapter THEN loc_eng_set_server({t}) ELSE UNCHANGED <<q, untold, overtaken>>
  /\ UNCHANGED <<gps_conf, agpsStatus, halVars, fw, mt, modemVars, capVars>>

\* The capabilities of this target include MSA or MSB.
loc_eng_agps_init ==
  /\ Change
  /\ adapter /\ ~agps_status_cb
  /\ agps_status_cb' = TRUE
  /\ UNCHANGED hosts
  /\ loc_eng_set_server({t \in Servers : hosts[t] # 0})
  /\ UNCHANGED <<gps_conf, agpsStatus, adapter, gps_measurement_cb,
                 fw, mt, modemVars, capVars, asked>>

\* Without an APN the status is only stored.
loc_eng_agps_ril_update_network_availability(v, apn) ==
  /\ Change
  /\ agpsStatus' = v
  /\ IF adapter /\ apn
     THEN Sends(<<LocEngEnableData(v)>>) /\ SentNow({"DATA"})
     ELSE UNCHANGED <<q, overtaken>> /\ untold' = untold \cup {"DATA"}
  /\ UNCHANGED <<gps_conf, hosts, halVars, fw, mt, modemVars, capVars, asked>>

loc_eng_gps_measurement_init ==
  /\ Change
  /\ adapter /\ ~gps_measurement_cb
  /\ gps_measurement_cb' = TRUE
  /\ Sends(<<LocEngUpdateRegistrationMask(1)>>)
  /\ UNCHANGED <<confVars, adapter, agps_status_cb, fw, mt, modemVars,
                 capVars, ghosts>>

loc_eng_gps_measurement_close ==
  /\ Change
  /\ adapter
  /\ gps_measurement_cb' = FALSE
  /\ Sends(<<LocEngUpdateRegistrationMask(0)>>)
  /\ UNCHANGED <<confVars, adapter, agps_status_cb, fw, mt, modemVars,
                 capVars, ghosts>>

(***************************************************************************)
(* loc_eng_configuration_update, in the caller's thread: gps_conf is saved *)
(* and overwritten, messages are sent for what changed, and gps_conf is    *)
(* put back with only some of the new values: SUPL_MODE gets its old one,  *)
(* and so does a capability that the MsgTask thread has added meanwhile.   *)
(***************************************************************************)
configuration_update_parse(k, v) ==
  /\ Change
  /\ gps_conf' = [gps_conf EXCEPT ![k] = v]
  /\ fw' = [at |-> "send", tmp |-> gps_conf]
  /\ UNCHANGED <<agpsStatus, hosts, halVars, q, mt, modemVars, capVars, ghosts>>

Changed == {k \in ConfKeys : fw.tmp[k] # gps_conf[k]}

configuration_update_send ==
  /\ fw.at = "send"
  /\ fw' = [fw EXCEPT !.at = "restore"]
  /\ IF adapter
     THEN /\ Sends(MsgsFor(Changed \cap Conf, gps_conf)
                   \o IF "SUPL_MODE" \in Changed THEN <<Msg("SuplMode")>> ELSE <<>>)
          /\ SentNow(Changed)
     ELSE UNCHANGED <<q, untold, overtaken>>
  /\ UNCHANGED <<confVars, halVars, mt, modemVars, capVars, asked,
                 changes, restarts>>

configuration_update_restore ==
  /\ fw.at = "restore"
  /\ fw' = Idle
  /\ gps_conf' = [k \in ConfKeys |-> IF k \in Conf \cup {"GPS_LOCK"} THEN gps_conf[k] ELSE fw.tmp[k]]
  /\ UNCHANGED <<agpsStatus, hosts, halVars, q, mt, modemVars, capVars,
                 ghosts, changes, restarts>>

-----------------------------------------------------------------------------
(* The MsgTask thread.                                                     *)

Takes(m) == mt = Idle /\ q # <<>> /\ Head(q) = m
Handled == q' = Tail(q)
threads == <<fw, mt>>

\* LocApi calls of a modem that is not open fail.
LocEngSet(k, v) ==
  /\ Takes(Set(k, v)) /\ Handled
  /\ told' = [told EXCEPT ![k] = IF open THEN v ELSE @]
  /\ forgotten' = IF open THEN forgotten \ {k} ELSE forgotten \cup ({k} \cap OnceOnly)
  /\ UNCHANGED <<confVars, halVars, threads, phase, open, capVars, ghosts, changes, restarts>>

\* SUPL_MODE is read when the message is handled, not when it is sent.
LocEngSuplMode ==
  /\ Takes(Msg("SuplMode")) /\ Handled
  /\ ulpCaps' = gps_conf["SUPL_MODE"]
  /\ UNCHANGED <<confVars, halVars, threads, modemVars, capsTold, ghosts,
                 changes, restarts>>

LocEngGnssConstellationConfig ==
  /\ Takes(Msg("GnssConfig")) /\ Handled
  /\ gps_conf' = [gps_conf EXCEPT !["MEASUREMENTS"] = IF open THEN 1 ELSE @]
  /\ UNCHANGED <<agpsStatus, hosts, halVars, threads, modemVars, capVars,
                 ghosts, changes, restarts>>

LocEngSetCapabilities ==
  /\ Takes(Msg("SetCapabilities")) /\ Handled
  /\ capsTold' = gps_conf["MEASUREMENTS"]
  /\ UNCHANGED <<confVars, halVars, threads, modemVars, ulpCaps, ghosts,
                 changes, restarts>>

LocSsrMsg ==
  /\ Takes(Msg("Ssr")) /\ Handled
  /\ open' = (phase # "down")
  /\ UNCHANGED <<confVars, halVars, threads, told, forgotten, phase, capVars, ghosts,
                 changes, restarts>>

\* A reinit without the data status.
ReinitOrderNoData(all) == Ordered({k \in Repeated : k # "DATA" /\ (k \in Servers => all)})

\* The settings that loc_eng_reinit and, after a restart, loc_eng_agps_reinit read.
ReinitOrder(all) == Ordered({k \in Repeated : k \in Servers => all})

\* LocEngInit and LocEngUp both begin with loc_eng_reinit, whose first message this is.
BeginReinit(m, todo) ==
  /\ Takes(Msg(m)) /\ q' = Tail(q) \o <<Msg("GnssConfig"), LocEngSensorsAndXtra>>
  /\ mt' = [at |-> "reinit", todo |-> todo, val |-> 0, last |-> m]
  /\ UNCHANGED <<confVars, halVars, fw, modemVars, capVars, ghosts,
                 changes, restarts>>

LocEngInit == BeginReinit("Init", ReinitOrder(FALSE))
loc_eng_handle_engine_up == BeginReinit("Up", ReinitOrder(agps_status_cb))

\* An argument of the next sendMsg is evaluated ...
reinit_read ==
  /\ mt.at = "reinit" /\ mt.todo # <<>> /\ mt.val = 0
  /\ LET k == Head(mt.todo)
     IN  IF held(k) = 0 /\ k \in Servers
         THEN mt' = [mt EXCEPT !.todo = Tail(@)] /\ UNCHANGED untold
         ELSE mt' = [mt EXCEPT !.val = held(k) + 1] /\ untold' = untold \ {k}
  /\ UNCHANGED <<confVars, halVars, q, fw, modemVars, capVars, asked,
                 overtaken, changes, restarts>>

(***************************************************************************)
(* ... and sent.  If the framework has changed the setting in between and  *)
(* sent it already, the older value is the last one the modem gets.        *)
(***************************************************************************)
reinit_send(ok) ==
  /\ mt.at = "reinit" /\ mt.val # 0
  /\ LET k == Head(mt.todo)
         yetToSend == fw.at = "send" /\ k \in Changed
     IN  /\ ok \/ k \in Servers
         /\ q' = IF ok THEN Append(q, MsgFor(k, mt.val - 1)) ELSE q
         /\ overtaken' = IF ok /\ mt.val - 1 # held(k) /\ ~yetToSend
                         THEN overtaken \cup {k} ELSE overtaken \ {k}
         /\ untold' = IF ok THEN untold ELSE untold \cup {k}
  /\ mt' = [mt EXCEPT !.todo = Tail(@), !.val = 0]
  /\ UNCHANGED <<confVars, halVars, fw, modemVars, capVars, asked,
                 changes, restarts>>

\* LocEngInit then has the capabilities told; LocEngUp has no more settings.
EndReinit ==
  /\ mt.at = "reinit" /\ mt.todo = <<>>
  /\ mt' = Idle
  /\ q' = IF mt.last = "Init" THEN Append(q, Msg("SetCapabilities")) ELSE q
  /\ UNCHANGED <<confVars, halVars, fw, modemVars, capVars, ghosts,
                 changes, restarts>>

-----------------------------------------------------------------------------
(* The modem.                                                              *)

Crash ==
  /\ phase = "up" /\ restarts < MaxRestarts
  /\ restarts' = restarts + 1
  /\ phase' = "down" /\ open' = FALSE
  /\ told' = [k \in Settings |-> 0] /\ forgotten' = OnceOnly
  /\ UNCHANGED <<confVars, halVars, q, threads, capVars, ghosts, changes>>

\* LocApiBase::handleEngineUpEvent; the adapter's LocEngUp exists once it is created.
Recover ==
  /\ phase \in {"down", "opening"}
  /\ phase' = IF phase = "down" THEN "opening" ELSE "up"
  /\ Sends(CASE phase = "down" -> <<Msg("Ssr")>>
             [] phase = "opening" -> IF adapter THEN <<Msg("Up")>> ELSE <<>>)
  /\ UNCHANGED <<confVars, halVars, threads, told, forgotten, open, capVars, ghosts,
                 changes, restarts>>

-----------------------------------------------------------------------------
Framework ==
  \/ loc_init \/ loc_cleanup \/ loc_eng_agps_init
  \/ loc_eng_gps_measurement_init \/ loc_eng_gps_measurement_close
  \/ configuration_update_send \/ configuration_update_restore
  \/ \E t \in Servers, v \in 1..MaxVal : loc_eng_set_server_proxy(t, v)
  \/ \E v \in {0, 1}, apn \in BOOLEAN : loc_eng_agps_ril_update_network_availability(v, apn)
  \/ \E k \in Conf \cup {"SUPL_MODE", "GPS_LOCK"}, v \in 1..MaxVal : configuration_update_parse(k, v)

MsgTaskStep ==
  \/ LocEngSuplMode \/ LocEngGnssConstellationConfig \/ LocEngSetCapabilities \/ LocSsrMsg
  \/ LocEngInit \/ loc_eng_handle_engine_up \/ reinit_read \/ EndReinit
  \/ \E k \in Settings, v \in Vals : LocEngSet(k, v)
  \/ \E ok \in BOOLEAN : reinit_send(ok)

Next == Framework \/ MsgTaskStep \/ Crash \/ Recover

Spec == Init /\ [][Next]_vars

-----------------------------------------------------------------------------
Quiet == q = <<>> /\ fw = Idle /\ mt = Idle /\ phase = "up" /\ open /\ adapter

(***************************************************************************)
(* loc_eng_reinit and the messages of single changes together keep the     *)
(* modem at what the HAL holds, over restarts of the modem and changes at  *)
(* any point of a reinit.  With nothing under way an open modem has the    *)
(* value of every setting that is repeated, save one whose change had      *)
(* nothing to send or was overtaken by the value reinit had read before.   *)
(* It also has the lock and the measurement mask last sent, unless it was  *)
(* restarted since, or not open when they were handed to it: nobody sends  *)
(* those two again.                                                        *)
(***************************************************************************)
SettingsReachModem ==
  Quiet => /\ \A k \in Repeated \ (untold \cup overtaken) :
                held(k) # 0 /\ (k \in Servers => agps_status_cb) => told[k] = held(k)
           /\ \A k \in OnceOnly \ forgotten : told[k] = held(k)

(***************************************************************************)
(* loc_eng_set_server_proxy: "This proxy buffers server settings and calls *)
(* loc_eng_set_server when the client is open."  A server that was asked   *)
(* for, before loc_init too, is what the modem has once AGPS is up.  The   *)
(* code does not keep this; see Divergences in the README.                 *)
(***************************************************************************)
BufferedServerIsSent ==
  Quiet /\ agps_status_cb =>
    \A t \in Servers \ (untold \cup overtaken) : asked[t] # 0 => told[t] = asked[t]
=============================================================================
