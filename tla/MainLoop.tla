------------------------------ MODULE MainLoop ------------------------------
(***************************************************************************)
(* main: from the reset over the bring-up of radio, USB, settings and      *)
(* network to the loop that runs everything, and back by a reboot or the   *)
(* watchdog.  The Narodmon uploader runs inside it; what the other polls   *)
(* of the loop do is in their own modules.                                 *)
(*                                                                         *)
(* Of the states of the link, BADAUTH is kept as FAIL and NOIP as JOIN,    *)
(* from which they do not differ here.  The saved settings and those in    *)
(* force are the same (Settings).                                          *)
(***************************************************************************)
EXTENDS Narodmon

VARIABLES
  watchdog,   \* it is running
  mode,       \* config->mode
  valid,      \* not a WPA2 password of fewer than 8 characters
  link,       \* cyw43_tcpip_link_status of the station
  serving,    \* init_network_services has succeeded
  \* the surroundings (external)
  air,        \* the network configured: "absent", "refusing" us or "present"
  faulty,     \* a part of the device fails: radio, core 1 or disk
  host        \* a computer is connected to the USB port

deviceVars == <<watchdog, mode, valid, link, serving>>
worldVars == <<air, faulty, host>>
vars == <<loopVars, uploadVars, deviceVars, worldVars>>

Links == {"DOWN", "JOIN", "UP", "FAIL", "NONET"}
Looping == {"network", "poll", "link", "send"}

Init ==
  /\ phase = "start" /\ NarodmonInit
  /\ watchdog = FALSE /\ mode \in {"client", "ap"} /\ valid \in BOOLEAN
  /\ link = "DOWN" /\ serving = FALSE
  /\ air = "present" /\ faulty = FALSE /\ host \in BOOLEAN

\* The program goes on to another place; the rest stays.
Goes(place) == phase' = place /\ UNCHANGED <<send_due, uploadVars, worldVars>>

Reset ==
  /\ phase' = "start" /\ NarodmonReset
  /\ watchdog' = FALSE /\ link' = "DOWN" /\ serving' = FALSE
  /\ UNCHANGED <<mode, valid, worldVars>>

-----------------------------------------------------------------------------
(* Bring-up.                                                               *)

\* cyw43_arch_init, whose failure leaves the device in a loop for ever: the
\* watchdog is started only behind it.
InitRadio ==
  /\ phase = "start"
  /\ IF faulty THEN Goes("dead") /\ UNCHANGED watchdog
               ELSE Goes("detect") /\ watchdog' = TRUE
  /\ UNCHANGED <<mode, valid, link, serving>>

\* usb_host_present_at_boot; run_usb_mass_storage_mode is never left.
DetectHost ==
  /\ phase = "detect"
  /\ Goes(IF host THEN "disk" ELSE "init")
  /\ UNCHANGED deviceVars

\* onewire_source_init, app_runtime_config_load or app_log_init fails: an endless
\* loop that does not feed the watchdog.
InitFails ==
  /\ phase = "init" /\ faulty
  /\ Goes("stuck")
  /\ UNCHANGED deviceVars

\* connect_wifi_with_blink up to its loop; cyw43_wifi_pm or the start may fail.
StartsJoining ==
  \/ Goes("join") /\ link' = "JOIN"
  \/ faulty /\ Goes("reboot") /\ UNCHANGED link

\* init_network_services up to the loop of connect_wifi_with_blink, if any.
init_network_services ==
  /\ phase = "init"
  /\ \/ ~valid /\ Goes("reboot") /\ UNCHANGED <<link, serving>>
     \/ valid /\ mode = "client" /\ StartsJoining /\ UNCHANGED serving
     \/ /\ valid /\ mode = "ap"
        /\ \/ Goes("network") /\ serving' = TRUE
           \/ faulty /\ Goes("reboot") /\ UNCHANGED serving
        /\ UNCHANGED link
  /\ UNCHANGED <<watchdog, mode, valid>>

-----------------------------------------------------------------------------
(* connect_wifi_with_blink, when the device starts and in the loop.        *)

\* The loop sees the link up: the bring-up is complete, or the loop goes on.
Joined ==
  /\ phase = "join" /\ link = "UP"
  /\ Goes(IF serving THEN "send" ELSE "network")
  /\ serving' = TRUE
  /\ UNCHANGED <<watchdog, mode, valid, link>>

\* Variant: there is no time limit.
JoinFailsWhenRefused ==
  /\ phase = "join" /\ link = "FAIL"
  /\ Goes("reboot")
  /\ UNCHANGED deviceVars

\* It sees that it was refused, or 30 seconds are over.
JoinFails ==
  /\ phase = "join" /\ link # "UP"
  /\ Goes("reboot")
  /\ UNCHANGED deviceVars

\* It sees that there is no such network, and tries again.
JoinRetries ==
  /\ phase = "join" /\ link = "NONET"
  /\ StartsJoining
  /\ UNCHANGED <<watchdog, mode, valid, serving>>

\* reboot_after_log, after a failure.
RebootAfterLog == phase = "reboot" /\ Reset

\* Nobody feeds the watchdog.
WatchdogFires == phase = "stuck" /\ watchdog /\ Reset

-----------------------------------------------------------------------------
(* One pass of the loop.                                                   *)

NetworkEnds == phase = "network" /\ Goes("poll") /\ UNCHANGED deviceVars

Polls == app_narodmon_poll /\ UNCHANGED <<deviceVars, worldVars>>

\* app_web_poll, when a reboot was asked for.
WebReboots == phase = "poll" /\ Reset

\* Variant: only a link that is down counts as lost.
LinkIsLostWhenDown == mode = "client" /\ link = "DOWN"

LinkIsLost == mode = "client" /\ link # "UP"

\* The mode is that of the settings now, not that of the bring-up.
ChecksLink ==
  /\ phase = "link"
  /\ IF LinkIsLost THEN StartsJoining ELSE Goes("send") /\ UNCHANGED link
  /\ UNCHANGED <<watchdog, mode, valid, serving>>

Sends == app_narodmon_start_send /\ UNCHANGED <<deviceVars, worldVars>>

\* Not yet time, or switched off.
SendsNothing == phase = "send" /\ Goes("network") /\ UNCHANGED deviceVars

\* The settings page saves a mode; it does not take a password that is too short.
Saves(m) ==
  /\ phase = "network"
  /\ mode' = m /\ valid' = TRUE
  /\ UNCHANGED <<loopVars, uploadVars, watchdog, link, serving, worldVars>>

-----------------------------------------------------------------------------
(* The surroundings.                                                       *)

\* The settings file is edited on the computer, and the device restarted.
EditsSettings ==
  /\ phase = "disk"
  /\ phase' = "start" /\ mode' \in {"client", "ap"} /\ valid' \in BOOLEAN
  /\ watchdog' = FALSE
  /\ UNCHANGED <<send_due, uploadVars, link, serving, worldVars>>

PowerCycle == phase = "dead" /\ Reset

WorldChanges ==
  /\ \/ air' \in {"absent", "refusing", "present"} /\ UNCHANGED <<faulty, host>>
     \/ faulty' = ~faulty /\ UNCHANGED <<air, host>>
     \/ host' = ~host /\ UNCHANGED <<air, faulty>>
  /\ UNCHANGED <<loopVars, uploadVars, deviceVars>>

LinkBecomes(status) ==
  /\ link' = status
  /\ UNCHANGED <<loopVars, uploadVars, watchdog, mode, valid, serving, worldVars>>

\* The radio joins the network, gets an address and is up.
LinkComesUp == link \in {"JOIN", "NONET"} /\ air = "present" /\ LinkBecomes("UP")

\* Or it does not, or the link is lost.
LinkFails ==
  \/ link = "JOIN" /\ air = "absent" /\ LinkBecomes("NONET")
  \/ link = "JOIN" /\ air = "refusing" /\ LinkBecomes("FAIL")
  \/ link = "UP" /\ air # "present" /\ \E s \in Links \ {"UP"} : LinkBecomes(s)

Uploads == (Network \/ DeadlineReached \/ SendReached) /\ UNCHANGED <<deviceVars, worldVars>>

-----------------------------------------------------------------------------
\* What the program does by itself.
Program ==
  \/ InitRadio \/ DetectHost \/ InitFails \/ init_network_services
  \/ Joined \/ JoinFails \/ RebootAfterLog
  \/ NetworkEnds \/ Polls \/ ChecksLink \/ Sends \/ SendsNothing

Next ==
  \/ Program \/ JoinRetries \/ WatchdogFires
  \/ WebReboots \/ (\E m \in {"client", "ap"} : Saves(m))
  \/ EditsSettings \/ PowerCycle \/ WorldChanges
  \/ LinkComesUp \/ LinkFails
  \/ Uploads

\* The program proceeds and time passes.  A network that is there does not stay
\* away from every attempt to join it.
Spec ==
  /\ Init /\ [][Next]_vars
  /\ WF_vars(Program) /\ WF_vars(WatchdogFires)
  /\ WF_vars(DeadlineReached /\ UNCHANGED <<deviceVars, worldVars>>)
  /\ SF_vars(phase = "join" /\ LinkComesUp)

-----------------------------------------------------------------------------
\* Types of all the state.
TypeOK ==
  /\ phase \in Looping \cup {"start", "dead", "detect", "disk", "init", "stuck", "join", "reboot"}
  /\ NarodmonTypeOK
  /\ watchdog \in BOOLEAN /\ mode \in {"client", "ap"} /\ valid \in BOOLEAN
  /\ link \in Links /\ serving \in BOOLEAN
  /\ air \in {"absent", "refusing", "present"} /\ faulty \in BOOLEAN /\ host \in BOOLEAN

\* However the network, the radio and the settings change, the program keeps going
\* round its loop or through resets, unless the radio fails before the watchdog
\* runs or a computer was there at the start.
NeverHangs == []<>(phase \in {"network", "start", "dead", "disk"})

\* When the network is there for good, a client that has the right settings and
\* works is on it again and again, whatever happened before (main,
\* reconnect_client_network, reboot_after_log).
OnlineAgain ==
  <>[](air = "present" /\ ~faulty /\ mode = "client" /\ valid) =>
    []<>((phase \in Looping /\ link = "UP") \/ phase \in {"dead", "disk"})
=============================================================================
