------------------------------ MODULE Settings ------------------------------
(***************************************************************************)
(* The settings: those in force, and config.ini, from which they are loaded*)
(* at boot and to which every change made on a page is saved before it is  *)
(* put in force.  Saving truncates the file and writes it anew line by     *)
(* line; the power may fail between two writes, and the disk, which the    *)
(* logs share, may be full.  With a USB host the device is a disk and the  *)
(* file is edited by hand.                                                 *)
(*                                                                         *)
(* A text is a word and whether blanks surround it; a word may be broken,  *)
(* that is, hold a line feed.  Of the fields treated alike one is kept:    *)
(* ssid stands for hostname, retention and poll for the other numbers and  *)
(* switches.                                                               *)
(***************************************************************************)
EXTENDS Integers, Sequences, SequencesExt

CONSTANTS
  Words, NoWord,       \* NoWord is the empty one
  Length,              \* of each word
  FirstLine,           \* of each word, the word itself unless it is broken
  LineRoom,            \* texts of this length fit no more into line[1024]
  PasswordMin,         \* least length of a WPA2 password
  DefaultSsid,
  RetentionMin, RetentionMax, RetentionDefault,
  PollMin, PollMax, PollDefault,
  Macs, BadMac,        \* BadMac is no MAC address
  AllowedMax,          \* APP_CONFIG_ALLOWED_MAC_MAX_COUNT
  Devices,             \* ids of sensors
  NamesMax,            \* APP_CONFIG_DEVICE_NAME_MAX_COUNT
  Forms,               \* what users submit on the settings page
  Typed,               \* the names they type for sensors
  Edits,               \* what they make of the file by hand
  MaxFaults,           \* bound on disk errors and interrupted saves
  Missing, Absent      \* no file; a section that is not in it

Texts == [word : Words, padded : BOOLEAN]
Empty == [word |-> NoWord, padded |-> FALSE]
Wifi == [ssid : Texts, security : {"open", "wpa2"}, password : Texts]
Mqtts == [enabled : BOOLEAN, host : Texts, username : Texts, password : Texts]
Names == [id : Devices, name : Texts]
Configs ==
  [wifi : Wifi, allowed : Seq(Macs), retention : Nat, poll : Nat, mqtt : Mqtts, names : Seq(Names)]
Files ==
  [wifi : Wifi \cup {Absent}, allowed : Seq(Macs \cup {BadMac}),
   retention : Int \cup {Absent}, poll : Int \cup {Absent},
   mqtt : Mqtts \cup {Absent}, names : Seq(Names)]

ASSUME SettingsAssumption ==
  /\ NoWord \in Words /\ DefaultSsid \in Words \ {NoWord}
  /\ Length \in [Words -> Nat] /\ Length[NoWord] = 0
  /\ FirstLine \in [Words -> Words]
  /\ \A w \in Words : FirstLine[FirstLine[w]] = FirstLine[w]
  /\ LineRoom \in Nat /\ PasswordMin \in Nat \ {0}
  /\ RetentionMin \in Nat /\ RetentionMax \in Nat
  /\ RetentionDefault \in RetentionMin .. RetentionMax
  /\ PollMin \in Nat /\ PollMax \in Nat /\ PollDefault \in PollMin .. PollMax
  /\ BadMac \notin Macs /\ AllowedMax \in Nat /\ NamesMax \in Nat
  /\ Forms \subseteq [wifi : Wifi, retention : Nat, poll : Nat, mqtt : Mqtts]
  /\ Typed \subseteq Texts /\ Edits \subseteq Files
  /\ \A t \in Typed : FirstLine[t.word] = t.word  \* control characters are dropped
  /\ MaxFaults \in Nat
  /\ Missing \notin Files /\ Absent \notin Wifi \cup Int \cup Mqtts

VARIABLES
  power,    \* "off", "boot" while app_config_load writes a default file,
            \* "refused" when the network is not set up with them, "on"
  config,   \* app_runtime_config
  disk,     \* config.ini as a reset would find it
  stage,    \* the next write of app_config_save, "idle" if it does not run
  next,     \* the settings it saves, app_web_next_config
  file,     \* what it has written
  status,   \* app_web_save_status; "unsynced" reads as "saved", but f_sync failed
  faults

vars == <<power, config, disk, stage, next, file, status, faults>>

-----------------------------------------------------------------------------
(* The rules for settings.                                                 *)

\* app_config_trim
Trim(text) == [text EXCEPT !.padded = FALSE]

Clamp(n, min, max) == IF n < min THEN min ELSE IF n > max THEN max ELSE n

Defaults ==
  [wifi |-> [ssid |-> [word |-> DefaultSsid, padded |-> FALSE], security |-> "open",
             password |-> Empty],
   allowed |-> <<>>, retention |-> RetentionDefault, poll |-> PollDefault,
   mqtt |-> [enabled |-> FALSE, host |-> Empty, username |-> Empty, password |-> Empty],
   names |-> <<>>]

\* The MQTT user name and password are left as they are.
app_config_normalize(c) ==
  [c EXCEPT !.wifi.ssid = IF Trim(@) = Empty THEN Defaults.wifi.ssid ELSE Trim(@),
            !.wifi.password = IF c.wifi.security = "open" THEN Empty ELSE Trim(@),
            !.retention = Clamp(@, RetentionMin, RetentionMax),
            !.poll = Clamp(@, PollMin, PollMax),
            !.mqtt.host = Trim(@)]

\* init_network_services: with these settings the network is not set up.
Refused(c) == c.wifi.security = "wpa2" /\ Length[c.wifi.password.word] < PasswordMin

Broken(text) == FirstLine[text.word] # text.word

BrokenWifi(wifi) == Broken(wifi.ssid) \/ Broken(wifi.password)

CanTrack(macs, mac) == mac \in ToSet(macs) \/ Len(macs) < AllowedMax

\* Variant: a MAC is appended without a look at those there.
SetAllowedMacTwice(macs, mac, enabled) ==
  IF ~enabled THEN RemoveFirst(macs, mac)
  ELSE IF Len(macs) < AllowedMax THEN Append(macs, mac) ELSE macs

app_config_set_allowed_mac(macs, mac, enabled) ==
  IF ~enabled THEN RemoveFirst(macs, mac)
  ELSE IF mac \notin ToSet(macs) /\ CanTrack(macs, mac) THEN Append(macs, mac) ELSE macs

Named(names, id) == {i \in DOMAIN names : names[i].id = id}

CanName(names, id, name) == Trim(name) = Empty \/ Named(names, id) # {} \/ Len(names) < NamesMax

\* An empty name removes the entry.
app_config_set_device_name(names, id, name) ==
  LET entry == [id |-> id, name |-> Trim(name)]
      index == Min(Named(names, id))
  IN  IF Named(names, id) # {}
      THEN IF Trim(name) = Empty THEN RemoveAt(names, index)
                                 ELSE [names EXCEPT ![index] = entry]
      ELSE IF Trim(name) # Empty /\ CanName(names, id, name) THEN Append(names, entry)
                                                             ELSE names

-----------------------------------------------------------------------------
(* Loading.                                                                *)

\* ini_gets and ini_getl: the default if the key is not there.
Get(value, default) == IF value = Absent THEN default ELSE value

\* Values lose the blanks around them.
LoadMqtt(m) ==
  [m EXCEPT !.host = Trim(@), !.username = Trim(@), !.password = Trim(@)]

\* The keys mac1, mac2... or id1, id2... up to the greatest number.
Keys(values, max) == SubSeq(values, 1, IF Len(values) < max THEN Len(values) ELSE max)

\* Variant: the last MAC is not read.
LoadFewerMacs(macs) ==
  LET keys == Keys(macs, AllowedMax - 1)
      list[k \in 0 .. Len(keys)] ==
        IF k = 0 THEN <<>>
        ELSE IF keys[k] \in Macs THEN app_config_set_allowed_mac(list[k - 1], keys[k], TRUE)
        ELSE list[k - 1]
  IN  list[Len(keys)]

\* The list after each key; what is no MAC is skipped.
LoadMacs(macs) ==
  LET keys == Keys(macs, AllowedMax)
      list[k \in 0 .. Len(keys)] ==
        IF k = 0 THEN <<>>
        ELSE IF keys[k] \in Macs THEN app_config_set_allowed_mac(list[k - 1], keys[k], TRUE)
        ELSE list[k - 1]
  IN  list[Len(keys)]

LoadNames(names) ==
  LET keys == Keys(names, NamesMax)
      list[k \in 0 .. Len(keys)] ==
        IF k = 0 THEN <<>>
        ELSE app_config_set_device_name(list[k - 1], keys[k].id, keys[k].name)
  IN  list[Len(keys)]

app_config_load(f) ==
  app_config_normalize(
    [wifi |-> Get(f.wifi, Defaults.wifi),
     allowed |-> LoadMacs(f.allowed),
     retention |-> Get(f.retention, RetentionDefault),
     poll |-> Get(f.poll, PollDefault),
     mqtt |-> LoadMqtt(Get(f.mqtt, Defaults.mqtt)),
     names |-> LoadNames(f.names)])

-----------------------------------------------------------------------------
(* Saving.                                                                 *)

\* FA_CREATE_ALWAYS; f_open succeeds, as the directory has room.
NoContents ==
  [wifi |-> Absent, allowed |-> <<>>, retention |-> Absent, poll |-> Absent,
   mqtt |-> Absent, names |-> <<>>]

SaveStarts(c) ==
  /\ stage = "idle" /\ stage' = "wifi"
  /\ next' = c
  /\ file' = NoContents

\* The save is over, the file closed with what was written, and the handler or
\* the boot goes on: a boot that cannot save ends, and is tried again.
SaveFails(left) ==
  /\ disk' = left
  /\ stage' = "idle"
  /\ IF power = "boot" THEN power' = "off" /\ UNCHANGED status
                       ELSE status' = "failed" /\ UNCHANGED power
  /\ UNCHANGED <<config, next, file>>

\* What is left of a text, or of a number, that is cut short.
CutText(text) ==
  [word : {w \in Words : Length[w] < Length[text.word] /\ FirstLine[w] = w}, padded : {FALSE}]
CutNumber(n) == 0 .. n - 1

\* A line of the file.  When the disk is full f_write writes none of it or
\* ends in the middle; cut holds what the file can be then.
Writes(contents, cut, following) ==
  \/ /\ file' = contents /\ stage' = following
     /\ UNCHANGED <<power, config, disk, next, status, faults>>
  \/ /\ faults < MaxFaults /\ faults' = faults + 1
     /\ \E left \in cut \cup {file} : SaveFails(left)

\* What will be found of the Wi-Fi once it is written: a broken password ends
\* at its line feed; what follows that of a name may set the other two as well
\* (an open network's password does not matter).
Found(wifi) ==
  LET first(text) == [text EXCEPT !.word = FirstLine[@]]
      name == {first(wifi.ssid)}
      lines == [word : {w \in Words : FirstLine[w] = w}, padded : {FALSE}]
  IN  IF Broken(wifi.ssid)
      THEN [ssid : name, security : {"open"}, password : {Empty}]
           \cup [ssid : name, security : {"wpa2"}, password : lines]
      ELSE {[wifi EXCEPT !.password = first(@)]}

\* And what, if the power or the disk fails before its last line is complete.
CutWifi(wifi) ==
  {[ssid |-> t, security |-> "open", password |-> Empty] : t \in CutText(wifi.ssid) \cup {wifi.ssid}}
  \cup {[wifi EXCEPT !.password = t] : t \in CutText(wifi.password)}

\* The first line has all the texts of the Wi-Fi in it and may be too long.
SaveWifi ==
  LET wifi == next.wifi
  IN  /\ stage = "wifi"
      /\ IF Length[wifi.ssid.word] + Length[wifi.password.word] >= LineRoom
         THEN SaveFails(file) /\ UNCHANGED faults
         ELSE \E f \in Found(wifi) :
                Writes([file EXCEPT !.wifi = f],
                       {[file EXCEPT !.wifi = w] : w \in CutWifi(f)}, "allowed")

SaveMac ==
  LET number == Len(file.allowed) + 1
  IN  /\ stage = "allowed" /\ number <= Len(next.allowed)
      /\ Writes([file EXCEPT !.allowed = Append(@, next.allowed[number])],
                {[file EXCEPT !.allowed = Append(@, BadMac)]}, "allowed")

SaveMeasurements ==
  /\ stage = "allowed" /\ Len(file.allowed) = Len(next.allowed)
  /\ Writes([file EXCEPT !.retention = next.retention],
            {[file EXCEPT !.retention = n] : n \in CutNumber(next.retention)}, "onewire")

SaveOneWire ==
  /\ stage = "onewire"
  /\ Writes([file EXCEPT !.poll = next.poll],
            {[file EXCEPT !.poll = n] : n \in CutNumber(next.poll)}, "mqtt")

CutMqtt(mqtt) ==
  LET noPassword == [mqtt EXCEPT !.password = Empty]
  IN  {[noPassword EXCEPT !.host = t, !.username = Empty] : t \in CutText(mqtt.host)}
      \cup {[noPassword EXCEPT !.username = t] : t \in CutText(mqtt.username)}
      \cup {[mqtt EXCEPT !.password = t] : t \in CutText(mqtt.password)}

SaveMqtt ==
  /\ stage = "mqtt"
  /\ Writes([file EXCEPT !.mqtt = next.mqtt],
            {[file EXCEPT !.mqtt = m] : m \in CutMqtt(next.mqtt)}, "names")

\* A number cut short may be another sensor's.
SaveName ==
  LET number == Len(file.names) + 1
      cut == [id : Devices, name : {Empty}]
             \cup {[next.names[number] EXCEPT !.name = t] : t \in CutText(next.names[number].name)}
  IN  /\ stage = "names" /\ number <= Len(next.names)
      /\ Writes([file EXCEPT !.names = Append(@, next.names[number])],
                {[file EXCEPT !.names = Append(@, n)] : n \in cut}, "names")

\* The end of app_runtime_config_load and init_network_services.
Starts(c) ==
  /\ config' = c
  /\ power' = IF Refused(c) THEN "refused" ELSE "on"

\* What the directory may show until f_sync: an empty file, or still the old one.
Unsynced == {disk, NoContents}

\* f_sync and f_close, whose results are ignored; then the settings are put in
\* force, or loaded.
SaveEnds ==
  /\ stage = "names" /\ Len(file.names) = Len(next.names)
  /\ stage' = "idle"
  /\ \/ disk' = file /\ UNCHANGED faults
     \/ faults < MaxFaults /\ faults' = faults + 1 /\ disk' \in Unsynced
  /\ IF power = "boot"
     THEN Starts(app_config_load(IF disk' = Missing THEN NoContents ELSE disk')) /\ UNCHANGED status
     ELSE /\ config' = next /\ UNCHANGED power
          /\ status' = IF faults' = faults THEN "saved" ELSE "unsynced"
  /\ UNCHANGED <<next, file>>

app_config_save ==
  SaveWifi \/ SaveMac \/ SaveMeasurements \/ SaveOneWire \/ SaveMqtt \/ SaveName \/ SaveEnds

-----------------------------------------------------------------------------
(* The handlers of the pages, each up to its save.                         *)

\* Variant: no look at the password.
RejectedUnlessMqtt(c) ==
  \/ \E t \in {c.mqtt.host, c.mqtt.username, c.mqtt.password} : Broken(t)
  \/ c.mqtt.enabled /\ c.mqtt.host = Empty
  \/ c.mqtt.enabled /\ c.mqtt.password # Empty /\ c.mqtt.username = Empty

\* Checks of app_web_cgi_settings_handler: of the MQTT texts as they are read, the
\* others on the normalised settings.  The Wi-Fi's texts may be broken.
Rejected(c) ==
  \/ \E t \in {c.mqtt.host, c.mqtt.username, c.mqtt.password} : Broken(t)
  \/ c.mqtt.enabled /\ c.mqtt.host = Empty
  \/ c.mqtt.enabled /\ c.mqtt.password # Empty /\ c.mqtt.username = Empty
  \/ c.wifi.security = "wpa2" /\ Length[c.wifi.password.word] < PasswordMin

\* Nothing is saved.
Rejects ==
  /\ stage = "idle" /\ status' = "failed"
  /\ UNCHANGED <<stage, next, file>>

app_web_cgi_settings_handler(form) ==
  LET c == app_config_normalize(
             [config EXCEPT !.wifi = form.wifi, !.retention = form.retention,
                            !.poll = form.poll, !.mqtt = form.mqtt])
  IN  /\ power = "on"
      /\ IF Rejected(c) THEN Rejects ELSE SaveStarts(c) /\ UNCHANGED status
      /\ UNCHANGED <<power, config, disk, faults>>

app_web_cgi_select_handler(mac, enabled) ==
  /\ power = "on"
  /\ IF mac = BadMac \/ (enabled /\ ~CanTrack(config.allowed, mac))
     THEN Rejects
     ELSE /\ SaveStarts([config EXCEPT !.allowed =
                           app_config_set_allowed_mac(@, mac, enabled)])
          /\ UNCHANGED status
  /\ UNCHANGED <<power, config, disk, faults>>

app_web_cgi_name_handler(id, name) ==
  /\ power = "on"
  /\ IF ~CanName(config.names, id, name)
     THEN Rejects
     ELSE /\ SaveStarts([config EXCEPT !.names = app_config_set_device_name(@, id, name)])
          /\ UNCHANGED status
  /\ UNCHANGED <<power, config, disk, faults>>

-----------------------------------------------------------------------------
\* Variant: a file without its first section is an error.
BootStrictly ==
  /\ power = "off"
  /\ disk # Missing => disk.wifi # Absent
  /\ IF disk = Missing
     THEN power' = "boot" /\ SaveStarts(Defaults) /\ UNCHANGED config
     ELSE Starts(app_config_load(disk)) /\ UNCHANGED <<stage, next, file>>
  /\ UNCHANGED <<disk, status, faults>>

\* app_runtime_config_load; without a file the defaults are saved first.
Boot ==
  /\ power = "off"
  /\ IF disk = Missing
     THEN power' = "boot" /\ SaveStarts(Defaults) /\ UNCHANGED config
     ELSE Starts(app_config_load(disk)) /\ UNCHANGED <<stage, next, file>>
  /\ UNCHANGED <<disk, status, faults>>

\* A reset, or a power loss: the memory is lost.
Reset ==
  /\ power # "off" /\ power' = "off"
  /\ IF stage = "idle" THEN UNCHANGED <<disk, faults>>
     ELSE /\ faults < MaxFaults /\ faults' = faults + 1
          /\ disk' \in Unsynced
  /\ config' = Defaults /\ next' = Defaults /\ file' = NoContents
  /\ stage' = "idle" /\ status' = "none"

\* reboot_after_log: nothing helps settings that are refused but another boot.
Reboots == power = "refused" /\ Reset

\* run_usb_mass_storage_mode
UsbEdit ==
  /\ power = "off" /\ disk' \in Edits
  /\ UNCHANGED <<power, config, stage, next, file, status, faults>>

Init ==
  /\ power = "off" /\ config = Defaults /\ disk = Missing
  /\ stage = "idle" /\ next = Defaults /\ file = NoContents
  /\ status = "none" /\ faults = 0

Handlers ==
  \/ \E form \in Forms : app_web_cgi_settings_handler(form)
  \/ \E mac \in Macs \cup {BadMac}, enabled \in BOOLEAN : app_web_cgi_select_handler(mac, enabled)
  \/ \E id \in Devices, name \in Typed : app_web_cgi_name_handler(id, name)

Next == Boot \/ app_config_save \/ Handlers \/ Reset \/ UsbEdit

\* The program runs; nothing is assumed of the users.
Spec ==
  Init /\ [][Next]_vars /\ WF_vars(Boot) /\ WF_vars(app_config_save) /\ WF_vars(Reboots)

-----------------------------------------------------------------------------
\* Types of all the state; lists in force stay within their arrays.
TypeOK ==
  /\ power \in {"off", "boot", "refused", "on"}
  /\ status \in {"none", "saved", "unsynced", "failed"}
  /\ config \in Configs /\ next \in Configs
  /\ Len(config.allowed) <= AllowedMax /\ Len(config.names) <= NamesMax
  /\ disk \in Files \cup {Missing} /\ file \in Files
  /\ stage \in {"idle", "wifi", "allowed", "onewire", "mqtt", "names"}
  /\ faults \in 0 .. MaxFaults

\* No MAC is tracked twice and no sensor has two names, or an empty one.
ListsAreSound ==
  /\ IsInjective(config.allowed)
  /\ \A i, j \in DOMAIN config.names : config.names[i].id = config.names[j].id => i = j
  /\ \A i \in DOMAIN config.names : config.names[i].name # Empty

\* Settings apart from blanks around the MQTT user name and password.
Blankless(c) == [c EXCEPT !.mqtt = LoadMqtt(@)]

\* "Saved to config.ini": what is in force then is what the next boot loads,
\* however it was put together from pages, files and earlier saves, unless the
\* disk failed at the end or a line feed was typed into a name or a password
\* (app_config_save, app_config_load).
SavedSurvivesReboot ==
  status = "saved" /\ stage = "idle" /\ ~BrokenWifi(config.wifi) =>
    app_config_load(disk) = Blankless(config)

\* Every boot with the file on the disk will be refused.
LockedOut == disk # Missing /\ Refused(app_config_load(disk))

\* "password: ... at least 8 characters for wpa2": no page and no save gets a file
\* onto the disk with which the device cannot start; but an edit by hand can,
\* or a first line that is cut in the password, or a line feed in a name or a
\* password (app_web_cgi_settings_handler, init_network_services).
OnlyCutsLockOut ==
  [][ ~LockedOut /\ LockedOut' =>
        \/ power = "off"
        \/ stage = "wifi" /\ faults' # faults
        \/ BrokenWifi(next.wifi) ]_vars

\* Whatever an interrupted save left of the file, the device gets to its network
\* again, unless the file makes it refuse to (app_config_load).
Boots == power = "off" ~> power = "on" \/ LockedOut

\* While no save is under way, a reset loads the settings that are in force,
\* as long as no save met a full disk or a power loss.
InForceIsStored ==
  power = "on" /\ stage = "idle" /\ faults = 0 => app_config_load(disk) = Blankless(config)
=============================================================================
