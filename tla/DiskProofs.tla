----------------------------- MODULE DiskProofs -----------------------------
(***************************************************************************)
(* What is on the disk: the settings, and the log.                         *)
(*                                                                         *)
(* The settings in force are in range, whatever was typed, edited by hand  *)
(* or left of an interrupted save.  Settings come into force in two ways:  *)
(* a file is loaded, which normalises them, or a save ends, which began    *)
(* with normal settings and changed nothing of them on its way.  What the  *)
(* file holds is therefore only required to have values of the right kind. *)
(* No save that is complete in its first section gets settings onto the    *)
(* disk that the device refuses to start with, as none begins with such.   *)
(*                                                                         *)
(* For the lists of MACs and of names the same is shown apart, as loading  *)
(* folds them together from what the file holds.                           *)
(***************************************************************************)
EXTENDS Settings, LogFiles, SequenceTheorems, WellFoundedInduction, TLAPS

\* Settings and the contents of a file whose values are of the right kind.
Shaped(c) ==
  c \in [wifi : Wifi, allowed : {c.allowed}, retention : Int, poll : Int, mqtt : Mqtts,
         names : {c.names}]
FileShaped(f) ==
  f \in [wifi : Wifi \cup {Absent}, allowed : {f.allowed}, retention : Int \cup {Absent},
         poll : Int \cup {Absent}, mqtt : Mqtts \cup {Absent}, names : {f.names}]

\* What app_config_normalize makes of settings.
Normal(c) ==
  /\ Shaped(c)
  /\ c.retention \in RetentionMin .. RetentionMax /\ c.poll \in PollMin .. PollMax
  /\ c.wifi.ssid # Empty
  /\ c.wifi.security = "open" => c.wifi.password = Empty
  /\ ~c.wifi.ssid.padded /\ ~c.wifi.password.padded /\ ~c.mqtt.host.padded

SettingsInv ==
  /\ Normal(config) /\ Normal(next)
  /\ FileShaped(file) /\ (disk # Missing => FileShaped(disk))

-----------------------------------------------------------------------------
(* The rules.                                                              *)

\* A trimmed text has no blanks around it.
LEMMA TrimIs ==
  ASSUME NEW text \in Texts
  PROVE  Trim(text) \in Texts /\ ~Trim(text).padded
  BY DEF Texts, Trim

\* The empty text is one, without blanks.
LEMMA EmptyIs == Empty \in Texts /\ ~Empty.padded
  BY SettingsAssumption DEF Empty, Texts

\* A number is put in range.
LEMMA ClampIs ==
  ASSUME NEW n \in Int, NEW min \in Nat, NEW max \in Nat, min <= max
  PROVE  Clamp(n, min, max) \in min .. max
  BY DEF Clamp

\* The ranges are not empty.
LEMMA Ranges ==
  /\ RetentionMin \in Nat /\ RetentionMax \in Nat /\ RetentionMin <= RetentionMax
  /\ PollMin \in Nat /\ PollMax \in Nat /\ PollMin <= PollMax
  /\ RetentionDefault \in RetentionMin .. RetentionMax /\ PollDefault \in PollMin .. PollMax
  BY SettingsAssumption

\* The name of the network that the defaults have.
LEMMA DefaultSsidIs ==
  /\ Defaults.wifi.ssid \in Texts /\ Defaults.wifi.ssid # Empty /\ ~Defaults.wifi.ssid.padded
  BY SettingsAssumption DEF Defaults, Texts, Empty

\* The defaults are normal.
LEMMA DefaultsAreNormal == Normal(Defaults)
<1>1. Defaults.wifi \in Wifi /\ Defaults.mqtt \in Mqtts
  BY EmptyIs, DefaultSsidIs DEF Defaults, Wifi, Mqtts
<1>2. Shaped(Defaults)
  BY <1>1, Ranges DEF Defaults, Shaped
<1>3. /\ Defaults.wifi.security = "open" /\ Defaults.wifi.password = Empty
      /\ Defaults.mqtt.host = Empty
      /\ Defaults.retention = RetentionDefault /\ Defaults.poll = PollDefault
  BY DEF Defaults
<1> QED
  BY <1>2, <1>3, Ranges, EmptyIs, DefaultSsidIs DEF Normal

\* app_config_normalize makes them normal.
LEMMA NormalizeIs ==
  ASSUME NEW c, Shaped(c)
  PROVE  Normal(app_config_normalize(c))
<1> DEFINE ssid == IF Trim(c.wifi.ssid) = Empty THEN Defaults.wifi.ssid ELSE Trim(c.wifi.ssid)
           password == IF c.wifi.security = "open" THEN Empty ELSE Trim(c.wifi.password)
           retention == Clamp(c.retention, RetentionMin, RetentionMax)
           poll == Clamp(c.poll, PollMin, PollMax)
           host == Trim(c.mqtt.host)
           d == [c EXCEPT !.wifi.ssid = ssid, !.wifi.password = password,
                          !.retention = retention, !.poll = poll, !.mqtt.host = host]
<1>1. /\ c.wifi \in Wifi /\ c.mqtt \in Mqtts /\ c.retention \in Int /\ c.poll \in Int
      /\ c.wifi.ssid \in Texts /\ c.wifi.password \in Texts /\ c.mqtt.host \in Texts
  BY DEF Shaped, Wifi, Mqtts
<1>2. ssid \in Texts /\ ssid # Empty /\ ~ssid.padded
  BY <1>1, TrimIs, DefaultSsidIs
<1>3. /\ password \in Texts /\ ~password.padded
      /\ c.wifi.security = "open" => password = Empty
  BY <1>1, TrimIs, EmptyIs
<1>4. host \in Texts /\ ~host.padded
  BY <1>1, TrimIs
<1>5. retention \in RetentionMin .. RetentionMax /\ poll \in PollMin .. PollMax
  BY <1>1, Ranges, ClampIs
<1>6. app_config_normalize(c) = d
  BY DEF app_config_normalize
<1> HIDE DEF ssid, password, retention, poll, host
<1>7. /\ d.wifi = [c.wifi EXCEPT !.ssid = ssid, !.password = password]
      /\ d.mqtt = [c.mqtt EXCEPT !.host = host]
      /\ d.retention = retention /\ d.poll = poll
      /\ d.allowed = c.allowed /\ d.names = c.names
  BY DEF Shaped
<1>8. /\ d.wifi \in Wifi /\ d.mqtt \in Mqtts /\ d.wifi.ssid = ssid /\ d.wifi.password = password
      /\ d.wifi.security = c.wifi.security /\ d.mqtt.host = host
  <2> HIDE DEF d
  <2>1. d.wifi \in Wifi /\ d.wifi.ssid = ssid /\ d.wifi.password = password
        /\ d.wifi.security = c.wifi.security
    BY <1>1, <1>2, <1>3, <1>7 DEF Wifi
  <2>2. d.mqtt \in Mqtts /\ d.mqtt.host = host
    BY <1>1, <1>4, <1>7 DEF Mqtts
  <2> QED BY <2>1, <2>2
<1>9. Shaped(d)
  <2>1. retention \in Int /\ poll \in Int
    BY <1>5, Ranges
  <2> QED BY <1>7, <1>8, <2>1 DEF Shaped
<1> HIDE DEF d
<1> QED
  BY <1>2, <1>3, <1>4, <1>5, <1>6, <1>7, <1>8, <1>9 DEF Normal

\* So a file that is loaded gives normal settings.
LEMMA LoadIs ==
  ASSUME NEW f, FileShaped(f)
  PROVE  Normal(app_config_load(f))
<1> DEFINE c == [wifi |-> Get(f.wifi, Defaults.wifi),
                 allowed |-> LoadMacs(f.allowed),
                 retention |-> Get(f.retention, RetentionDefault),
                 poll |-> Get(f.poll, PollDefault),
                 mqtt |-> LoadMqtt(Get(f.mqtt, Defaults.mqtt)),
                 names |-> LoadNames(f.names)]
<1>1. Defaults.wifi \in Wifi /\ Defaults.mqtt \in Mqtts /\ RetentionDefault \in Int /\ PollDefault \in Int
  BY DefaultsAreNormal, Ranges DEF Normal, Shaped
<1>2. Get(f.wifi, Defaults.wifi) \in Wifi /\ Get(f.mqtt, Defaults.mqtt) \in Mqtts
  BY <1>1 DEF Get, FileShaped
<1>3. Get(f.retention, RetentionDefault) \in Int /\ Get(f.poll, PollDefault) \in Int
  BY <1>1 DEF Get, FileShaped
<1>4. ASSUME NEW m \in Mqtts PROVE LoadMqtt(m) \in Mqtts
  BY TrimIs DEF LoadMqtt, Mqtts
<1>5. Shaped(c)
  BY <1>2, <1>3, <1>4 DEF Shaped
<1>6. app_config_load(f) = app_config_normalize(c)
  BY DEF app_config_load
<1> HIDE DEF c
<1> QED
  BY <1>5, <1>6, NormalizeIs

\* Another list leaves settings normal.
LEMMA ListsDoNotMatter ==
  ASSUME NEW c, Normal(c), NEW l
  PROVE  Normal([c EXCEPT !.allowed = l]) /\ Normal([c EXCEPT !.names = l])
  BY DEF Normal, Shaped

-----------------------------------------------------------------------------
(* The writes of a save.                                                   *)

\* What a save that fails leaves has values of the right kind, and changes no
\* settings.
LEMMA FailureKeeps ==
  ASSUME SettingsInv, NEW left, FileShaped(left), SaveFails(left)
  PROVE  SettingsInv'
  BY DEF SettingsInv, SaveFails

\* So does a line, whole or cut short.
LEMMA WritesKeep ==
  ASSUME SettingsInv, NEW contents, FileShaped(contents), NEW cut,
         \A left \in cut : FileShaped(left), NEW following, Writes(contents, cut, following)
  PROVE  SettingsInv'
<1>1. CASE file' = contents /\ UNCHANGED <<config, disk, next>>
  BY <1>1 DEF SettingsInv
<1>2. ASSUME NEW left \in cut \cup {file}, SaveFails(left) PROVE SettingsInv'
  BY <1>2, FailureKeeps DEF SettingsInv
<1> QED BY <1>1, <1>2 DEF Writes

\* A text cut short is a text.
LEMMA CutTextIs == \A text : CutText(text) \subseteq Texts
  BY DEF CutText, Texts

\* What is found of the Wi-Fi is of its kind, and the Wi-Fi itself if no line feed
\* breaks it.
LEMMA FoundIs ==
  ASSUME NEW wifi \in Wifi
  PROVE  /\ Found(wifi) \subseteq Wifi
         /\ ~BrokenWifi(wifi) => Found(wifi) = {wifi}
<1> DEFINE first(text) == [text EXCEPT !.word = FirstLine[text.word]]
           lines == [word : {w \in Words : FirstLine[w] = w}, padded : {FALSE}]
           name == {first(wifi.ssid)}
<1>1. ASSUME NEW t \in Texts
      PROVE  first(t) \in Texts /\ (~Broken(t) => first(t) = t)
  BY SettingsAssumption DEF Texts, Broken
<1>2. wifi.ssid \in Texts /\ wifi.password \in Texts /\ wifi.security \in {"open", "wpa2"}
  BY DEF Wifi
<1>3. lines \subseteq Texts /\ name \subseteq Texts
  BY <1>1, <1>2 DEF Texts
<1>4. CASE Broken(wifi.ssid)
  <2>1. Found(wifi) = [ssid : name, security : {"open"}, password : {Empty}]
                      \cup [ssid : name, security : {"wpa2"}, password : lines]
    BY <1>4 DEF Found
  <2> HIDE DEF name, lines
  <2>2. Found(wifi) \subseteq Wifi
    BY <1>3, <2>1, EmptyIs DEF Wifi
  <2> QED BY <1>4, <2>2 DEF BrokenWifi
<1>5. CASE ~Broken(wifi.ssid)
  <2>1. Found(wifi) = {[wifi EXCEPT !.password = first(wifi.password)]}
    BY <1>5 DEF Found
  <2>2. first(wifi.password) \in Texts /\ (~BrokenWifi(wifi) => first(wifi.password) = wifi.password)
    BY <1>1, <1>2 DEF BrokenWifi
  <2> HIDE DEF first
  <2> QED BY <2>1, <2>2 DEF Wifi
<1> QED BY <1>4, <1>5

\* What is left of it when it is cut short is of its kind, too.
LEMMA CutWifiIs == ASSUME NEW wifi \in Wifi PROVE CutWifi(wifi) \subseteq Wifi
<1>1. wifi.ssid \in Texts
  BY DEF Wifi
<1>2. ASSUME NEW t \in Texts
      PROVE  /\ [ssid |-> t, security |-> "open", password |-> Empty] \in Wifi
             /\ [wifi EXCEPT !.password = t] \in Wifi
  BY EmptyIs DEF Wifi
<1> QED BY <1>1, <1>2, CutTextIs DEF CutWifi

\* What is left of the MQTT settings is, too.
LEMMA CutMqttIs == ASSUME NEW mqtt \in Mqtts PROVE CutMqtt(mqtt) \subseteq Mqtts
<1> DEFINE noPassword == [mqtt EXCEPT !.password = Empty]
<1>1. ASSUME NEW t \in Texts
      PROVE  /\ [noPassword EXCEPT !.host = t, !.username = Empty] \in Mqtts
             /\ [noPassword EXCEPT !.username = t] \in Mqtts
             /\ [mqtt EXCEPT !.password = t] \in Mqtts
  BY EmptyIs DEF Mqtts
<1> HIDE DEF noPassword
<1> QED BY <1>1, CutTextIs DEF CutMqtt, noPassword

\* A section of a file with another value of its kind.
LEMMA Sections ==
  ASSUME NEW f, FileShaped(f)
  PROVE  /\ \A w \in Wifi : FileShaped([f EXCEPT !.wifi = w])
         /\ \A n \in Int : FileShaped([f EXCEPT !.retention = n]) /\ FileShaped([f EXCEPT !.poll = n])
         /\ \A m \in Mqtts : FileShaped([f EXCEPT !.mqtt = m])
         /\ \A l : FileShaped([f EXCEPT !.allowed = l]) /\ FileShaped([f EXCEPT !.names = l])
  BY DEF FileShaped

\* An empty file.
LEMMA NoContentsIs == FileShaped(NoContents)
  BY DEF FileShaped, NoContents

\* The lines of a save.
LEMMA SaveKeeps == ASSUME SettingsInv, app_config_save PROVE SettingsInv'
<1>1. FileShaped(file) /\ Shaped(next)
  BY DEF SettingsInv, Normal
<1>2. /\ next.wifi \in Wifi /\ next.mqtt \in Mqtts /\ next.retention \in Int /\ next.poll \in Int
  BY <1>1 DEF Shaped
<1>3. ASSUME SaveWifi PROVE SettingsInv'
  <2>1. CASE SaveFails(file)
    BY <1>1, <2>1, FailureKeeps
  <2>2. ASSUME NEW f \in Found(next.wifi),
               Writes([file EXCEPT !.wifi = f], {[file EXCEPT !.wifi = w] : w \in CutWifi(f)}, "allowed")
        PROVE  SettingsInv'
    <3> DEFINE contents == [file EXCEPT !.wifi = f]
               lefts == {[file EXCEPT !.wifi = w] : w \in CutWifi(f)}
    <3>1. f \in Wifi /\ CutWifi(f) \subseteq Wifi
      BY <1>2, FoundIs, CutWifiIs
    <3>2. FileShaped(contents) /\ \A left \in lefts : FileShaped(left)
      BY <1>1, <3>1, Sections
    <3>3. Writes(contents, lefts, "allowed")
      BY <2>2
    <3> HIDE DEF contents, lefts
    <3> QED BY <3>2, <3>3, WritesKeep
  <2> QED BY <1>3, <2>1, <2>2 DEF SaveWifi
<1>4. ASSUME SaveMac PROVE SettingsInv'
  <2> DEFINE line == next.allowed[Len(file.allowed) + 1]
             contents == [file EXCEPT !.allowed = Append(file.allowed, line)]
             lefts == {[file EXCEPT !.allowed = Append(file.allowed, BadMac)]}
  <2>1. Writes(contents, lefts, "allowed")
    BY <1>4 DEF SaveMac
  <2>2. FileShaped(contents) /\ \A left \in lefts : FileShaped(left)
    <3>1. \A l : FileShaped([file EXCEPT !.allowed = l])
      BY <1>1, Sections
    <3> QED BY <3>1
  <2> HIDE DEF contents, lefts
  <2> QED BY <2>1, <2>2, WritesKeep
<1>5. ASSUME SaveMeasurements PROVE SettingsInv'
  <2> DEFINE contents == [file EXCEPT !.retention = next.retention]
             lefts == {[file EXCEPT !.retention = n] : n \in CutNumber(next.retention)}
  <2>1. Writes(contents, lefts, "onewire")
    BY <1>5 DEF SaveMeasurements
  <2>2. CutNumber(next.retention) \subseteq Int
    BY <1>2 DEF CutNumber
  <2>3. FileShaped(contents) /\ \A left \in lefts : FileShaped(left)
    <3>1. \A n \in Int : FileShaped([file EXCEPT !.retention = n])
      BY <1>1, Sections
    <3> QED BY <1>2, <2>2, <3>1
  <2> HIDE DEF contents, lefts
  <2> QED BY <2>1, <2>3, WritesKeep
<1>6. ASSUME SaveOneWire PROVE SettingsInv'
  <2> DEFINE contents == [file EXCEPT !.poll = next.poll]
             lefts == {[file EXCEPT !.poll = n] : n \in CutNumber(next.poll)}
  <2>1. Writes(contents, lefts, "mqtt")
    BY <1>6 DEF SaveOneWire
  <2>2. CutNumber(next.poll) \subseteq Int
    BY <1>2 DEF CutNumber
  <2>3. FileShaped(contents) /\ \A left \in lefts : FileShaped(left)
    <3>1. \A n \in Int : FileShaped([file EXCEPT !.poll = n])
      BY <1>1, Sections
    <3> QED BY <1>2, <2>2, <3>1
  <2> HIDE DEF contents, lefts
  <2> QED BY <2>1, <2>3, WritesKeep
<1>7. ASSUME SaveMqtt PROVE SettingsInv'
  <2> DEFINE contents == [file EXCEPT !.mqtt = next.mqtt]
             lefts == {[file EXCEPT !.mqtt = m] : m \in CutMqtt(next.mqtt)}
  <2>1. Writes(contents, lefts, "names")
    BY <1>7 DEF SaveMqtt
  <2>2. FileShaped(contents) /\ \A left \in lefts : FileShaped(left)
    BY <1>1, <1>2, CutMqttIs, Sections
  <2> HIDE DEF contents, lefts
  <2> QED BY <2>1, <2>2, WritesKeep
<1>8. ASSUME SaveName PROVE SettingsInv'
  <2> DEFINE line == next.names[Len(file.names) + 1]
             cut == [id : Devices, name : {Empty}]
                    \cup {[line EXCEPT !.name = t] : t \in CutText(line.name)}
             contents == [file EXCEPT !.names = Append(file.names, line)]
             lefts == {[file EXCEPT !.names = Append(file.names, n)] : n \in cut}
  <2>1. Writes(contents, lefts, "names")
    BY <1>8 DEF SaveName
  <2> HIDE DEF line, cut
  <2>2. FileShaped(contents) /\ \A left \in lefts : FileShaped(left)
    <3>1. \A l : FileShaped([file EXCEPT !.names = l])
      BY <1>1, Sections
    <3> QED BY <3>1
  <2> HIDE DEF contents, lefts
  <2> QED BY <2>1, <2>2, WritesKeep
<1>9. ASSUME SaveEnds PROVE SettingsInv'
  <2>1. /\ disk' \in {file, disk, NoContents} /\ UNCHANGED <<next, file>>
        /\ config' \in {next, app_config_load(IF disk' = Missing THEN NoContents ELSE disk')}
    BY <1>9 DEF SaveEnds, Unsynced, Starts
  <2>2. disk' # Missing => FileShaped(disk')
    BY <1>1, <2>1, NoContentsIs DEF SettingsInv
  <2>3. Normal(config')
    BY <2>1, <2>2, LoadIs, NoContentsIs DEF SettingsInv
  <2> QED BY <2>1, <2>2, <2>3 DEF SettingsInv
<1> QED
  BY <1>3, <1>4, <1>5, <1>6, <1>7, <1>8, <1>9 DEF app_config_save

-----------------------------------------------------------------------------
(* The rest of the program.                                                *)

\* A save starts with normal settings.
LEMMA StartKeeps ==
  ASSUME SettingsInv, NEW c, Normal(c), SaveStarts(c), UNCHANGED <<config, disk>>
  PROVE  SettingsInv'
  BY NoContentsIs DEF SettingsInv, SaveStarts

\* The handlers start saves with settings made from those in force.
LEMMA HandlersKeep == ASSUME SettingsInv, Handlers PROVE SettingsInv'
<1>1. CASE UNCHANGED <<config, disk, next, file>>
  BY <1>1 DEF SettingsInv
<1>2. ASSUME NEW form \in Forms, app_web_cgi_settings_handler(form) PROVE SettingsInv'
  <2> DEFINE d == [config EXCEPT !.wifi = form.wifi, !.retention = form.retention,
                                 !.poll = form.poll, !.mqtt = form.mqtt]
  <2>1. form.wifi \in Wifi /\ form.retention \in Int /\ form.poll \in Int /\ form.mqtt \in Mqtts
    BY SettingsAssumption
  <2>2. Shaped(d)
    BY <2>1 DEF SettingsInv, Normal, Shaped
  <2>3. \/ Rejects /\ UNCHANGED <<config, disk>>
        \/ SaveStarts(app_config_normalize(d)) /\ UNCHANGED <<config, disk>>
    BY <1>2 DEF app_web_cgi_settings_handler
  <2> HIDE DEF d
  <2> QED BY <1>1, <2>2, <2>3, NormalizeIs, StartKeeps DEF Rejects
<1>3. ASSUME NEW mac, NEW enabled, app_web_cgi_select_handler(mac, enabled) PROVE SettingsInv'
  <2> DEFINE l == app_config_set_allowed_mac(config.allowed, mac, enabled)
  <2>1. \/ Rejects /\ UNCHANGED <<config, disk>>
        \/ SaveStarts([config EXCEPT !.allowed = l]) /\ UNCHANGED <<config, disk>>
    BY <1>3 DEF app_web_cgi_select_handler
  <2> HIDE DEF l
  <2>2. Normal([config EXCEPT !.allowed = l])
    BY ListsDoNotMatter DEF SettingsInv
  <2> QED BY <1>1, <2>1, <2>2, StartKeeps DEF Rejects
<1>4. ASSUME NEW id, NEW name, app_web_cgi_name_handler(id, name) PROVE SettingsInv'
  <2> DEFINE l == app_config_set_device_name(config.names, id, name)
  <2>1. \/ Rejects /\ UNCHANGED <<config, disk>>
        \/ SaveStarts([config EXCEPT !.names = l]) /\ UNCHANGED <<config, disk>>
    BY <1>4 DEF app_web_cgi_name_handler
  <2> HIDE DEF l
  <2>2. Normal([config EXCEPT !.names = l])
    BY ListsDoNotMatter DEF SettingsInv
  <2> QED BY <1>1, <2>1, <2>2, StartKeeps DEF Rejects
<1> QED
  BY <1>2, <1>3, <1>4 DEF Handlers

\* The device is delivered without a file.
LEMMA SettingsInit == Init => SettingsInv
  BY DefaultsAreNormal, NoContentsIs DEF Init, SettingsInv

\* Every step keeps the invariant.
LEMMA SettingsStep == SettingsInv /\ [Next]_vars => SettingsInv'
<1> SUFFICES ASSUME SettingsInv, [Next]_vars PROVE SettingsInv'
  OBVIOUS
<1>1. CASE UNCHANGED vars
  BY <1>1 DEF SettingsInv, vars
<1>2. CASE Boot
  <2>1. CASE disk = Missing
    BY <1>2, <2>1, DefaultsAreNormal, StartKeeps DEF Boot
  <2>2. CASE disk # Missing
    <3>1. config' = app_config_load(disk) /\ UNCHANGED <<next, file, disk>>
      BY <1>2, <2>2 DEF Boot, Starts
    <3>2. Normal(config')
      BY <2>2, <3>1, LoadIs DEF SettingsInv
    <3> QED BY <3>1, <3>2 DEF SettingsInv
  <2> QED BY <2>1, <2>2
<1>3. CASE Reset
  BY <1>3, DefaultsAreNormal, NoContentsIs DEF Reset, Unsynced, SettingsInv
<1>4. CASE UsbEdit
  <2>1. \A f \in Files : FileShaped(f)
    BY DEF Files, FileShaped
  <2>2. FileShaped(disk')
    BY <1>4, <2>1, SettingsAssumption DEF UsbEdit
  <2> QED BY <1>4, <2>2 DEF UsbEdit, SettingsInv
<1> QED
  BY <1>1, <1>2, <1>3, <1>4, SaveKeeps, HandlersKeep DEF Next

-----------------------------------------------------------------------------
(* Lists that are computed step by step.                                    *)

\* Min finds the least of some numbers.
LEMMA LeastIs ==
  ASSUME NEW T, T \subseteq Nat, T # {}
  PROVE  Min(T) \in T /\ \A y \in T : Min(T) <= y
<1>1. PICK x \in T : \A y \in T : ~(<<y, x>> \in OpToRel(<, Nat))
  BY NatLessThanWellFounded, WFMin
<1>2. ASSUME NEW y \in T PROVE x <= y
  <2>1. <<y, x>> \in Nat \X Nat /\ <<y, x>> \notin OpToRel(<, Nat)
    BY <1>1
  <2>2. ~(y < x)
    BY <2>1 DEF OpToRel
  <2> QED BY <2>2
<1>3. \E z \in T : \A y \in T : z =< y
  BY <1>2
<1> QED BY <1>3 DEF Min

\* What holds at zero and passes on from each number to the next holds up to n.
LEMMA Induction ==
  ASSUME NEW n \in Nat, NEW T, 0 \in T, \A k \in 1 .. n : k - 1 \in T => k \in T
  PROVE  \A k \in 0 .. n : k \in T
<1> SUFFICES ASSUME NEW k \in 0 .. n, k \notin T PROVE FALSE
  OBVIOUS
<1> DEFINE out == {i \in 0 .. n : i \notin T}
           least == Min(out)
<1>1. least \in out /\ \A i \in out : least <= i
  <2>1. out \subseteq Nat /\ out # {}
    OBVIOUS
  <2> QED BY <2>1, LeastIs
<1> HIDE DEF least
<1>2. least \in 1 .. n /\ least - 1 \in T
  BY <1>1
<1> QED
  BY <1>1, <1>2

\* What is computed step by step from base.
Computed(f, n, S, base, step) ==
  /\ f \in [0 .. n -> S]
  /\ f[0] = base /\ \A k \in 1 .. n : f[k] = step[<<f[k - 1], k>>]

\* It exists.
LEMMA Recursion ==
  ASSUME NEW n \in Nat, NEW S, NEW base \in S, NEW step \in [S \X (1 .. n) -> S]
  PROVE  \E f : Computed(f, n, S, base, step)
<1> DEFINE T == {m \in 0 .. n :
                   \E f \in [0 .. m -> S] :
                     f[0] = base /\ \A k \in 1 .. m : f[k] = step[<<f[k - 1], k>>]}
<1>1. 0 \in T
  <2>1. [k \in 0 .. 0 |-> base] \in [0 .. 0 -> S] /\ [k \in 0 .. 0 |-> base][0] = base
    OBVIOUS
  <2>2. 0 \in 0 .. n /\ 1 .. 0 = {}
    OBVIOUS
  <2> QED BY <2>1, <2>2
<1>2. ASSUME NEW m \in 1 .. n, m - 1 \in T PROVE m \in T
  <2>1. PICK f \in [0 .. m - 1 -> S] :
          f[0] = base /\ \A k \in 1 .. m - 1 : f[k] = step[<<f[k - 1], k>>]
    BY <1>2
  <2> DEFINE g == [k \in 0 .. m |-> IF k = m THEN step[<<f[m - 1], m>>] ELSE f[k]]
  <2>2. m - 1 \in 0 .. m - 1 /\ m \in Nat
    OBVIOUS
  <2>3. f[m - 1] \in S /\ step[<<f[m - 1], m>>] \in S
    BY <2>2
  <2>4. \A k \in 0 .. m : k = m \/ k \in 0 .. m - 1
    OBVIOUS
  <2>5. g \in [0 .. m -> S]
    BY <2>3, <2>4
  <2>6. g[0] = base
    BY <2>1
  <2>7. ASSUME NEW k \in 1 .. m PROVE g[k] = step[<<g[k - 1], k>>]
    <3>1. k - 1 \in 0 .. m /\ k - 1 # m /\ g[k - 1] = f[k - 1] /\ k \in 0 .. m
      OBVIOUS
    <3>2. CASE k = m
      BY <3>1, <3>2
    <3>3. CASE k # m
      <4>1. k \in 1 .. m - 1 /\ g[k] = f[k]
        BY <3>3
      <4> HIDE DEF g
      <4> QED BY <2>1, <3>1, <4>1
    <3> QED BY <3>2, <3>3
  <2> HIDE DEF g
  <2> QED BY <2>5, <2>6, <2>7
<1> HIDE DEF T
<1>3. n \in T
  <2>1. \A k \in 0 .. n : k \in T
    BY <1>1, <1>2, Induction
  <2> QED BY <2>1
<1> QED BY <1>3 DEF T, Computed

\* Without its p-th element.
LEMMA RemoveAtIs ==
  ASSUME NEW S, NEW s \in Seq(S), NEW p \in 1 .. Len(s)
  PROVE  /\ RemoveAt(s, p) \in Seq(S) /\ Len(RemoveAt(s, p)) = Len(s) - 1
         /\ \A k \in 1 .. Len(s) - 1 : RemoveAt(s, p)[k] = IF k < p THEN s[k] ELSE s[k + 1]
<1> DEFINE a == SubSeq(s, 1, p - 1)
           b == SubSeq(s, p + 1, Len(s))
           r == a \o b
<1>0. Len(s) \in Nat
  OBVIOUS
<1>1. a \in Seq(S) /\ Len(a) = p - 1 /\ \A k \in 1 .. p - 1 : a[k] = s[k]
  BY <1>0
<1>2. b \in Seq(S) /\ Len(b) = Len(s) - p /\ \A k \in 1 .. Len(s) - p : b[k] = s[p + k]
  BY <1>0
<1>3. RemoveAt(s, p) = r
  BY DEF RemoveAt
<1> HIDE DEF a, b
<1>4. /\ r \in Seq(S) /\ Len(r) = Len(a) + Len(b)
      /\ \A k \in 1 .. Len(a) + Len(b) : r[k] = IF k <= Len(a) THEN a[k] ELSE b[k - Len(a)]
  <2>0. a \in Seq(S) /\ b \in Seq(S)
    BY <1>1, <1>2
  <2>1. Len(r) = Len(a) + Len(b) /\ r \in Seq(S)
    BY <2>0, ConcatProperties
  <2>2. ASSUME NEW k \in 1 .. Len(a) + Len(b)
        PROVE  r[k] = IF k <= Len(a) THEN a[k] ELSE b[k - Len(a)]
    BY <1>1, <1>2
  <2> QED BY <2>1, <2>2
<1> HIDE DEF r
<1>5. ASSUME NEW k \in 1 .. Len(s) - 1, k <= p - 1 PROVE r[k] = s[k]
  <2>1. k \in 1 .. Len(a) + Len(b) /\ k <= Len(a) /\ k \in 1 .. p - 1
    BY <1>0, <1>1, <1>2, <1>5
  <2> QED BY <1>1, <1>4, <2>1
<1>6. ASSUME NEW k \in 1 .. Len(s) - 1, ~(k <= p - 1) PROVE r[k] = s[k + 1]
  <2>1. k - (p - 1) \in 1 .. Len(s) - p /\ p + (k - (p - 1)) = k + 1
    BY <1>0, <1>6
  <2>2. r[k] = b[k - (p - 1)]
    <3>1. /\ Len(a) = p - 1
          /\ k \in 1 .. Len(a) + Len(b) /\ ~(k <= Len(a))
      BY <1>0, <1>1, <1>2, <1>6
    <3>2. r[k] = b[k - Len(a)]
      BY <1>4, <3>1
    <3> QED BY <3>1, <3>2
  <2> QED BY <1>2, <2>1, <2>2
<1>7. Len(r) = Len(s) - 1
  BY <1>0, <1>1, <1>2, <1>4
<1>8. \A k \in 1 .. Len(s) - 1 : r[k] = IF k < p THEN s[k] ELSE s[k + 1]
  <2>1. \A k \in 1 .. Len(s) - 1 : k < p <=> k <= p - 1
    BY <1>0
  <2> QED BY <1>5, <1>6, <2>1
<1> QED BY <1>3, <1>4, <1>7, <1>8

-----------------------------------------------------------------------------
(* The lists of MACs and of names.                                         *)

\* No MAC twice, and no sensor with two names or an empty one.
MacLists == {l \in Seq(Macs) : Len(l) <= AllowedMax /\ IsInjective(l)}
NameLists ==
  {l \in Seq(Names) :
     /\ Len(l) <= NamesMax
     /\ \A i, j \in DOMAIN l : l[i].id = l[j].id => i = j
     /\ \A i \in DOMAIN l : l[i].name # Empty /\ ~l[i].name.padded}

\* app_config_set_allowed_mac keeps a list sound.
LEMMA SetMacIs ==
  ASSUME NEW l \in MacLists, NEW mac \in Macs, NEW enabled \in BOOLEAN
  PROVE  app_config_set_allowed_mac(l, mac, enabled) \in MacLists
<1> DEFINE r == app_config_set_allowed_mac(l, mac, enabled)
<1> SUFFICES r \in MacLists
  OBVIOUS
<1>1. l \in Seq(Macs) /\ Len(l) \in Nat /\ Len(l) <= AllowedMax /\ AllowedMax \in Nat
      /\ DOMAIN l = 1 .. Len(l)
      /\ \A i, j \in 1 .. Len(l) : l[i] = l[j] => i = j
  BY SettingsAssumption DEF MacLists, IsInjective
<1>2. CASE r = l
  BY <1>2
<1>3. CASE r = Append(l, mac) /\ mac \notin ToSet(l) /\ CanTrack(l, mac)
  <2>1. Len(l) < AllowedMax
    BY <1>3 DEF CanTrack
  <2>2. \A i \in 1 .. Len(l) : l[i] # mac
    BY <1>1, <1>3 DEF ToSet
  <2>3. /\ r \in Seq(Macs) /\ Len(r) = Len(l) + 1
        /\ \A i \in 1 .. Len(l) + 1 : r[i] = IF i <= Len(l) THEN l[i] ELSE mac
    BY <1>1, <1>3
  <2> HIDE DEF r
  <2>4. DOMAIN r = 1 .. Len(l) + 1
    BY <2>3
  <2>5. ASSUME NEW i \in 1 .. Len(l) + 1, NEW j \in 1 .. Len(l) + 1, r[i] = r[j] PROVE i = j
    BY <1>1, <2>2, <2>3, <2>5
  <2> QED BY <1>1, <2>1, <2>3, <2>4, <2>5 DEF MacLists, IsInjective
<1>4. CASE r = RemoveFirst(l, mac) /\ \E i \in 1 .. Len(l) : l[i] = mac
  <2> DEFINE places == {i \in 1 .. Len(l) : l[i] = mac}
             p == Min(places)
  <2>1. places \subseteq Nat /\ places # {}
    BY <1>1, <1>4
  <2>2. p \in places
    BY <2>1, LeastIs
  <2>3. r = RemoveAt(l, p)
    BY <1>4, <2>1 DEF RemoveFirst, SelectInSeq
  <2>4. p \in 1 .. Len(l)
    BY <2>2
  <2> HIDE DEF p, r
  <2>5. /\ r \in Seq(Macs) /\ Len(r) = Len(l) - 1
        /\ \A k \in 1 .. Len(l) - 1 : r[k] = IF k < p THEN l[k] ELSE l[k + 1]
    BY <1>1, <2>3, <2>4, RemoveAtIs
  <2>6. DOMAIN r = 1 .. Len(l) - 1
    BY <2>5
  <2>7. ASSUME NEW i \in 1 .. Len(l) - 1, NEW j \in 1 .. Len(l) - 1, r[i] = r[j] PROVE i = j
    <3> DEFINE from(k) == IF k < p THEN k ELSE k + 1
    <3>1. r[i] = l[from(i)] /\ r[j] = l[from(j)] /\ from(i) \in 1 .. Len(l) /\ from(j) \in 1 .. Len(l)
      BY <1>1, <2>4, <2>5
    <3>2. from(i) = from(j)
      BY <1>1, <2>7, <3>1
    <3> QED BY <1>1, <2>4, <3>2
  <2>8. IsInjective(r)
    BY <2>6, <2>7 DEF IsInjective
  <2>9. Len(r) <= AllowedMax
    BY <1>1, <2>5
  <2> QED BY <2>5, <2>8, <2>9 DEF MacLists
<1> QED
  <2>1. CASE enabled
    BY <1>2, <1>3, <2>1 DEF app_config_set_allowed_mac
  <2>2. CASE ~enabled
    BY <1>2, <1>4, <2>2 DEF app_config_set_allowed_mac, RemoveFirst
  <2> QED BY <2>1, <2>2

\* So does app_config_set_device_name.
LEMMA SetNameIs ==
  ASSUME NEW l \in NameLists, NEW id \in Devices, NEW name \in Texts
  PROVE  app_config_set_device_name(l, id, name) \in NameLists
<1> DEFINE r == app_config_set_device_name(l, id, name)
           entry == [id |-> id, name |-> Trim(name)]
           p == Min(Named(l, id))
<1> SUFFICES r \in NameLists
  OBVIOUS
<1>1. l \in Seq(Names) /\ Len(l) \in Nat /\ Len(l) <= NamesMax /\ NamesMax \in Nat
      /\ DOMAIN l = 1 .. Len(l)
      /\ (\A i, j \in 1 .. Len(l) : l[i].id = l[j].id => i = j)
      /\ \A i \in 1 .. Len(l) : l[i].name # Empty /\ ~l[i].name.padded
  BY SettingsAssumption DEF NameLists
<1>2. entry \in Names /\ entry.id = id /\ ~entry.name.padded /\ entry.name = Trim(name)
  BY TrimIs DEF Names
<1>3. CASE r = l
  BY <1>3
<1>4. CASE r = RemoveAt(l, p) /\ Named(l, id) # {}
  <2>1. p \in 1 .. Len(l)
    <3>1. Named(l, id) \subseteq 1 .. Len(l) /\ Named(l, id) \subseteq Nat
      BY <1>1 DEF Named
    <3> QED BY <1>4, <3>1, LeastIs
  <2> HIDE DEF p, r
  <2>2. /\ r \in Seq(Names) /\ Len(r) = Len(l) - 1
        /\ \A k \in 1 .. Len(l) - 1 : r[k] = IF k < p THEN l[k] ELSE l[k + 1]
    BY <1>1, <1>4, <2>1, RemoveAtIs
  <2> DEFINE from(k) == IF k < p THEN k ELSE k + 1
  <2>3. \A k \in 1 .. Len(l) - 1 : r[k] = l[from(k)] /\ from(k) \in 1 .. Len(l)
    BY <1>1, <2>1, <2>2
  <2>4. \A i, j \in 1 .. Len(l) - 1 : from(i) = from(j) => i = j
    BY <1>1, <2>1
  <2>5. DOMAIN r = 1 .. Len(l) - 1 /\ Len(r) <= NamesMax
    BY <1>1, <2>2
  <2> HIDE DEF from
  <2>6. \A i, j \in 1 .. Len(l) - 1 : r[i].id = r[j].id => i = j
    BY <1>1, <2>3, <2>4
  <2>7. \A i \in 1 .. Len(l) - 1 : r[i].name # Empty /\ ~r[i].name.padded
    BY <1>1, <2>3
  <2> QED BY <2>2, <2>5, <2>6, <2>7 DEF NameLists
<1>5. CASE r = [l EXCEPT ![p] = entry] /\ Named(l, id) # {} /\ entry.name # Empty
  <2>1. p \in 1 .. Len(l) /\ l[p].id = id
    <3>1. Named(l, id) \subseteq 1 .. Len(l) /\ Named(l, id) \subseteq Nat
      BY <1>1 DEF Named
    <3>2. p \in Named(l, id)
      BY <1>5, <3>1, LeastIs
    <3> QED BY <3>1, <3>2 DEF Named
  <2> HIDE DEF p, r, entry
  <2>2. /\ r \in Seq(Names) /\ Len(r) = Len(l) /\ DOMAIN r = 1 .. Len(l)
        /\ \A k \in 1 .. Len(l) : r[k] = IF k = p THEN entry ELSE l[k]
    BY <1>1, <1>2, <1>5, <2>1
  <2>3. \A k \in 1 .. Len(l) : r[k].id = l[k].id
    BY <1>2, <2>1, <2>2
  <2>4. \A i \in 1 .. Len(l) : r[i].name # Empty /\ ~r[i].name.padded
    BY <1>1, <1>2, <1>5, <2>2
  <2> QED BY <1>1, <2>2, <2>3, <2>4 DEF NameLists
<1>6. CASE r = Append(l, entry) /\ Named(l, id) = {} /\ Len(l) < NamesMax /\ entry.name # Empty
  <2>1. \A i \in 1 .. Len(l) : l[i].id # id
    BY <1>1, <1>6 DEF Named
  <2> HIDE DEF r, entry
  <2>2. /\ r \in Seq(Names) /\ Len(r) = Len(l) + 1 /\ DOMAIN r = 1 .. Len(l) + 1
        /\ \A i \in 1 .. Len(l) + 1 : r[i] = IF i <= Len(l) THEN l[i] ELSE entry
    BY <1>1, <1>2, <1>6
  <2>3. ASSUME NEW i \in 1 .. Len(l) + 1, NEW j \in 1 .. Len(l) + 1, r[i].id = r[j].id PROVE i = j
    BY <1>1, <1>2, <2>1, <2>2, <2>3
  <2>4. \A i \in 1 .. Len(l) + 1 : r[i].name # Empty /\ ~r[i].name.padded
    BY <1>1, <1>2, <1>6, <2>2
  <2>5. Len(r) <= NamesMax
    BY <1>1, <1>6, <2>2
  <2> QED BY <2>2, <2>3, <2>4, <2>5 DEF NameLists
<1> QED
  BY <1>2, <1>3, <1>4, <1>5, <1>6 DEF app_config_set_device_name, CanName

\* The first keys of a list in the file.
LEMMA KeysAre ==
  ASSUME NEW S, NEW l \in Seq(S), NEW max \in Nat
  PROVE  /\ Keys(l, max) \in Seq(S)
         /\ Len(Keys(l, max)) = IF Len(l) < max THEN Len(l) ELSE max
         /\ \A k \in 1 .. Len(Keys(l, max)) : Keys(l, max)[k] = l[k]
<1>1. Len(l) \in Nat
  OBVIOUS
<1> DEFINE n == IF Len(l) < max THEN Len(l) ELSE max
<1>2. n \in Nat /\ n <= Len(l) /\ Keys(l, max) = SubSeq(l, 1, n)
  BY <1>1 DEF Keys
<1> HIDE DEF n
<1>3. /\ SubSeq(l, 1, n) \in Seq(S) /\ Len(SubSeq(l, 1, n)) = n
      /\ \A k \in 1 .. n : SubSeq(l, 1, n)[k] = l[k]
  BY <1>1, <1>2
<1> QED BY <1>2, <1>3 DEF n

\* The list of MACs after each key of the file.
LEMMA LoadMacsIs ==
  ASSUME NEW l \in Seq(Macs \cup {BadMac})
  PROVE  \E n, g :
           /\ n \in Nat /\ n = (IF Len(l) < AllowedMax THEN Len(l) ELSE AllowedMax)
           /\ g[0] = <<>> /\ LoadMacs(l) = g[n]
           /\ \A k \in 1 .. n :
                g[k] = IF l[k] \in Macs THEN app_config_set_allowed_mac(g[k - 1], l[k], TRUE)
                                        ELSE g[k - 1]
           /\ \A k \in 0 .. n : g[k] \in MacLists
<1> DEFINE keys == Keys(l, AllowedMax)
           n == Len(keys)
<1>1. /\ keys \in Seq(Macs \cup {BadMac}) /\ n \in Nat
      /\ n = (IF Len(l) < AllowedMax THEN Len(l) ELSE AllowedMax)
      /\ \A k \in 1 .. n : keys[k] = l[k]
  BY KeysAre, SettingsAssumption
<1>2. <<>> \in MacLists
  BY SettingsAssumption DEF MacLists, IsInjective
<1> DEFINE step == [x \in MacLists \X (1 .. n) |->
                      IF keys[x[2]] \in Macs THEN app_config_set_allowed_mac(x[1], keys[x[2]], TRUE)
                                             ELSE x[1]]
<1> HIDE DEF keys, n
<1>3. step \in [MacLists \X (1 .. n) -> MacLists]
  BY SetMacIs
<1>4. PICK f \in [0 .. n -> MacLists] :
        f[0] = <<>> /\ \A k \in 1 .. n : f[k] = step[<<f[k - 1], k>>]
  <2> DEFINE base == <<>>
  <2>1. n \in Nat /\ base \in MacLists
    BY <1>1, <1>2
  <2> HIDE DEF step, base
  <2>2. \E f : Computed(f, n, MacLists, base, step)
    BY <1>3, <2>1, Recursion
  <2> QED BY <2>2 DEF base, Computed
<1>5. ASSUME NEW k \in 0 .. n, k # 0
      PROVE  f[k] = IF keys[k] \in Macs THEN app_config_set_allowed_mac(f[k - 1], keys[k], TRUE)
                                        ELSE f[k - 1]
  <2>1. k \in 1 .. n /\ k - 1 \in 0 .. n
    BY <1>1, <1>5
  <2>2. f[k - 1] \in MacLists /\ f[k] = step[<<f[k - 1], k>>]
    BY <1>4, <2>1
  <2> QED BY <2>1, <2>2
<1>6. f = [k \in 0 .. n |->
             IF k = 0 THEN <<>>
             ELSE IF keys[k] \in Macs THEN app_config_set_allowed_mac(f[k - 1], keys[k], TRUE)
             ELSE f[k - 1]]
  <2>1. f = [k \in 0 .. n |-> f[k]]
    OBVIOUS
  <2>2. 0 \in 0 .. n
    BY <1>1
  <2> HIDE DEF step
  <2> QED BY <1>4, <1>5, <2>1
<1>7. PICK g :
        /\ g = [k \in 0 .. n |->
                  IF k = 0 THEN <<>>
                  ELSE IF keys[k] \in Macs THEN app_config_set_allowed_mac(g[k - 1], keys[k], TRUE)
                  ELSE g[k - 1]]
        /\ LoadMacs(l) = g[n]
  <2> USE DEF keys, n
  <2> HIDE DEF step
  <2> QED BY <1>6, Zenon DEF LoadMacs
<1>8. /\ g[0] = <<>>
      /\ \A k \in 1 .. n :
           g[k] = IF l[k] \in Macs THEN app_config_set_allowed_mac(g[k - 1], l[k], TRUE)
                                   ELSE g[k - 1]
  <2>1. 0 \in 0 .. n /\ \A k \in 1 .. n : k \in 0 .. n /\ k # 0 /\ keys[k] = l[k]
    BY <1>1
  <2> QED BY <1>7, <2>1, Zenon
<1>9. \A k \in 0 .. n : g[k] \in MacLists
  <2> DEFINE T == {k \in 0 .. n : g[k] \in MacLists}
  <2>1. 0 \in T
    BY <1>1, <1>2, <1>8
  <2>2. ASSUME NEW k \in 1 .. n, k - 1 \in T PROVE k \in T
    <3>1. k \in 0 .. n /\ g[k - 1] \in MacLists
      BY <1>1, <2>2
    <3> QED BY <1>8, <3>1, SetMacIs
  <2> HIDE DEF T
  <2>3. \A k \in 0 .. n : k \in T
    BY <1>1, <2>1, <2>2, Induction
  <2> QED BY <2>3 DEF T
<1> QED
  BY <1>1, <1>7, <1>8, <1>9

\* The list of names after each key.
LEMMA LoadNamesIs ==
  ASSUME NEW l \in Seq(Names)
  PROVE  \E n, g :
           /\ n \in Nat /\ n = (IF Len(l) < NamesMax THEN Len(l) ELSE NamesMax)
           /\ g[0] = <<>> /\ LoadNames(l) = g[n]
           /\ \A k \in 1 .. n : g[k] = app_config_set_device_name(g[k - 1], l[k].id, l[k].name)
           /\ \A k \in 0 .. n : g[k] \in NameLists
<1> DEFINE keys == Keys(l, NamesMax)
           n == Len(keys)
<1>1. /\ keys \in Seq(Names) /\ n \in Nat
      /\ n = (IF Len(l) < NamesMax THEN Len(l) ELSE NamesMax)
      /\ \A k \in 1 .. n : keys[k] = l[k]
  BY KeysAre, SettingsAssumption
<1>2. <<>> \in NameLists
  BY SettingsAssumption DEF NameLists
<1> DEFINE step == [x \in NameLists \X (1 .. n) |->
                      app_config_set_device_name(x[1], keys[x[2]].id, keys[x[2]].name)]
<1> HIDE DEF keys, n
<1>3. step \in [NameLists \X (1 .. n) -> NameLists]
  <2>1. \A k \in 1 .. n : keys[k] \in Names /\ keys[k].id \in Devices /\ keys[k].name \in Texts
    <3>1. \A k \in 1 .. n : keys[k] \in Names
      BY <1>1 DEF n
    <3> QED BY <3>1 DEF Names
  <2> QED BY <2>1, SetNameIs
<1>4. PICK f \in [0 .. n -> NameLists] :
        f[0] = <<>> /\ \A k \in 1 .. n : f[k] = step[<<f[k - 1], k>>]
  <2> DEFINE base == <<>>
  <2>1. n \in Nat /\ base \in NameLists
    BY <1>1, <1>2
  <2> HIDE DEF step, base
  <2>2. \E f : Computed(f, n, NameLists, base, step)
    BY <1>3, <2>1, Recursion
  <2> QED BY <2>2 DEF base, Computed
<1>5. ASSUME NEW k \in 0 .. n, k # 0
      PROVE  f[k] = app_config_set_device_name(f[k - 1], keys[k].id, keys[k].name)
  <2>1. k \in 1 .. n /\ k - 1 \in 0 .. n
    BY <1>1, <1>5
  <2>2. f[k - 1] \in NameLists /\ f[k] = step[<<f[k - 1], k>>]
    BY <1>4, <2>1
  <2> QED BY <2>1, <2>2
<1>6. f = [k \in 0 .. n |->
             IF k = 0 THEN <<>>
             ELSE app_config_set_device_name(f[k - 1], keys[k].id, keys[k].name)]
  <2>1. f = [k \in 0 .. n |-> f[k]]
    OBVIOUS
  <2>2. 0 \in 0 .. n
    BY <1>1
  <2> HIDE DEF step
  <2> QED BY <1>4, <1>5, <2>1
<1>7. PICK g :
        /\ g = [k \in 0 .. n |->
                  IF k = 0 THEN <<>>
                  ELSE app_config_set_device_name(g[k - 1], keys[k].id, keys[k].name)]
        /\ LoadNames(l) = g[n]
  <2> USE DEF keys, n
  <2> HIDE DEF step
  <2> QED BY <1>6, Zenon DEF LoadNames
<1>8. /\ g[0] = <<>>
      /\ \A k \in 1 .. n : g[k] = app_config_set_device_name(g[k - 1], l[k].id, l[k].name)
  <2>1. 0 \in 0 .. n /\ \A k \in 1 .. n : k \in 0 .. n /\ k # 0 /\ keys[k] = l[k]
    BY <1>1
  <2> QED BY <1>7, <2>1, Zenon
<1>9. \A k \in 0 .. n : g[k] \in NameLists
  <2> DEFINE T == {k \in 0 .. n : g[k] \in NameLists}
  <2>1. 0 \in T
    BY <1>1, <1>2, <1>8
  <2>2. ASSUME NEW k \in 1 .. n, k - 1 \in T PROVE k \in T
    <3>1. l[k].id \in Devices /\ l[k].name \in Texts
      <4>1. keys[k] \in Names
        BY <1>1 DEF n
      <4> QED BY <1>1, <4>1 DEF Names
    <3>2. k \in 0 .. n /\ g[k - 1] \in NameLists
      BY <1>1, <2>2
    <3> QED BY <1>8, <3>1, <3>2, SetNameIs
  <2> HIDE DEF T
  <2>3. \A k \in 0 .. n : k \in T
    BY <1>1, <2>1, <2>2, Induction
  <2> QED BY <2>3 DEF T
<1> QED
  BY <1>1, <1>7, <1>8, <1>9

\* Both lists of settings are sound, and a file holds lists of the right kind.
SoundLists(c) == c.allowed \in MacLists /\ c.names \in NameLists
FileLists(f) == f.allowed \in Seq(Macs \cup {BadMac}) /\ f.names \in Seq(Names)

ListsInv ==
  /\ SoundLists(config) /\ SoundLists(next)
  /\ FileLists(file) /\ (disk # Missing => FileLists(disk))

\* The defaults and an empty file have empty lists.
LEMMA EmptyLists == SoundLists(Defaults) /\ FileLists(NoContents)
<1>1. <<>> \in MacLists
  BY SettingsAssumption DEF MacLists, IsInjective
<1>2. <<>> \in NameLists
  BY SettingsAssumption DEF NameLists
<1> QED
  BY <1>1, <1>2 DEF SoundLists, FileLists, Defaults, NoContents

\* Loading folds whatever lists a file has into sound ones.
LEMMA LoadedLists ==
  ASSUME NEW f, FileLists(f)
  PROVE  /\ app_config_load(f).allowed = LoadMacs(f.allowed)
         /\ app_config_load(f).names = LoadNames(f.names)
         /\ SoundLists(app_config_load(f))
<1>1. /\ app_config_load(f).allowed = LoadMacs(f.allowed)
      /\ app_config_load(f).names = LoadNames(f.names)
  BY DEF app_config_load, app_config_normalize
<1>2. LoadMacs(f.allowed) \in MacLists
  <2>1. PICK n, g : n \in Nat /\ LoadMacs(f.allowed) = g[n] /\ \A k \in 0 .. n : g[k] \in MacLists
    BY LoadMacsIs DEF FileLists
  <2> QED BY <2>1
<1>3. LoadNames(f.names) \in NameLists
  <2>1. PICK n, g : n \in Nat /\ LoadNames(f.names) = g[n] /\ \A k \in 0 .. n : g[k] \in NameLists
    BY LoadNamesIs DEF FileLists
  <2> QED BY <2>1
<1> QED BY <1>1, <1>2, <1>3 DEF SoundLists

\* What the lines of a save leave of the lists.
LEMMA SavedLists ==
  ASSUME SettingsInv, ListsInv, app_config_save
  PROVE  ListsInv'
<1>1. /\ FileShaped(file) /\ FileLists(file) /\ SoundLists(config) /\ SoundLists(next)
      /\ disk # Missing => FileLists(disk)
  BY DEF SettingsInv, ListsInv
<1>2. ASSUME NEW contents, FileLists(contents), NEW cut, \A left \in cut : FileLists(left),
             NEW following, Writes(contents, cut, following)
      PROVE  ListsInv'
  <2>1. CASE file' = contents /\ UNCHANGED <<config, disk, next>>
    BY <1>1, <1>2, <2>1 DEF ListsInv
  <2>2. ASSUME NEW left \in cut \cup {file}, SaveFails(left) PROVE ListsInv'
    BY <1>1, <1>2, <2>2 DEF ListsInv, SaveFails
  <2> QED BY <1>2, <2>1, <2>2 DEF Writes
<1>3. ASSUME NEW w PROVE FileLists([file EXCEPT !.wifi = w])
  BY <1>1 DEF FileLists, FileShaped
<1>4. ASSUME NEW n PROVE FileLists([file EXCEPT !.retention = n]) /\ FileLists([file EXCEPT !.poll = n])
  BY <1>1 DEF FileLists, FileShaped
<1>5. ASSUME NEW m PROVE FileLists([file EXCEPT !.mqtt = m])
  BY <1>1 DEF FileLists, FileShaped
<1>6. ASSUME NEW mac \in Macs \cup {BadMac}
      PROVE  FileLists([file EXCEPT !.allowed = Append(file.allowed, mac)])
  <2>1. Append(file.allowed, mac) \in Seq(Macs \cup {BadMac})
    BY <1>1 DEF FileLists
  <2> QED BY <1>1, <2>1 DEF FileLists, FileShaped
<1>7. ASSUME NEW name \in Names
      PROVE  FileLists([file EXCEPT !.names = Append(file.names, name)])
  <2>1. Append(file.names, name) \in Seq(Names)
    BY <1>1 DEF FileLists
  <2> QED BY <1>1, <2>1 DEF FileLists, FileShaped
<1>8. CASE SaveWifi
  <2>1. CASE SaveFails(file)
    BY <1>1, <2>1 DEF SaveFails, ListsInv
  <2>2. ASSUME NEW f, NEW cut,
               Writes([file EXCEPT !.wifi = f], {[file EXCEPT !.wifi = w] : w \in cut}, "allowed")
        PROVE  ListsInv'
    <3> DEFINE contents == [file EXCEPT !.wifi = f]
               lefts == {[file EXCEPT !.wifi = w] : w \in cut}
    <3>1. FileLists(contents) /\ \A left \in lefts : FileLists(left)
      BY <1>3
    <3>2. Writes(contents, lefts, "allowed")
      BY <2>2
    <3> HIDE DEF contents, lefts
    <3> QED BY <1>2, <3>1, <3>2
  <2> QED BY <1>8, <2>1, <2>2 DEF SaveWifi
<1>9. CASE SaveMac
  <2> DEFINE number == Len(file.allowed) + 1
             line == next.allowed[number]
             contents == [file EXCEPT !.allowed = Append(file.allowed, line)]
             lefts == {[file EXCEPT !.allowed = Append(file.allowed, BadMac)]}
  <2>1. Writes(contents, lefts, "allowed") /\ number <= Len(next.allowed)
    BY <1>9 DEF SaveMac
  <2>2. line \in Macs
    <3>1. number \in 1 .. Len(next.allowed) /\ next.allowed \in Seq(Macs)
      BY <1>1, <2>1 DEF FileLists, SoundLists, MacLists
    <3> HIDE DEF number
    <3> QED BY <3>1
  <2> HIDE DEF line
  <2>3. FileLists(contents) /\ \A left \in lefts : FileLists(left)
    BY <1>6, <2>2
  <2> HIDE DEF contents, lefts
  <2> QED BY <1>2, <2>1, <2>3
<1>10. CASE SaveMeasurements
  <2> DEFINE contents == [file EXCEPT !.retention = next.retention]
             lefts == {[file EXCEPT !.retention = n] : n \in CutNumber(next.retention)}
  <2>1. Writes(contents, lefts, "onewire")
    BY <1>10 DEF SaveMeasurements
  <2>2. FileLists(contents) /\ \A left \in lefts : FileLists(left)
    BY <1>4
  <2> HIDE DEF contents, lefts
  <2> QED BY <1>2, <2>1, <2>2
<1>11. CASE SaveOneWire
  <2> DEFINE contents == [file EXCEPT !.poll = next.poll]
             lefts == {[file EXCEPT !.poll = n] : n \in CutNumber(next.poll)}
  <2>1. Writes(contents, lefts, "mqtt")
    BY <1>11 DEF SaveOneWire
  <2>2. FileLists(contents) /\ \A left \in lefts : FileLists(left)
    BY <1>4
  <2> HIDE DEF contents, lefts
  <2> QED BY <1>2, <2>1, <2>2
<1>12. CASE SaveMqtt
  <2>1. PICK cut : Writes([file EXCEPT !.mqtt = next.mqtt],
                          {[file EXCEPT !.mqtt = m] : m \in cut}, "names")
    BY <1>12 DEF SaveMqtt
  <2> DEFINE contents == [file EXCEPT !.mqtt = next.mqtt]
             lefts == {[file EXCEPT !.mqtt = m] : m \in cut}
  <2>2. FileLists(contents) /\ \A left \in lefts : FileLists(left)
    BY <1>5
  <2> HIDE DEF contents, lefts
  <2> QED BY <1>2, <2>1, <2>2 DEF contents, lefts
<1>13. CASE SaveName
  <2> DEFINE number == Len(file.names) + 1
             line == next.names[number]
             cut == [id : Devices, name : {Empty}]
                    \cup {[line EXCEPT !.name = t] : t \in CutText(line.name)}
             contents == [file EXCEPT !.names = Append(file.names, line)]
             lefts == {[file EXCEPT !.names = Append(file.names, n)] : n \in cut}
  <2>1. Writes(contents, lefts, "names") /\ number <= Len(next.names)
    BY <1>13 DEF SaveName
  <2>2. line \in Names
    <3>1. number \in 1 .. Len(next.names) /\ next.names \in Seq(Names)
      BY <1>1, <2>1 DEF FileLists, SoundLists, NameLists
    <3> HIDE DEF number
    <3> QED BY <3>1
  <2> HIDE DEF line
  <2>3. cut \subseteq Names
    BY <2>2, CutTextIs, EmptyIs DEF Names
  <2> HIDE DEF cut
  <2>4. FileLists(contents) /\ \A left \in lefts : FileLists(left)
    BY <1>7, <2>2, <2>3
  <2> HIDE DEF contents, lefts
  <2> QED BY <1>2, <2>1, <2>4
<1>14. CASE SaveEnds
  <2>1. /\ disk' \in {file, disk, NoContents} /\ UNCHANGED <<next, file>>
        /\ config' \in {next, app_config_load(IF disk' = Missing THEN NoContents ELSE disk')}
    BY <1>14 DEF SaveEnds, Unsynced, Starts
  <2>2. disk' # Missing => FileLists(disk')
    BY <1>1, <2>1, EmptyLists
  <2>3. SoundLists(config')
    BY <1>1, <2>1, <2>2, LoadedLists, EmptyLists
  <2> QED BY <1>1, <2>1, <2>2, <2>3 DEF ListsInv
<1> QED
  BY <1>8, <1>9, <1>10, <1>11, <1>12, <1>13, <1>14 DEF app_config_save

\* A page changes at most one list, and that by the code's rules.
LEMMA HandledLists ==
  ASSUME SettingsInv, ListsInv, Handlers
  PROVE  ListsInv'
<1>1. /\ Shaped(config) /\ SoundLists(config) /\ SoundLists(next) /\ FileLists(file)
      /\ disk # Missing => FileLists(disk)
  BY DEF SettingsInv, Normal, ListsInv
<1>2. CASE Rejects /\ UNCHANGED <<config, disk>>
  BY <1>2 DEF Rejects, ListsInv
<1>3. ASSUME NEW c, SoundLists(c), SaveStarts(c), UNCHANGED <<config, disk>> PROVE ListsInv'
  BY <1>1, <1>3, EmptyLists DEF SaveStarts, ListsInv
<1>4. ASSUME NEW form \in Forms, app_web_cgi_settings_handler(form) PROVE ListsInv'
  <2> DEFINE c == app_config_normalize([config EXCEPT !.wifi = form.wifi, !.retention = form.retention,
                                                      !.poll = form.poll, !.mqtt = form.mqtt])
  <2>1. c.allowed = config.allowed /\ c.names = config.names
    BY <1>1 DEF Shaped, app_config_normalize
  <2>2. (Rejects \/ SaveStarts(c)) /\ UNCHANGED <<config, disk>>
    BY <1>4 DEF app_web_cgi_settings_handler
  <2> HIDE DEF c
  <2>3. SoundLists(c)
    BY <1>1, <2>1 DEF SoundLists
  <2> QED BY <1>2, <1>3, <2>2, <2>3
<1>5. ASSUME NEW mac \in Macs \cup {BadMac}, NEW enabled \in BOOLEAN,
             app_web_cgi_select_handler(mac, enabled)
      PROVE  ListsInv'
  <2> DEFINE l == app_config_set_allowed_mac(config.allowed, mac, enabled)
             c == [config EXCEPT !.allowed = l]
  <2>1. (Rejects \/ (mac # BadMac /\ SaveStarts(c))) /\ UNCHANGED <<config, disk>>
    BY <1>5 DEF app_web_cgi_select_handler
  <2>2. mac # BadMac => l \in MacLists
    BY <1>1, SetMacIs DEF SoundLists
  <2> HIDE DEF l
  <2>3. mac # BadMac => SoundLists(c)
    BY <1>1, <2>2 DEF SoundLists, Shaped
  <2> HIDE DEF c
  <2> QED BY <1>2, <1>3, <2>1, <2>3
<1>6. ASSUME NEW id \in Devices, NEW name \in Typed, app_web_cgi_name_handler(id, name)
      PROVE  ListsInv'
  <2> DEFINE l == app_config_set_device_name(config.names, id, name)
             c == [config EXCEPT !.names = l]
  <2>1. (Rejects \/ SaveStarts(c)) /\ UNCHANGED <<config, disk>>
    BY <1>6 DEF app_web_cgi_name_handler
  <2>2. l \in NameLists
    BY <1>1, SetNameIs, SettingsAssumption DEF SoundLists
  <2> HIDE DEF l
  <2>3. SoundLists(c)
    BY <1>1, <2>2 DEF SoundLists, Shaped
  <2> HIDE DEF c
  <2> QED BY <1>2, <1>3, <2>1, <2>3
<1> QED
  BY <1>4, <1>5, <1>6 DEF Handlers

\* Every step keeps the lists sound.
LEMMA ListsStep == SettingsInv /\ ListsInv /\ [Next]_vars => ListsInv'
<1> SUFFICES ASSUME SettingsInv, ListsInv, [Next]_vars PROVE ListsInv'
  OBVIOUS
<1>1. CASE UNCHANGED vars
  BY <1>1 DEF ListsInv, vars
<1>2. CASE Boot
  <2>1. CASE disk = Missing
    BY <1>2, <2>1, EmptyLists DEF Boot, SaveStarts, ListsInv
  <2>2. CASE disk # Missing
    <3>1. config' = app_config_load(disk) /\ UNCHANGED <<next, file, disk>>
      BY <1>2, <2>2 DEF Boot, Starts
    <3>2. SoundLists(config')
      BY <2>2, <3>1, LoadedLists DEF ListsInv
    <3> QED BY <3>1, <3>2 DEF ListsInv
  <2> QED BY <2>1, <2>2
<1>3. CASE Reset
  BY <1>3, EmptyLists DEF Reset, Unsynced, ListsInv
<1>4. CASE UsbEdit
  <2>1. \A f \in Files : FileLists(f)
    BY DEF Files, FileLists
  <2>2. FileLists(disk')
    BY <1>4, <2>1, SettingsAssumption DEF UsbEdit
  <2> QED BY <1>4, <2>2 DEF UsbEdit, ListsInv
<1> QED
  BY <1>1, <1>2, <1>3, <1>4, SavedLists, HandledLists DEF Next

\* No MAC is tracked twice and no sensor has two names or an empty one, whatever the
\* pages, the file and the cut lines of an interrupted save were (app_config_load and
\* the two functions that change a list).
THEOREM AlwaysListsAreSound == Spec => []ListsAreSound
<1>1. Init => ListsInv
  BY EmptyLists DEF Init, ListsInv
<1>2. ListsInv => ListsAreSound
  BY DEF ListsInv, SoundLists, MacLists, NameLists, ListsAreSound
<1> QED
  BY <1>1, <1>2, SettingsInit, SettingsStep, ListsStep, PTL DEF Spec

-----------------------------------------------------------------------------
(* A save and the next boot.                                               *)
(*                                                                         *)
(* A save that ends has written each field of the settings, so that the    *)
(* file on the disk holds just what is put in force; loading it changes    *)
(* nothing, as those settings are normal and their lists sound.            *)

\* A list that has been written up to some element.
StartsWith(l, whole) == Len(l) <= Len(whole) /\ \A i \in 1 .. Len(l) : l[i] = whole[i]

\* What is in the file before each write of a save.
Written ==
  /\ stage = "wifi" => file = NoContents
  /\ stage \in {"allowed", "onewire", "mqtt", "names"} /\ ~BrokenWifi(next.wifi) =>
       file.wifi = next.wifi
  /\ stage = "allowed" => StartsWith(file.allowed, next.allowed)
  /\ stage \in {"onewire", "mqtt", "names"} =>
       file.allowed = next.allowed /\ file.retention = next.retention
  /\ stage \in {"mqtt", "names"} => file.poll = next.poll
  /\ stage \in {"allowed", "onewire", "mqtt"} => file.names = <<>>
  /\ stage = "names" => file.mqtt = next.mqtt /\ StartsWith(file.names, next.names)

SavedInv ==
  /\ power \in {"off", "boot", "refused", "on"} /\ faults \in Nat
  /\ stage # "idle" => power \in {"boot", "on"}
  /\ power # "on" => status # "saved"
  /\ Written
  /\ status = "saved" /\ stage = "idle" /\ ~BrokenWifi(config.wifi) => disk = config

\* The next element is written.
LEMMA StartsWithNext ==
  ASSUME NEW S, NEW l \in Seq(S), NEW R, NEW whole \in Seq(R), StartsWith(l, whole), Len(l) + 1 <= Len(whole)
  PROVE  StartsWith(Append(l, whole[Len(l) + 1]), whole)
<1> DEFINE x == whole[Len(l) + 1]
<1>1. Len(l) \in Nat /\ Len(whole) \in Nat
  OBVIOUS
<1>2. /\ Len(Append(l, x)) = Len(l) + 1
      /\ \A i \in 1 .. Len(l) + 1 : Append(l, x)[i] = IF i <= Len(l) THEN l[i] ELSE x
  BY <1>1
<1> QED BY <1>1, <1>2 DEF StartsWith

\* All are written.
LEMMA StartsWithAll ==
  ASSUME NEW S, NEW l \in Seq(S), NEW R, NEW whole \in Seq(R), StartsWith(l, whole), Len(l) = Len(whole)
  PROVE  l = whole
<1>1. l \in Seq(S \cup R) /\ whole \in Seq(S \cup R)
  OBVIOUS
<1>2. \A i \in 1 .. Len(l) : l[i] = whole[i]
  BY DEF StartsWith
<1> QED BY <1>1, <1>2, SeqEqual

\* The steps of a save, and its end.
LEMMA SaveWrites ==
  ASSUME SettingsInv, ListsInv, SavedInv, app_config_save
  PROVE  SavedInv'
<1>1. /\ FileShaped(file) /\ FileLists(file) /\ SoundLists(next) /\ Shaped(next)
      /\ next.allowed \in Seq(Macs) /\ next.names \in Seq(Names)
  BY DEF SettingsInv, ListsInv, Normal, SoundLists, MacLists, NameLists
<1>2. stage # "idle"
  BY DEF app_config_save, SaveWifi, SaveMac, SaveMeasurements, SaveOneWire, SaveMqtt, SaveName, SaveEnds
<1>3. ASSUME NEW left, SaveFails(left), faults' \in Nat PROVE SavedInv'
  BY <1>2, <1>3 DEF SaveFails, SavedInv, Written
<1>4. ASSUME NEW contents, NEW cut, NEW following, Writes(contents, cut, following),
             following \in {"allowed", "onewire", "mqtt", "names"},
             file' = contents /\ stage' = following /\ UNCHANGED next => Written'
      PROVE  SavedInv'
  <2>1. CASE /\ file' = contents /\ stage' = following
             /\ UNCHANGED <<power, config, disk, next, status, faults>>
    BY <1>2, <1>4, <2>1 DEF SavedInv
  <2>2. faults' \in Nat
    BY <1>4, <2>1 DEF Writes, SavedInv
  <2> QED BY <1>3, <1>4, <2>1, <2>2 DEF Writes
<1>5. CASE SaveWifi
  <2>1. ASSUME NEW f \in Found(next.wifi), NEW cut, Writes([file EXCEPT !.wifi = f], cut, "allowed")
        PROVE  SavedInv'
    <3> DEFINE contents == [file EXCEPT !.wifi = f]
    <3>1. stage = "wifi" /\ file = NoContents
      BY <1>5 DEF SaveWifi, SavedInv, Written
    <3>2. BrokenWifi(next.wifi) \/ f = next.wifi
      <4>1. next.wifi \in Wifi
        BY <1>1 DEF Shaped
      <4> QED BY <4>1, FoundIs
    <3>3. /\ BrokenWifi(next.wifi) \/ contents.wifi = next.wifi
          /\ contents.allowed = <<>> /\ contents.names = <<>>
      BY <3>1, <3>2 DEF NoContents
    <3>4. StartsWith(<<>>, next.allowed)
      BY <1>1 DEF StartsWith
    <3> HIDE DEF contents
    <3>5. file' = contents /\ stage' = "allowed" /\ UNCHANGED next => Written'
      BY <3>3, <3>4 DEF Written
    <3>6. Writes(contents, cut, "allowed")
      BY <2>1 DEF contents
    <3> QED BY <1>4, <3>5, <3>6
  <2> QED BY <1>3, <1>5, <2>1 DEF SaveWifi, SavedInv
<1>6. CASE SaveMac
  <2> DEFINE number == Len(file.allowed) + 1
             contents == [file EXCEPT !.allowed = Append(file.allowed, next.allowed[number])]
  <2>1. /\ Writes(contents, {[file EXCEPT !.allowed = Append(file.allowed, BadMac)]}, "allowed")
        /\ stage = "allowed" /\ number <= Len(next.allowed)
    BY <1>6 DEF SaveMac
  <2>2. /\ BrokenWifi(next.wifi) \/ file.wifi = next.wifi
        /\ file.names = <<>> /\ StartsWith(file.allowed, next.allowed)
    BY <2>1 DEF SavedInv, Written
  <2>3. StartsWith(Append(file.allowed, next.allowed[number]), next.allowed)
    BY <1>1, <2>1, <2>2, StartsWithNext DEF FileLists
  <2>4. /\ BrokenWifi(next.wifi) \/ contents.wifi = next.wifi
        /\ contents.names = <<>>
        /\ StartsWith(contents.allowed, next.allowed)
    BY <1>1, <2>2, <2>3 DEF FileShaped
  <2> HIDE DEF contents
  <2>5. file' = contents /\ stage' = "allowed" /\ UNCHANGED next => Written'
    BY <2>4 DEF Written
  <2> QED BY <1>4, <2>1, <2>5
<1>7. CASE SaveMeasurements
  <2> DEFINE contents == [file EXCEPT !.retention = next.retention]
  <2>1. /\ \E cut : Writes(contents, cut, "onewire")
        /\ stage = "allowed" /\ Len(file.allowed) = Len(next.allowed)
    BY <1>7 DEF SaveMeasurements
  <2>2. /\ BrokenWifi(next.wifi) \/ file.wifi = next.wifi
        /\ file.names = <<>> /\ StartsWith(file.allowed, next.allowed)
    BY <2>1 DEF SavedInv, Written
  <2>3. file.allowed = next.allowed
    BY <1>1, <2>1, <2>2, StartsWithAll DEF FileLists
  <2>4. /\ BrokenWifi(next.wifi) \/ contents.wifi = next.wifi
        /\ contents.names = <<>> /\ contents.allowed = next.allowed
        /\ contents.retention = next.retention
    BY <1>1, <2>2, <2>3 DEF FileShaped
  <2> HIDE DEF contents
  <2>5. file' = contents /\ stage' = "onewire" /\ UNCHANGED next => Written'
    BY <2>4 DEF Written
  <2> QED BY <1>4, <2>1, <2>5
<1>8. CASE SaveOneWire
  <2> DEFINE contents == [file EXCEPT !.poll = next.poll]
  <2>1. (\E cut : Writes(contents, cut, "mqtt")) /\ stage = "onewire"
    BY <1>8 DEF SaveOneWire
  <2>2. /\ BrokenWifi(next.wifi) \/ file.wifi = next.wifi
        /\ file.names = <<>> /\ file.allowed = next.allowed
        /\ file.retention = next.retention
    BY <2>1 DEF SavedInv, Written
  <2>3. /\ BrokenWifi(next.wifi) \/ contents.wifi = next.wifi
        /\ contents.names = <<>> /\ contents.allowed = next.allowed
        /\ contents.retention = next.retention /\ contents.poll = next.poll
    BY <1>1, <2>2 DEF FileShaped
  <2> HIDE DEF contents
  <2>4. file' = contents /\ stage' = "mqtt" /\ UNCHANGED next => Written'
    BY <2>3 DEF Written
  <2> QED BY <1>4, <2>1, <2>4
<1>9. CASE SaveMqtt
  <2> DEFINE contents == [file EXCEPT !.mqtt = next.mqtt]
  <2>1. (\E cut : Writes(contents, cut, "names")) /\ stage = "mqtt"
    BY <1>9 DEF SaveMqtt
  <2>2. /\ BrokenWifi(next.wifi) \/ file.wifi = next.wifi
        /\ file.names = <<>> /\ file.allowed = next.allowed
        /\ file.retention = next.retention /\ file.poll = next.poll
    BY <2>1 DEF SavedInv, Written
  <2>3. /\ BrokenWifi(next.wifi) \/ contents.wifi = next.wifi
        /\ contents.names = <<>> /\ contents.allowed = next.allowed
        /\ contents.retention = next.retention /\ contents.poll = next.poll
        /\ contents.mqtt = next.mqtt
    BY <1>1, <2>2 DEF FileShaped
  <2>4. StartsWith(<<>>, next.names)
    BY <1>1 DEF StartsWith
  <2> HIDE DEF contents
  <2>5. file' = contents /\ stage' = "names" /\ UNCHANGED next => Written'
    BY <2>3, <2>4 DEF Written
  <2> QED BY <1>4, <2>1, <2>5
<1>10. CASE SaveName
  <2> DEFINE number == Len(file.names) + 1
             contents == [file EXCEPT !.names = Append(file.names, next.names[number])]
  <2>1. /\ \E cut : Writes(contents, cut, "names")
        /\ stage = "names" /\ number <= Len(next.names)
    BY <1>10 DEF SaveName
  <2>2. /\ BrokenWifi(next.wifi) \/ file.wifi = next.wifi
        /\ file.allowed = next.allowed
        /\ file.retention = next.retention /\ file.poll = next.poll /\ file.mqtt = next.mqtt
        /\ StartsWith(file.names, next.names)
    BY <2>1 DEF SavedInv, Written
  <2>3. StartsWith(Append(file.names, next.names[number]), next.names)
    BY <1>1, <2>1, <2>2, StartsWithNext DEF FileLists
  <2>4. /\ BrokenWifi(next.wifi) \/ contents.wifi = next.wifi
        /\ contents.allowed = next.allowed
        /\ contents.retention = next.retention /\ contents.poll = next.poll
        /\ contents.mqtt = next.mqtt /\ StartsWith(contents.names, next.names)
    BY <1>1, <2>2, <2>3 DEF FileShaped
  <2> HIDE DEF contents
  <2>5. file' = contents /\ stage' = "names" /\ UNCHANGED next => Written'
    BY <2>4 DEF Written
  <2> QED BY <1>4, <2>1, <2>5
<1>11. CASE SaveEnds
  <2>1. BrokenWifi(next.wifi) \/ file = next
    <3>1. stage = "names" /\ Len(file.names) = Len(next.names)
      BY <1>11 DEF SaveEnds
    <3>2. /\ BrokenWifi(next.wifi) \/ file.wifi = next.wifi
          /\ file.allowed = next.allowed
          /\ file.retention = next.retention /\ file.poll = next.poll /\ file.mqtt = next.mqtt
          /\ StartsWith(file.names, next.names)
      BY <3>1 DEF SavedInv, Written
    <3>3. file.names = next.names
      BY <1>1, <3>1, <3>2, StartsWithAll DEF FileLists
    <3> QED BY <1>1, <3>2, <3>3 DEF FileShaped, Shaped
  <2>2. stage' = "idle" /\ faults' \in Nat
    BY <1>11 DEF SaveEnds, SavedInv
  <2>3. CASE power = "boot"
    <3>1. power' \in {"refused", "on"} /\ status' = status /\ status # "saved"
      BY <1>11, <2>3 DEF SaveEnds, Starts, SavedInv
    <3> QED BY <2>2, <3>1 DEF SavedInv, Written
  <2>4. CASE power # "boot"
    <3>1. power' = power /\ power = "on" /\ config' = next
      BY <1>2, <1>11, <2>4 DEF SaveEnds, SavedInv
    <3>2. status' = "saved" => disk' = file
      BY <1>11, <2>4 DEF SaveEnds, SavedInv
    <3> QED BY <2>1, <2>2, <3>1, <3>2 DEF SavedInv, Written
  <2> QED BY <2>3, <2>4
<1> QED
  BY <1>5, <1>6, <1>7, <1>8, <1>9, <1>10, <1>11 DEF app_config_save

\* Every step keeps it: a page that is refused, or a reset, takes the promise back.
LEMMA SavedStep == SettingsInv /\ ListsInv /\ SavedInv /\ [Next]_vars => SavedInv'
<1> SUFFICES ASSUME SettingsInv, ListsInv, SavedInv, [Next]_vars PROVE SavedInv'
  OBVIOUS
<1>1. CASE UNCHANGED vars
  BY <1>1 DEF SavedInv, Written, vars
<1>2. CASE Boot
  BY <1>2 DEF Boot, Starts, SaveStarts, SavedInv, Written
<1>3. CASE Reset
  BY <1>3 DEF Reset, SavedInv, Written
<1>4. CASE UsbEdit
  BY <1>4 DEF UsbEdit, SavedInv, Written
<1>5. CASE Handlers
  <2>1. CASE power = "on" /\ UNCHANGED <<power, config, disk, faults>> /\ Rejects
    BY <2>1 DEF Rejects, SavedInv, Written
  <2>2. ASSUME NEW c, power = "on", UNCHANGED <<power, config, disk, faults, status>>, SaveStarts(c)
        PROVE  SavedInv'
    BY <2>2 DEF SaveStarts, SavedInv, Written
  <2>3. ASSUME NEW form, app_web_cgi_settings_handler(form) PROVE SavedInv'
    <3> DEFINE c == app_config_normalize([config EXCEPT !.wifi = form.wifi,
                                            !.retention = form.retention, !.poll = form.poll,
                                            !.mqtt = form.mqtt])
    <3>1. /\ power = "on" /\ UNCHANGED <<power, config, disk, faults>>
          /\ Rejects \/ (SaveStarts(c) /\ UNCHANGED status)
      BY <2>3 DEF app_web_cgi_settings_handler
    <3> HIDE DEF c
    <3> QED BY <2>1, <2>2, <3>1
  <2>4. ASSUME NEW mac, NEW enabled, app_web_cgi_select_handler(mac, enabled) PROVE SavedInv'
    <3> DEFINE c == [config EXCEPT !.allowed =
                       app_config_set_allowed_mac(config.allowed, mac, enabled)]
    <3>1. /\ power = "on" /\ UNCHANGED <<power, config, disk, faults>>
          /\ Rejects \/ (SaveStarts(c) /\ UNCHANGED status)
      BY <2>4 DEF app_web_cgi_select_handler
    <3> HIDE DEF c
    <3> QED BY <2>1, <2>2, <3>1
  <2>5. ASSUME NEW id, NEW name, app_web_cgi_name_handler(id, name) PROVE SavedInv'
    <3> DEFINE c == [config EXCEPT !.names = app_config_set_device_name(config.names, id, name)]
    <3>1. /\ power = "on" /\ UNCHANGED <<power, config, disk, faults>>
          /\ Rejects \/ (SaveStarts(c) /\ UNCHANGED status)
      BY <2>5 DEF app_web_cgi_name_handler
    <3> HIDE DEF c
    <3> QED BY <2>1, <2>2, <3>1
  <2> QED BY <1>5, <2>3, <2>4, <2>5 DEF Handlers
<1> QED
  BY <1>1, <1>2, <1>3, <1>4, <1>5, SaveWrites DEF Next

\* A sound list of MACs is loaded as it was saved.
LEMMA MacsComeBack == ASSUME NEW l \in MacLists PROVE LoadMacs(l) = l
<1>1. /\ l \in Seq(Macs) /\ l \in Seq(Macs \cup {BadMac}) /\ Len(l) \in Nat
      /\ Len(l) <= AllowedMax /\ AllowedMax \in Nat
      /\ \A i, j \in 1 .. Len(l) : l[i] = l[j] => i = j
  BY SettingsAssumption DEF MacLists, IsInjective
<1>2. PICK n, g :
        /\ n \in Nat /\ n = (IF Len(l) < AllowedMax THEN Len(l) ELSE AllowedMax)
        /\ g[0] = <<>> /\ LoadMacs(l) = g[n]
        /\ \A k \in 1 .. n :
             g[k] = IF l[k] \in Macs THEN app_config_set_allowed_mac(g[k - 1], l[k], TRUE)
                                     ELSE g[k - 1]
        /\ \A k \in 0 .. n : g[k] \in MacLists
  BY <1>1, LoadMacsIs
<1>3. n = Len(l) /\ n \in Nat
  BY <1>1, <1>2
<1> DEFINE T == {k \in 0 .. n : g[k] = SubSeq(l, 1, k)}
<1>4. 0 \in T
  <2>1. SubSeq(l, 1, 0) = <<>>
    BY SubSeqEmpty
  <2>2. 0 \in 0 .. n
    BY <1>3
  <2> QED BY <1>2, <2>1, <2>2, Zenon
<1>5. ASSUME NEW k \in 1 .. n, k - 1 \in T PROVE k \in T
  <2> DEFINE before == SubSeq(l, 1, k - 1)
  <2>1. g[k - 1] = before
    BY <1>5
  <2>2. /\ before \in Seq(Macs) /\ Len(before) = k - 1
        /\ \A i \in 1 .. k - 1 : before[i] = l[i]
    BY <1>1, <1>3
  <2>3. l[k] \in Macs /\ k \in 1 .. Len(l)
    BY <1>1, <1>3
  <2>4. l[k] \notin ToSet(before)
    <3>1. ASSUME NEW i \in 1 .. k - 1 PROVE before[i] # l[k]
      BY <1>1, <1>3, <2>2
    <3>2. DOMAIN before = 1 .. k - 1
      BY <2>2
    <3> HIDE DEF before
    <3> QED BY <3>1, <3>2 DEF ToSet
  <2>5. SubSeq(l, 1, k) = Append(before, l[k])
    <3>1. SubSeq(l, 1, k) = before \o <<l[k]>>
      BY <1>1, <2>3, SubSeqRecursiveSecond
    <3> HIDE DEF before
    <3>2. Append(before, l[k]) = before \o <<l[k]>>
      BY <2>2, <2>3, AppendIsConcat
    <3> QED BY <3>1, <3>2
  <2> HIDE DEF before
  <2>6. CanTrack(before, l[k])
    BY <1>1, <1>3, <2>2 DEF CanTrack
  <2>7. g[k] = Append(before, l[k])
    BY <1>2, <2>1, <2>3, <2>4, <2>6 DEF app_config_set_allowed_mac
  <2> QED
    <3>1. k \in 0 .. n
      OBVIOUS
    <3> QED BY <2>5, <2>7, <3>1
<1> HIDE DEF T
<1>6. n \in T
  <2>1. \A k \in 0 .. n : k \in T
    BY <1>3, <1>4, <1>5, Induction
  <2>2. n \in 0 .. n
    BY <1>3
  <2> QED BY <2>1, <2>2
<1>7. SubSeq(l, 1, Len(l)) = l
  BY <1>1, SubSeqFull
<1> QED BY <1>2, <1>3, <1>6, <1>7 DEF T

\* A sound list of names too.
LEMMA NamesComeBack == ASSUME NEW l \in NameLists PROVE LoadNames(l) = l
<1>1. /\ l \in Seq(Names) /\ Len(l) \in Nat
      /\ Len(l) <= NamesMax /\ NamesMax \in Nat
      /\ (\A i, j \in 1 .. Len(l) : l[i].id = l[j].id => i = j)
      /\ \A i \in 1 .. Len(l) : l[i].name # Empty /\ ~l[i].name.padded
  BY SettingsAssumption DEF NameLists
<1>2. PICK n, g :
        /\ n \in Nat /\ n = (IF Len(l) < NamesMax THEN Len(l) ELSE NamesMax)
        /\ g[0] = <<>> /\ LoadNames(l) = g[n]
        /\ \A k \in 1 .. n : g[k] = app_config_set_device_name(g[k - 1], l[k].id, l[k].name)
  BY <1>1, LoadNamesIs
<1>3. n = Len(l) /\ n \in Nat
  BY <1>1, <1>2
<1> DEFINE T == {k \in 0 .. n : g[k] = SubSeq(l, 1, k)}
<1>4. 0 \in T
  <2>1. SubSeq(l, 1, 0) = <<>>
    BY SubSeqEmpty
  <2>2. 0 \in 0 .. n
    BY <1>3
  <2> QED BY <1>2, <2>1, <2>2, Zenon
<1>5. ASSUME NEW k \in 1 .. n, k - 1 \in T PROVE k \in T
  <2> DEFINE before == SubSeq(l, 1, k - 1)
  <2>1. g[k - 1] = before
    BY <1>5
  <2>2. /\ before \in Seq(Names) /\ Len(before) = k - 1
        /\ \A i \in 1 .. k - 1 : before[i] = l[i]
    BY <1>1, <1>3
  <2>3. l[k] \in Names /\ k \in 1 .. Len(l)
    BY <1>1, <1>3
  <2>4. Named(before, l[k].id) = {}
    <3>1. ASSUME NEW i \in 1 .. k - 1 PROVE before[i].id # l[k].id
      BY <1>1, <1>3, <2>2
    <3>2. DOMAIN before = 1 .. k - 1
      BY <2>2
    <3> HIDE DEF before
    <3> QED BY <3>1, <3>2 DEF Named
  <2>5. SubSeq(l, 1, k) = Append(before, l[k])
    <3>1. SubSeq(l, 1, k) = before \o <<l[k]>>
      BY <1>1, <2>3, SubSeqRecursiveSecond
    <3> HIDE DEF before
    <3>2. Append(before, l[k]) = before \o <<l[k]>>
      BY <2>2, <2>3, AppendIsConcat
    <3> QED BY <3>1, <3>2
  <2> HIDE DEF before
  <2>6. Trim(l[k].name) = l[k].name /\ l[k].name # Empty
    <3>1. l[k].name \in Texts /\ l[k].name.padded = FALSE
      BY <1>1, <2>3 DEF Names, Texts
    <3> QED BY <1>1, <2>3, <3>1 DEF Trim, Texts
  <2>7. [id |-> l[k].id, name |-> l[k].name] = l[k]
    BY <2>3 DEF Names
  <2>8. Len(before) < NamesMax
    BY <1>1, <1>3, <2>2
  <2>9. g[k] = Append(before, l[k])
    <3>1. g[k] = app_config_set_device_name(before, l[k].id, l[k].name)
      BY <1>2, <2>1
    <3> QED BY <2>4, <2>6, <2>7, <2>8, <3>1 DEF app_config_set_device_name, CanName
  <2> QED
    <3>1. k \in 0 .. n
      OBVIOUS
    <3> QED BY <2>5, <2>9, <3>1
<1> HIDE DEF T
<1>6. n \in T
  <2>1. \A k \in 0 .. n : k \in T
    BY <1>3, <1>4, <1>5, Induction
  <2>2. n \in 0 .. n
    BY <1>3
  <2> QED BY <2>1, <2>2
<1>7. SubSeq(l, 1, Len(l)) = l
  BY <1>1, SubSeqFull
<1> QED BY <1>2, <1>3, <1>6, <1>7 DEF T

\* Normal settings with sound lists are loaded as they were saved.
LEMMA SettingsComeBack ==
  ASSUME NEW c, Normal(c), SoundLists(c)
  PROVE  app_config_load(c) = Blankless(c)
<1> DEFINE d == [c EXCEPT !.mqtt = LoadMqtt(c.mqtt)]
<1>1. /\ c.wifi \in Wifi /\ c.mqtt \in Mqtts /\ c.retention \in Int /\ c.poll \in Int
      /\ c.wifi.ssid \in Texts /\ c.wifi.password \in Texts
  BY DEF Normal, Shaped, Wifi
<1>2. /\ Get(c.wifi, Defaults.wifi) = c.wifi /\ Get(c.mqtt, Defaults.mqtt) = c.mqtt
      /\ Get(c.retention, RetentionDefault) = c.retention /\ Get(c.poll, PollDefault) = c.poll
  BY <1>1, SettingsAssumption DEF Get
<1>3. LoadMacs(c.allowed) = c.allowed /\ LoadNames(c.names) = c.names
  BY MacsComeBack, NamesComeBack DEF SoundLists
<1>4. app_config_load(c) = app_config_normalize(d)
  <2>1. d = [wifi |-> c.wifi, allowed |-> c.allowed, retention |-> c.retention, poll |-> c.poll,
             mqtt |-> LoadMqtt(c.mqtt), names |-> c.names]
    BY DEF Normal, Shaped
  <2> HIDE DEF d
  <2> QED BY <1>2, <1>3, <2>1 DEF app_config_load
<1>5. ASSUME NEW t \in Texts, ~t.padded PROVE Trim(t) = t
  BY <1>5 DEF Trim, Texts
<1>6. /\ Trim(c.wifi.ssid) = c.wifi.ssid /\ c.wifi.ssid # Empty
      /\ Trim(c.wifi.password) = c.wifi.password
      /\ c.wifi.security = "open" => c.wifi.password = Empty
  BY <1>1, <1>5 DEF Normal
<1>7. /\ Clamp(c.retention, RetentionMin, RetentionMax) = c.retention
      /\ Clamp(c.poll, PollMin, PollMax) = c.poll
  BY Ranges DEF Normal, Clamp
<1>8. LoadMqtt(c.mqtt) \in Mqtts /\ Trim(LoadMqtt(c.mqtt).host) = LoadMqtt(c.mqtt).host
  <2>1. c.mqtt.host \in Texts /\ c.mqtt.username \in Texts /\ c.mqtt.password \in Texts
    BY <1>1 DEF Mqtts
  <2>2. /\ Trim(c.mqtt.host) \in Texts /\ ~Trim(c.mqtt.host).padded
        /\ Trim(c.mqtt.username) \in Texts /\ Trim(c.mqtt.password) \in Texts
    BY <2>1, TrimIs
  <2>3. LoadMqtt(c.mqtt) \in Mqtts /\ LoadMqtt(c.mqtt).host = Trim(c.mqtt.host)
    BY <1>1, <2>2 DEF LoadMqtt, Mqtts
  <2> QED BY <1>5, <2>2, <2>3
<1>9. app_config_normalize(d) = d
  <2>1. /\ d \in [wifi : Wifi, allowed : {c.allowed}, retention : Int, poll : Int, mqtt : Mqtts,
                   names : {c.names}]
        /\ d.wifi = c.wifi /\ d.retention = c.retention /\ d.poll = c.poll
        /\ d.mqtt = LoadMqtt(c.mqtt)
    BY <1>1, <1>8 DEF Normal, Shaped
  <2> HIDE DEF d
  <2>2. [d.wifi EXCEPT !.ssid = c.wifi.ssid, !.password = c.wifi.password] = d.wifi
    BY <1>1, <2>1 DEF Wifi
  <2>3. [d.mqtt EXCEPT !.host = LoadMqtt(c.mqtt).host] = d.mqtt
    BY <1>8, <2>1 DEF Mqtts
  <2>4. app_config_normalize(d)
          = [d EXCEPT !.wifi = [d.wifi EXCEPT !.ssid = c.wifi.ssid, !.password = c.wifi.password],
                      !.retention = c.retention, !.poll = c.poll,
                      !.mqtt = [d.mqtt EXCEPT !.host = LoadMqtt(c.mqtt).host]]
    BY <1>6, <1>7, <1>8, <2>1 DEF app_config_normalize
  <2>5. [d EXCEPT !.wifi = d.wifi, !.retention = d.retention, !.poll = d.poll, !.mqtt = d.mqtt] = d
    BY <2>1
  <2>6. LoadMqtt(c.mqtt) = d.mqtt /\ c.retention = d.retention /\ c.poll = d.poll
    BY <2>1
  <2> QED BY <2>2, <2>3, <2>4, <2>5, <2>6, Zenon
<1> QED
  BY <1>4, <1>9 DEF Blankless

\* "Saved to config.ini": what is in force then is what the next boot loads, up to
\* the blanks around the MQTT user name and password, which only loading removes.
\* It needs a disk that did not fail at the end of the save, and a name and a
\* password of the network that are one line each (app_config_save).
THEOREM AlwaysSavedSurvivesReboot == Spec => []SavedSurvivesReboot
<1>1. Init => ListsInv /\ SavedInv
  BY EmptyLists, SettingsAssumption DEF Init, ListsInv, SavedInv, Written
<1>2. SettingsInv /\ ListsInv /\ SavedInv => SavedSurvivesReboot
  BY SettingsComeBack DEF SettingsInv, ListsInv, SavedInv, SavedSurvivesReboot
<1> QED
  BY <1>1, <1>2, SettingsInit, SettingsStep, ListsStep, SavedStep, PTL DEF Spec

-----------------------------------------------------------------------------
(* What the device refuses to start with.                                  *)
(*                                                                         *)
(* Settings with a password that is too short are neither in force nor     *)
(* being saved, so that the first section of a file that a save leaves has *)
(* none either, unless it is cut or a line feed breaks it.                 *)

\* Neither the settings in force nor those that are being saved are refused.
StartableInv ==
  /\ power = "on" => ~Refused(config)
  /\ stage # "idle" => ~Refused(next)

\* A file is refused for nothing but its own password.
LEMMA RefusedFor ==
  ASSUME NEW f, FileShaped(f)
  PROVE  /\ f.wifi = Absent => ~Refused(app_config_load(f))
         /\ \A c : Shaped(c) /\ f.wifi = c.wifi /\ ~Refused(c) => ~Refused(app_config_load(f))
<1> DEFINE w == Get(f.wifi, Defaults.wifi)
<1>1. w \in Wifi
  BY DefaultsAreNormal DEF Get, FileShaped, Normal, Shaped
<1>2. /\ app_config_load(f).wifi.security = w.security
      /\ w.security # "open" => app_config_load(f).wifi.password = Trim(w.password)
  BY <1>1 DEF app_config_load, app_config_normalize, Wifi
<1>3. Trim(w.password).word = w.password.word
  BY <1>1 DEF Trim, Wifi, Texts
<1>4. ASSUME f.wifi = Absent PROVE ~Refused(app_config_load(f))
  <2>1. w.security = "open"
    BY <1>4 DEF Get, Defaults
  <2> QED BY <1>2, <2>1 DEF Refused
<1>5. ASSUME NEW c, Shaped(c), f.wifi = c.wifi, ~Refused(c) PROVE ~Refused(app_config_load(f))
  <2>1. w = c.wifi
    BY <1>5, SettingsAssumption DEF Get, Shaped
  <2> HIDE DEF w
  <2> QED BY <1>2, <1>3, <1>5, <2>1 DEF Refused
<1> QED BY <1>4, <1>5

\* No handler begins to save settings that are refused.
LEMMA HandlersStartable ==
  ASSUME SettingsInv, SavedInv, StartableInv, Handlers
  PROVE  StartableInv' /\ UNCHANGED disk
<1>1. Shaped(config)
  BY DEF SettingsInv, Normal
<1>2. ASSUME NEW c, power = "on", UNCHANGED <<power, config, disk>>,
             Rejects \/ (SaveStarts(c) /\ ~Refused(c))
      PROVE  StartableInv' /\ UNCHANGED disk
  BY <1>2 DEF Rejects, SaveStarts, StartableInv
<1>3. ASSUME NEW form, app_web_cgi_settings_handler(form) PROVE StartableInv' /\ UNCHANGED disk
  <2> DEFINE c == app_config_normalize([config EXCEPT !.wifi = form.wifi,
                                          !.retention = form.retention, !.poll = form.poll,
                                          !.mqtt = form.mqtt])
  <2>1. /\ power = "on" /\ UNCHANGED <<power, config, disk>>
        /\ Rejects \/ (SaveStarts(c) /\ ~Rejected(c))
    BY <1>3 DEF app_web_cgi_settings_handler
  <2> HIDE DEF c
  <2>2. Rejected(c) \/ ~Refused(c)
    BY DEF Rejected, Refused
  <2> QED BY <1>2, <2>1, <2>2
<1>4. ASSUME NEW mac, NEW enabled, app_web_cgi_select_handler(mac, enabled)
      PROVE  StartableInv' /\ UNCHANGED disk
  <2> DEFINE l == app_config_set_allowed_mac(config.allowed, mac, enabled)
             c == [config EXCEPT !.allowed = l]
  <2>1. /\ power = "on" /\ UNCHANGED <<power, config, disk>>
        /\ Rejects \/ SaveStarts(c)
    BY <1>4 DEF app_web_cgi_select_handler
  <2> HIDE DEF l
  <2>2. c.wifi = config.wifi
    BY <1>1 DEF Shaped
  <2> HIDE DEF c
  <2>3. ~Refused(c)
    BY <2>1, <2>2 DEF StartableInv, Refused
  <2> QED BY <1>2, <2>1, <2>3
<1>5. ASSUME NEW id, NEW name, app_web_cgi_name_handler(id, name)
      PROVE  StartableInv' /\ UNCHANGED disk
  <2> DEFINE l == app_config_set_device_name(config.names, id, name)
             c == [config EXCEPT !.names = l]
  <2>1. /\ power = "on" /\ UNCHANGED <<power, config, disk>>
        /\ Rejects \/ SaveStarts(c)
    BY <1>5 DEF app_web_cgi_name_handler
  <2> HIDE DEF l
  <2>2. c.wifi = config.wifi
    BY <1>1 DEF Shaped
  <2> HIDE DEF c
  <2>3. ~Refused(c)
    BY <2>1, <2>2 DEF StartableInv, Refused
  <2> QED BY <1>2, <2>1, <2>3
<1> QED BY <1>3, <1>4, <1>5 DEF Handlers

\* What a save leaves on the disk at its end, or when it fails: nothing new, an
\* empty file, or one with the Wi-Fi that is being saved; only a first section that
\* is cut is another.
Leaves(f) == f # Missing => FileShaped(f) /\ (f.wifi = Absent \/ f.wifi = next.wifi)

LEMMA SaveLeaves ==
  ASSUME SettingsInv, SavedInv, app_config_save
  PROVE  \/ disk' = disk
         \/ Leaves(disk')
         \/ stage = "wifi" /\ faults' # faults
         \/ BrokenWifi(next.wifi)
<1> SUFFICES ASSUME ~BrokenWifi(next.wifi)
             PROVE  disk' = disk \/ Leaves(disk') \/ (stage = "wifi" /\ faults' # faults)
  OBVIOUS
<1>1. FileShaped(file) /\ Shaped(next) /\ faults \in Nat
  BY DEF SettingsInv, SavedInv, Normal
<1>2. ASSUME NEW contents, NEW cut, NEW following, Writes(contents, cut, following),
             \A left \in cut : left # Missing => FileShaped(left) /\ left.wifi = file.wifi,
             file.wifi = next.wifi
      PROVE  disk' = disk \/ Leaves(disk')
  BY <1>1, <1>2 DEF Writes, SaveFails, Leaves
<1>3. CASE SaveWifi
  <2>1. file = NoContents /\ stage = "wifi"
    BY <1>3 DEF SaveWifi, SavedInv, Written
  <2>2. Leaves(file)
    BY <1>1, <2>1 DEF Leaves, NoContents
  <2>3. CASE SaveFails(file)
    BY <2>2, <2>3 DEF SaveFails
  <2>4. ASSUME NEW contents, NEW cut, Writes(contents, cut, "allowed")
        PROVE  disk' = disk \/ faults' # faults
    BY <1>1, <2>4 DEF Writes
  <2> QED BY <1>3, <2>1, <2>3, <2>4 DEF SaveWifi
<1>4. CASE SaveMac
  <2>1. file.wifi = next.wifi
    BY <1>4 DEF SaveMac, SavedInv, Written
  <2> DEFINE lefts == {[file EXCEPT !.allowed = Append(file.allowed, BadMac)]}
  <2>2. \A left \in lefts : FileShaped(left) /\ left.wifi = file.wifi
    <3>1. \A l : FileShaped([file EXCEPT !.allowed = l]) /\ [file EXCEPT !.allowed = l].wifi = file.wifi
      BY <1>1, Sections DEF FileShaped
    <3> QED BY <3>1
  <2>3. \E contents : Writes(contents, lefts, "allowed")
    BY <1>4 DEF SaveMac
  <2> HIDE DEF lefts
  <2> QED BY <1>2, <2>1, <2>2, <2>3
<1>5. CASE SaveMeasurements
  <2>1. file.wifi = next.wifi
    BY <1>5 DEF SaveMeasurements, SavedInv, Written
  <2> DEFINE lefts == {[file EXCEPT !.retention = n] : n \in CutNumber(next.retention)}
  <2>2. \A left \in lefts : FileShaped(left) /\ left.wifi = file.wifi
    <3>1. CutNumber(next.retention) \subseteq Int
      BY <1>1 DEF CutNumber, Shaped
    <3>2. \A n \in Int : FileShaped([file EXCEPT !.retention = n])
                        /\ [file EXCEPT !.retention = n].wifi = file.wifi
      BY <1>1, Sections DEF FileShaped
    <3> SUFFICES ASSUME NEW left \in lefts PROVE FileShaped(left) /\ left.wifi = file.wifi
      OBVIOUS
    <3>3. PICK n \in CutNumber(next.retention) : left = [file EXCEPT !.retention = n]
      OBVIOUS
    <3>4. n \in Int
      BY <3>1
    <3> QED BY <3>2, <3>3, <3>4
  <2>3. \E contents : Writes(contents, lefts, "onewire")
    BY <1>5 DEF SaveMeasurements
  <2> HIDE DEF lefts
  <2> QED BY <1>2, <2>1, <2>2, <2>3
<1>6. CASE SaveOneWire
  <2>1. file.wifi = next.wifi
    BY <1>6 DEF SaveOneWire, SavedInv, Written
  <2> DEFINE lefts == {[file EXCEPT !.poll = n] : n \in CutNumber(next.poll)}
  <2>2. \A left \in lefts : FileShaped(left) /\ left.wifi = file.wifi
    <3>1. CutNumber(next.poll) \subseteq Int
      BY <1>1 DEF CutNumber, Shaped
    <3>2. \A n \in Int : FileShaped([file EXCEPT !.poll = n])
                        /\ [file EXCEPT !.poll = n].wifi = file.wifi
      BY <1>1, Sections DEF FileShaped
    <3> SUFFICES ASSUME NEW left \in lefts PROVE FileShaped(left) /\ left.wifi = file.wifi
      OBVIOUS
    <3>3. PICK n \in CutNumber(next.poll) : left = [file EXCEPT !.poll = n]
      OBVIOUS
    <3>4. n \in Int
      BY <3>1
    <3> QED BY <3>2, <3>3, <3>4
  <2>3. \E contents : Writes(contents, lefts, "mqtt")
    BY <1>6 DEF SaveOneWire
  <2> HIDE DEF lefts
  <2> QED BY <1>2, <2>1, <2>2, <2>3
<1>7. CASE SaveMqtt
  <2>1. file.wifi = next.wifi
    BY <1>7 DEF SaveMqtt, SavedInv, Written
  <2>2. next.mqtt \in Mqtts
    BY <1>1 DEF Shaped
  <2> DEFINE cut == CutMqtt(next.mqtt)
             lefts == {[file EXCEPT !.mqtt = m] : m \in cut}
  <2>3. \A left \in lefts : FileShaped(left) /\ left.wifi = file.wifi
    <3>1. cut \subseteq Mqtts
      BY <2>2, CutMqttIs
    <3>2. \A m \in Mqtts : FileShaped([file EXCEPT !.mqtt = m])
                          /\ [file EXCEPT !.mqtt = m].wifi = file.wifi
      BY <1>1, Sections DEF FileShaped
    <3> SUFFICES ASSUME NEW left \in lefts PROVE FileShaped(left) /\ left.wifi = file.wifi
      OBVIOUS
    <3>3. PICK m \in cut : left = [file EXCEPT !.mqtt = m]
      OBVIOUS
    <3>4. m \in Mqtts
      BY <3>1
    <3> QED BY <3>2, <3>3, <3>4
  <2>4. \E contents : Writes(contents, lefts, "names")
    BY <1>7 DEF SaveMqtt
  <2> HIDE DEF lefts
  <2> QED BY <1>2, <2>1, <2>3, <2>4
<1>8. CASE SaveName
  <2>1. file.wifi = next.wifi
    BY <1>8 DEF SaveName, SavedInv, Written
  <2>2. PICK contents, cut :
          Writes(contents, {[file EXCEPT !.names = Append(file.names, n)] : n \in cut}, "names")
    BY <1>8 DEF SaveName
  <2> DEFINE lefts == {[file EXCEPT !.names = Append(file.names, n)] : n \in cut}
  <2>3. \A left \in lefts : FileShaped(left) /\ left.wifi = file.wifi
    <3>1. \A l : FileShaped([file EXCEPT !.names = l]) /\ [file EXCEPT !.names = l].wifi = file.wifi
      BY <1>1, Sections DEF FileShaped
    <3> QED BY <3>1
  <2>4. Writes(contents, lefts, "names")
    BY <2>2
  <2> HIDE DEF lefts
  <2> QED BY <1>2, <2>1, <2>3, <2>4
<1>9. CASE SaveEnds
  <2>1. stage = "names" /\ disk' \in {file, disk, NoContents}
    BY <1>9 DEF SaveEnds, Unsynced
  <2>2. file.wifi = next.wifi
    BY <2>1 DEF SavedInv, Written
  <2>3. Leaves(file) /\ Leaves(NoContents)
    BY <1>1, <2>2, NoContentsIs DEF Leaves, NoContents
  <2> QED BY <2>1, <2>3
<1> QED
  BY <1>3, <1>4, <1>5, <1>6, <1>7, <1>8, <1>9 DEF app_config_save

\* A save leaves the settings startable.
LEMMA SaveStartable ==
  ASSUME SettingsInv, SavedInv, StartableInv, app_config_save
  PROVE  StartableInv'
<1>1. stage # "idle" /\ power \in {"boot", "on"} /\ ~Refused(next)
  BY DEF SavedInv, StartableInv, app_config_save, SaveWifi, SaveMac, SaveMeasurements, SaveOneWire,
         SaveMqtt, SaveName, SaveEnds
<1>2. ASSUME NEW left, SaveFails(left) PROVE StartableInv'
  BY <1>1, <1>2 DEF SaveFails, StartableInv
<1>3. ASSUME NEW contents, NEW cut, NEW following, Writes(contents, cut, following)
      PROVE  StartableInv'
  BY <1>1, <1>2, <1>3 DEF Writes, StartableInv
<1>4. CASE SaveEnds
  BY <1>1, <1>4 DEF SaveEnds, Starts, StartableInv
<1>5. CASE SaveWifi
  BY <1>2, <1>3, <1>5 DEF SaveWifi
<1>6. CASE SaveMac \/ SaveMeasurements \/ SaveOneWire \/ SaveMqtt \/ SaveName
  BY <1>3, <1>6 DEF SaveMac, SaveMeasurements, SaveOneWire, SaveMqtt, SaveName
<1> QED
  BY <1>4, <1>5, <1>6 DEF app_config_save

\* Every step leaves them so.
LEMMA StartableStep ==
  SettingsInv /\ SavedInv /\ StartableInv /\ [Next]_vars => StartableInv'
<1> SUFFICES ASSUME SettingsInv, SavedInv, StartableInv, [Next]_vars PROVE StartableInv'
  OBVIOUS
<1>1. CASE UNCHANGED vars
  BY <1>1 DEF StartableInv, vars
<1>2. ~Refused(Defaults)
  BY DEF Refused, Defaults
<1>3. CASE Boot
  BY <1>2, <1>3 DEF Boot, Starts, SaveStarts, SavedInv, StartableInv
<1>4. CASE Reset
  BY <1>4 DEF Reset, StartableInv
<1>5. CASE UsbEdit
  BY <1>5 DEF UsbEdit, StartableInv
<1> QED
  BY <1>1, <1>3, <1>4, <1>5, SaveStartable, HandlersStartable DEF Next

\* "password: ... at least 8 characters for wpa2": whatever the pages are given, a
\* file that the device refuses to start with comes from an edit by hand, a cut in
\* its first section or a line feed (app_web_cgi_settings_handler, app_config_save,
\* init_network_services).
THEOREM AlwaysOnlyCutsLockOut == Spec => OnlyCutsLockOut
<1> DEFINE Locks == ~LockedOut /\ LockedOut'
           Excused == \/ power = "off"
                      \/ stage = "wifi" /\ faults' # faults
                      \/ BrokenWifi(next.wifi)
<1>1. Init => SavedInv /\ StartableInv
  BY SettingsAssumption DEF Init, SavedInv, Written, StartableInv
<1>2. ASSUME SettingsInv, SavedInv, StartableInv, [Next]_vars, Locks PROVE Excused
  <2>1. disk' # disk /\ disk' # Missing /\ Refused(app_config_load(disk'))
    BY <1>2 DEF LockedOut
  <2>2. CASE Boot \/ UsbEdit
    BY <2>2 DEF Boot, UsbEdit
  <2>3. CASE Reset
    <3>1. disk' = NoContents
      BY <2>1, <2>3 DEF Reset, Unsynced
    <3>2. ~Refused(app_config_load(NoContents))
      BY RefusedFor, NoContentsIs DEF NoContents
    <3> QED BY <2>1, <3>1, <3>2
  <2>4. CASE Handlers
    BY <1>2, <2>1, <2>4, HandlersStartable
  <2>5. CASE app_config_save
    <3>1. Shaped(next) /\ ~Refused(next)
      BY <1>2, <2>5 DEF SettingsInv, Normal, StartableInv, app_config_save, SaveWifi, SaveMac,
         SaveMeasurements, SaveOneWire, SaveMqtt, SaveName, SaveEnds
    <3>2. CASE Leaves(disk')
      BY <2>1, <3>1, <3>2, RefusedFor DEF Leaves
    <3> QED BY <1>2, <2>1, <2>5, <3>2, SaveLeaves
  <2>6. CASE UNCHANGED vars
    BY <2>1, <2>6 DEF vars
  <2> QED BY <1>2, <2>2, <2>3, <2>4, <2>5, <2>6 DEF Next
<1>3. /\ SettingsInv /\ ListsInv /\ SavedInv /\ StartableInv
      /\ SettingsInv' /\ ListsInv' /\ SavedInv' /\ StartableInv' /\ [Next]_vars
      => [Locks => Excused]_vars
  BY <1>2
<1>4. Init => ListsInv
  BY EmptyLists DEF Init, ListsInv
<1> HIDE DEF Locks, Excused
<1>5. Spec => [][Locks => Excused]_vars
  BY <1>1, <1>3, <1>4, SettingsInit, SettingsStep, ListsStep, SavedStep, StartableStep, PTL DEF Spec
<1> QED
  BY <1>5 DEF OnlyCutsLockOut, Locks, Excused

-----------------------------------------------------------------------------
(* The log.                                                                *)
(*                                                                         *)
(* What a browser has received is the beginning of what both files held    *)
(* when it asked, of a length that the two reading positions tell.  The    *)
(* files behind the handles keep their contents while rotations rename     *)
(* them, and only a removal of one that is still to be read spoils it.     *)

\* The files hold units of text, and an open handle leads to one.
FilesInv ==
  /\ {Content(log), Content(log1), tail} \subseteq Seq(Nat)
  /\ logger = "sync" => log_file.open
  /\ log_file.open /\ logger \in {"idle", "write", "sync"} => log \in Seq(Nat)
  /\ log_file \in [open : BOOLEAN, size : Nat, err : BOOLEAN]
  /\ incoming \in Nat /\ units \in Nat

Streams ==
  [in_use : BOOLEAN, previous : Seq(Nat), previous_read : Nat, current : Seq(Nat),
   current_read : Nat, current_is : {"log", "log1"}, eof : BOOLEAN]

\* How far the browser has got, and what it has.
StreamInv ==
  /\ stream \in Streams /\ clean \in BOOLEAN
  /\ stream.previous_read <= Len(stream.previous)
  /\ stream.current_read <= Len(stream.current)
  /\ stream.in_use =>
       /\ at_open = stream.previous \o stream.current
       /\ clean =>
            /\ got = SubSeq(at_open, 1, stream.previous_read + stream.current_read)
            /\ stream.current_read > 0 => stream.previous_read = Len(stream.previous)
            /\ stream.eof => /\ stream.previous_read = Len(stream.previous)
                             /\ stream.current_read = Len(stream.current)

\* The lesser of two numbers.
LEMMA MinIs ==
  ASSUME NEW i \in Int, NEW j \in Int
  PROVE  Min({i, j}) = IF i <= j THEN i ELSE j
BY DEF Min

\* What is received of the first file, and then of the second, continues the
\* beginning of both that was received.
LEMMA FirstContinues ==
  ASSUME NEW s \in Seq(Nat), NEW t \in Seq(Nat), NEW i \in Nat, NEW n \in Nat, i + n <= Len(s)
  PROVE  SubSeq(s \o t, 1, i) \o SubSeq(s, i + 1, i + n) = SubSeq(s \o t, 1, i + n)
<1> DEFINE st == s \o t
<1>1. Len(s) \in Nat /\ Len(t) \in Nat /\ st \in Seq(Nat) /\ Len(st) = Len(s) + Len(t)
  OBVIOUS
<1>2. SubSeq(s, i + 1, i + n) = SubSeq(st, i + 1, i + n)
  <2>1. CASE n = 0
    BY <2>1, SubSeqEmpty
  <2>2. CASE n # 0
    <3>1. i + 1 \in 1 .. Len(s) /\ i + n \in 1 .. Len(s)
      BY <1>1, <2>2
    <3> QED
      BY <3>1, SubSeqOfConcat1
  <2> QED
    BY <2>1, <2>2
<1>3. /\ i \in 1 - 1 .. Len(st) /\ i + n \in i .. Len(st) /\ 1 \in 1 .. Len(st) + 1
  BY <1>1
<1> HIDE DEF st
<1>4. SubSeq(st, 1, i) \o SubSeq(s, i + 1, i + n) = SubSeq(st, 1, i + n)
  BY <1>1, <1>2, <1>3, ConcatAdjacentSubSeq
<1> QED
  BY <1>4 DEF st

Continues(s, t, i, n) ==
  SubSeq(s \o t, 1, Len(s) + i) \o SubSeq(t, i + 1, i + n) = SubSeq(s \o t, 1, Len(s) + (i + n))

LEMMA SecondContinues ==
  ASSUME NEW s \in Seq(Nat), NEW t \in Seq(Nat), NEW i \in Nat, NEW n \in Nat, i + n <= Len(t)
  PROVE  Continues(s, t, i, n)
<1> DEFINE st == s \o t
<1>1. Len(s) \in Nat /\ Len(t) \in Nat /\ st \in Seq(Nat) /\ Len(st) = Len(s) + Len(t)
  OBVIOUS
<1>2. SubSeq(t, i + 1, i + n) = SubSeq(st, (Len(s) + i) + 1, Len(s) + (i + n))
  <2>1. CASE n = 0
    BY <1>1, <2>1, SubSeqEmpty
  <2>2. CASE n # 0
    <3>1. /\ (Len(s) + i) + 1 \in Len(s) + 1 .. Len(s) + Len(t)
          /\ Len(s) + (i + n) \in Len(s) + 1 .. Len(s) + Len(t)
          /\ ((Len(s) + i) + 1) - Len(s) = i + 1 /\ (Len(s) + (i + n)) - Len(s) = i + n
      BY <1>1, <2>2
    <3>2. SubSeq(st, (Len(s) + i) + 1, Len(s) + (i + n))
            = SubSeq(t, ((Len(s) + i) + 1) - Len(s), (Len(s) + (i + n)) - Len(s))
      BY <3>1, SubSeqOfConcat2
    <3> QED
      BY <3>1, <3>2
  <2> QED
    BY <2>1, <2>2
<1>3. /\ Len(s) + i \in 1 - 1 .. Len(st) /\ Len(s) + (i + n) \in Len(s) + i .. Len(st)
      /\ 1 \in 1 .. Len(st) + 1
  BY <1>1
<1> HIDE DEF st
<1>4. SubSeq(st, 1, Len(s) + i) \o SubSeq(t, i + 1, i + n) = SubSeq(st, 1, Len(s) + (i + n))
  BY <1>1, <1>2, <1>3, ConcatAdjacentSubSeq
<1> QED
  BY <1>4 DEF st, Continues

\* What a read may deliver: the next units of the file, unless it was removed.
LEMMA UnitsAre ==
  ASSUME NEW f \in Seq(Nat), NEW r \in Nat, r <= Len(f), NEW count \in Nat \ {0},
         NEW seq \in Units(f, r, count), clean \in BOOLEAN
  PROVE  /\ seq \in Seq(Nat) /\ r + Len(seq) <= Len(f)
         /\ clean => /\ seq = SubSeq(f, r + 1, r + Len(seq))
                     /\ seq = <<>> => r = Len(f)
<1> DEFINE m == IF count <= Len(f) - r THEN count ELSE Len(f) - r
           rest == SubSeq(f, r + 1, r + m)
<1>1. m \in Nat /\ r + m <= Len(f) /\ (m = 0 => r = Len(f))
  OBVIOUS
<1>2. Min({count, Len(f) - r}) = m
  BY MinIs
<1> HIDE DEF m
<1>3. rest \in Seq(Nat) /\ Len(rest) = m /\ DOMAIN rest = 1 .. m
  BY <1>1
<1>4. Units(f, r, count) =
        IF clean THEN {rest} ELSE {rest, [k \in DOMAIN rest |-> 0], <<>>}
  BY <1>2 DEF Units
<1> HIDE DEF rest
<1>5. CASE seq = rest
  BY <1>1, <1>3, <1>5 DEF rest
<1>6. CASE ~clean /\ seq = [k \in DOMAIN rest |-> 0]
  <2>1. seq \in Seq(Nat) /\ Len(seq) = m
    BY <1>1, <1>3, <1>6
  <2> QED
    BY <1>1, <1>6, <2>1
<1>7. CASE ~clean /\ seq = <<>>
  BY <1>7
<1> QED
  BY <1>4, <1>5, <1>6, <1>7

\* A page that has not been asked for holds nothing.
LEMMA NoStreamIs ==
  ASSUME stream' = NoStream, clean' \in BOOLEAN
  PROVE  StreamInv'
BY DEF NoStream, StreamInv, Streams

\* The steps of app_log keep the files, and a rotation the browser's place.
LEMMA AppLogKeeps ==
  ASSUME FilesInv, StreamInv, MaxLine \in Nat,
         \/ \E len \in 1 .. MaxLine : Begins(len)
         \/ Unlinks \/ Renames \/ Opens \/ WritesLine \/ Syncs
  PROVE  FilesInv' /\ StreamInv'
<1>1. ASSUME NEW len \in 1 .. MaxLine, Begins(len) PROVE FilesInv' /\ StreamInv'
  <2>0. /\ logger = "idle" /\ len \in Nat /\ incoming' = len /\ UNCHANGED <<log1, log_file, units>>
        /\ \/ logger' = "write" /\ UNCHANGED <<log, tail>>
           \/ /\ logger' = "unlink" /\ tail' = <<>>
              /\ \/ log' = IF log_file.open THEN log \o tail ELSE log
                 \/ UNCHANGED log
    BY <1>1 DEF Begins
  <2>1. log_file.open => log \o tail \in Seq(Nat)
    BY <2>0 DEF FilesInv
  <2>3. Content(log)' \in Seq(Nat) /\ Content(log1)' \in Seq(Nat) /\ tail' \in Seq(Nat)
    <3>1. /\ Content(log) \in Seq(Nat) /\ Content(log1) \in Seq(Nat)
          /\ tail \in Seq(Nat) /\ <<>> \in Seq(Nat)
      BY DEF FilesInv
    <3>2. Content(log1)' = Content(log1) /\ tail' \in {tail, <<>>}
      BY <2>0 DEF Content
    <3>3. CASE log' = log
      BY <3>1, <3>2, <3>3 DEF Content
    <3>4. CASE log_file.open /\ log' = log \o tail
      <4>1. log' \in Seq(Nat)
        BY <2>1, <3>4
      <4> QED
        BY <3>1, <3>2, <4>1 DEF Content
    <3> QED
      BY <2>0, <3>3, <3>4
  <2>4. FilesInv'
    BY <2>0, <2>3 DEF FilesInv
  <2>2. StreamInv'
    BY <1>1 DEF StreamInv, Begins, streamVars
  <2> QED
    BY <2>2, <2>4
<1>2. CASE Unlinks
  <2>1. FilesInv'
    BY <1>2 DEF FilesInv, Unlinks, Content
  <2>2. /\ UNCHANGED <<stream, got, at_open>>
        /\ clean' \in BOOLEAN /\ (clean' => clean)
    <3> DEFINE spared == \/ log1 = NoFile
                         \/ IF stream.current_is = "log1"
                            THEN stream.current_read = Len(stream.current)
                            ELSE stream.previous_read = Len(stream.previous)
    <3>1. clean \in BOOLEAN
      BY DEF StreamInv
    <3>2. UNCHANGED <<stream, got, at_open>>
      BY <1>2 DEF Unlinks
    <3>3. UNCHANGED clean \/ clean' = (clean /\ spared)
      BY <1>2, Zenon DEF Unlinks
    <3> HIDE DEF spared
    <3>4. clean' \in BOOLEAN /\ (clean' => clean)
      <4>1. CASE clean' = (clean /\ spared)
        <5>1. clean' => clean
          BY <4>1, Zenon
        <5>2. clean' \in BOOLEAN
          BY <4>1, Zenon
        <5> QED
          BY <5>1, <5>2
      <4> QED
        BY <3>1, <3>3, <4>1
    <3> QED
      BY <3>2, <3>4
  <2>3. StreamInv'
    BY <2>2 DEF StreamInv
  <2> QED
    BY <2>1, <2>3
<1>3. CASE Renames
  <2>1. FilesInv'
    BY <1>3 DEF FilesInv, Renames, Content
  <2>2. /\ UNCHANGED <<got, at_open, clean>>
        /\ \/ UNCHANGED stream
           \/ \E is \in {"log", "log1"} : stream' = [stream EXCEPT !.current_is = is]
    BY <1>3 DEF Renames
  <2>3. StreamInv'
    BY <2>2 DEF StreamInv, Streams
  <2> QED
    BY <2>1, <2>3
<1>4. CASE Opens
  <2>1. /\ Content(log)' = Content(log) /\ Content(log1)' = Content(log1)
        /\ Content(log) \in Seq(Nat) /\ Len(Content(log)) \in Nat
    BY <1>4 DEF FilesInv, Opens, Content
  <2>2. UNCHANGED <<log1, tail, incoming, units>> /\ logger' \in {"write", "idle"}
    BY <1>4 DEF Opens
  <2>3. /\ log_file' \in [open : BOOLEAN, size : Nat, err : BOOLEAN]
        /\ log_file'.open => log' = Content(log)
    <3>1. CASE /\ log' = Content(log)
               /\ log_file' = [OpenHandle EXCEPT !.size = Len(log')]
      BY <2>1, <3>1 DEF OpenHandle
    <3>2. CASE log_file' = [log_file EXCEPT !.open = FALSE]
      BY <3>2 DEF FilesInv
    <3>3. CASE /\ log' = Content(log)
               /\ log_file' = [open |-> FALSE, size |-> Len(log'), err |-> FALSE]
      BY <2>1, <3>3
    <3> QED
      BY <1>4, <3>1, <3>2, <3>3 DEF Opens
  <2>4. FilesInv'
    BY <2>1, <2>2, <2>3 DEF FilesInv
  <2>5. StreamInv'
    BY <1>4 DEF StreamInv, Opens, streamVars
  <2> QED
    BY <2>4, <2>5
<1>5. CASE WritesLine
  <2>1. UNCHANGED <<log, log1, incoming, units>> /\ logger = "write" /\ logger' \in {"idle", "sync"}
    BY <1>5 DEF WritesLine
  <2>2. /\ log_file' \in [open : BOOLEAN, size : Nat, err : BOOLEAN]
        /\ log_file'.open = log_file.open
        /\ logger' = "sync" => log_file.open
        /\ tail' \in Seq(Nat)
    <3>0. incoming \in Nat /\ units \in Nat /\ tail \in Seq(Nat)
      BY DEF FilesInv
    <3>1. ASSUME NEW seq \in Seq(Nat), NEW n \in Nat,
                 tail' = tail \o seq, log_file' = [log_file EXCEPT !.size = @ + n]
          PROVE  /\ tail' \in Seq(Nat) /\ log_file'.open = log_file.open
                 /\ log_file' \in [open : BOOLEAN, size : Nat, err : BOOLEAN]
      <4>1. tail' \in Seq(Nat)
        BY <3>0, <3>1
      <4>2. log_file.size + n \in Nat
        BY DEF FilesInv
      <4>3. log_file' = [log_file EXCEPT !.size = log_file.size + n]
        BY <3>1
      <4> QED
        BY <4>1, <4>2, <4>3 DEF FilesInv
    <3>2. Line \in Seq(Nat)
      BY <3>0 DEF Line
    <3>3. \A k \in 0 .. incoming - 1 : k \in Nat /\ [i \in 1 .. k |-> 0] \in Seq(Nat)
      BY <3>0
    <3>4. \/ UNCHANGED <<log_file, tail>> /\ logger' = "idle"
          \/ /\ log_file.open /\ tail' = tail \o Line
             /\ log_file' = [log_file EXCEPT !.size = @ + incoming]
          \/ /\ logger' = "idle"
             /\ \E k \in 0 .. incoming - 1 :
                  /\ tail' = tail \o [i \in 1 .. k |-> 0]
                  /\ log_file' = [log_file EXCEPT !.size = @ + k]
          \/ /\ logger' = "idle" /\ UNCHANGED tail
             /\ log_file' = [log_file EXCEPT !.err = TRUE]
      BY <1>5 DEF WritesLine
    <3>5. CASE UNCHANGED <<log_file, tail>> /\ logger' = "idle"
      BY <3>0, <3>5 DEF FilesInv
    <3>6. CASE /\ log_file.open /\ tail' = tail \o Line
               /\ log_file' = [log_file EXCEPT !.size = @ + incoming]
      BY <3>0, <3>1, <3>2, <3>6
    <3>7. CASE /\ logger' = "idle"
               /\ \E k \in 0 .. incoming - 1 :
                    /\ tail' = tail \o [i \in 1 .. k |-> 0]
                    /\ log_file' = [log_file EXCEPT !.size = @ + k]
      BY <3>1, <3>3, <3>7
    <3>8. CASE /\ logger' = "idle" /\ UNCHANGED tail
               /\ log_file' = [log_file EXCEPT !.err = TRUE]
      BY <3>0, <3>8 DEF FilesInv
    <3> QED
      BY <3>4, <3>5, <3>6, <3>7, <3>8
  <2>4. StreamInv'
    BY <1>5 DEF StreamInv, WritesLine, streamVars
  <2> QED
    BY <2>1, <2>2, <2>4 DEF FilesInv, Content
<1>6. CASE Syncs
  <2>0. /\ logger = "sync" /\ logger' = "idle" /\ UNCHANGED <<log1, log_file, incoming>>
        /\ units' = units + incoming
        /\ \/ log' = log \o tail /\ tail' = <<>>
           \/ UNCHANGED <<log, tail>>
    BY <1>6 DEF Syncs
  <2>1. FilesInv'
    <3>1. log \in Seq(Nat) /\ tail \in Seq(Nat) /\ log \o tail \in Seq(Nat) /\ <<>> \in Seq(Nat)
      BY <2>0 DEF FilesInv
    <3>2. log' \in Seq(Nat) /\ tail' \in Seq(Nat)
      BY <2>0, <3>1
    <3>3. Content(log') \in Seq(Nat) /\ Content(log1') = Content(log1)
      BY <2>0, <3>2 DEF Content
    <3> QED
      BY <2>0, <3>2, <3>3 DEF FilesInv
  <2>2. StreamInv'
    BY <1>6 DEF StreamInv, Syncs, streamVars
  <2> QED
    BY <2>1, <2>2
<1> QED
  BY <1>1, <1>2, <1>3, <1>4, <1>5, <1>6

\* A browser begins with nothing.
LEMMA OpenKeeps == FilesInv /\ StreamInv /\ fs_open_custom => StreamInv'
<1> SUFFICES ASSUME FilesInv, StreamInv, fs_open_custom PROVE StreamInv'
  OBVIOUS
<1> DEFINE p == Content(log1)
           c == Content(log)
<1>1. p \in Seq(Nat) /\ c \in Seq(Nat)
  BY DEF FilesInv
<1>2. /\ stream' = [in_use |-> TRUE, previous |-> p, previous_read |-> 0, current |-> c,
                    current_read |-> 0, current_is |-> "log", eof |-> FALSE]
      /\ got' = <<>> /\ at_open' = p \o c /\ clean' = TRUE
  BY DEF fs_open_custom, NoStream
<1> HIDE DEF p, c
<1>3. SubSeq(p \o c, 1, 0) = <<>>
  BY SubSeqEmpty
<1> QED
  BY SMTT(20), <1>1, <1>2, <1>3 DEF StreamInv, Streams

\* A read goes on where the browser has got to.
LEMMA ReadKeeps ==
  ASSUME StreamInv, ReadChunk \in Nat, NEW count \in 1 .. ReadChunk, fs_read_custom(count)
  PROVE  StreamInv'
<1>1. PICK p \in Seq(Nat), c \in Seq(Nat), i \in Nat, j \in Nat :
        /\ p = stream.previous /\ c = stream.current
        /\ i = stream.previous_read /\ j = stream.current_read
  BY DEF StreamInv, Streams
<1>2. i <= Len(p) /\ j <= Len(c) /\ count \in Nat \ {0}
  BY <1>1 DEF StreamInv
<1>3. /\ stream.in_use /\ at_open = p \o c /\ ~stream.eof
      /\ clean \in BOOLEAN /\ UNCHANGED <<at_open, clean>>
  BY <1>1 DEF StreamInv, fs_read_custom
<1>4. clean => got = SubSeq(p \o c, 1, i + j) /\ (j > 0 => i = Len(p))
  BY <1>1, <1>3 DEF StreamInv
<1>5. CASE /\ i < Len(p)
           /\ \E seq \in Units(p, i, count) \ {<<>>} :
                /\ got' = got \o seq
                /\ stream' = [stream EXCEPT !.previous_read = i + Len(seq)]
  <2>1. PICK seq \in Units(p, i, count) :
          /\ got' = got \o seq
          /\ stream' = [stream EXCEPT !.previous_read = i + Len(seq)]
    BY <1>5
  <2>2. PICK n \in Nat : n = Len(seq) /\ seq \in Seq(Nat) /\ i + n <= Len(p)
    BY <1>2, <1>3, UnitsAre
  <2>3. clean => seq = SubSeq(p, i + 1, i + n)
    <3>1. clean => seq = SubSeq(p, i + 1, i + Len(seq))
      BY <1>2, <1>3, UnitsAre
    <3> QED
      BY <2>2, <3>1
  <2>4. /\ stream' \in Streams
        /\ stream'.previous = p /\ stream'.current = c /\ stream'.in_use /\ ~stream'.eof
        /\ stream'.previous_read = i + n /\ stream'.current_read = j
    <3>1. stream' = [stream EXCEPT !.previous_read = i + n]
      BY <2>1, <2>2
    <3> QED
      <4>1. stream \in Streams /\ i + n \in Nat
        BY DEF StreamInv
      <4>2. stream' \in Streams
        BY <3>1, <4>1 DEF Streams
      <4>3. /\ stream'.previous = stream.previous /\ stream'.current = stream.current
            /\ stream'.in_use = stream.in_use /\ stream'.eof = stream.eof
            /\ stream'.previous_read = i + n /\ stream'.current_read = stream.current_read
        BY <3>1, <4>1 DEF Streams
      <4> QED
        BY <1>1, <1>3, <4>2, <4>3
  <2>5. ASSUME clean PROVE j = 0 /\ got' = SubSeq(p \o c, 1, (i + n) + j)
    <3>1. j = 0
      BY <1>2, <1>4, <1>5, <2>5
    <3>2. SubSeq(p \o c, 1, i) \o SubSeq(p, i + 1, i + n) = SubSeq(p \o c, 1, i + n)
      <4>1. i + n <= Len(p)
        BY <2>2
      <4> QED
        BY <4>1, FirstContinues, Zenon
    <3>3. i + j = i /\ (i + n) + j = i + n
      BY <3>1
    <3> QED
      BY <1>4, <2>1, <2>3, <2>5, <3>1, <3>2, <3>3, Zenon
  <2> QED
    BY SMTT(20), <1>2, <1>3, <2>2, <2>4, <2>5 DEF StreamInv
<1>6. CASE /\ \/ i = Len(p)
              \/ <<>> \in Units(p, i, count)
           /\ \E seq \in Units(c, j, count) :
                /\ got' = got \o seq
                /\ stream' = [stream EXCEPT !.previous_read = Len(p),
                                            !.current_read = j + Len(seq), !.eof = seq = <<>>]
  <2>1. PICK seq \in Units(c, j, count) :
          /\ got' = got \o seq
          /\ stream' = [stream EXCEPT !.previous_read = Len(p),
                                      !.current_read = j + Len(seq), !.eof = seq = <<>>]
    BY <1>6
  <2>2. PICK m \in Nat, n \in Nat :
          m = Len(p) /\ n = Len(seq) /\ seq \in Seq(Nat) /\ j + n <= Len(c)
    BY <1>2, <1>3, UnitsAre
  <2>3. clean => seq = SubSeq(c, j + 1, j + n)
    <3>1. clean => seq = SubSeq(c, j + 1, j + Len(seq))
      BY <1>2, <1>3, UnitsAre
    <3> QED
      BY <2>2, <3>1
  <2>4. clean => (seq = <<>> => j + n = Len(c))
    <3>1. clean => (seq = <<>> => j = Len(c))
      BY <1>2, <1>3, UnitsAre
    <3> QED
      BY <2>2, <3>1
  <2>5. /\ stream' \in Streams
        /\ stream'.previous = p /\ stream'.current = c /\ stream'.in_use
        /\ stream'.eof = (seq = <<>>)
        /\ stream'.previous_read = m /\ stream'.current_read = j + n
    <3>1. stream' = [stream EXCEPT !.previous_read = m, !.current_read = j + n,
                                   !.eof = seq = <<>>]
      BY <2>1, <2>2
    <3> QED
      <4>1. stream \in Streams /\ j + n \in Nat
        BY DEF StreamInv
      <4>2. stream' \in Streams
        BY <3>1, <4>1 DEF Streams
      <4>3. /\ stream'.previous = stream.previous /\ stream'.current = stream.current
            /\ stream'.in_use = stream.in_use /\ stream'.eof = (seq = <<>>)
            /\ stream'.previous_read = m /\ stream'.current_read = j + n
        BY <3>1, <4>1 DEF Streams
      <4> QED
        BY <1>1, <1>3, <4>2, <4>3
  <2>6. ASSUME clean PROVE got' = SubSeq(p \o c, 1, m + (j + n))
    <3>1. i = m
      <4>1. CASE <<>> \in Units(p, i, count)
        BY <1>2, <1>3, <2>2, <2>6, <4>1, UnitsAre
      <4> QED
        BY <1>6, <2>2, <4>1
    <3>2. SubSeq(p \o c, 1, m + j) \o SubSeq(c, j + 1, j + n) = SubSeq(p \o c, 1, m + (j + n))
      <4>1. j + n <= Len(c)
        BY <2>2
      <4>2. SubSeq(p \o c, 1, Len(p) + j) \o SubSeq(c, j + 1, j + n)
              = SubSeq(p \o c, 1, Len(p) + (j + n))
        <5>1. Continues(p, c, j, n)
          BY <4>1, SecondContinues
        <5> QED
          BY <5>1 DEF Continues
      <4> QED
        BY <2>2, <4>2
    <3> QED
      BY <1>4, <2>1, <2>3, <2>6, <3>1, <3>2, Zenon
  <2> QED
    <3>1. /\ stream'.previous_read <= Len(stream'.previous)
          /\ stream'.current_read <= Len(stream'.current)
          /\ at_open' = stream'.previous \o stream'.current /\ clean' \in BOOLEAN
      BY <1>3, <2>2, <2>5
    <3>2. clean' =>
            /\ stream'.previous_read = Len(stream'.previous)
            /\ stream'.eof => stream'.current_read = Len(stream'.current)
      BY <1>3, <2>2, <2>4, <2>5
    <3>3. clean' => got' = SubSeq(at_open', 1, stream'.previous_read + stream'.current_read)
      BY <1>3, <2>5, <2>6
    <3> QED
      BY <2>5, <3>1, <3>2, <3>3 DEF StreamInv
<1> QED
  BY <1>1, <1>5, <1>6 DEF fs_read_custom, Reads

\* Every step keeps both.
LEMMA StreamNext ==
  ASSUME MaxLine \in Nat, ReadChunk \in Nat
  PROVE  FilesInv /\ StreamInv /\ [LogNext]_logVars => FilesInv' /\ StreamInv'
<1> SUFFICES ASSUME FilesInv, StreamInv, [LogNext]_logVars PROVE FilesInv' /\ StreamInv'
  OBVIOUS
<1>1. CASE \/ \E len \in 1 .. MaxLine : Begins(len)
           \/ Unlinks \/ Renames \/ Opens \/ WritesLine \/ Syncs
  BY <1>1, AppLogKeeps
<1>2. CASE PowerLoss
  <2>1. FilesInv'
    <3>1. /\ Content(log)' = Content(log) /\ Content(log1)' = Content(log1)
          /\ Content(log) \in Seq(Nat) /\ Len(Content(log)) \in Nat
          /\ log' = Content(log)
      BY <1>2 DEF FilesInv, PowerLoss, Content
    <3>2. /\ tail' = <<>> /\ logger' = "idle" /\ incoming' = 0 /\ UNCHANGED <<log1, units>>
          /\ log_file' = [OpenHandle EXCEPT !.size = Len(log')]
      BY <1>2 DEF PowerLoss
    <3>3. log_file' \in [open : BOOLEAN, size : Nat, err : BOOLEAN]
      BY <3>1, <3>2 DEF OpenHandle
    <3> QED
      BY <3>1, <3>2, <3>3 DEF FilesInv
  <2>2. StreamInv'
    BY <1>2, NoStreamIs DEF PowerLoss
  <2> QED
    BY <2>1, <2>2
<1>3. CASE fs_open_custom \/ fs_close_custom \/ \E count \in 1 .. ReadChunk : fs_read_custom(count)
  <2>1. FilesInv'
    BY <1>3 DEF FilesInv, fs_open_custom, fs_close_custom, fs_read_custom, appLogVars,
                Content
  <2>2. CASE fs_close_custom
    <3>1. StreamInv'
      BY <2>2, NoStreamIs DEF fs_close_custom
    <3> QED
      BY <2>1, <3>1
  <2> QED
    BY <1>3, <2>1, <2>2, OpenKeeps, ReadKeeps
<1>4. CASE UNCHANGED logVars
  BY <1>4 DEF logVars, appLogVars, streamVars, FilesInv, StreamInv, Content
<1> QED
  BY <1>1, <1>2, <1>3, <1>4 DEF LogNext

\* A browser receives the beginning of what both files held when it asked, and at
\* the end all of it, unless a rotation removed a file that it had not yet read.
THEOREM AlwaysStreamIsExact == LogSpec => []StreamIsExact
<1>1. LogInit => FilesInv /\ StreamInv
  <2> SUFFICES ASSUME LogInit PROVE FilesInv /\ StreamInv
    OBVIOUS
  <2>1. FilesInv
    BY DEF LogInit, FilesInv, Content, OpenHandle
  <2>2. StreamInv
    BY DEF LogInit, StreamInv, Streams, NoStream
  <2> QED
    BY <2>1, <2>2
<1>2. FilesInv /\ StreamInv /\ [LogNext]_logVars => FilesInv' /\ StreamInv'
  BY StreamNext, LogAssumption
<1>3. StreamInv => StreamIsExact
  <2> SUFFICES ASSUME StreamInv, stream.in_use, clean
               PROVE  IF stream.eof THEN got = at_open ELSE IsPrefix(got, at_open)
    BY DEF StreamIsExact
  <2>1. PICK p \in Seq(Nat), c \in Seq(Nat), i \in Nat, j \in Nat :
          /\ p = stream.previous /\ c = stream.current
          /\ i = stream.previous_read /\ j = stream.current_read
    BY DEF StreamInv, Streams
  <2> DEFINE n == i + j
             all == p \o c
  <2>2. at_open = all /\ got = SubSeq(all, 1, n)
    BY <2>1 DEF StreamInv
  <2>3. i <= Len(p) /\ j <= Len(c) /\ (stream.eof => i = Len(p) /\ j = Len(c))
    BY <2>1 DEF StreamInv
  <2>4. all \in Seq(Nat) /\ Len(all) \in Nat /\ Len(all) = Len(p) + Len(c)
    OBVIOUS
  <2>5. n \in Nat /\ n <= Len(all) /\ (stream.eof => n = Len(all))
    BY <2>4, <2>3
  <2> HIDE DEF n, all
  <2>6. CASE stream.eof
    BY <2>2, <2>4, <2>5, <2>6, SubSeqFull
  <2>7. IsPrefix(got, at_open)
    <3>1. got \in Seq(Nat) /\ Len(got) = n /\ n <= Len(at_open) /\ Len(at_open) \in Nat
      BY <2>2, <2>4, <2>5
    <3>2. SubSeq(got, 1, Len(got)) = got
      BY <3>1, SubSeqFull
    <3> QED
      BY <2>2, <3>1, <3>2 DEF IsPrefix
  <2> QED
    BY <2>6, <2>7
<1> QED
  BY <1>1, <1>2, <1>3, PTL DEF LogSpec

-----------------------------------------------------------------------------
(* What the log keeps.                                                     *)
(*                                                                         *)
(* The units in both files and in what is not yet on the disk rise one by  *)
(* one to the last one logged, apart from what was cut short and from what *)
(* a failed f_sync left off the disk.  A rotation takes away a beginning   *)
(* of them; a power loss, or a file that cannot be closed, an end, which   *)
(* holds nothing else that was logged.  As long as the handle is open, the *)
(* size that it knows is that of the file.                                 *)

\* A rotation comes when no more than this is left of a file for one line.
Room == MaxSize - MaxLine + 1

\* Rising, and from the first unit up to n without a gap, apart from those of U.
InOrder(s, n, U) ==
  /\ \A i, j \in 1 .. Len(s) : i < j /\ s[i] # 0 /\ s[j] # 0 => s[i] < s[j]
  /\ \A i \in 1 .. Len(s) : s[i] # 0 =>
       /\ s[i] <= n
       /\ \A u \in s[i] .. n : u \in U \/ \E j \in 1 .. Len(s) : s[j] = u

OnDisk == Content(log1) \o Content(log)

\* The last unit that is in the files or about to be.
LastUnit == IF logger = "sync" THEN units + incoming ELSE units

OrderInv ==
  /\ InOrder(OnDisk \o tail, LastUnit, ToSet(unsynced))
  /\ \A i \in 1 .. Len(OnDisk) : OnDisk[i] <= units
  /\ \A i \in 1 .. Len(tail) : tail[i] # 0 /\ tail[i] <= units => tail[i] \in ToSet(unsynced)

LineInv ==
  /\ logger \in {"idle", "unlink", "rename", "open", "write", "sync"}
  /\ incoming <= MaxLine /\ unsynced \in Seq(Nat)
  /\ logger = "sync" => incoming <= Len(tail)
  /\ logger \in {"unlink", "rename", "open"} => tail = <<>>

RoomInv ==
  ~rotation_failed =>
    /\ log_file.open
    /\ logger \in {"idle", "write", "sync"} => log_file.size = Len(log) + Len(tail)
    /\ logger \in {"unlink", "rename"} => Len(Content(log)) >= Room
    /\ \/ Len(Content(log1)) >= Room \/ Len(Content(log)) >= Room
       \/ units <= (Len(Content(log1)) + Len(Content(log))) + Len(unsynced)

RecentInv == LineInv /\ OrderInv /\ RoomInv

\* The elements of two sequences together.
LEMMA Joined ==
  ASSUME NEW s \in Seq(Nat), NEW t \in Seq(Nat)
  PROVE  /\ s \o t \in Seq(Nat) /\ Len(s \o t) = Len(s) + Len(t)
         /\ \A i \in 1 .. Len(s) : (s \o t)[i] = s[i]
         /\ \A i \in 1 .. Len(t) : (s \o t)[Len(s) + i] = t[i]
<1>1. s \o t \in Seq(Nat) /\ Len(s \o t) = Len(s) + Len(t)
  OBVIOUS
<1>2. ASSUME NEW i \in 1 .. Len(s) PROVE (s \o t)[i] = s[i]
  OBVIOUS
<1>3. ASSUME NEW i \in 1 .. Len(t) PROVE (s \o t)[Len(s) + i] = t[i]
  OBVIOUS
<1> QED
  BY <1>1, <1>2, <1>3

\* Each of them is one of the first or of the second.
LEMMA JoinedFrom ==
  ASSUME NEW s \in Seq(Nat), NEW t \in Seq(Nat), NEW i \in 1 .. Len(s \o t)
  PROVE  \/ i \in 1 .. Len(s) /\ (s \o t)[i] = s[i]
         \/ i - Len(s) \in 1 .. Len(t) /\ (s \o t)[i] = t[i - Len(s)]
<1> DEFINE e == s \o t
           k == i - Len(s)
<1>1. /\ Len(s) \in Nat /\ Len(t) \in Nat /\ Len(e) = Len(s) + Len(t)
      /\ \A j \in 1 .. Len(s) : e[j] = s[j]
      /\ \A j \in 1 .. Len(t) : e[Len(s) + j] = t[j]
  BY Joined
<1>2. CASE i \in 1 .. Len(s)
  BY <1>1, <1>2
<1>3. CASE ~(i \in 1 .. Len(s))
  <2>1. i \in 1 .. Len(e)
    OBVIOUS
  <2>2. Len(s) \in Nat /\ Len(t) \in Nat /\ Len(e) = Len(s) + Len(t)
    BY <1>1
  <2>3. k \in 1 .. Len(t) /\ Len(s) + k = i
    BY <1>3, <2>1, <2>2
  <2>4. e[Len(s) + k] = t[k]
    BY <1>1, <2>3
  <2> HIDE DEF e
  <2>5. e[i] = t[k]
    BY <2>3, <2>4
  <2> QED BY <2>3, <2>5 DEF e
<1> QED BY <1>2, <1>3

\* What is left when the previous log is removed.
LEMMA LaterInOrder ==
  ASSUME NEW s \in Seq(Nat), NEW t \in Seq(Nat), NEW n \in Nat, NEW U, InOrder(s \o t, n, U)
  PROVE  InOrder(t, n, U)
<1> DEFINE e == s \o t
<1>1. /\ Len(s) \in Nat /\ Len(t) \in Nat /\ e \in Seq(Nat) /\ Len(e) = Len(s) + Len(t)
      /\ \A i \in 1 .. Len(t) : e[Len(s) + i] = t[i]
      /\ \A i \in 1 .. Len(t) : t[i] \in Nat
  BY Joined
<1>0. Len(s) \in Nat /\ Len(t) \in Nat /\ Len(e) = Len(s) + Len(t)
  BY <1>1
<1>2. /\ \A i, j \in 1 .. Len(e) : i < j /\ e[i] # 0 /\ e[j] # 0 => e[i] < e[j]
      /\ \A i \in 1 .. Len(e) : e[i] # 0 =>
           e[i] <= n /\ \A u \in e[i] .. n : u \in U \/ \E j \in 1 .. Len(e) : e[j] = u
  BY DEF InOrder
<1> HIDE DEF e
<1>3. ASSUME NEW i \in 1 .. Len(t), NEW j \in 1 .. Len(t), i < j, t[i] # 0, t[j] # 0
      PROVE  t[i] < t[j]
  <2>1. Len(s) + i \in 1 .. Len(e) /\ Len(s) + j \in 1 .. Len(e) /\ Len(s) + i < Len(s) + j
    BY <1>0, <1>3
  <2> QED
    BY <1>1, <1>2, <1>3, <2>1
<1>4. ASSUME NEW i \in 1 .. Len(t), t[i] # 0
      PROVE  t[i] <= n /\ \A u \in t[i] .. n : u \in U \/ \E j \in 1 .. Len(t) : t[j] = u
  <2>0. Len(s) + i \in 1 .. Len(e) /\ t[i] \in Nat
    BY <1>0, <1>1
  <2>1. Len(s) + i \in 1 .. Len(e) /\ e[Len(s) + i] = t[i]
    BY <1>1, <2>0
  <2>2. t[i] <= n /\ \A u \in t[i] .. n : u \in U \/ \E j \in 1 .. Len(e) : e[j] = u
    BY <1>2, <1>4, <2>1
  <2>3. ASSUME NEW u \in t[i] .. n, NEW j \in 1 .. Len(e), e[j] = u
        PROVE  \E k \in 1 .. Len(t) : t[k] = u
    <3>1. e[j] # 0 /\ ~(e[j] < t[i])
      <4>1. t[i] # 0 /\ t[i] \in Nat /\ e[j] \in t[i] .. n
        BY <1>4, <2>0, <2>3
      <4> QED
        BY <4>1
    <3>2. ~(j < Len(s) + i)
      BY <1>2, <1>4, <2>1, <3>1
    <3>3. j - Len(s) \in 1 .. Len(t) /\ j = Len(s) + (j - Len(s))
      BY <1>0, <3>2
    <3> QED
      BY <1>1, <2>3, <3>3
  <2> QED
    BY <2>2, <2>3
<1> QED
  BY <1>3, <1>4 DEF InOrder

\* What is left when the end is lost, which held no other units up to m.
LEMMA EarlierInOrder ==
  ASSUME NEW s \in Seq(Nat), NEW t \in Seq(Nat), NEW n \in Nat, NEW m \in Nat, m <= n, NEW U,
         InOrder(s \o t, n, U),
         \A i \in 1 .. Len(s) : s[i] <= m,
         \A i \in 1 .. Len(t) : t[i] # 0 /\ t[i] <= m => t[i] \in U
  PROVE  InOrder(s, m, U)
<1> DEFINE e == s \o t
<1>1. /\ Len(s) \in Nat /\ Len(t) \in Nat /\ Len(e) = Len(s) + Len(t)
      /\ \A i \in 1 .. Len(s) : i \in 1 .. Len(e) /\ e[i] = s[i] /\ s[i] \in Nat
  BY Joined
<1>2. \A j \in 1 .. Len(e) : \/ \E k \in 1 .. Len(s) : e[j] = s[k]
                             \/ \E k \in 1 .. Len(t) : e[j] = t[k]
  BY JoinedFrom
<1>3. /\ \A i, j \in 1 .. Len(e) : i < j /\ e[i] # 0 /\ e[j] # 0 => e[i] < e[j]
      /\ \A i \in 1 .. Len(e) : e[i] # 0 =>
           e[i] <= n /\ \A u \in e[i] .. n : u \in U \/ \E j \in 1 .. Len(e) : e[j] = u
  BY DEF InOrder
<1> HIDE DEF e
<1>4. \A i, j \in 1 .. Len(s) : i < j /\ s[i] # 0 /\ s[j] # 0 => s[i] < s[j]
  BY <1>1, <1>3
<1>5. ASSUME NEW i \in 1 .. Len(s), s[i] # 0
      PROVE  s[i] <= m /\ \A u \in s[i] .. m : u \in U \/ \E j \in 1 .. Len(s) : s[j] = u
  <2>1. s[i] \in Nat /\ i \in 1 .. Len(e) /\ e[i] = s[i]
    BY <1>1
  <2>2. ASSUME NEW u \in s[i] .. m, u \notin U PROVE \E j \in 1 .. Len(s) : s[j] = u
    <3>1. u \in s[i] .. n /\ u # 0 /\ u <= m
      BY <1>5, <2>1
    <3>2. PICK j \in 1 .. Len(e) : e[j] = u
      BY <1>3, <1>5, <2>1, <2>2, <3>1
    <3> QED BY <1>2, <2>2, <3>1, <3>2
  <2> QED BY <2>2
<1> QED BY <1>4, <1>5 DEF InOrder

\* More of them may be missing.
LEMMA MoreMissing ==
  ASSUME NEW s, NEW n, NEW U, NEW V, U \subseteq V, InOrder(s, n, U)
  PROVE  InOrder(s, n, V)
  BY DEF InOrder

\* A piece of a line follows.
LEMMA PieceInOrder ==
  ASSUME NEW s \in Seq(Nat), NEW n \in Nat, NEW k \in Nat, NEW U, InOrder(s, n, U)
  PROVE  InOrder(s \o [i \in 1 .. k |-> 0], n, U)
<1> DEFINE z == [i \in 1 .. k |-> 0]
           e == s \o z
<1>1. z \in Seq(Nat) /\ Len(z) = k /\ \A i \in 1 .. k : z[i] = 0
  OBVIOUS
<1> HIDE DEF z
<1>2. /\ Len(s) \in Nat /\ Len(e) = Len(s) + k
      /\ \A i \in 1 .. Len(s) : e[i] = s[i] /\ i \in 1 .. Len(e)
  BY <1>1, Joined
<1>3. \A i \in 1 .. Len(e) : e[i] # 0 => i \in 1 .. Len(s) /\ e[i] = s[i]
  BY <1>1, JoinedFrom
<1> HIDE DEF e
<1>4. \A i, j \in 1 .. Len(e) : i < j /\ e[i] # 0 /\ e[j] # 0 => e[i] < e[j]
  BY <1>3 DEF InOrder
<1>5. ASSUME NEW i \in 1 .. Len(e), e[i] # 0
      PROVE  e[i] <= n /\ \A u \in e[i] .. n : u \in U \/ \E j \in 1 .. Len(e) : e[j] = u
  <2>1. i \in 1 .. Len(s) /\ e[i] = s[i]
    BY <1>3, <1>5
  <2>2. s[i] <= n /\ \A u \in s[i] .. n : u \in U \/ \E j \in 1 .. Len(s) : s[j] = u
    BY <1>5, <2>1 DEF InOrder
  <2> QED BY <1>2, <2>1, <2>2
<1>6. InOrder(e, n, U)
  BY <1>4, <1>5 DEF InOrder
<1> QED BY <1>6 DEF e, z

\* A line follows.
LEMMA LineInOrder ==
  ASSUME NEW s \in Seq(Nat), NEW n \in Nat, NEW k \in Nat, NEW U, InOrder(s, n, U)
  PROVE  InOrder(s \o [i \in 1 .. k |-> n + i], n + k, U)
<1> DEFINE l == [i \in 1 .. k |-> n + i]
           e == s \o l
<1>1. l \in Seq(Nat) /\ Len(l) = k /\ \A i \in 1 .. k : l[i] = n + i
  OBVIOUS
<1> HIDE DEF l
<1>2. /\ Len(s) \in Nat /\ Len(e) = Len(s) + k
      /\ \A i \in 1 .. Len(s) : e[i] = s[i] /\ s[i] \in Nat
      /\ \A i \in 1 .. k : e[Len(s) + i] = n + i
  <2>1. /\ Len(s) \in Nat /\ Len(e) = Len(s) + Len(l)
        /\ \A i \in 1 .. Len(s) : e[i] = s[i]
        /\ \A i \in 1 .. Len(l) : e[Len(s) + i] = l[i]
    <3>1. l \in Seq(Nat)
      BY <1>1
    <3> QED
      BY <3>1, Joined
  <2>2. \A i \in 1 .. Len(s) : s[i] \in Nat
    OBVIOUS
  <2> HIDE DEF e
  <2> QED
    BY <1>1, <2>1, <2>2
<1>3. \A i \in 1 .. Len(e) : \/ i \in 1 .. Len(s) /\ e[i] = s[i]
                             \/ i - Len(s) \in 1 .. k /\ e[i] = n + (i - Len(s))
  BY <1>1, JoinedFrom
<1>0. Len(s) \in Nat /\ Len(e) = Len(s) + k
  BY <1>2
<1> HIDE DEF e
<1>4. ASSUME NEW i \in 1 .. Len(e), NEW j \in 1 .. Len(e), i < j, e[i] # 0, e[j] # 0
      PROVE  e[i] < e[j]
  <2>1. CASE j \in 1 .. Len(s)
    <3>1. i \in 1 .. Len(s)
      BY <1>0, <1>4, <2>1
    <3> QED BY <1>2, <1>4, <2>1, <3>1 DEF InOrder
  <2>2. CASE ~(j \in 1 .. Len(s))
    <3>1. e[j] = n + (j - Len(s)) /\ j - Len(s) \in 1 .. k
      BY <1>3, <2>2
    <3>2. CASE i \in 1 .. Len(s)
      <4>1. e[i] = s[i] /\ s[i] \in Nat /\ s[i] <= n
        BY <1>2, <1>4, <3>2 DEF InOrder
      <4> QED BY <1>0, <3>1, <4>1
    <3>3. CASE ~(i \in 1 .. Len(s))
      <4>1. e[i] = n + (i - Len(s))
        BY <1>3, <3>3
      <4> QED BY <1>0, <1>4, <3>1, <4>1
    <3> QED BY <3>2, <3>3
  <2> QED BY <2>1, <2>2
<1>5. ASSUME NEW i \in 1 .. Len(e), e[i] # 0
      PROVE  e[i] <= n + k /\ \A u \in e[i] .. n + k : u \in U \/ \E j \in 1 .. Len(e) : e[j] = u
  <2>1. e[i] \in Nat /\ e[i] <= n + k
    <3>1. CASE i \in 1 .. Len(s)
      <4>1. e[i] = s[i] /\ s[i] \in Nat /\ s[i] <= n
        BY <1>2, <1>5, <3>1 DEF InOrder
      <4> QED BY <4>1
    <3>2. CASE i - Len(s) \in 1 .. k /\ e[i] = n + (i - Len(s))
      BY <1>0, <3>2
    <3> QED BY <1>3, <3>1, <3>2
  <2>2. ASSUME NEW u \in e[i] .. n + k, u > n PROVE \E j \in 1 .. Len(e) : e[j] = u
    <3>1. u - n \in 1 .. k /\ n + (u - n) = u /\ Len(s) + (u - n) \in 1 .. Len(e)
      BY <1>0, <2>1, <2>2
    <3>2. e[Len(s) + (u - n)] = n + (u - n)
      BY <1>2, <3>1
    <3> QED BY <3>1, <3>2
  <2>3. ASSUME NEW u \in e[i] .. n + k, ~(u > n) PROVE u \in U \/ \E j \in 1 .. Len(e) : e[j] = u
    <3>1. u \in Int /\ e[i] <= u /\ u <= n
      BY <2>1, <2>3
    <3>2. i \in 1 .. Len(s) /\ e[i] = s[i]
      <4>1. ASSUME i - Len(s) \in 1 .. k, e[i] = n + (i - Len(s)) PROVE FALSE
        BY <1>0, <3>1, <4>1
      <4> QED BY <1>3, <4>1
    <3>3. u \in s[i] .. n
      BY <2>1, <3>1, <3>2
    <3>4. u \in U \/ \E j \in 1 .. Len(s) : s[j] = u
      BY <1>5, <3>2, <3>3 DEF InOrder
    <3>5. \A j \in 1 .. Len(s) : j \in 1 .. Len(e)
      BY <1>0
    <3> QED BY <1>2, <3>4, <3>5
  <2> QED BY <2>1, <2>2, <2>3
<1>6. InOrder(e, n + k, U)
  BY <1>4, <1>5 DEF InOrder
<1> QED BY <1>6 DEF e, l

\* Both files as one sequence, and with what is not on the disk.
LEMMA FilesAre ==
  ASSUME FilesInv
  PROVE  /\ Content(log1) \in Seq(Nat) /\ Content(log) \in Seq(Nat) /\ tail \in Seq(Nat)
         /\ OnDisk \in Seq(Nat) /\ OnDisk \o tail \in Seq(Nat)
         /\ incoming \in Nat /\ units \in Nat /\ log_file.size \in Nat
<1>1. /\ Content(log1) \in Seq(Nat) /\ Content(log) \in Seq(Nat) /\ tail \in Seq(Nat)
      /\ incoming \in Nat /\ units \in Nat /\ log_file.size \in Nat
  BY DEF FilesInv
<1>2. OnDisk \in Seq(Nat)
  BY <1>1 DEF OnDisk
<1>3. OnDisk \o tail \in Seq(Nat)
  BY <1>1, <1>2
<1> QED
  BY <1>1, <1>2, <1>3
\* Nothing changes.
LEMMA SameKept ==
  ASSUME OrderInv, logger # "sync", logger' # "sync",
         UNCHANGED <<tail, units, unsynced>>, OnDisk' = OnDisk
  PROVE  OrderInv'
<1>1. LastUnit' = LastUnit
  BY DEF LastUnit
<1> QED
  BY <1>1 DEF OrderInv

\* What is not on the disk is lost.
LEMMA TailLost ==
  ASSUME FilesInv, OrderInv, logger' # "sync",
         UNCHANGED <<units, unsynced>>, OnDisk' = OnDisk, tail' = <<>>
  PROVE  OrderInv'
<1>1. /\ OnDisk \in Seq(Nat) /\ tail \in Seq(Nat) /\ units \in Nat /\ LastUnit \in Nat
      /\ units <= LastUnit
  BY FilesAre DEF LastUnit
<1>2. InOrder(OnDisk, units, ToSet(unsynced))
  BY <1>1, EarlierInOrder DEF OrderInv
<1>3. OnDisk \o <<>> = OnDisk /\ LastUnit' = units /\ Len(<<>>) = 0
  BY <1>1 DEF LastUnit
<1> QED
  BY <1>2, <1>3 DEF OrderInv

\* It is put on the disk.
LEMMA TailWritten ==
  ASSUME FilesInv, OrderInv, logger' # "sync",
         UNCHANGED unsynced, units' = LastUnit, OnDisk' = OnDisk \o tail, tail' = <<>>
  PROVE  OrderInv'
<1>1. OnDisk \o tail \in Seq(Nat) /\ units \in Nat /\ LastUnit \in Nat
  BY FilesAre DEF LastUnit
<1>2. OnDisk' \o tail' = OnDisk' /\ LastUnit' = units' /\ Len(tail') = 0 /\ OnDisk' \in Seq(Nat)
  BY <1>1 DEF LastUnit
<1>3. InOrder(OnDisk', LastUnit', ToSet(unsynced'))
  BY <1>2 DEF OrderInv
<1>4. ASSUME NEW i \in 1 .. Len(OnDisk') PROVE OnDisk'[i] <= units'
  <2>1. OnDisk'[i] # 0 => OnDisk'[i] <= LastUnit'
    BY <1>3, <1>4 DEF InOrder
  <2> QED
    BY <1>1, <1>2, <2>1
<1> QED
  BY <1>2, <1>3, <1>4 DEF OrderInv

\* A rotation leaves the current log, the previous one being removed.
LEMMA BeginningLost ==
  ASSUME FilesInv, OrderInv, logger # "sync", logger' # "sync", tail = <<>>,
         UNCHANGED <<tail, units, unsynced>>, OnDisk' = Content(log)
  PROVE  OrderInv'
<1> DEFINE p == Content(log1)
           c == Content(log)
<1>1. p \in Seq(Nat) /\ c \in Seq(Nat) /\ p \o c \in Seq(Nat) /\ units \in Nat
  BY FilesAre
<1>2. /\ OnDisk \o tail = p \o c /\ OnDisk' \o tail' = c /\ OnDisk = p \o c
      /\ LastUnit = units /\ LastUnit' = units
  BY <1>1 DEF OnDisk, LastUnit
<1>3. InOrder(p \o c, units, ToSet(unsynced)) /\ \A i \in 1 .. Len(p \o c) : (p \o c)[i] <= units
  BY <1>2 DEF OrderInv
<1> HIDE DEF p, c
<1>4. InOrder(c, units, ToSet(unsynced))
  BY <1>1, <1>3, LaterInOrder
<1>5. ASSUME NEW i \in 1 .. Len(c) PROVE c[i] <= units
  <2>1. Len(p) + i \in 1 .. Len(p \o c) /\ (p \o c)[Len(p) + i] = c[i]
    BY <1>1, Joined
  <2> QED
    BY <1>3, <2>1
<1> QED
  BY <1>2, <1>4, <1>5 DEF OrderInv, c

\* A line is logged whose f_sync failed.
LEMMA MoreUnsynced ==
  ASSUME FilesInv, LineInv, OrderInv, logger = "sync", logger' = "idle",
         UNCHANGED tail, units' = units + incoming, unsynced' = unsynced \o Line, OnDisk' = OnDisk
  PROVE  OrderInv'
<1>1. /\ units \in Nat /\ incoming \in Nat /\ tail \in Seq(Nat) /\ OnDisk \in Seq(Nat)
      /\ unsynced \in Seq(Nat)
  BY FilesAre DEF LineInv
<1>2. Line \in Seq(Nat) /\ Len(Line) = incoming /\ \A k \in 1 .. incoming : Line[k] = units + k
  BY <1>1 DEF Line
<1>3. ToSet(unsynced) \subseteq ToSet(unsynced') /\ ToSet(Line) \subseteq ToSet(unsynced')
  <2>1. /\ Len(unsynced) \in Nat /\ Len(unsynced') = Len(unsynced) + incoming
        /\ \A i \in 1 .. Len(unsynced) : unsynced'[i] = unsynced[i]
        /\ \A i \in 1 .. incoming : unsynced'[Len(unsynced) + i] = Line[i]
        /\ unsynced' \in Seq(Nat)
    <3>1. unsynced \in Seq(Nat) /\ Line \in Seq(Nat) /\ unsynced' = unsynced \o Line
      BY <1>1, <1>2
    <3>2. /\ Len(unsynced) \in Nat /\ unsynced' \in Seq(Nat)
          /\ Len(unsynced') = Len(unsynced) + Len(Line)
          /\ \A i \in 1 .. Len(unsynced) : unsynced'[i] = unsynced[i]
          /\ \A i \in 1 .. Len(Line) : unsynced'[Len(unsynced) + i] = Line[i]
      BY <3>1, Joined
    <3> QED
      BY <1>2, <3>2
  <2>2. /\ DOMAIN unsynced = 1 .. Len(unsynced) /\ DOMAIN unsynced' = 1 .. Len(unsynced')
        /\ DOMAIN Line = 1 .. incoming
    BY <1>1, <1>2, <2>1
  <2>3. ASSUME NEW i \in 1 .. Len(unsynced) PROVE unsynced[i] \in ToSet(unsynced')
    <3>1. i \in DOMAIN unsynced' /\ unsynced'[i] = unsynced[i]
      BY <1>1, <2>1, <2>2
    <3> QED
      BY <3>1 DEF ToSet
  <2>4. ASSUME NEW i \in 1 .. incoming PROVE Line[i] \in ToSet(unsynced')
    <3>1. Len(unsynced) + i \in DOMAIN unsynced' /\ unsynced'[Len(unsynced) + i] = Line[i]
      BY <1>1, <2>1, <2>2
    <3> QED
      BY <3>1 DEF ToSet
  <2> QED
    BY <2>2, <2>3, <2>4 DEF ToSet
<1>4. LastUnit = units + incoming /\ LastUnit' = units + incoming
  BY DEF LastUnit
<1>5. InOrder((OnDisk \o tail)', LastUnit', ToSet(unsynced)')
  BY <1>3, <1>4, MoreMissing DEF OrderInv
<1>6. \A i \in 1 .. Len(OnDisk') : OnDisk'[i] <= units'
  <2>1. ASSUME NEW i \in 1 .. Len(OnDisk) PROVE OnDisk[i] <= units + incoming
    <3>1. OnDisk[i] \in Nat /\ OnDisk[i] <= units
      BY <1>1 DEF OrderInv
    <3> QED
      BY <1>1, <3>1
  <2> QED
    BY <2>1
<1>7. ASSUME NEW i \in 1 .. Len(tail), tail[i] # 0, tail[i] <= units + incoming
      PROVE  tail[i] \in ToSet(unsynced')
  <2>1. CASE tail[i] <= units
    BY <1>3, <1>7, <2>1 DEF OrderInv
  <2>2. CASE ~(tail[i] <= units)
    <3>1. tail[i] \in Nat
      BY <1>1
    <3>2. tail[i] - units \in 1 .. incoming /\ units + (tail[i] - units) = tail[i]
      <4>1. PICK n \in Nat, u \in Nat, k \in Nat : n = tail[i] /\ u = units /\ k = incoming
        BY <1>1, <3>1
      <4>2. n <= u + k /\ ~(n <= u)
        BY <1>7, <2>2, <4>1
      <4>3. n - u \in 1 .. k /\ u + (n - u) = n
        BY <4>2
      <4> QED
        BY <4>1, <4>3
    <3>3. Line[tail[i] - units] = tail[i] /\ tail[i] - units \in DOMAIN Line
      BY <1>2, <3>2
    <3>4. tail[i] \in ToSet(Line)
      BY <3>3 DEF ToSet
    <3> QED
      BY <1>3, <3>4
  <2> QED
    BY <2>1, <2>2
<1> QED
  BY <1>5, <1>6, <1>7 DEF OrderInv

\* Of three sequences, it does not matter which two are joined first.
LEMMA JoinedAgain ==
  ASSUME NEW s \in Seq(Nat), NEW t \in Seq(Nat), NEW u \in Seq(Nat)
  PROVE  (s \o t) \o u = s \o (t \o u)
BY SMTT(30)

\* app_log and a power loss keep the order of the lines.
LEMMA OrderKept ==
  ASSUME FilesInv, LineInv, OrderInv, NoFile \notin Seq(Nat),
         \/ \E len \in 1 .. MaxLine : Begins(len)
         \/ Unlinks \/ Renames \/ Opens \/ WritesLine \/ Syncs \/ PowerLoss
  PROVE  OrderInv'
<1> DEFINE p == Content(log1)
           c == Content(log)
<1>0. /\ p \in Seq(Nat) /\ c \in Seq(Nat) /\ tail \in Seq(Nat) /\ units \in Nat /\ incoming \in Nat
      /\ OnDisk \in Seq(Nat) /\ OnDisk = p \o c /\ OnDisk \o tail \in Seq(Nat)
  BY FilesAre DEF OnDisk
<1>w. ASSUME log \in Seq(Nat), log' = log \o tail, UNCHANGED log1
      PROVE  OnDisk' = OnDisk \o tail
  <2>1. c = log /\ c \o tail \in Seq(Nat)
    BY <1>0, <1>w DEF Content
  <2>2. Content(log') = c \o tail /\ Content(log1') = p
    <3>1. log' = c \o tail /\ log' # NoFile /\ log1' = log1
      BY <1>w, <2>1
    <3> QED
      BY <3>1 DEF Content
  <2>3. (p \o c) \o tail = p \o (c \o tail)
    <3>1. p \in Seq(Nat) /\ c \in Seq(Nat) /\ tail \in Seq(Nat)
      BY <1>0
    <3> HIDE DEF p, c
    <3> QED
      BY <3>1, JoinedAgain, Zenon
  <2> QED
    BY <1>0, <2>2, <2>3 DEF OnDisk
<1>1. ASSUME NEW len \in 1 .. MaxLine, Begins(len) PROVE OrderInv'
  <2>0. /\ logger = "idle" /\ logger' # "sync" /\ UNCHANGED <<log1, units, unsynced>>
        /\ \/ UNCHANGED <<log, tail>>
           \/ /\ tail' = <<>>
              /\ \/ log' = IF log_file.open THEN log \o tail ELSE log
                 \/ UNCHANGED log
    BY <1>1 DEF Begins
  <2>1. CASE UNCHANGED <<log, tail>>
    <3>1. OnDisk' = OnDisk
      BY <2>0, <2>1 DEF OnDisk, Content
    <3> QED
      BY <2>0, <2>1, <3>1, SameKept
  <2>2. CASE tail' = <<>> /\ UNCHANGED log
    <3>1. OnDisk' = OnDisk
      BY <2>0, <2>2 DEF OnDisk, Content
    <3> QED
      BY <2>0, <2>2, <3>1, TailLost
  <2>3. CASE tail' = <<>> /\ log_file.open /\ log' = log \o tail
    <3>1. log \in Seq(Nat) /\ LastUnit = units
      BY <2>0, <2>3 DEF FilesInv, LastUnit
    <3>2. OnDisk' = OnDisk \o tail
      BY <1>w, <2>0, <2>3, <3>1
    <3> QED
      BY <2>0, <2>3, <3>1, <3>2, TailWritten
  <2> QED
    BY <2>0, <2>1, <2>2, <2>3
<1>2. CASE Unlinks
  <2>0. /\ logger = "unlink" /\ logger' # "sync" /\ UNCHANGED <<log, tail, units, unsynced>>
        /\ log1' = NoFile \/ UNCHANGED log1
    BY <1>2 DEF Unlinks
  <2>1. tail = <<>>
    BY <2>0 DEF LineInv
  <2>2. CASE log1' = NoFile
    <3>1. Content(log1') = <<>> /\ Content(log') = c
      BY <2>0, <2>2 DEF Content
    <3>2. OnDisk' = c
      BY <1>0, <3>1 DEF OnDisk
    <3> QED
      BY <2>0, <2>1, <3>2, BeginningLost
  <2>3. CASE UNCHANGED log1
    <3>1. OnDisk' = OnDisk
      BY <2>0, <2>3 DEF OnDisk, Content
    <3> QED
      BY <2>0, <3>1, SameKept
  <2> QED
    BY <2>0, <2>2, <2>3
<1>3. CASE Renames
  <2>0. /\ logger = "rename" /\ logger' # "sync" /\ UNCHANGED <<tail, units, unsynced>>
        /\ \/ log # NoFile /\ log1' = log /\ log' = NoFile
           \/ UNCHANGED <<log, log1>>
    BY <1>3 DEF Renames
  <2>1. tail = <<>>
    BY <2>0 DEF LineInv
  <2>2. CASE log # NoFile /\ log1' = log /\ log' = NoFile
    <3>1. Content(log1') = c /\ Content(log') = <<>>
      BY <2>2 DEF Content
    <3>2. OnDisk' = c
      BY <1>0, <3>1 DEF OnDisk
    <3> QED
      BY <2>0, <2>1, <3>2, BeginningLost
  <2>3. CASE UNCHANGED <<log, log1>>
    <3>1. OnDisk' = OnDisk
      BY <2>3 DEF OnDisk, Content
    <3> QED
      BY <2>0, <3>1, SameKept
  <2> QED
    BY <2>0, <2>2, <2>3
<1>4. CASE Opens
  <2>1. /\ logger = "open" /\ logger' # "sync" /\ UNCHANGED <<log1, tail, units, unsynced>>
        /\ log' = log \/ log' = Content(log)
    BY <1>4 DEF Opens
  <2>2. OnDisk' = OnDisk
    BY <2>1 DEF OnDisk, Content
  <2> QED
    BY <2>1, <2>2, SameKept
<1>5. CASE WritesLine
  <2>0. logger = "write" /\ UNCHANGED <<log, log1, incoming, units, unsynced>>
    BY <1>5 DEF WritesLine
  <2>c. OnDisk' = OnDisk /\ LastUnit = units
    BY <2>0 DEF OnDisk, Content, LastUnit
  <2>1. \/ UNCHANGED tail /\ logger' = "idle"
        \/ logger' = "sync" /\ tail' = tail \o Line
        \/ logger' = "idle" /\ \E k \in 0 .. incoming - 1 : tail' = tail \o [i \in 1 .. k |-> 0]
    BY <1>5 DEF WritesLine
  <2>2. CASE UNCHANGED tail /\ logger' = "idle"
    BY <2>0, <2>c, <2>2, SameKept
  <2>3. ASSUME NEW seq \in Seq(Nat), tail' = tail \o seq,
               InOrder((OnDisk \o tail) \o seq, LastUnit', ToSet(unsynced)),
               \A i \in 1 .. Len(seq) : seq[i] = 0 \/ ~(seq[i] <= units)
        PROVE  OrderInv'
    <3>1. OnDisk' \o tail' = (OnDisk \o tail) \o seq
      <4>1. OnDisk \in Seq(Nat) /\ tail \in Seq(Nat) /\ seq \in Seq(Nat)
        BY <1>0
      <4>2. (OnDisk \o tail) \o seq = OnDisk \o (tail \o seq)
        BY <4>1, JoinedAgain
      <4> QED
        BY <2>c, <2>3, <4>2
    <3>2. ASSUME NEW i \in 1 .. Len(tail'), tail'[i] # 0, tail'[i] <= units
          PROVE  tail'[i] \in ToSet(unsynced)
      <4>1. i \in 1 .. Len(tail \o seq) /\ tail'[i] = (tail \o seq)[i]
        BY <2>3
      <4>2. \/ i \in 1 .. Len(tail) /\ tail'[i] = tail[i]
            \/ i - Len(tail) \in 1 .. Len(seq) /\ tail'[i] = seq[i - Len(tail)]
        BY <1>0, <4>1, JoinedFrom
      <4>3. CASE i \in 1 .. Len(tail) /\ tail'[i] = tail[i]
        BY <3>2, <4>3 DEF OrderInv
      <4>4. CASE i - Len(tail) \in 1 .. Len(seq) /\ tail'[i] = seq[i - Len(tail)]
        BY <2>3, <3>2, <4>4
      <4> QED
        BY <4>2, <4>3, <4>4
    <3>3. \A i \in 1 .. Len(OnDisk') : OnDisk'[i] <= units
      BY <2>c DEF OrderInv
    <3> QED
      BY <2>0, <2>3, <3>1, <3>2, <3>3 DEF OrderInv
  <2>o. InOrder(OnDisk \o tail, units, ToSet(unsynced))
    BY <2>c DEF OrderInv
  <2>4. CASE logger' = "sync" /\ tail' = tail \o Line
    <3>1. Line \in Seq(Nat) /\ \A i \in 1 .. Len(Line) : ~(Line[i] <= units)
      BY <1>0 DEF Line
    <3>2. LastUnit' = units + incoming
      BY <2>0, <2>4 DEF LastUnit
    <3>3. InOrder((OnDisk \o tail) \o [i \in 1 .. incoming |-> units + i], units + incoming,
                  ToSet(unsynced))
      BY <1>0, <2>o, LineInOrder
    <3>4. InOrder((OnDisk \o tail) \o Line, LastUnit', ToSet(unsynced))
      BY <3>2, <3>3 DEF Line
    <3> QED
      BY <2>3, <2>4, <3>1, <3>4
  <2>5. ASSUME NEW k \in 0 .. incoming - 1, logger' = "idle", tail' = tail \o [i \in 1 .. k |-> 0]
        PROVE  OrderInv'
    <3>1. k \in Nat
      BY <1>0
    <3> DEFINE z == [i \in 1 .. k |-> 0]
    <3>2. z \in Seq(Nat) /\ \A j \in 1 .. Len(z) : z[j] = 0
      BY <3>1
    <3>3. LastUnit' = units
      BY <2>0, <2>5 DEF LastUnit
    <3>4. InOrder((OnDisk \o tail) \o z, LastUnit', ToSet(unsynced))
      BY <1>0, <2>o, <3>1, <3>3, PieceInOrder
    <3>5. tail' = tail \o z
      BY <2>5
    <3> HIDE DEF z
    <3> QED
      BY <2>3, <3>2, <3>4, <3>5
  <2> QED
    BY <2>1, <2>2, <2>4, <2>5
<1>6. CASE Syncs
  <2>0. /\ logger = "sync" /\ logger' = "idle" /\ units' = units + incoming /\ UNCHANGED log1
        /\ \/ log' = log \o tail /\ tail' = <<>> /\ UNCHANGED unsynced
           \/ unsynced' = unsynced \o Line /\ UNCHANGED <<log, tail>>
    BY <1>6 DEF Syncs
  <2>1. CASE log' = log \o tail /\ tail' = <<>> /\ UNCHANGED unsynced
    <3>1. log \in Seq(Nat) /\ units' = LastUnit
      BY <2>0 DEF FilesInv, LastUnit
    <3>2. OnDisk' = OnDisk \o tail
      BY <1>w, <2>0, <2>1, <3>1
    <3> QED
      BY <2>0, <2>1, <3>1, <3>2, TailWritten
  <2>2. CASE unsynced' = unsynced \o Line /\ UNCHANGED <<log, tail>>
    <3>1. OnDisk' = OnDisk
      BY <2>0, <2>2 DEF OnDisk, Content
    <3> QED
      BY <2>0, <2>2, <3>1, MoreUnsynced
  <2> QED
    BY <2>0, <2>1, <2>2
<1>7. CASE PowerLoss
  <2>1. /\ log' = Content(log) /\ tail' = <<>> /\ logger' # "sync"
        /\ UNCHANGED <<log1, units, unsynced>>
    BY <1>7 DEF PowerLoss
  <2>2. Content(log') = Content(log) /\ Content(log1') = Content(log1)
    BY <2>1 DEF Content
  <2>3. OnDisk' = OnDisk
    BY <2>2 DEF OnDisk
  <2> QED
    BY <2>1, <2>3, TailLost
<1> QED
  BY <1>1, <1>2, <1>3, <1>4, <1>5, <1>6, <1>7

\* What holds at each step of app_log.
LEMMA LineKept ==
  ASSUME FilesInv, LineInv, MaxLine \in Nat,
         \/ \E len \in 1 .. MaxLine : Begins(len)
         \/ Unlinks \/ Renames \/ Opens \/ WritesLine \/ Syncs \/ PowerLoss
  PROVE  LineInv'
<1>1. ASSUME NEW len \in 1 .. MaxLine, Begins(len) PROVE LineInv'
  BY <1>1 DEF LineInv, Begins
<1>2. CASE Unlinks
  BY <1>2 DEF LineInv, Unlinks
<1>3. CASE Renames
  BY <1>3 DEF LineInv, Renames
<1>4. CASE Opens
  BY <1>4 DEF LineInv, Opens
<1>5. CASE WritesLine
  <2>1. /\ UNCHANGED <<incoming, unsynced>>
        /\ \/ logger' = "idle"
           \/ logger' = "sync" /\ tail' = tail \o Line
    BY <1>5 DEF WritesLine
  <2>2. CASE logger' = "sync" /\ tail' = tail \o Line
    <3>1. tail \in Seq(Nat) /\ Line \in Seq(Nat) /\ Len(Line) = incoming /\ incoming \in Nat
      BY DEF FilesInv, Line
    <3>2. Len(tail') = Len(tail) + incoming /\ Len(tail) \in Nat
      BY <2>2, <3>1
    <3> QED
      BY <2>1, <2>2, <3>1, <3>2 DEF LineInv
  <2> QED
    BY <2>1, <2>2 DEF LineInv
<1>6. CASE Syncs
  <2>1. logger' = "idle" /\ UNCHANGED incoming /\ unsynced' \in {unsynced, unsynced \o Line}
    BY <1>6 DEF Syncs
  <2>2. unsynced \in Seq(Nat) /\ Line \in Seq(Nat)
    BY DEF LineInv, FilesInv, Line
  <2>3. unsynced \o Line \in Seq(Nat)
    BY <2>2
  <2> QED
    BY <2>1, <2>2, <2>3 DEF LineInv
<1>7. CASE PowerLoss
  BY <1>7 DEF LineInv, PowerLoss
<1> QED
  BY <1>1, <1>2, <1>3, <1>4, <1>5, <1>6, <1>7

\* A rotation drops the beginning only when a full file is left.
LEMMA RoomKept ==
  ASSUME FilesInv, LineInv, RoomInv, NoFile \notin Seq(Nat), MaxSize \in Nat, MaxLine \in Nat,
         \/ \E len \in 1 .. MaxLine : Begins(len)
         \/ Unlinks \/ Renames \/ Opens \/ WritesLine \/ Syncs \/ PowerLoss
  PROVE  RoomInv'
<1> DEFINE p == Content(log1)
           c == Content(log)
<1>0. /\ p \in Seq(Nat) /\ c \in Seq(Nat) /\ tail \in Seq(Nat) /\ units \in Nat /\ incoming \in Nat
      /\ <<>> \in Seq(Nat) /\ log_file.size \in Nat /\ unsynced \in Seq(Nat)
  BY DEF FilesInv, LineInv
<1>n. /\ Len(p) \in Nat /\ Len(c) \in Nat /\ Len(tail) \in Nat /\ Room \in Int /\ Len(<<>>) = 0
      /\ log_file.size \in Nat /\ Len(unsynced) \in Nat
  BY <1>0 DEF Room
<1> SUFFICES ASSUME ~rotation_failed'
             PROVE  /\ log_file'.open
                    /\ logger' \in {"idle", "write", "sync"} => log_file'.size = Len(log') + Len(tail')
                    /\ logger' \in {"unlink", "rename"} => Len(Content(log')) >= Room
                    /\ \/ Len(Content(log1')) >= Room \/ Len(Content(log')) >= Room
                       \/ units' <= (Len(Content(log1')) + Len(Content(log'))) + Len(unsynced')
  BY DEF RoomInv
<1>r. ~rotation_failed
  BY DEF Begins, Unlinks, Renames, Opens, WritesLine, Syncs, PowerLoss
<1>i. /\ log_file.open
      /\ logger \in {"idle", "write", "sync"} => log_file.size = Len(log) + Len(tail)
      /\ logger \in {"unlink", "rename"} => Len(c) >= Room
      /\ Len(p) >= Room \/ Len(c) >= Room \/ units <= (Len(p) + Len(c)) + Len(unsynced)
  BY <1>r DEF RoomInv
<1>w. ASSUME log \in Seq(Nat), log' = log \o tail, UNCHANGED log1
      PROVE  /\ Content(log1') = p /\ Len(log') = Len(c) + Len(tail)
             /\ Len(Content(log')) = Len(c) + Len(tail)
  <2>1. c = log /\ log' \in Seq(Nat) /\ Len(log') = Len(log) + Len(tail)
    BY <1>0, <1>w DEF Content
  <2>2. Content(log') = log'
    <3>1. log' # NoFile
      BY <2>1
    <3> QED
      BY <3>1 DEF Content
  <2> QED
    BY <1>w, <2>1, <2>2 DEF Content
<1>s. ASSUME UNCHANGED <<log, log1>> PROVE Content(log1') = p /\ Content(log') = c
  BY <1>s DEF Content
<1>1. ASSUME NEW len \in 1 .. MaxLine, Begins(len)
      PROVE  /\ log_file'.open /\ logger' \in {"write", "unlink"}
             /\ logger' = "write" => log_file'.size = Len(log') + Len(tail')
             /\ logger' = "unlink" => Len(Content(log')) >= Room
             /\ \/ Len(Content(log1')) >= Room \/ Len(Content(log')) >= Room
                \/ units' <= (Len(Content(log1')) + Len(Content(log'))) + Len(unsynced')
  <2>0. /\ logger = "idle" /\ len \in Nat /\ len <= MaxLine
        /\ UNCHANGED <<log1, log_file, units, unsynced>>
        /\ \/ logger' = "write" /\ UNCHANGED <<log, tail>>
           \/ /\ logger' = "unlink" /\ ~(log_file.size + len <= MaxSize)
              /\ log' = IF log_file.open THEN log \o tail ELSE log
    <3>1. /\ logger = "idle" /\ UNCHANGED <<log1, log_file, units, unsynced>>
          /\ \/ logger' = "write" /\ UNCHANGED <<log, tail>>
             \/ /\ logger' = "unlink" /\ log_file.size + len > MaxSize
                /\ \/ log' = IF log_file.open THEN log \o tail ELSE log
                   \/ rotation_failed' = TRUE
      BY <1>1 DEF Begins
    <3>2. len \in Nat /\ len <= MaxLine
      OBVIOUS
    <3> QED
      BY <1>n, <3>1, <3>2
  <2>1. CASE logger' = "write" /\ UNCHANGED <<log, tail>>
    BY <1>i, <1>s, <2>0, <2>1
  <2>2. CASE /\ logger' = "unlink" /\ ~(log_file.size + len <= MaxSize)
             /\ log' = IF log_file.open THEN log \o tail ELSE log
    <3>1. log \in Seq(Nat) /\ c = log /\ log' = log \o tail
      BY <1>i, <2>0, <2>2 DEF FilesInv, Content
    <3>2. Len(Content(log')) = Len(c) + Len(tail)
      BY <1>w, <2>0, <3>1
    <3>3. log_file.size = Len(c) + Len(tail)
      BY <1>i, <2>0, <3>1
    <3>4. Len(Content(log')) >= Room
      BY <1>n, <2>0, <2>2, <3>2, <3>3 DEF Room
    <3> QED
      BY <1>i, <2>0, <2>2, <3>4
  <2> QED
    BY <2>0, <2>1, <2>2
<1>2. CASE Unlinks
  <2>0. /\ logger = "unlink" /\ UNCHANGED <<log, log_file, units, unsynced>>
        /\ logger' \in {"rename", "open"}
    BY <1>2 DEF Unlinks
  <2>1. Content(log') = c
    BY <2>0 DEF Content
  <2> QED
    BY <1>i, <2>0, <2>1
<1>3. CASE Renames
  <2>0. /\ logger = "rename" /\ logger' = "open" /\ UNCHANGED log_file
        /\ \/ log1' = log
           \/ UNCHANGED <<log, log1>>
    BY <1>3 DEF Renames
  <2>1. Content(log1') = c \/ Content(log') = c
    BY <2>0 DEF Content
  <2> QED
    BY <1>i, <2>0, <2>1
<1>4. CASE Opens
  <2>0. /\ logger = "open" /\ logger' = "write" /\ UNCHANGED <<log1, tail, units, unsynced>>
        /\ log' = Content(log) /\ log_file' = [OpenHandle EXCEPT !.size = Len(log')]
    BY <1>r, <1>4 DEF Opens
  <2>1. Content(log') = c /\ Content(log1') = p /\ tail' = <<>> /\ Len(log') \in Nat
    BY <1>n, <2>0 DEF Content, LineInv
  <2>2. log_file'.open /\ log_file'.size = Len(log') + Len(tail')
    BY <1>n, <2>0, <2>1 DEF OpenHandle
  <2> QED
    BY <1>i, <2>0, <2>1, <2>2
<1>5. CASE WritesLine
  <2>0. /\ logger = "write" /\ UNCHANGED <<log, log1, units, unsynced>> /\ logger' \in {"idle", "sync"}
    BY <1>5 DEF WritesLine
  <2>1. log \in Seq(Nat) /\ Len(log) \in Nat
    BY <1>i, <2>0 DEF FilesInv
  <2>2. ASSUME NEW seq \in Seq(Nat), NEW n \in Nat, Len(seq) = n,
               tail' = tail \o seq, log_file' = [log_file EXCEPT !.size = @ + n]
        PROVE  log_file'.open /\ log_file'.size = Len(log') + Len(tail')
    <3>1. Len(tail') = Len(tail) + n
      <4>1. tail \in Seq(Nat) /\ seq \in Seq(Nat)
        BY <1>0
      <4>2. Len(tail \o seq) = Len(tail) + Len(seq)
        BY <4>1
      <4> QED
        BY <2>2, <4>2
    <3>2. log_file'.open = log_file.open /\ log_file'.size = log_file.size + n
      BY <2>2 DEF FilesInv
    <3> QED
      BY <1>n, <1>i, <2>0, <2>1, <3>1, <3>2
  <2>3. Line \in Seq(Nat) /\ Len(Line) = incoming
    BY <1>0 DEF Line
  <2>4. \/ UNCHANGED <<log_file, tail>>
        \/ tail' = tail \o Line /\ log_file' = [log_file EXCEPT !.size = @ + incoming]
        \/ \E k \in 0 .. incoming - 1 :
             /\ tail' = tail \o [i \in 1 .. k |-> 0]
             /\ log_file' = [log_file EXCEPT !.size = @ + k]
        \/ UNCHANGED tail /\ log_file' = [log_file EXCEPT !.err = TRUE]
    BY <1>5 DEF WritesLine
  <2>5. log_file'.open /\ log_file'.size = Len(log') + Len(tail')
    <3>1. CASE tail' = tail \o Line /\ log_file' = [log_file EXCEPT !.size = @ + incoming]
      BY <1>0, <2>2, <2>3, <3>1
    <3>2. ASSUME NEW k \in 0 .. incoming - 1, tail' = tail \o [i \in 1 .. k |-> 0],
                 log_file' = [log_file EXCEPT !.size = @ + k]
          PROVE  log_file'.open /\ log_file'.size = Len(log') + Len(tail')
      <4> DEFINE z == [i \in 1 .. k |-> 0]
      <4>1. k \in Nat
        BY <1>0
      <4>2. z \in Seq(Nat) /\ Len(z) = k
        BY <4>1
      <4>3. tail' = tail \o z
        BY <3>2
      <4> HIDE DEF z
      <4> QED
        BY <2>2, <3>2, <4>1, <4>2, <4>3
    <3>3. CASE UNCHANGED <<log_file, tail>>
      BY <1>i, <2>0, <3>3
    <3>4. CASE UNCHANGED tail /\ log_file' = [log_file EXCEPT !.err = TRUE]
      <4>1. log_file'.open = log_file.open /\ log_file'.size = log_file.size
        BY <3>4 DEF FilesInv
      <4> QED
        BY <1>i, <2>0, <3>4, <4>1
    <3> QED
      BY <2>4, <3>1, <3>2, <3>3, <3>4
  <2> QED
    BY <1>i, <1>s, <2>0, <2>5
<1>6. CASE Syncs
  <2>0. /\ logger = "sync" /\ logger' = "idle" /\ UNCHANGED <<log1, log_file>>
        /\ units' = units + incoming
        /\ \/ log' = log \o tail /\ tail' = <<>> /\ UNCHANGED unsynced
           \/ unsynced' = unsynced \o Line /\ UNCHANGED <<log, tail>>
    BY <1>6 DEF Syncs
  <2>1. log \in Seq(Nat) /\ c = log /\ incoming <= Len(tail)
    BY <2>0 DEF FilesInv, LineInv, Content
  <2>2. CASE log' = log \o tail /\ tail' = <<>> /\ UNCHANGED unsynced
    <3>1. /\ Content(log1') = p /\ Len(log') = Len(c) + Len(tail)
          /\ Len(Content(log')) = Len(c) + Len(tail)
      BY <1>w, <2>0, <2>1, <2>2
    <3>2. log_file'.open /\ log_file'.size = Len(log') + Len(tail')
      BY <1>n, <1>i, <2>0, <2>1, <2>2, <3>1
    <3>3. \/ Len(p) >= Room \/ Len(c) + Len(tail) >= Room
          \/ units + incoming <= (Len(p) + (Len(c) + Len(tail))) + Len(unsynced)
      BY <1>0, <1>n, <1>i, <2>1
    <3> QED
      BY <2>0, <2>2, <3>1, <3>2, <3>3
  <2>3. CASE unsynced' = unsynced \o Line /\ UNCHANGED <<log, tail>>
    <3>1. Line \in Seq(Nat) /\ Len(Line) = incoming
      BY <1>0 DEF Line
    <3>2. Len(unsynced') = Len(unsynced) + incoming
      <4>1. unsynced \in Seq(Nat) /\ Line \in Seq(Nat)
        BY <1>0, <3>1
      <4>2. Len(unsynced \o Line) = Len(unsynced) + Len(Line)
        BY <4>1
      <4> QED
        BY <2>3, <3>1, <4>2
    <3>3. \/ Len(p) >= Room \/ Len(c) >= Room
          \/ units + incoming <= (Len(p) + Len(c)) + (Len(unsynced) + incoming)
      BY <1>0, <1>n, <1>i
    <3> QED
      BY <1>i, <1>s, <2>0, <2>3, <3>2, <3>3
  <2> QED
    BY <2>0, <2>2, <2>3
<1>7. CASE PowerLoss
  <2>0. /\ log' = Content(log) /\ tail' = <<>> /\ logger' = "idle"
        /\ log_file' = [OpenHandle EXCEPT !.size = Len(log')]
        /\ UNCHANGED <<log1, units, unsynced>>
    BY <1>7 DEF PowerLoss
  <2>1. Content(log') = c /\ Content(log1') = p /\ Len(log') \in Nat
    BY <1>n, <2>0 DEF Content
  <2>2. log_file'.open /\ log_file'.size = Len(log') + Len(tail')
    BY <1>n, <2>0, <2>1 DEF OpenHandle
  <2> QED
    BY <1>i, <2>0, <2>1, <2>2
<1> QED
  BY <1>1, <1>2, <1>3, <1>4, <1>5, <1>6, <1>7

\* So does every step.
LEMMA RecentNext ==
  ASSUME FilesInv, RecentInv, [LogNext]_logVars,
         NoFile \notin Seq(Nat), MaxSize \in Nat, MaxLine \in Nat
  PROVE  RecentInv'
<1>1. CASE \/ \E len \in 1 .. MaxLine : Begins(len)
           \/ Unlinks \/ Renames \/ Opens \/ WritesLine \/ Syncs \/ PowerLoss
  BY <1>1, LineKept, OrderKept, RoomKept DEF RecentInv
<1>2. CASE UNCHANGED appLogVars
  BY <1>2 DEF appLogVars, RecentInv, LineInv, OrderInv, RoomInv, OnDisk, Content, LastUnit
<1>3. CASE fs_open_custom \/ fs_close_custom \/ \E count \in 1 .. ReadChunk : fs_read_custom(count)
  BY <1>2, <1>3 DEF fs_open_custom, fs_close_custom, fs_read_custom
<1>4. CASE UNCHANGED logVars
  BY <1>2, <1>4 DEF logVars
<1> QED
  BY <1>1, <1>3, <1>4 DEF LogNext

\* Whatever fails and whenever the power is lost, the two files and what is about
\* to be written hold the last lines logged in order, and of what came after the
\* first of them only lines are missing whose f_sync failed; and they hold as much
\* as a full file does as long as each rotation could close log.txt with all that
\* was written to it and open it again (app_log_rotate_if_needed, app_log).
THEOREM AlwaysKeepsRecentLines == LogSpec => []KeepsRecentLines
<1>0. /\ MaxSize \in Nat /\ MaxLine \in Nat /\ ReadChunk \in Nat /\ MaxLine <= MaxSize
      /\ NoFile \notin Seq(Nat)
  BY LogAssumption
<1>1. LogInit => FilesInv /\ StreamInv /\ RecentInv
  <2> SUFFICES ASSUME LogInit PROVE FilesInv /\ StreamInv /\ RecentInv
    OBVIOUS
  <2>1. FilesInv
    BY DEF LogInit, FilesInv, Content, OpenHandle
  <2>2. StreamInv
    BY DEF LogInit, StreamInv, Streams, NoStream
  <2>3. /\ Content(log) = <<>> /\ Content(log1) = <<>> /\ tail = <<>> /\ units = 0
        /\ logger = "idle" /\ incoming = 0 /\ unsynced = <<>> /\ Len(<<>>) = 0
    BY DEF LogInit, Content
  <2>4. OnDisk = <<>> /\ OnDisk \o tail = <<>>
    BY <2>3 DEF OnDisk
  <2>5. InOrder(<<>>, LastUnit, ToSet(unsynced))
    BY <2>3 DEF InOrder
  <2>6. log_file.open /\ log_file.size = Len(log) + Len(tail)
    BY <2>3 DEF LogInit, OpenHandle
  <2>7. LineInv /\ RoomInv
    BY <1>0, <2>3, <2>6 DEF LineInv, RoomInv
  <2>8. OrderInv
    BY <2>3, <2>4, <2>5 DEF OrderInv
  <2> QED
    BY <2>1, <2>2, <2>7, <2>8 DEF RecentInv
<1>2. FilesInv /\ StreamInv /\ RecentInv /\ [LogNext]_logVars => FilesInv' /\ StreamInv' /\ RecentInv'
  BY <1>0, StreamNext, RecentNext
<1>3. FilesInv /\ RecentInv => KeepsRecentLines
  <2> SUFFICES ASSUME FilesInv, RecentInv PROVE KeepsRecentLines
    OBVIOUS
  <2> DEFINE all == Content(log1) \o Content(log) \o tail
             last == IF logger = "sync" THEN units + incoming ELSE units
  <2>1. /\ Content(log1) \in Seq(Nat) /\ Content(log) \in Seq(Nat) /\ tail \in Seq(Nat)
        /\ OnDisk \in Seq(Nat) /\ incoming \in Nat /\ units \in Nat /\ unsynced \in Seq(Nat)
    BY FilesAre DEF RecentInv, LineInv
  <2>2. InOrder(all, last, ToSet(unsynced))
    BY DEF RecentInv, OrderInv, LastUnit, OnDisk
  <2>3. all \in Seq(Nat) /\ DOMAIN all = 1 .. Len(all) /\ Len(all) \in Nat
        /\ Len(all) = (Len(Content(log1)) + Len(Content(log))) + Len(tail)
    BY <2>1
  <2>4. rotation_failed \/ Len(all) + Len(unsynced) >= Min({units, (MaxSize - MaxLine) + 1})
    <3>1. Min({units, (MaxSize - MaxLine) + 1}) =
            IF units <= (MaxSize - MaxLine) + 1 THEN units ELSE (MaxSize - MaxLine) + 1
      <4>1. (MaxSize - MaxLine) + 1 \in Int /\ units \in Int
        BY <1>0, <2>1
      <4> QED
        BY <4>1, MinIs
    <3>2. /\ Len(Content(log1)) \in Nat /\ Len(Content(log)) \in Nat /\ Len(tail) \in Nat
          /\ units \in Nat /\ Len(unsynced) \in Nat
      BY <2>1
    <3>3. rotation_failed \/ Len(Content(log1)) >= Room \/ Len(Content(log)) >= Room
          \/ units <= (Len(Content(log1)) + Len(Content(log))) + Len(unsynced)
      BY DEF RecentInv, RoomInv
    <3> HIDE DEF all
    <3>4. PICK a \in Nat, b \in Nat, c \in Nat, n \in Nat, u \in Nat :
            /\ a = Len(Content(log1)) /\ b = Len(Content(log)) /\ c = Len(tail)
            /\ n = units /\ u = Len(unsynced)
      BY <3>2
    <3>5. PICK r \in Int : r = (MaxSize - MaxLine) + 1 /\ r = Room
      BY <1>0 DEF Room
    <3>6. Len(all) = (a + b) + c
      BY <2>3, <3>4
    <3>7. rotation_failed \/ a >= r \/ b >= r \/ n <= (a + b) + u
      BY <3>3, <3>4, <3>5
    <3>8. rotation_failed \/ ((a + b) + c) + u >= (IF n <= r THEN n ELSE r)
      BY <3>7
    <3> QED
      BY <3>1, <3>4, <3>5, <3>6, <3>8
  <2> HIDE DEF all, last
  <2>5. \A i, j \in {k \in DOMAIN all : all[k] # 0} : i < j => all[i] < all[j]
    BY <2>2, <2>3 DEF InOrder
  <2>6. \A i \in {k \in DOMAIN all : all[k] # 0} :
          all[i] .. last \subseteq ToSet(all) \cup ToSet(unsynced)
    <3> SUFFICES ASSUME NEW i \in 1 .. Len(all), all[i] # 0, NEW u \in all[i] .. last
                 PROVE  u \in ToSet(all) \cup ToSet(unsynced)
      BY <2>3
    <3>1. u \in ToSet(unsynced) \/ \E j \in 1 .. Len(all) : all[j] = u
      BY <2>2 DEF InOrder
    <3> QED
      BY <2>3, <3>1 DEF ToSet
  <2> QED
    BY <2>4, <2>5, <2>6 DEF KeepsRecentLines, all, last
<1> QED
  BY <1>1, <1>2, <1>3, PTL DEF LogSpec
=============================================================================
