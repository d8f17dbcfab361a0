# PicoBLEBridge in TLA+

PicoBLEBridge is firmware for a Raspberry Pi Pico W: it listens for BTHome
sensors over Bluetooth LE, reads DS18B20 thermometers on 1-Wire buses, averages
what they measure, and serves the averages on web pages, to an MQTT broker and
to narodmon.ru. It can replace itself over the air. This directory holds TLA+
models of its parts, the TLC runs that check them on small instances, and proofs
that TLAPS checks for every instance. `PROJECT.json` lists the runs, the lines of
code behind every definition, the hazards and the theorems.

## 1. The system

### Components, their state and their operations

| Part | Source | State | Operations |
|---|---|---|---|
| Boot loader | `bootloader_stub.c` | none but the flash | on reset: check the manifest and the staged image, copy it, verify, clear the manifest, jump |
| OTA writer | `app_firmware_update.c` | the upload: header, page buffer, counters, result | begin, write a piece, finish, abort |
| OTA upload | `app_web.c`, `html/settings.html` | one request for all connections; the loop of each browser | POST begin, receive, finished; reboot |
| Measurement store | `measurement_store.c` | table of samples, view of averages, limits | add, revise, snapshot, configure |
| BLE scanner | `ble_scanner.c` | table of devices, tracked MACs | advertising report (parsed as BTHome), expiry, settings |
| 1-Wire worker | `onewire_worker.c` | two queues between the cores; the bus being read | take a command, drive the bus, respond |
| 1-Wire bus driver | `onewire_bus.c` | the ROM and the last discrepancy of a search | search pass by pass, start a conversion, read a scratchpad |
| 1-Wire source | `onewire_source.c` | polling state, sensor table | one step per pass of the loop, settings |
| MQTT uploader | `app_mqtt.c` | connection state, batch, retry delay | poll, callbacks of lwIP, settings |
| Narodmon uploader | `app_narodmon.c` | one attempt, a deferred log line | start, poll, callbacks of lwIP |
| Settings | `app_config.c`, `app_runtime_config.c`, `minIni.c` | `config.ini`, the settings in force | load, validate, save, apply |
| Log | `app_log.c`, `app_web_logs.c` | two log files, a stream | append, rotate, stream |
| Storage, USB disk | `app_storage.c`, `storage_backend.c`, `fatfs_diskio.c`, `usb_*.c` | the flash file system | sector read and write |
| Main program | `BLEBridge.c`, `status_led.c` | Wi-Fi link, watchdog, next times, LED | bring-up, the loop, reconnection, reboots |
| DHCP server | `dhcpserver/` | eight leases: owner and upper half of the expiry | DISCOVER, REQUEST; all else is ignored |
| DNS server | `dnsserver/` | none | answers every query with its own address |

### How they interact

Core 0 runs one loop: poll the network (which runs the callbacks of lwIP and of
the Bluetooth stack), then the poll functions of the components in a fixed
order, then wait. Nothing on core 0 preempts anything else, so what is hard
there is the order in which callbacks, polls and requests of several browsers
come, and what is still outstanding when an attempt is given up. Core 1 runs the
1-Wire worker; the cores share two ring buffers without a lock. The boot loader
and the application share only the flash, and the power may fail at any time.
Writes of core 0 to the flash (settings, log) stop core 1 wherever it is, also
inside a 1-Wire time slot.
Samples flow from the BLE scanner and the 1-Wire source into the measurement
store and from its view to the pages and the uploaders. A change of settings on
a page is applied to every component at once, between two polls.

### What is hard, and what would be correct

* **Update** - a power loss or a failed write at any point, also inside a flash
  operation; uploads begun, abandoned and begun again; two browsers at once.
  Correct: only whole images are ever started, an image can always be restored,
  an update is installed completely or not at all, and in the end.
* **Store** - samples arriving later than younger ones, a full table, a full
  view, limits that are lowered, a clock that wraps. Correct: a sample is lost
  only for a documented reason, and the view is the exact average.
* **1-Wire** - two cores without a lock, sleeping until an event; buses switched
  off and sensors exchanged in the middle of a cycle. Correct: every command
  gets its answer, nobody sleeps for ever, the table is true in the end.
* **Uploaders** - answers that come late, never or in parts, settings that
  change in between. Correct: never connected to the wrong host, no connection
  left behind, "sent" only when it was sent, every attempt ends. The payload for
  narodmon.ru lives in a fixed buffer: whole devices are left out, never lines.
* **BLE** - packets that are cut, encrypted or hold unknown objects; reports,
  expiry and settings in any order on a full table. Correct: readings are those
  the sensor sent, nothing heard in two rows, flags that follow the settings, rows lost for
  a reason.
* **1-Wire search** - sensors plugged in and out between two bits, a shorted wire,
  a core stopped in a time slot. Correct: a quiet bus is searched completely, and
  no sensor is made up.
* **Main program** - a network that is absent, refuses or vanishes, parts that
  fail, a mode that is changed while the network runs. Correct: it never hangs,
  and it is on the network again once the network is there.
* **DHCP** - messages lost, repeated and overtaking each other, leases that run
  out, a clock that wraps. Correct: no address has two holders, and none is
  withheld for longer than the arithmetic accounts for.
* **Log** - two files rotated under a browser that reads them, errors and power
  losses between two operations. Correct: the latest lines survive without a gap,
  and the browser gets what it asked for.
* **Settings** - `config.ini` is truncated and rewritten line by line on a disk
  that may be full and a supply that may fail, and it is edited by hand.
  Correct: what was reported as saved survives a reboot, the device comes up
  again, and no page and no save leaves a file that keeps it from that.

`PROJECT.json` lists each hazard at its line with the properties that cover it.

## 2. Modules

Definitions keep the names of the functions and variables they model. Operators
introduced as "Variant" are deliberately wrong forms of the definition after
them, each of which makes a property fail.

| Module | Models | Composed by |
|---|---|---|
| `FirmwareFlash` | three flash regions, erase, program, manifest and CRC checks | the next two |
| `Bootloader` | `bootloader_stub.c`, one step per flash operation | `FirmwareUpdate` |
| `FirmwareUpload` | `app_firmware_update.c`, the POST handlers, the browsers | `FirmwareUpdate` |
| `FirmwareUpdate` | both, with resets, power losses and flash errors | |
| `FirmwareInstall` | abstract: an atomic installation | refined by `FirmwareUpdate` |
| `FirmwareUpdateProofs` | proofs | |
| `MeasurementStore`, `MeasurementStoreProofs` | `measurement_store.c` and the payload of `app_narodmon.c`; proofs | |
| `OneWireQueue` | the two queues and the event register | the next two |
| `OneWireWorker`, `OneWireSource` | core 1, core 0 | `OneWire` |
| `OneWire` | both cores interleaved | |
| `OneWireBus` | the ROM search of `onewire_bus.c` | |
| `OneWireProofs` | proofs about both | |
| `Mqtt`, `MqttProofs` | `app_mqtt.c`; proofs | |
| `Narodmon` | `app_narodmon.c` | `MainLoop` |
| `MainLoop`, `MainLoopProofs` | `BLEBridge.c` with the uploader running inside it; proofs about both | |
| `DhcpServer`, `DhcpServerProofs` | `dhcpserver.c`, and its clients; proofs | |
| `BtHome` | the parser of advertising data, as operators on sequences of bytes | `BleScanner` |
| `BleScanner`, `BleScannerProofs` | the reports and the device table of `ble_scanner.c`; proofs | |
| `LogFiles` | `app_log.c`, `app_web_logs.c` | |
| `Settings` | `app_config.c`, and the page handlers of `app_web.c` that change settings | |
| `DiskProofs` | proofs about `Settings` and `LogFiles` | |
| `MC...` | the instances for TLC | |

**Update.** The flash is made of units; the unit `<<f, k>>` is the k-th unit of
file `f`, so that a mixture of two files is seen as one. `metadata` is the
manifest in force: a file, `Erased` or `Torn`. A flash operation is a step, and
an upset during it leaves the touched units torn. The CRC is taken to tell
contents apart: a stored image matches a manifest's CRC exactly when it is that
file's and the file's own CRC was right (`SoundFiles`). The boot loader's `pc`
names the place in `bootloader_try_apply_update`, the writer's `handler` what
the running POST handler has still to do. The request, the upload and its
status are shared by all browsers, as in the code; a handler runs to completion
before another starts.

**Store.** Times are true times and the code's arithmetic is done on them modulo
`Wrap`; `history` is an auxiliary record of all samples in order of arrival,
from which the properties compute what the view should be. A sample's value is
its number. The payload is a sequence of lines with their greatest lengths,
built from the view as the code does it, in a buffer too small for all devices.

**1-Wire.** Each access to an index or an entry of a queue is a step; an entry
whose slot was given back is taken to be lost, so that reading it would show. `event` is
the register of `__sev`/`__wfe`. What a bus search finds (any sequence of ROMs
that fits) and whether a sensor answers is left to the bus. Times are kept as
"reached", and `last_seen_ms` as the order in which the sensors were seen since the
clock last wrapped (`ClockWraps`); rows from before that (`before_wrap`) have the
greater `last_seen_ms`.

**1-Wire search.** One step per bit: the bit and its complement are read, the
direction is sent, and the devices that differ drop out. Between two bits
devices are connected and disconnected, the wire is shorted (it then reads 0,
and what hung on it takes that for a reset), and core 1 is stopped while it
drives the wire (`Stall`, a reset to the devices) or before it samples it
(`ReadsBitLate`). The family code and the CRC are taken to tell ROMs of sensors
from other patterns. A search is begun again after each (`Again`).

**MQTT.** A poll is a chain of steps (`pc`) that nothing interrupts; the
callbacks run between polls. lwIP is modelled by what the code asks of it: set
of lookups that cannot be cancelled, one connection, outstanding publications.
`dns_generation` is kept as whether a lookup is of the current generation.

**Narodmon.** The payload is its length. `taken` and `acked` count what TCP took
and what the server acknowledged; `logged` collects the lines about the current
attempt. `SendReached` uses that five minutes pass between two attempts: by then
the deadline of ten seconds has been met in many polls and lwIP has ended its
lookup.

**Main program.** `phase` is where it is: bring-up (`start`, `detect`, `init`), the
loop of `connect_wifi_with_blink` (`join`, entered at bring-up and from the
loop), the four parts of a pass (`network`, `poll`, `link`, `send`), USB disk
mode, and the endless loops after failures, with (`stuck`) and without (`dead`)
a watchdog. `air`, `faulty` and `host` are the surroundings and change at any
time. The polls of the other components are in their own modules.

**DHCP.** Times are true times, and the code's arithmetic is done modulo `Wrap`
and in units of `Unit`. The clients are external: they follow the protocol,
count a lease from the moment they asked and heed only answers to their last
message; requests are delayed, repeated and lost, an answer arrives at once or
never. `ends` records when a lease really ends.

**BLE.** A row is an address, its type, the flag and the time of the last report.
A report is a sequence of bytes, built by the model of a sensor (`AdvertisingData`)
from fields and objects of which the end may be missing, and read by the parser
of the firmware; `Meant` is what a reader who knows the objects can tell from it.

**Log.** Each FatFs operation is a step, done or not; nothing but a power loss comes
between the steps of one `app_log`. What `f_write` took is in the handle (`tail`)
until an `f_sync` or `f_close` gets it onto the disk; either may fail, which the
code ignores: after `f_sync` the line stays in the handle until a later one
succeeds (`unsynced`), and a rotation goes on without it (`rotation_failed`). The
directory entry is written with them, or counts as not written. Reading is a copy
from mapped flash (`storage_backend.c`), so that a read inside a file does not
fail. The units of text are numbered; a piece of a
line left by a full disk is 0. The handles of a stream keep leading to the
contents they were opened on while the names change under them; of a file that
was deleted a read may give old text, other text or nothing (`clean`).

**Settings.** A text is a word and whether blanks surround it; a word has a
length, by which a password may be too short and the first line of the file too
long. A broken word holds a line feed (`FirstLine` is what comes before it): the
handler refuses it in the MQTT texts, but not in those of the network, which are
written as they are (`Found` is what the first section then reads as; what the
rest of such a text adds to other sections is left out). Settings with a WPA2
password under eight characters are `Refused` by `init_network_services`, and the
device reboots (`Reboots`); apart from that, bringing up the network is the
business of `MainLoop`. `disk` is the file as a reset would find it and `file` what the running
save has written; each line is a step. A full disk ends a save anywhere in a
line and leaves the beginning (`CutText`, `CutNumber`; a number cut short may be
that of another sensor). Until `f_sync` a power loss leaves the old file or an
empty one, and so does a failure of `f_sync` and `f_close` at the end, which the
code ignores (`status` is "unsynced" then, which the page shows as saved): FatFs writes the emptied directory entry before it frees the
clusters, and the new size only when the file is closed. Fields that the code
treats alike are represented by one of them.

## 3. Runs

| Run | Checks | Shows |
|---|---|---|
| `crash` | `WritesInPlace`, `StartsIntactImage`, `Recoverable`, `ProgramsErasedFlash`, `UploadedIsApplicable`, `InstallSpec`, `PendingIsInstalled` | one browser, five files, two upsets anywhere: the writer stays in its buffer and its area, nothing but a whole image is started, installation is atomic and takes place in the end |
| `store` | `AveragesAreFresh`, `ViewIsExact`, `LosesOnlyForAReason`, `PayloadIsComplete` | table, view and payload at their limits, samples late by any time, changing settings, a clock that wraps; a payload that cannot take all devices |
| `onewire` | `OneRequestAtATime`, `AnswersTheRequest`, `KeepsPresentSensors`, `CycleEnds`, `DisabledGoesAbsent` | the handshake of the cores and the sensor table; no lost wake-up, no sleep without end |
| `search` | `SearchIsComplete`, `FoundIsConnected` | a quiet bus is searched completely and in order; whatever disturbs a search, no sensor is made up |
| `mqtt` | `ConnectsToConfiguredHost`, `StateTracksConnection`, `PublishesInOrder`, `SentMeansAcknowledged`, `BatchEnds` | two brokers, late answers, lost connections and acknowledgements |
| `network` | `OneOutstanding`, `ReportsOneOutcome`, `SendEnds`, `NeverHangs`, `OnlineAgain` | the main program and the Narodmon uploader in it: every attempt ends and is reported once, and the device always gets back to work |
| `dhcp` | `NoSharedAddress`, `OfferUnlessFull` | the leases under unreliable messages and a clock that wraps |
| `ble` | `ReadingsAreSound`, `RowsAreDistinct`, `SelectedIsTracked`, `LosesRowForAReason` | the parser on whole, cut, foreign and encrypted packets; a full device table, expiry, changing settings |
| `settings` | `ListsAreSound`, `SavedSurvivesReboot`, `OnlyCutsLockOut`, `Boots` | pages, hand-made files, line feeds, cut saves and failing ones in any order |
| `log` | `KeepsRecentLines`, `StreamIsExact` | rotation under a reading browser, disk errors at every operation (also at `f_sync` and `f_close`), power losses |

Two runs show where the code and what it says of itself disagree:

* `double_submit` - `app_web.c` does not tell connections apart. Two browsers
  that submit the same file can leave a mixture staged while the page says
  "Update uploaded. Reboot to apply firmware."; the boot loader rejects it
  (`AlwaysStartsIntactImage` and `InstallsAtomically`, which are proved for any
  number of browsers, say that this is the whole harm).
* `long_settings` - `app_config_save` formats all comments and the texts of the
  network section into one buffer of 1024 bytes, after it has truncated the
  file. An SSID, host name and password of more than about 70 characters
  together, which the page admits, leave `config.ini` empty; the old settings
  stay in force until the next boot loads the defaults.

Other behaviour that the properties had to allow for, and a reader may not expect:

* After 49.7 days the millisecond clock wraps, ages of samples from before become
  0, and they stay until the new time has passed theirs by the retention, which
  may take another 49.7 days (`AveragesAreFresh` excepts them). A reading may wait
  for half a minute while the loop joins a network (`connect_wifi_with_blink`),
  longer than the shortest retention of five seconds; it is then dropped at the
  next revision, and never shown. In the table of
  BLE devices a full table may then give up a device heard a moment ago
  (`AlwaysLosesRowForAReason` is proved until the wrap).
* After the wrap a full table of 1-Wire sensors may give up one just seen, as long
  as rows from before the wrap remain (`KeepsPresentSensors` excepts it).
* A lowered measurement limit is enforced only when a series gets its next
  sample.
* A mode saved on the page takes effect in the next pass of the loop, although
  the page says "Reboot required to apply changes.": an access point that is told
  to be a client starts joining at once (`ChecksLink`).
* A failed initialisation of the radio comes before the watchdog is started and
  is for ever (`NeverHangs` excepts it).
* The DHCP server ignores renewals, which carry no requested address: every
  client loses its address when the lease ends and asks anew. A lease that ended
  more than half the clock's range ago counts as running again
  (`OfferUnlessFull` excepts it).
* A device on a 1-Wire bus that is no DS18B20 hides the sensors behind it in the
  order of the ROMs (`SearchIsComplete` says so).
* When log.txt cannot be opened after a rotation, the next line rotates again and
  deletes the file just renamed. And a rotation goes on when neither `f_sync` nor
  `f_close` could write the end of log.txt (`app_log.c:45-46`), which may delete
  log1.txt for a shorter file. `KeepsRecentLines` claims no amount of text then,
  but still the order of the lines, and that none is missing in between but
  those whose own `f_sync` failed (`app_log.c:127`).
* "Saved to config.ini" is shown, and the settings are put in force, also when
  `f_sync` and `f_close` failed and the file is still the old one or empty
  (`app_config.c:625-627`; `SavedSurvivesReboot` excepts it).
* A WPA2 password needs eight characters (`README.md:63` of the sources), and the
  settings page sees to it. But a save that is cut inside the password by a full
  disk, a line feed in it (`app_web.c:392-424` does not look for control
  characters, as `app_web.c:320-324` does for the MQTT texts), one in the name of
  the network or the host, or an edit by hand leaves a file with a shorter one.
  `BLEBridge.c:197` refuses it, `BLEBridge.c:303-305` reboots, and so on at every
  boot until the file is edited over USB. `OnlyCutsLockOut` says that nothing else
  brings this about, and `Boots` that no other contents of the file keep the device
  from its network.
* A tracked sensor with a random address has two rows in the table of BLE devices
  once it is heard: the placeholder that was made for it has type 0
  (`ble_scanner.c:477`), and its reports look for type 1 (`ble_scanner.c:172`).
  `RowsAreDistinct` allows this second row and no other.

### Bounds

* Update: pages of two units, sectors of two pages, regions of one or two
  sectors. Images of several lengths: a partial last page, a partial last
  sector and one unit more than the region. Two upsets put one into the
  recovery from another, or both into the copy. With two browsers the region is one sector, which is
  what their interleavings leave room for; the mixing needs only two pieces.
* Store: three series, each of its own device, two of them alike (`Twins`), against
  three view rows and three table slots, for up to four samples, each late by any
  time; retentions from less than a tick to two, one change of settings, a clock
  that wraps two ticks before the end, so that samples are revised on both sides
  of it, and a payload with room for one device.
* 1-Wire: two slots per queue (the least that can hold an entry), two buses, one
  sensor per bus and a table of two, with two ROM codes so that sensors are
  exchanged.
* MQTT: two hosts and one that cannot be used, batches of up to two, a retry
  delay that reaches its maximum in two doublings that do not hit it exactly.
* 1-Wire search: ROMs of five bits that branch at several depths, four sensors
  and a foreign device against a capacity of three, four disturbances per search.
  All sensors' ROMs end in 1, so that a ROM begun by a device and filled up with
  the zeros of a short circuit is none, as the CRC makes it but for one in 256.
* Main program: a payload of three units against a send buffer of two; no bound on
  anything else.
* DHCP: two clients and two addresses, one of which a client may hold besides its
  own; leases of two ticks, units of three, a clock that wraps after twelve, from
  half of it on. The run of fifteen ticks passes the point where old leases count
  as running again.
* Log: files of three units, lines of one or two, eight units in all, which is
  several rotations, and two faults, so that one follows on another.
* BLE: seven kinds of packets (all widths, a negative and an unsigned value, an
  unknown object whose bytes read like a temperature, a cut object, a cut packet,
  an encrypted and an old one, other fields before); three addresses, one of
  them random, so that placeholder rows give a fourth key for three rows; two
  tracked at most; time enough to expire twice.
* Settings: four words (empty, too short for a password, long enough, and long
  enough but for a line feed in it), two of which exceed a line only if both are
  long; two MACs and two places, so that only files hold more, two
  sensors against one (that longer lists of names are sound is proved); three
  files made by hand with repeated, bad, missing and excessive entries and with
  too short a password; one full or failing disk or power loss during a save (a
  second one finds the same states of the file), any number of other resets.

### Fairness

* Boot loader: `WF(BootRuns)`. It is straight-line code with nothing else
  running; upsets are bounded by `MaxUpsets`, that is, finitely many.
* 1-Wire: weak fairness of each core and of time. Each core runs its own loop; a
  core in `__wfe` is only enabled once the event register is set, so the runs
  would show a lost wake-up. Nothing is assumed of the sensors.
* MQTT: weak fairness of the poll, and strong fairness of the deadlines: time
  passes between polls, and a deadline that is set again and again without being
  reached is still reached by one that stays. Nothing is assumed of the network.
* Main program: weak fairness of what it does by itself, of the watchdog and of
  Narodmon's deadline; all are straight-line code or time. For `OnlineAgain`, strong
  fairness of the link coming up while the program is joining: a network that is
  there does not stay away from every attempt of 30 seconds. Nothing is assumed
  of lwIP and of the servers.
* Settings: weak fairness of the boot, of a save that has begun and of the reboot
  after a refusal, which are straight-line code; nothing is assumed of the users.
* The store, the BLE scanner, the 1-Wire search, the DHCP server and the log are
  checked for safety only.

## 4. Proofs

The theorems hold for every value of the constants that satisfies the named
assumptions of the modules: any set of files, of any sizes; a page that divides
a sector and a sector that divides a region (`FlashAssumption`, as
`firmware_update.h` and the linker scripts have it); a factory image that fits;
tables, queues, payloads, send buffers and limits of any size from the least the
code works with; any number of browsers, hosts, buses, devices, clients,
addresses, power losses; any place where a clock wraps. A theorem that needs more
says so in its statement, and each of these is noted below with the reason.

### Update (`FirmwareUpdateProofs`)

* `TypeCorrect`: `Spec => []TypeOK`, on which the others rest. The inductive
  invariant `TInv` adds what is known of the upload's counters while a handler
  runs (`UploadKnown`) and of the boot loader's offset and target in each place
  (`BootPlace`); without them a page or a copied sector might lie outside its
  region. The lemma `CopySizeBound` is the arithmetic of `bootloader_round_up`.
* `AlwaysRecoverable`, `AlwaysStartsIntactImage`: the
  boot loader clears the manifest, and starts the application, on the strength
  of checks made some steps before. `BootInv` ties each of its places to what
  holds there: while it copies, the update is still pending and is the one it
  checked; when it clears the manifest, the application area holds that image;
  when it jumps, nothing is pending. The application keeps its own area
  untouched, so it cannot spoil what it runs from.
* `InstallsAtomically`: `Spec => InstallSpec`, the refinement of
  `FirmwareInstall`. The installed firmware is mapped to the image in the
  application area if it is whole, else to the one the manifest names. The proof
  needs that the area's first unit tells which image it holds (`HeadInv`): the
  copy is atomic because the first sector's erasure makes the area no image and
  only the last page makes it one again. Each action of `Next` is then a step of
  the abstract specification or none.
* `AlwaysProgramsErasedFlash`: for any number of browsers. The writer erases a
  sector only when a page reaches past `erased_up_to`, so a page is programmed on
  the strength of an erasure many requests ago. `PagesInv` keeps what that
  rests on: pages start at multiples of their size, `erased_up_to` is a multiple of
  a sector's and never behind the page, and what is erased beyond the page is
  blank still - also after an upload was given up and another begun, whose first
  page starts below what the first one erased (`PagesBegin`). `PageFits` is the
  arithmetic: a page at a multiple of its size does not straddle a boundary.
* `AlwaysWritesInPlace`: from the same invariant, and `PlaceInv`, which bounds the
  size that a valid header may announce (`HeaderIsValid`): a full page is
  always below it, and the sector it may need erased is, too.
* `AlwaysUploadedIsApplicable`: under `OneBrowser`. `ContentInv` says that the
  upload's header, the pieces it has taken and what stands staged are those of
  one file, in order, and that the browser goes on where the upload stands. With
  two browsers the last part fails, and so does the property: the run
  `double_submit` is the counterexample, the hypothesis is not for convenience.

### Measurement store (`MeasurementStoreProofs`)

* `AlwaysAveragesAreFresh`, an action property: whenever the view changes or is
  revised, each of its averages is that of some samples of its series which are
  no older than the retention (or from before a wrap). Nothing is assumed of how
  long a reading waits, how large the tables are or when settings change.
  `StoreInv` says that every sample in the table was taken in (`TableIsHistory`)
  and none in the future (`HistoryIsPast`): an age is only the true age then
  (`AgeIs`). `RevisedShowsFresh` takes the rows apart as `AlwaysViewIsExact` does.
* `AlwaysLosesOnlyForAReason`, an action property: a step loses a sample only for
  the reasons the code has. The work is in the order in which samples are given
  up: `PrecedesOrders` (it is a strict total order), `FollowersShrink` and
  `LimitLeavesFollowers` (what the limit removes is followed by as many as are
  kept, so that the youngest stay), `OldestIs` (a full table gives up a sample that
  is no younger than any).
* `AlwaysViewIsExact`, an action property: while the table has room, the clock does
  not wrap and the settings stay, a revision leaves in the view exactly the
  averages it should (`Exact` is that condition). What a step must keep is
  `ExactInv`: a sample's value is its number and times of a series rise
  (`HistoryInv`), no two slots hold the same sample (`TableInv`), and what is not in
  the table is in no window, now or later, while what follows a sample of the table
  in its series is there, too, and no series has more than `max_count`
  (`WindowInv`). `RevisedShows` turns that into rows, in the order of `Firsts`, by
  counting (`ImageSize`, `NthIs`).
* `AlwaysPayloadIsComplete`: what is sent is never cut. `NARODMON_MAX_DEVICES`
  divides the buffer by the lines of one device, and `DevicesHaveRoom` is what that
  division is good for: the header, the time, the lines of so many devices and the
  trailer fit. `LoopOk` says what the first loop has written after `k` rows: the
  lines of the rows whose devices are sent, of just the length that the metrics of
  these devices add up to (`Size`), the devices one after the other (`SentIs`), and
  for each the greatest count (`CountIs`). It is proved by induction over the rows
  (`LoopIs`), which is possible because the loops are recursive functions, not
  recursive operators. The view enters only as rows of distinct series (`RowsOk`,
  an invariant: `RebuiltIs`). Hypothesis: no BLE sensor has the id of a 1-Wire one
  (`DistinctIds`); both are four bytes of an address, and two such sensors would
  have two lines of one metric where the division reserves one.

### 1-Wire (`OneWireProofs`)

* `AlwaysOneRequest`, `AlwaysAnswersTheRequest`: the invariants do not say where
  a request is. `RequestInv` follows it round - nobody has one, core 0 is about to
  publish, it is in the queue, core 1 has it, the response is in its queue - and
  ties queues, program counters and the state of the source together in each
  place. From it follows that core 1 never sleeps for want of room, the sleep that
  nothing would end.
* `AlwaysKeepsPresentSensors`, an action property: the row of a sensor seen in this
  cycle is not given to another. Hypothesis: the table has a row for every sensor
  the buses can have (`DeviceTableSize >= BusCount * DeviceLimit`), which the code
  meets with nothing to spare (32 rows, two buses of 16). `CycleInv` counts: the
  sensors seen in this cycle are the last ones in the order of `last_seen`, and
  there are no more of them than readings were handled in the cycle - as many as
  the buses before have sensors, and the worker's index less the reading on its
  way. A full table gives up the first in the order, and so one not yet seen.
  Rows from before the wrap of the clock are outside this order, and while there
  are any, nothing is claimed.
* `AlwaysSearchIsComplete`: for any ROM length, capacity and devices. What a pass
  returns is the next ROM in the order of their bits, the last discrepancy the last
  place where a greater one branches off (`IsLastTurn`); `LeadsOn` says the same of a
  pass in its middle, and `QuietInv` puts both together: the ROMs found so far are
  the first ones of the bus (`FirstOnes`). `BitKept` is the step of a bit,
  `LeadsToNext` the end of a pass.
* `FoundUnlessShorted`, `AlwaysFoundIsConnected`: no sensor is made up of two. While
  devices come, go and are reset, a pass keeps to the ROM of one that was there up
  to the place where it lost it; from there it reads what nobody sends and follows
  the turns of the pass before (`Follows`, in `FoundInv`). Without short circuits the
  search ends there, and the theorem needs no assumption; with them it goes on in
  zeros, and the theorem needs that no sensor has a ROM made up so (`NoSplices`).
  The CRC sees to that but for one in 256, and the run's instance satisfies it
  (`SensorsAssumption`).

### Uploaders (`MqttProofs`, `MainLoopProofs`)

* `AlwaysConfiguredHost`: `HostInv` adds that while the settings
  have not changed since the last poll, every lookup of the current generation
  and every recorded answer is for their host.
* `AlwaysTracksConnection`, `AlwaysInOrder` and the action property
  `SentIsAcknowledged`: `BatchInv` says what a poll may rely on in each of its
  places (`PollIsCurrent`), how the state the poll saw and the connection go
  together while callbacks change one of them (`ConnectionIsKnown`), and that
  published, outstanding and acknowledged samples are one run of the batch
  (`BatchIsOrdered`).
* `TypeCorrect`, `AlwaysOneOutstanding`, `AlwaysOneOutcome`: the Narodmon uploader
  inside the main program. `UploadInv` adds that what lwIP holds fits the send
  buffer, that what is sent was taken, and that nothing is left of an attempt when
  the next may start (`ReadyToSend`); the last rests on the five minutes between
  two attempts (`SendReached`), by which the deadline has ended a connection and
  lwIP its lookup.

### DHCP server (`DhcpServerProofs`)

* `AlwaysNoSharedAddress`: a bound client's lease is in the table under its name
  and runs at least as long as the client counts (`BoundIsLeased`), an answer under
  way is one to the last message (`AnswersLastRequest`). The expiry is rounded and
  kept in the upper half of a wrapping clock; `RoundedUp`, `NotExpiredBefore` and
  `ExpiredAfter` say in which span the comparison tells the truth.
* `AlwaysOfferUnlessFull` follows from the same invariant.

### BLE scanner (`BleScannerProofs`)

* `AlwaysDistinctRows`, `AlwaysSelectedIsTracked`: each needs the other
  (`ScanInv`): settings are applied by compacting the table and adding
  placeholders, which keeps rows apart only because the flags were right.
  `RankIs` and `NthIs` describe the compaction. Each row is the one in which its
  device is heard (`IsHeardAs`) or a placeholder from before that (`NeverHeard`),
  and there is at most one of each kind.
* `AlwaysLosesRowForAReason`, an action property, until the clock wraps
  (`MaxNow < Wrap`): behind the wrap ages are taken as 0 and a row heard a moment
  ago may be evicted. It also needs that no row was heard in the future
  (`HeardBefore`).
* `AlwaysReadingsAreSound`: the parser tells just what was meant, for packets of any
  length. `AdvertsAssumption` says which packets there are (`WellFormed`): any whole
  fields before the service data, any objects, the last of them cut anywhere, the
  service data truncated anywhere, encrypted or not. The parser's loops are recursive
  functions on positions; what holds at one position is shown to hold at the next,
  and a least (or greatest) position where it failed cannot exist (`Upward`,
  `Downward`). The sequence of bytes is taken apart by `FieldFromIs` (the field that
  is found is the service data), `ReadingsAre` and `ParserTells` (each object where
  it starts, `PieceStarts`, and the end at the first that is unknown or cut).

### Settings and log (`DiskProofs`)

* `AlwaysListsAreSound`: the lists of MACs and of names. Pages change them one
  entry at a time (`SetMacIs`, `SetNameIs`); loading folds them together from
  what the file holds, bad lines and repetitions included. The folding is a
  recursive function, of which `Recursion` shows that it exists and `Induction`
  what holds after each key (`LoadMacsIs`, `LoadNamesIs`).
* `AlwaysSavedSurvivesReboot`: `Written` says what the file holds before each
  line of a save, so that at the end it holds just the settings that are put in
  force. `SettingsComeBack`: loading these changes nothing, as settings that are
  normal (`SettingsInv`, which also gives the forms that the file can have after an
  edit by hand, a full disk or a power loss) are left alone by
  `app_config_normalize`, and sound lists are folded into themselves
  (`MacsComeBack`, `NamesComeBack`). The property excepts a failed `f_sync` and a line
  feed in the network's texts: both do lose what was saved.
* `AlwaysOnlyCutsLockOut`, an action property: `StartableInv` says that neither the
  settings in force nor those being saved are refused, `RefusedFor` that a file is
  refused for nothing but its own first section, and `SaveLeaves` that each write
  but the first leaves that section as the save began it.
* `AlwaysStreamIsExact`: `StreamInv` says that what a browser has received is the
  beginning of both files as they were when it asked, of the length that its two
  reading positions tell. Renaming leaves the contents behind the handles as they
  are, and only the removal of a file that is still to be read ends the claim
  (`clean`).
* `AlwaysKeepsRecentLines`: `RecentInv` has three parts, kept in all steps of
  `app_log`. `OrderInv`: the lines in both files and in the handle rise, and what is
  missing after the first of them was left unsynced; so a power loss takes away
  the end (`TailLost`) and a rotation the beginning (`BeginningLost`), and a line
  that a failed `f_sync` left in the handle may come to the disk later or never.
  `LineInv` says where the line being written is. `RoomInv`: until a rotation fails,
  one of the files is nearly full or nothing was dropped yet, which rests on the
  size that the handle knows being that of the file and its own end.

### Only model-checked

* Liveness (`PendingIsInstalled`, `CycleEnds`, `DisabledGoesAbsent`, `BatchEnds`,
  `SendEnds`, `NeverHangs`, `OnlineAgain`, `Boots`): the prover has no rule for
  fairness.

Everything else that a passing run checks has a theorem. Where that has a hypothesis
about the surroundings of the code (`OneBrowser`, `DistinctIds`, `NoSplices`, the rows for 1-Wire sensors, the clock of the BLE table),
it is stated in the theorem, and the runs' instances satisfy it.

Where a proof needs the least or greatest element of a set of numbers it comes
from the well-foundedness of `<` (`LeastNumber`, `LeastIs`). The inductive
invariants were first checked by TLC on the instances of section 3.

## 5. Not modelled, and why

* Rendering of pages and JSON, parsing of forms, escaping of text, the DNS server:
  functions of text without state of their own.
* The storage below FatFs: `storage_backend.c` rewrites a flash sector of eight
  blocks, and a power loss in between destroys all eight, which may belong to
  the FAT or to other files. `Settings` and `LogFiles` take each FatFs operation as
  done or not; what such a loss leaves of them depends on the layout of the disk.
* The USB disk: it runs alone, in a mode that only a reset ends (`MainLoop` has the
  mode, `Settings` the files edited in it); call-backs of TinyUSB and tables.
* Bytes of a 1-Wire scratchpad: a reading is a value or none. (A wire shorted while
  one is read gives nine zeros, whose CRC is right, that is, 0.0 degrees.)
* Bit timing of 1-Wire, the LED, the CPU load, the set-up of the Bluetooth stack:
  hardware and third-party code, run once or without effect on the rest.

## 6. Plan

Modelled: every component with state of its own but the storage glue. Left to
model: the blocks of the disk on flash sectors under `LogFiles` and `Settings`, for
the loss of neighbouring blocks; a composition of scanner, 1-Wire source, store
and an uploader in the order of the loop, so that what is sent is checked against
what the sensors said.

Left to prove: nothing that the runs check, but for liveness, which stays with TLC.
