------------------------------ MODULE LogFiles ------------------------------
(***************************************************************************)
(* The log: lines go to log.txt, which becomes log1.txt when it is full;   *)
(* the page /logs.txt streams both.  Power may fail between any two        *)
(* operations on the disk, each of which (FatFs and the storage below it,  *)
(* external) is done or not; that f_sync or f_close was not is ignored.    *)
(* All code here runs on the main loop, so that only a power loss comes    *)
(* between the steps of app_log.                                           *)
(*                                                                         *)
(* Units of text are numbered in the order in which they are logged; a     *)
(* unit 0 is a piece of a line that could not be written as a whole.       *)
(***************************************************************************)
EXTENDS Integers, SequencesExt

CONSTANTS
  MaxSize,      \* APP_LOG_MAX_SIZE_BYTES
  MaxLine,      \* the longest line (sizeof(line) - 1)
  ReadChunk,    \* APP_WEB_LOG_READ_CHUNK
  MaxUnits,     \* bound on the units logged
  MaxLogFaults, \* bound on disk errors and power losses
  NoFile

ASSUME LogAssumption ==
  /\ {MaxSize, MaxLine, ReadChunk} \subseteq Nat \ {0} /\ MaxLine <= MaxSize
  /\ {MaxUnits, MaxLogFaults} \subseteq Nat
  /\ NoFile \notin Seq(Nat)

VARIABLES
  log, log1,    \* the files on the disk
  log_file,     \* the handle: open?, the size it knows, its error flag
  tail,         \* written to it, not yet on the disk
  logger,       \* where app_log is
  incoming,     \* length of its line
  units,        \* how many units have been logged
  unsynced,     \* the units of lines whose f_sync failed
  rotation_failed, \* once, log.txt was closed without its tail, or not opened again
  log_faults,
  stream,       \* app_web_log_stream, and the files it has open
  got,          \* what the browser has received
  at_open,      \* what both files held when it asked
  clean         \* nothing it had not read yet has been removed

appLogVars == <<log, log1, log_file, tail, logger, incoming, units, unsynced, rotation_failed>>
streamVars == <<stream, got, at_open, clean>>
logVars == <<appLogVars, log_faults, streamVars>>

Content(file) == IF file = NoFile THEN <<>> ELSE file

\* previous and current hold what the handles lead to.
NoStream == [in_use |-> FALSE, previous |-> <<>>, previous_read |-> 0,
             current |-> <<>>, current_read |-> 0, current_is |-> "log", eof |-> FALSE]

OpenHandle == [open |-> TRUE, size |-> Len(Content(log)), err |-> FALSE]

LogInit ==
  /\ log = <<>> /\ log1 = NoFile
  /\ log_file = OpenHandle /\ tail = <<>> /\ logger = "idle" /\ incoming = 0
  /\ units = 0 /\ unsynced = <<>> /\ log_faults = 0 /\ rotation_failed = FALSE
  /\ stream = NoStream /\ got = <<>> /\ at_open = <<>> /\ clean = TRUE

Fault == log_faults < MaxLogFaults /\ log_faults' = log_faults + 1

-----------------------------------------------------------------------------
(* app_log.                                                                *)

\* app_log_rotate_if_needed: the size of the handle is known also when the last
\* attempt to open it failed.  The rotation goes on if neither f_sync nor f_close
\* gets the rest of the file onto the disk.
Begins(len) ==
  /\ logger = "idle" /\ units + len <= MaxUnits
  /\ incoming' = len
  /\ \/ /\ log_file.size + len <= MaxSize /\ logger' = "write"
        /\ UNCHANGED <<log, tail, log_faults, rotation_failed>>
     \/ /\ log_file.size + len > MaxSize /\ logger' = "unlink" /\ tail' = <<>>
        /\ \/ /\ log' = IF log_file.open THEN log \o tail ELSE log
              /\ UNCHANGED <<log_faults, rotation_failed>>
           \/ tail # <<>> /\ Fault /\ rotation_failed' = TRUE /\ UNCHANGED log
  /\ UNCHANGED <<log1, log_file, units, unsynced, streamVars>>

\* f_unlink: a stream may still be reading the file.
Unlinks ==
  /\ logger = "unlink"
  /\ \/ /\ log1' = NoFile /\ logger' = "rename" /\ UNCHANGED log_faults
        /\ clean' = (clean /\ \/ log1 = NoFile
                              \/ IF stream.current_is = "log1"
                                 THEN stream.current_read = Len(stream.current)
                                 ELSE stream.previous_read = Len(stream.previous))
     \/ Fault /\ logger' = "open" /\ UNCHANGED <<log1, clean>>
  /\ UNCHANGED <<log, log_file, tail, incoming, units, unsynced, rotation_failed,
                 stream, got, at_open>>

Renames ==
  /\ logger = "rename" /\ logger' = "open"
  /\ \/ /\ log # NoFile /\ log1' = log /\ log' = NoFile /\ UNCHANGED log_faults
        /\ stream' = [stream EXCEPT !.current_is = IF stream.in_use THEN "log1" ELSE "log"]
     \/ log = NoFile /\ UNCHANGED <<log, log1, log_faults, stream>>
     \/ Fault /\ UNCHANGED <<log, log1, stream>>
  /\ UNCHANGED <<log_file, tail, incoming, units, unsynced, rotation_failed, got, at_open, clean>>

\* app_log_open_current_file: f_open creates the file; it or f_lseek may fail.
Opens ==
  /\ logger = "open"
  /\ \/ /\ log' = Content(log) /\ logger' = "write"
        /\ log_file' = [OpenHandle EXCEPT !.size = Len(log')]
        /\ UNCHANGED <<log_faults, rotation_failed>>
     \/ /\ Fault /\ logger' = "idle" /\ rotation_failed' = TRUE
        /\ \/ UNCHANGED log /\ log_file' = [log_file EXCEPT !.open = FALSE]
           \/ /\ log' = Content(log)
              /\ log_file' = [open |-> FALSE, size |-> Len(log'), err |-> FALSE]
  /\ UNCHANGED <<log1, tail, incoming, units, unsynced, streamVars>>

Line == [k \in 1 .. incoming |-> units + k]

\* f_write; nothing is written by a handle that is closed or has an error.
WritesLine ==
  /\ logger = "write"
  /\ LET written(seq, size) ==
           tail' = tail \o seq /\ log_file' = [log_file EXCEPT !.size = @ + size]
     IN  IF ~log_file.open \/ log_file.err
         THEN logger' = "idle" /\ UNCHANGED <<log_file, tail, log_faults>>
         ELSE \/ logger' = "sync" /\ written(Line, incoming) /\ UNCHANGED log_faults
              \/ \* the disk is full
                 /\ Fault /\ logger' = "idle"
                 /\ \E k \in 0 .. incoming - 1 : written([i \in 1 .. k |-> 0], k)
              \/ \* the disk fails
                 /\ Fault /\ logger' = "idle"
                 /\ log_file' = [log_file EXCEPT !.err = TRUE] /\ UNCHANGED tail
  /\ UNCHANGED <<log, log1, incoming, units, unsynced, rotation_failed, streamVars>>

\* Variant: left to the next rotation.
SyncsLater ==
  /\ logger = "sync" /\ logger' = "idle"
  /\ units' = units + incoming
  /\ UNCHANGED <<log, log1, log_file, tail, incoming, unsynced, rotation_failed, log_faults, streamVars>>

\* f_sync; the line counts as logged also if that fails, and stays in the handle.
Syncs ==
  /\ logger = "sync" /\ logger' = "idle"
  /\ \/ log' = log \o tail /\ tail' = <<>> /\ UNCHANGED <<unsynced, log_faults>>
     \/ Fault /\ unsynced' = unsynced \o Line /\ UNCHANGED <<log, tail>>
  /\ units' = units + incoming
  /\ UNCHANGED <<log1, log_file, incoming, rotation_failed, streamVars>>

\* Power is lost, and app_log_init opens the file after the reset.
PowerLoss ==
  /\ Fault
  /\ log' = Content(log) /\ tail' = <<>>
  /\ log_file' = [OpenHandle EXCEPT !.size = Len(log')]
  /\ logger' = "idle" /\ incoming' = 0
  /\ stream' = NoStream /\ got' = <<>> /\ at_open' = <<>> /\ clean' = TRUE
  /\ UNCHANGED <<log1, units, unsynced, rotation_failed>>

-----------------------------------------------------------------------------
(* The page.                                                               *)

\* Only one browser at a time is served.
fs_open_custom ==
  /\ logger = "idle" /\ ~stream.in_use
  /\ stream' = [NoStream EXCEPT !.in_use = TRUE, !.previous = Content(log1),
                                !.current = Content(log)]
  /\ got' = <<>> /\ at_open' = Content(log1) \o Content(log) /\ clean' = TRUE
  /\ UNCHANGED <<appLogVars, log_faults>>

\* The units that f_read may deliver.  Of a file that has been removed, they may
\* be old ones, what was written over them, or none.
Units(file, read, count) ==
  LET rest == SubSeq(file, read + 1, read + Min({count, Len(file) - read}))
  IN  IF clean THEN {rest} ELSE {rest, [k \in DOMAIN rest |-> 0], <<>>}

\* Variant: the current log comes first.
ReadsCurrentFirst(count) ==
  \E seq \in Units(stream.current, stream.current_read, count),
     old \in Units(stream.previous, stream.previous_read, count) :
       IF seq # <<>>
       THEN got' = got \o seq /\ stream' = [stream EXCEPT !.current_read = @ + Len(seq)]
       ELSE /\ got' = got \o old
            /\ stream' = [stream EXCEPT !.previous_read = @ + Len(old), !.eof = old = <<>>]

\* The previous log up to the size it had, then the current one.  When the
\* previous one cannot be read, the rest of it is left out.
Reads(count) ==
  \/ /\ stream.previous_read < Len(stream.previous)
     /\ \E seq \in Units(stream.previous, stream.previous_read, count) \ {<<>>} :
          /\ got' = got \o seq
          /\ stream' = [stream EXCEPT !.previous_read = @ + Len(seq)]
  \/ /\ \/ stream.previous_read = Len(stream.previous)
        \/ <<>> \in Units(stream.previous, stream.previous_read, count)
     /\ \E seq \in Units(stream.current, stream.current_read, count) :
          /\ got' = got \o seq
          /\ stream' = [stream EXCEPT !.previous_read = Len(stream.previous),
                                      !.current_read = @ + Len(seq), !.eof = seq = <<>>]

fs_read_custom(count) ==
  /\ logger = "idle" /\ stream.in_use /\ ~stream.eof
  /\ Reads(count)
  /\ UNCHANGED <<appLogVars, log_faults, at_open, clean>>

\* The end is reached, or the browser leaves.
fs_close_custom ==
  /\ logger = "idle" /\ stream.in_use
  /\ stream' = NoStream /\ got' = <<>> /\ at_open' = <<>> /\ clean' = TRUE
  /\ UNCHANGED <<appLogVars, log_faults>>

LogNext ==
  \/ \E len \in 1 .. MaxLine : Begins(len)
  \/ Unlinks \/ Renames \/ Opens \/ WritesLine \/ Syncs
  \/ PowerLoss
  \/ fs_open_custom \/ fs_close_custom
  \/ \E count \in 1 .. ReadChunk : fs_read_custom(count)

LogSpec == LogInit /\ [][LogNext]_logVars

-----------------------------------------------------------------------------
\* Whatever fails and whenever the power is lost, the two files and what is about
\* to be written hold the last lines logged in order, and of what came after the
\* first of them only lines are missing whose f_sync failed; and as long as each
\* rotation could close log.txt with all that was written to it and open it again,
\* they hold as much as a full file does (app_log_rotate_if_needed, app_log).
KeepsRecentLines ==
  LET all == Content(log1) \o Content(log) \o tail
      logged == {i \in DOMAIN all : all[i] # 0}
      last == IF logger = "sync" THEN units + incoming ELSE units
  IN  /\ \A i, j \in logged : i < j => all[i] < all[j]
      /\ \A i \in logged : all[i] .. last \subseteq ToSet(all) \cup ToSet(unsynced)
      /\ rotation_failed \/ Len(all) + Len(unsynced) >= Min({units, MaxSize - MaxLine + 1})

\* A browser receives both files as they were when it asked, in order, up to the
\* point it has got to and in full at the end, unless a file that it had not yet
\* read was removed by a rotation (fs_read_custom).
StreamIsExact ==
  stream.in_use /\ clean =>
    IF stream.eof THEN got = at_open ELSE IsPrefix(got, at_open)
=============================================================================
