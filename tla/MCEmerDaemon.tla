---------------------------- MODULE MCEmerDaemon ----------------------------
(***************************************************************************)
(* Small instances of EmerDaemon.                                          *)
(***************************************************************************)
EXTENDS EmerDaemon

\* The installed config file, and one that forbids uploading only.
AllEnabled ==
    [daemon |-> "true", uploading |-> "true", environment |-> "production"]

RecordOnly == [AllEnabled EXCEPT !.uploading = "false"]

OnlyAllEnabled == {AllEnabled}

EnabledOrMissing == {AllEnabled, NoFile}

UploadingForbidden == {RecordOnly}

NoEdits == {}

NoFaults == {}

AllFaults ==
    {"save", "remove", "purge", "read", "corrupt", "zeroed_tail", "clock",
     "gzip", "answer", "kill", "config_write"}

\* The faults that decide what becomes of events.
EventFaults == AllFaults \ {"clock", "gzip", "config_write"}

\* Those that may keep a request from ending.  An error in reading or purging
\* that never goes away would keep the events from getting out.
RequestFaults == AllFaults \ {"read", "purge"}

NoLarge == {}
SecondLarge == {2}

NoOversized == {}
SecondOversized == {2}

=============================================================================
