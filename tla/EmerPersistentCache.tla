-------------------------- MODULE EmerPersistentCache --------------------------
(* src/daemon/emer-persistent-cache.c with its boot id and cache version      *)
(* providers: how the cache is opened, and how relative times, which begin at *)
(* zero with every boot of the machine, are made to count from one origin.    *)
(*                                                                            *)
(* The circular file below is a sequence of variants that survives everything *)
(* (see EmerCircularFile for how).  Time is real time, which no clock shows:  *)
(* CLOCK_BOOTTIME counts from the boot, CLOCK_REALTIME is off by skew.        *)
EXTENDS Integers, Sequences

CONSTANTS MaxTime,        \* the runs end at this time
          MaxVariants,    \* and store so many variants at once
          Skews,          \* how far CLOCK_REALTIME may be off
          Versions,       \* values of CURRENT_CACHE_VERSION in releases
          Faults          \* what may go wrong, see below

ASSUME CacheAssumption ==
  /\ MaxTime \in Nat /\ MaxVariants \in Nat
  /\ Skews \subseteq Int /\ 0 \in Skews
  /\ Versions \subseteq Nat \ {0}
  /\ Faults \subseteq {"read",       \* reading a file, or a clock
                       "write",      \* writing one
                       "kill",       \* the process dies
                       "lost",       \* the timing file is deleted
                       "metadata",   \* the circular file's is malformed
                       "timing"}     \* the timing file is malformed

VARIABLES
  (* the machine *)
  now, bootedAt, bootId, skew,
  (* the files: the variants, the version, the timing metadata *)
  variants, versionFile, timing,
  (* the process *)
  doing,         \* what it is about to do; "off" or "down" if there is none
  software,      \* its CURRENT_CACHE_VERSION
  clocks,        \* relative_time and absolute_time of update_boot_offset
  bootOffset,    \* boot_offset
  reinitialize,  \* reinitialize_cache: this is the second attempt
  (* history *)
  origin,        \* when the boot began that the offset counts from
  drift,         \* by how much the clock has been set in ways not noticed
  savedSkew,     \* skew when the timing metadata was made
  gaveUp         \* the cache could not be opened, even reinitialized

machine == <<now, bootedAt, bootId, skew>>
files   == <<variants, versionFile, timing>>
process == <<doing, software, clocks, bootOffset, reinitialize>>
history == <<origin, drift, savedSkew, gaveUp>>
vars    == <<machine, files, process, history>>

NoVersion == 0
NoTiming  == [exists |-> FALSE, valid |-> TRUE, relative |-> 0, absolute |-> 0,
              offset |-> 0, boot |-> 0]
Malformed == [exists |-> TRUE, valid |-> FALSE, relative |-> 0, absolute |-> 0,
              offset |-> 0, boot |-> 0]
\* An error in Timing: it is not written which boot it was.
TimingOfNoBoot(read, offset) ==
  [exists |-> TRUE, valid |-> TRUE, relative |-> read.relative,
   absolute |-> read.absolute, offset |-> offset]

Timing(read, offset) ==
  [exists |-> TRUE, valid |-> TRUE, relative |-> read.relative,
   absolute |-> read.absolute, offset |-> offset, boot |-> bootId]

RelativeTime == now - bootedAt
AbsoluteTime == now + skew
Clocks       == [relative |-> RelativeTime, absolute |-> AbsoluteTime,
                 skew |-> skew]
NoClocks     == [relative |-> 0, absolute |-> 0, skew |-> 0]

Running == doing = "running"

(* The process has ended: nothing of its memory is left.                      *)
Ended ==
  /\ doing' = "down"
  /\ software' = NoVersion /\ clocks' = NoClocks /\ bootOffset' = 0
  /\ reinitialize' = FALSE

-----------------------------------------------------------------------------
(* Starting: emer_daemon_constructed, emer_persistent_cache_initable_init     *)

Start(version) ==
  /\ doing = "down"
  /\ software' = version /\ reinitialize' = FALSE
  /\ doing' = "versioning"
  /\ UNCHANGED <<machine, files, clocks, bootOffset, history>>

(* Opening the circular file fails with a G_KEY_FILE_ERROR: the second attempt*)
(* reinitializes it.                                                          *)
StartReinitialized(version) ==
  /\ doing = "down" /\ "metadata" \in Faults
  /\ software' = version /\ reinitialize' = TRUE
  /\ variants' = << >>
  /\ doing' = "versioning"
  /\ UNCHANGED <<machine, versionFile, timing, clocks, bootOffset, history>>

(* apply_cache_versioning: variants of another format are purged, and only    *)
(* then is the version changed.                                               *)
KeepVersion ==
  /\ doing = "versioning" /\ versionFile = software
  /\ doing' = "dating" /\ clocks' = Clocks
  /\ UNCHANGED <<machine, files, software, bootOffset, reinitialize, history>>

\* An error in PurgeOldVersion: the variants of another format are kept.
KeepOldVariants ==
  /\ doing = "versioning" /\ (versionFile # software \/ "read" \in Faults)
  /\ doing' = "setting"
  /\ UNCHANGED <<machine, files, software, clocks, bootOffset, reinitialize, history>>

PurgeOldVersion ==
  /\ doing = "versioning" /\ (versionFile # software \/ "read" \in Faults)
  /\ variants' = << >>
  /\ doing' = "setting"
  /\ UNCHANGED <<machine, versionFile, timing, software, clocks, bootOffset,
                 reinitialize, history>>

SetVersion ==
  /\ doing = "setting"
  /\ versionFile' = software
  /\ doing' = "dating" /\ clocks' = Clocks
  /\ UNCHANGED <<machine, variants, timing, software, bootOffset, reinitialize,
                 history>>

(* An error ends the daemon (g_error), unless it is one of a key file.        *)
OpenFails ==
  /\ doing \in {"versioning", "setting", "dating", "resetting"}
  /\ Faults \cap {"read", "write"} # {}
  /\ Ended
  /\ UNCHANGED <<machine, files, history>>

-----------------------------------------------------------------------------
(* update_boot_offset                                                         *)

(* The process has been restarted, the machine has not.                       *)
KeepBootOffset ==
  /\ doing = "dating" /\ timing.exists /\ timing.valid /\ timing.boot = bootId
  /\ bootOffset' = timing.offset
  /\ doing' = "running"
  /\ UNCHANGED <<machine, files, software, clocks, reinitialize, history>>

\* An error in TimeSinceOriginBoot: as if the machine had never been off.
TimeSinceOriginAwake(absolute) == timing.offset + timing.relative

(* compute_boot_offset                                                        *)
TimeSinceOriginBoot(absolute) ==
  timing.offset + timing.relative + (absolute - timing.absolute)
ComputedOffset == TimeSinceOriginBoot(clocks.absolute) - clocks.relative

ComputeBootOffset ==
  /\ doing = "dating" /\ timing.exists /\ timing.valid /\ timing.boot # bootId
  /\ bootOffset' = ComputedOffset
  /\ timing' = Timing(clocks, ComputedOffset)
  /\ drift' = drift + clocks.skew - savedSkew
  /\ savedSkew' = clocks.skew
  /\ doing' = "running"
  /\ UNCHANGED <<machine, variants, versionFile, software, clocks, reinitialize,
                 origin, gaveUp>>

\* An error in ResetPurges: the variants are kept.
ResetKeeps ==
  /\ doing = "dating" /\ ~timing.exists
  /\ doing' = "resetting"
  /\ UNCHANGED <<machine, files, software, clocks, bootOffset, reinitialize, history>>

(* reset_boot_offset_metadata_file: there is none yet.  The variants, which   *)
(* count from an origin that is not known any more, are purged first.         *)
ResetPurges ==
  /\ doing = "dating" /\ ~timing.exists
  /\ variants' = << >>
  /\ doing' = "resetting"
  /\ UNCHANGED <<machine, versionFile, timing, software, clocks, bootOffset,
                 reinitialize, history>>

ResetSaves ==
  /\ doing = "resetting"
  /\ timing' = Timing(clocks, 0)
  /\ bootOffset' = 0
  /\ origin' = bootedAt /\ drift' = 0 /\ savedSkew' = clocks.skew
  /\ doing' = "running"
  /\ UNCHANGED <<machine, variants, versionFile, software, clocks, reinitialize,
                 gaveUp>>

(* A key of the timing metadata is missing, a G_KEY_FILE_ERROR as well: the   *)
(* circular file is reinitialized, the timing metadata are not.               *)
ReinitializeCache ==
  /\ doing = "dating" /\ ~timing.valid /\ ~reinitialize
  /\ reinitialize' = TRUE /\ variants' = << >>
  /\ doing' = "versioning"
  /\ UNCHANGED <<machine, versionFile, timing, software, clocks, bootOffset,
                 history>>

GiveUp ==
  /\ doing = "dating" /\ ~timing.valid /\ reinitialize
  /\ gaveUp' = TRUE /\ Ended
  /\ UNCHANGED <<machine, files, origin, drift, savedSkew>>

(* The timestamps are saved from time to time, and when the cache is freed.   *)
SaveTimestamps ==
  /\ timing' = Timing(Clocks, bootOffset) /\ savedSkew' = skew

UpdateBootOffsetSourceFunc ==
  /\ Running
  /\ SaveTimestamps
  /\ UNCHANGED <<machine, variants, versionFile, process, origin, drift, gaveUp>>

Finalize ==
  /\ Running
  /\ SaveTimestamps \/ ("write" \in Faults /\ UNCHANGED <<timing, savedSkew>>)
  /\ Ended
  /\ UNCHANGED <<machine, variants, versionFile, origin, drift, gaveUp>>

-----------------------------------------------------------------------------
(* Use: the daemon adds the boot offset to the time of an event, which ends up*)
(* in the cache (emer_persistent_cache_store) and is removed from it.         *)

CorrectedTime == RelativeTime + bootOffset

Store ==
  /\ Running /\ Len(variants) < MaxVariants
  /\ variants' = Append(variants, [stamp   |-> CorrectedTime,
                                   version |-> software,
                                   at |-> now, drift |-> drift])
  /\ UNCHANGED <<machine, versionFile, timing, process, history>>

RemoveVariants ==
  /\ Running /\ variants # << >>
  /\ \E n \in 1..Len(variants) : variants' = SubSeq(variants, n + 1, Len(variants))
  /\ UNCHANGED <<machine, versionFile, timing, process, history>>

-----------------------------------------------------------------------------
(* The outside *)

Tick ==
  /\ now < MaxTime
  /\ now' = now + 1
  /\ UNCHANGED <<bootedAt, bootId, skew, files, process, history>>

(* Somebody sets the clock, or the machine finds it changed when it boots.    *)
SetClock ==
  /\ skew' \in Skews \ {skew}
  /\ UNCHANGED <<now, bootedAt, bootId, files, process, history>>

Kill ==
  /\ "kill" \in Faults /\ doing \notin {"off", "down"}
  /\ Ended
  /\ UNCHANGED <<machine, files, history>>

(* A loss of power is a kill, then this.                                      *)
PowerOff ==
  /\ doing = "down"
  /\ doing' = "off"
  /\ UNCHANGED <<machine, files, software, clocks, bootOffset, reinitialize,
                 history>>

Boot ==
  /\ doing = "off" /\ now < MaxTime
  /\ now' = now + 1 /\ bootedAt' = now' /\ bootId' = bootId + 1
  /\ doing' = "down"
  /\ UNCHANGED <<skew, files, software, clocks, bootOffset, reinitialize, history>>

LoseTiming ==
  /\ doing \in {"off", "down"}
  /\ \/ "lost" \in Faults /\ timing.exists /\ timing' = NoTiming
     \/ "timing" \in Faults /\ timing.valid /\ timing' = Malformed
  /\ UNCHANGED <<machine, variants, versionFile, process, history>>

-----------------------------------------------------------------------------
Init ==
  /\ now = 0 /\ bootedAt = 0 /\ bootId = 1 /\ skew = 0
  /\ variants = << >> /\ versionFile = NoVersion /\ timing = NoTiming
  /\ doing = "down" /\ software = NoVersion /\ clocks = NoClocks
  /\ bootOffset = 0 /\ reinitialize = FALSE
  /\ origin = 0 /\ drift = 0 /\ savedSkew = 0 /\ gaveUp = FALSE

Next ==
  \/ \E version \in Versions : Start(version) \/ StartReinitialized(version)
  \/ KeepVersion \/ PurgeOldVersion \/ SetVersion \/ OpenFails
  \/ KeepBootOffset \/ ComputeBootOffset \/ ResetPurges \/ ResetSaves
  \/ ReinitializeCache \/ GiveUp
  \/ UpdateBootOffsetSourceFunc \/ Finalize
  \/ Store \/ RemoveVariants
  \/ Tick \/ SetClock \/ Kill \/ PowerOff \/ Boot \/ LoseTiming

Spec == Init /\ [][Next]_vars

-----------------------------------------------------------------------------
(* Properties *)

TimingData == [exists : BOOLEAN, valid : BOOLEAN, relative : Int,
               absolute : Int, offset : Int, boot : Nat]
ClockData  == [relative : Int, absolute : Int, skew : Int]
Variant == [stamp : Int, version : Nat, at : Nat, drift : Int]

TypeOK ==
  /\ now \in Nat /\ bootedAt \in Nat /\ bootId \in Nat /\ skew \in Int
  /\ variants \in Seq(Variant) /\ versionFile \in Nat
  /\ timing \in TimingData
  /\ doing \in {"off", "down", "versioning", "setting", "dating",
                "resetting", "running"}
  /\ software \in Nat
  /\ clocks \in ClockData
  /\ bootOffset \in Int /\ reinitialize \in BOOLEAN
  /\ origin \in Nat /\ drift \in Int /\ savedSkew \in Int /\ gaveUp \in BOOLEAN

(* Corrected times count from one origin over every boot, restart and power   *)
(* loss: they are only off by the clock changes made between a save of the    *)
(* timestamps and the next boot that computes an offset.                      *)
OffsetExact == Running => bootOffset = bootedAt - origin + drift

(* All the variants in the cache, whichever boot stored them, count from the  *)
(* origin that the running process counts from.                               *)
OneOrigin ==
  Running => \A i \in DOMAIN variants :
               variants[i].stamp = variants[i].at - origin + variants[i].drift

(* A process reads no variant that was stored in the format of another one,   *)
(* although it may be killed between the purge and the change of the version. *)
OwnFormat ==
  Running => \A i \in DOMAIN variants : variants[i].version = software

(* When the cache cannot be opened for an error in a key file, resetting it   *)
(* helps.                                                                     *)
ResetHelps == ~gaveUp
=============================================================================
