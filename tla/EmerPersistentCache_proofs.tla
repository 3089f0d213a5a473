---------------------- MODULE EmerPersistentCache_proofs ----------------------
(***************************************************************************)
(* What is proved of EmerPersistentCache for every value of its constants. *)
(***************************************************************************)
EXTENDS EmerPersistentCache, SequenceTheorems, TLAPS

-----------------------------------------------------------------------------
(* What is true of all variants stays true of them when some are removed.  *)
LEMMA Removed ==
  ASSUME NEW s \in Seq(Variant), NEW n \in 1..Len(s)
  PROVE  /\ SubSeq(s, n + 1, Len(s)) \in Seq(Variant)
         /\ \A i \in DOMAIN SubSeq(s, n + 1, Len(s)) :
              \E j \in DOMAIN s : SubSeq(s, n + 1, Len(s))[i] = s[j]
<1> DEFINE t == SubSeq(s, n + 1, Len(s))
<1>1. Len(s) \in Nat /\ n + 1 \in 1..Len(s) + 1 /\ Len(s) \in n .. Len(s)
  BY LenProperties
<1>2. \A i \in n + 1 .. Len(s) : s[i] \in Variant
  BY <1>1, ElementOfSeq
<1>3. /\ t \in Seq(Variant) /\ Len(t) = Len(s) - n
      /\ \A i \in 1..Len(s) - n : t[i] = s[n + i]
  BY <1>1, <1>2, SubSeqProperties
<1>4. DOMAIN t = 1..Len(s) - n /\ DOMAIN s = 1..Len(s)
  BY <1>3, LenProperties
<1> HIDE DEF t
<1>5. \A i \in DOMAIN t : n + i \in DOMAIN s /\ t[i] = s[n + i]
  BY <1>1, <1>3, <1>4
<1>6. \A i \in DOMAIN t : \E j \in DOMAIN s : t[i] = s[j]
  BY <1>5
<1> QED
  BY <1>3, <1>6 DEF t

LEMMA Appended ==
  ASSUME NEW s \in Seq(Variant), NEW v \in Variant
  PROVE  /\ Append(s, v) \in Seq(Variant)
         /\ \A i \in DOMAIN Append(s, v) :
              Append(s, v)[i] = v \/ \E j \in DOMAIN s : Append(s, v)[i] = s[j]
<1>1. /\ Append(s, v) \in Seq(Variant) /\ Len(s) \in Nat
      /\ Len(Append(s, v)) = Len(s) + 1
      /\ \A i \in 1..Len(s) : Append(s, v)[i] = s[i]
      /\ Append(s, v)[Len(s) + 1] = v
  BY AppendProperties, LenProperties
<1>2. DOMAIN Append(s, v) = 1..Len(s) + 1 /\ DOMAIN s = 1..Len(s)
  BY <1>1, LenProperties
<1> QED
  BY <1>1, <1>2

LEMMA NoVariants == << >> \in Seq(Variant) /\ DOMAIN << >> = {}
<1>1. << >> \in Seq(Variant) /\ Len(<< >>) = 0
  BY EmptySeq
<1> QED
  BY LenProperties

\* The records the files and the memory hold.
LEMMA Records ==
  /\ NoTiming \in TimingData /\ ~NoTiming.exists /\ NoTiming.boot = 0
  /\ Malformed \in TimingData /\ ~Malformed.valid /\ Malformed.boot = 0
  /\ \A t \in TimingData : /\ t.relative \in Int /\ t.absolute \in Int
                           /\ t.offset \in Int /\ t.boot \in Nat
  /\ \A c \in ClockData : c.relative \in Int /\ c.absolute \in Int /\ c.skew \in Int
  /\ NoClocks \in ClockData
  /\ now \in Nat /\ bootedAt \in Nat /\ skew \in Int =>
       /\ Clocks \in ClockData /\ Clocks.skew = skew
       /\ Clocks.absolute - Clocks.skew - Clocks.relative = bootedAt
       /\ Clocks.relative = now - bootedAt /\ Clocks.absolute = now + skew
  /\ bootId \in Nat =>
       \A read \in ClockData, offset \in Int :
         /\ Timing(read, offset) \in TimingData
         /\ Timing(read, offset).exists /\ Timing(read, offset).valid
         /\ Timing(read, offset).relative = read.relative
         /\ Timing(read, offset).absolute = read.absolute
         /\ Timing(read, offset).offset = offset
         /\ Timing(read, offset).boot = bootId
<1>1. /\ NoTiming \in TimingData /\ ~NoTiming.exists /\ NoTiming.boot = 0
      /\ NoClocks \in ClockData
  BY DEF NoTiming, TimingData, NoClocks, ClockData
<1>2. /\ Malformed \in TimingData /\ ~Malformed.valid /\ Malformed.boot = 0
      /\ \A t \in TimingData : /\ t.relative \in Int /\ t.absolute \in Int
                               /\ t.offset \in Int /\ t.boot \in Nat
      /\ \A c \in ClockData : c.relative \in Int /\ c.absolute \in Int /\ c.skew \in Int
  BY DEF Malformed, TimingData, ClockData
<1>3. now \in Nat /\ bootedAt \in Nat /\ skew \in Int =>
       /\ Clocks \in ClockData /\ Clocks.skew = skew
       /\ Clocks.absolute - Clocks.skew - Clocks.relative = bootedAt
       /\ Clocks.relative = now - bootedAt /\ Clocks.absolute = now + skew
  BY DEF Clocks, ClockData, RelativeTime, AbsoluteTime
<1>4. ASSUME bootId \in Nat, NEW read \in ClockData, NEW offset \in Int
      PROVE  /\ Timing(read, offset) \in TimingData
             /\ Timing(read, offset).exists /\ Timing(read, offset).valid
             /\ Timing(read, offset).relative = read.relative
             /\ Timing(read, offset).absolute = read.absolute
             /\ Timing(read, offset).offset = offset
             /\ Timing(read, offset).boot = bootId
  BY <1>4 DEF Timing, TimingData, ClockData
<1> QED
  BY <1>1, <1>2, <1>3, <1>4

-----------------------------------------------------------------------------
(* The inductive invariant.                                                *)

\* What update_boot_offset has read of the clocks tells when the boot began.
ClocksExact ==
  doing \in {"dating", "resetting"} =>
    clocks.absolute - clocks.skew - clocks.relative = bootedAt

\* The timing metadata tell the corrected time at which they were made, and the
\* offset of the boot they were made in.
TimingExact ==
  /\ timing.offset + timing.relative
       = timing.absolute - savedSkew - origin + drift
       \/ ~timing.exists \/ ~timing.valid
  /\ timing.boot <= bootId
  /\ timing.exists /\ timing.valid /\ timing.boot = bootId =>
       timing.offset = bootedAt - origin + drift

\* Every variant counts from the origin, and resetting it finds none.
VariantsExact ==
  /\ \A i \in DOMAIN variants :
       variants[i].stamp = variants[i].at - origin + variants[i].drift
  /\ doing = "resetting" => variants = << >>

\* The version file tells the format of the variants, but between the purge and
\* the change of the version.
VersionExact ==
  /\ \A i \in DOMAIN variants : variants[i].version = versionFile
  /\ doing = "setting" => variants = << >>
  /\ doing \in {"dating", "resetting", "running"} => versionFile = software

-----------------------------------------------------------------------------
(* TypeOK.                                                                 *)

\* Every step preserves the types.
LEMMA TypeStep ==
  ASSUME TypeOK, [Next]_vars
  PROVE  TypeOK'
<1>1. CASE \E version \in Versions : Start(version)
  BY <1>1, CacheAssumption DEF Start, machine, files, history, TypeOK
<1>2. CASE \E version \in Versions : StartReinitialized(version)
  BY <1>2, CacheAssumption DEF StartReinitialized, machine, history, TypeOK
<1>3. CASE KeepVersion
  BY <1>3, CacheAssumption, Records DEF KeepVersion, Clocks, RelativeTime, AbsoluteTime, machine, files, history, TypeOK
<1>4. CASE PurgeOldVersion
  BY <1>4, CacheAssumption DEF PurgeOldVersion, machine, history, TypeOK
<1>5. CASE SetVersion
  BY <1>5, CacheAssumption, Records DEF SetVersion, Clocks, RelativeTime, AbsoluteTime, machine, history, TypeOK
<1>6. CASE OpenFails
  BY <1>6, CacheAssumption, Records DEF OpenFails, Ended, NoVersion, machine, files, history, TypeOK
<1>7. CASE KeepBootOffset
  BY <1>7, Records DEF KeepBootOffset, TypeOK, machine, files, history
<1>8. CASE ComputeBootOffset
  <2>1. clocks \in ClockData /\ timing \in TimingData /\ bootId \in Nat
    BY DEF TypeOK
  <2>2. ComputedOffset \in Int
    BY <2>1, Records DEF ComputedOffset, TimeSinceOriginBoot
  <2>3. timing' \in TimingData /\ bootOffset' \in Int
    BY <1>8, <2>1, <2>2, Records DEF ComputeBootOffset
  <2>a. clocks.skew \in Int
    BY <2>1, Records
  <2>4. drift' \in Int /\ savedSkew' \in Int
    BY <1>8, <2>a DEF ComputeBootOffset, TypeOK
  <2> QED
    BY <1>8, <2>3, <2>4 DEF ComputeBootOffset, TypeOK, machine
<1>9. CASE ResetPurges
  BY <1>9, CacheAssumption DEF ResetPurges, machine, history, TypeOK
<1>10. CASE ResetSaves
  <2>1. timing' \in TimingData /\ savedSkew' \in Int
    BY <1>10, Records DEF ResetSaves, TypeOK
  <2> QED
    BY <1>10, <2>1 DEF ResetSaves, TypeOK, machine
<1>11. CASE ReinitializeCache
  BY <1>11, CacheAssumption DEF ReinitializeCache, machine, history, TypeOK
<1>12. CASE GiveUp
  BY <1>12, CacheAssumption, Records DEF GiveUp, Ended, NoVersion, machine, files, TypeOK
<1>13. CASE UpdateBootOffsetSourceFunc
  <2>1. timing' \in TimingData /\ savedSkew' \in Int
    BY <1>13, Records DEF UpdateBootOffsetSourceFunc, SaveTimestamps, TypeOK
  <2> QED
    BY <1>13, <2>1 DEF UpdateBootOffsetSourceFunc, TypeOK, machine, process
<1>14. CASE Finalize
  <2>1. timing' \in TimingData /\ savedSkew' \in Int
    BY <1>14, Records DEF Finalize, SaveTimestamps, TypeOK
  <2>2. NoClocks \in ClockData
    BY Records
  <2>3. reinitialize' \in BOOLEAN
    BY <1>14 DEF Finalize, Ended
  <2>4. /\ software' \in Nat /\ bootOffset' \in Int /\ doing' = "down"
        /\ clocks' \in ClockData
    BY <1>14, <2>2 DEF Finalize, Ended, NoVersion
  <2>5. UNCHANGED <<machine, variants, versionFile, origin, drift, gaveUp>>
    BY <1>14 DEF Finalize
  <2> QED
    BY <2>1, <2>3, <2>4, <2>5 DEF TypeOK, machine
<1>15. CASE Store
  <2>1. [stamp |-> RelativeTime + bootOffset, version |-> software,
         at |-> now, drift |-> drift] \in Variant
    BY DEF TypeOK, RelativeTime, Variant
  <2>2. variants' \in Seq(Variant)
    BY <1>15, <2>1, Appended DEF Store, CorrectedTime, TypeOK
  <2> QED
    BY <1>15, <2>2 DEF Store, CorrectedTime, TypeOK, machine, process, history
<1>16. CASE RemoveVariants
  <2>1. variants' \in Seq(Variant)
    BY <1>16, Removed DEF RemoveVariants, TypeOK
  <2> QED
    BY <1>16, <2>1 DEF RemoveVariants, TypeOK, machine, process, history
<1>17. CASE Tick
  BY <1>17, CacheAssumption DEF Tick, files, process, history, TypeOK
<1>18. CASE SetClock
  BY <1>18, CacheAssumption DEF SetClock, files, process, history, TypeOK
<1>19. CASE Kill
  BY <1>19, CacheAssumption, Records DEF Kill, Ended, NoVersion, machine, files, history, TypeOK
<1>20. CASE PowerOff
  BY <1>20, CacheAssumption DEF PowerOff, machine, files, history, TypeOK
<1>21. CASE Boot
  BY <1>21, CacheAssumption DEF Boot, files, history, TypeOK
<1>22. CASE LoseTiming
  BY <1>22, CacheAssumption, Records DEF LoseTiming, machine, process, history, TypeOK
<1>23. CASE UNCHANGED vars
  BY <1>23 DEF vars, machine, files, process, history, TypeOK
<1> QED
  BY <1>1, <1>2, <1>3, <1>4, <1>5, <1>6, <1>7, <1>8, <1>9, <1>10, <1>11, <1>12, <1>13, <1>14, <1>15, <1>16, <1>17, <1>18, <1>19, <1>20, <1>21, <1>22, <1>23 DEF Next

\* The initial states have the types.
LEMMA InitialTypes == Init => TypeOK
<1> SUFFICES ASSUME Init
             PROVE  TypeOK
  OBVIOUS
<1>1. NoTiming \in TimingData /\ NoClocks \in ClockData
  BY Records
<1>2. variants \in Seq(Variant)
  BY NoVariants DEF Init
<1>3. timing \in TimingData /\ clocks \in ClockData
  BY <1>1 DEF Init
<1>4. reinitialize \in BOOLEAN /\ gaveUp \in BOOLEAN
  BY DEF Init
<1>5. /\ now \in Nat /\ bootedAt \in Nat /\ bootId \in Nat /\ skew \in Int
      /\ versionFile \in Nat /\ software \in Nat /\ bootOffset \in Int
      /\ origin \in Nat /\ drift \in Int /\ savedSkew \in Int
      /\ doing = "down"
  BY DEF Init, NoVersion
<1> QED
  BY <1>2, <1>3, <1>4, <1>5 DEF TypeOK

\* TypeOK holds in every state.
THEOREM TypeCorrect == Spec => []TypeOK
<1>1. Init => TypeOK
  BY InitialTypes
<1>2. TypeOK /\ [Next]_vars => TypeOK'
  BY TypeStep
<1> QED
  BY <1>1, <1>2, PTL DEF Spec

-----------------------------------------------------------------------------
(* OffsetExact.                                                            *)

OffsetInv == TypeOK /\ ClocksExact /\ TimingExact /\ OffsetExact

\* Saving the timestamps keeps the metadata exact.
LEMMA SaveExact ==
  ASSUME TypeOK, OffsetExact, Running, SaveTimestamps,
         UNCHANGED <<origin, drift, bootId, bootedAt>>
  PROVE  TimingExact'
<1>1. /\ Clocks \in ClockData /\ Clocks.relative = now - bootedAt
      /\ Clocks.absolute = now + skew
  BY Records DEF TypeOK
<1>a. /\ bootId \in Nat /\ bootOffset \in Int
      /\ timing' = Timing(Clocks, bootOffset) /\ savedSkew' = skew
  BY DEF SaveTimestamps, TypeOK
<1>2. /\ timing'.offset = bootOffset /\ timing'.boot = bootId
      /\ timing'.relative = now - bootedAt /\ timing'.absolute = now + skew
      /\ savedSkew' = skew
  BY <1>1, <1>a DEF Timing
<1>3. bootOffset = bootedAt - origin + drift
  BY DEF OffsetExact
<1> QED
  BY <1>2, <1>3 DEF TimingExact, TypeOK

\* Every step preserves what makes the boot offset exact: the clocks were read in
\* this boot, and the metadata tell the time since the origin.
LEMMA OffsetStep ==
  ASSUME OffsetInv, [Next]_vars
  PROVE  (ClocksExact /\ TimingExact /\ OffsetExact)'
<1>1. CASE \E version \in Versions : Start(version)
  BY <1>1, CacheAssumption DEF Start, machine, files, history, OffsetInv, TypeOK, ClocksExact, TimingExact, OffsetExact, Running
<1>2. CASE \E version \in Versions : StartReinitialized(version)
  BY <1>2, CacheAssumption DEF StartReinitialized, machine, history, OffsetInv, TypeOK, ClocksExact, TimingExact, OffsetExact, Running
<1>3. CASE KeepVersion
  BY <1>3, CacheAssumption, Records DEF KeepVersion, Clocks, RelativeTime, AbsoluteTime, machine, files, history, OffsetInv, TypeOK, ClocksExact, TimingExact, OffsetExact, Running
<1>4. CASE PurgeOldVersion
  BY <1>4, CacheAssumption DEF PurgeOldVersion, machine, history, OffsetInv, TypeOK, ClocksExact, TimingExact, OffsetExact, Running
<1>5. CASE SetVersion
  BY <1>5, CacheAssumption, Records DEF SetVersion, Clocks, RelativeTime, AbsoluteTime, machine, history, OffsetInv, TypeOK, ClocksExact, TimingExact, OffsetExact, Running
<1>6. CASE OpenFails
  BY <1>6, CacheAssumption, Records DEF OpenFails, Ended, NoVersion, machine, files, history, OffsetInv, TypeOK, ClocksExact, TimingExact, OffsetExact, Running
<1>7. CASE KeepBootOffset
  BY <1>7, CacheAssumption DEF KeepBootOffset, machine, files, history, OffsetInv, TypeOK, ClocksExact, TimingExact, OffsetExact, Running
<1>8. CASE ComputeBootOffset
  <2>1. clocks \in ClockData /\ timing \in TimingData /\ bootId \in Nat /\ TypeOK
    BY DEF OffsetInv, TypeOK
  <2>2. ComputedOffset \in Int
    BY <2>1, Records DEF ComputedOffset, TimeSinceOriginBoot
  <2>3. clocks.absolute - clocks.skew - clocks.relative = bootedAt
    BY <1>8 DEF ComputeBootOffset, OffsetInv, ClocksExact
  <2>4. timing.offset + timing.relative = timing.absolute - savedSkew - origin + drift
    BY <1>8 DEF ComputeBootOffset, OffsetInv, TimingExact
  <2>a. /\ clocks.relative \in Int /\ clocks.absolute \in Int /\ clocks.skew \in Int
        /\ timing.relative \in Int /\ timing.absolute \in Int /\ timing.offset \in Int
    BY <2>1, Records
  <2>b. bootedAt \in Int /\ origin \in Int /\ drift \in Int /\ savedSkew \in Int
    BY <2>1 DEF TypeOK
  <2>5. ComputedOffset = bootedAt - origin + (drift + clocks.skew - savedSkew)
    <3>1. ComputedOffset
            = (timing.offset + timing.relative + (clocks.absolute - timing.absolute))
                - clocks.relative
      BY DEF ComputedOffset, TimeSinceOriginBoot
    <3>2. ComputedOffset
            = ((timing.absolute - savedSkew - origin + drift)
                 + (clocks.absolute - timing.absolute)) - clocks.relative
      BY <3>1, <2>4
    <3>3. clocks.absolute - clocks.relative = bootedAt + clocks.skew
      BY <2>3, <2>a, <2>b
    <3> QED
      BY <3>2, <3>3, <2>a, <2>b
  <2>6. /\ timing'.offset = ComputedOffset /\ timing'.boot = bootId
        /\ timing'.relative = clocks.relative /\ timing'.absolute = clocks.absolute
    BY <1>8, <2>1, <2>2, Records DEF ComputeBootOffset
  <2>7. /\ bootOffset' = ComputedOffset /\ drift' = drift + clocks.skew - savedSkew
        /\ savedSkew' = clocks.skew /\ doing' = "running"
        /\ origin' = origin /\ bootedAt' = bootedAt /\ bootId' = bootId
    BY <1>8 DEF ComputeBootOffset, machine
  <2>8. timing'.offset + timing'.relative
          = timing'.absolute - savedSkew' - origin' + drift'
    BY <2>3, <2>5, <2>6, <2>7, <2>a, <2>b
  <2> QED
    BY <2>1, <2>5, <2>6, <2>7, <2>8 DEF ClocksExact, TimingExact, OffsetExact, Running
<1>9. CASE ResetPurges
  BY <1>9, CacheAssumption DEF ResetPurges, machine, history, OffsetInv, TypeOK, ClocksExact, TimingExact, OffsetExact, Running
<1>10. CASE ResetSaves
  <2>1. clocks \in ClockData /\ bootId \in Nat /\ TypeOK
    BY DEF OffsetInv, TypeOK
  <2>2. clocks.absolute - clocks.skew - clocks.relative = bootedAt
    BY <1>10 DEF ResetSaves, OffsetInv, ClocksExact
  <2>3. /\ timing'.offset = 0 /\ timing'.boot = bootId
        /\ timing'.relative = clocks.relative /\ timing'.absolute = clocks.absolute
    BY <1>10, <2>1, Records DEF ResetSaves
  <2>4. /\ bootOffset' = 0 /\ drift' = 0 /\ savedSkew' = clocks.skew
        /\ doing' = "running" /\ origin' = bootedAt
        /\ bootedAt' = bootedAt /\ bootId' = bootId
    BY <1>10 DEF ResetSaves, machine
  <2>a. /\ clocks.relative \in Int /\ clocks.absolute \in Int /\ clocks.skew \in Int
        /\ bootedAt \in Int
    BY <2>1, Records DEF TypeOK
  <2> QED
    BY <2>1, <2>2, <2>3, <2>4, <2>a DEF ClocksExact, TimingExact, OffsetExact, Running
<1>11. CASE ReinitializeCache
  BY <1>11, CacheAssumption DEF ReinitializeCache, machine, history, OffsetInv, TypeOK, ClocksExact, TimingExact, OffsetExact, Running
<1>12. CASE GiveUp
  BY <1>12, CacheAssumption, Records DEF GiveUp, Ended, NoVersion, machine, files, OffsetInv, TypeOK, ClocksExact, TimingExact, OffsetExact, Running
<1>13. CASE UpdateBootOffsetSourceFunc
  <2>1. SaveTimestamps /\ Running /\ TypeOK
    BY <1>13 DEF UpdateBootOffsetSourceFunc, OffsetInv
  <2>2. UNCHANGED <<machine, process, origin, drift>>
    BY <1>13 DEF UpdateBootOffsetSourceFunc
  <2>3. TimingExact'
    BY <2>1, <2>2, SaveExact DEF OffsetInv, machine, process
  <2> QED
    BY <2>2, <2>3 DEF OffsetInv, ClocksExact, OffsetExact, Running, machine, process
<1>14. CASE Finalize
  <2>1. Running /\ TypeOK /\ doing' = "down"
    BY <1>14 DEF Finalize, OffsetInv, Ended
  <2>2. UNCHANGED <<machine, origin, drift>>
    BY <1>14 DEF Finalize
  <2>3. CASE SaveTimestamps
    BY <2>1, <2>2, <2>3, SaveExact DEF OffsetInv, machine, ClocksExact, OffsetExact, Running
  <2>4. CASE UNCHANGED <<timing, savedSkew>>
    BY <2>1, <2>2, <2>4 DEF OffsetInv, machine, ClocksExact, OffsetExact, TimingExact, Running
  <2> QED
    BY <1>14, <2>3, <2>4 DEF Finalize
<1>15. CASE Store
  BY <1>15, CacheAssumption DEF Store, CorrectedTime, Running, RelativeTime, AbsoluteTime, machine, process, history, OffsetInv, TypeOK, ClocksExact, TimingExact, OffsetExact
<1>16. CASE RemoveVariants
  BY <1>16, CacheAssumption DEF RemoveVariants, Running, machine, process, history, OffsetInv, TypeOK, ClocksExact, TimingExact, OffsetExact
<1>17. CASE Tick
  BY <1>17, CacheAssumption DEF Tick, files, process, history, OffsetInv, TypeOK, ClocksExact, TimingExact, OffsetExact, Running
<1>18. CASE SetClock
  BY <1>18, CacheAssumption DEF SetClock, files, process, history, OffsetInv, TypeOK, ClocksExact, TimingExact, OffsetExact, Running
<1>19. CASE Kill
  BY <1>19, CacheAssumption, Records DEF Kill, Ended, NoVersion, machine, files, history, OffsetInv, TypeOK, ClocksExact, TimingExact, OffsetExact, Running
<1>20. CASE PowerOff
  BY <1>20, CacheAssumption DEF PowerOff, machine, files, history, OffsetInv, TypeOK, ClocksExact, TimingExact, OffsetExact, Running
<1>21. CASE Boot
  <2>1. bootId \in Nat /\ timing \in TimingData
    BY DEF OffsetInv, TypeOK
  <2>2. timing.boot \in Nat /\ timing.boot <= bootId
    BY <2>1, Records DEF OffsetInv, TimingExact
  <2>3. /\ UNCHANGED <<timing, savedSkew, origin, drift>>
        /\ bootId' = bootId + 1 /\ doing' = "down"
    BY <1>21 DEF Boot, files, history
  <2> QED
    BY <2>1, <2>2, <2>3 DEF OffsetInv, ClocksExact, OffsetExact, TimingExact, Running
<1>22. CASE LoseTiming
  <2>1. timing' \in {NoTiming, Malformed}
    BY <1>22 DEF LoseTiming
  <2>2. (~timing'.exists \/ ~timing'.valid) /\ timing'.boot = 0
    BY <2>1, Records
  <2>3. UNCHANGED <<machine, process, history>> /\ bootId \in Nat
    BY <1>22 DEF LoseTiming, OffsetInv, TypeOK
  <2> QED
    BY <2>2, <2>3 DEF OffsetInv, ClocksExact, OffsetExact, TimingExact, Running,
                      machine, process, history
<1>23. CASE UNCHANGED vars
  BY <1>23 DEF vars, machine, files, process, history, OffsetInv, TypeOK, ClocksExact, TimingExact, OffsetExact, Running
<1> QED
  BY <1>1, <1>2, <1>3, <1>4, <1>5, <1>6, <1>7, <1>8, <1>9, <1>10, <1>11, <1>12, <1>13, <1>14, <1>15, <1>16, <1>17, <1>18, <1>19, <1>20, <1>21, <1>22, <1>23 DEF Next

\* Corrected times are off by the clock changes that nobody could notice, and by
\* nothing else, over any number of boots, restarts and power losses.
THEOREM OffsetCorrect == Spec => []OffsetExact
<1>1. Init => OffsetInv
  BY InitialTypes, Records DEF Init, OffsetInv, ClocksExact, TimingExact, OffsetExact, Running
<1>2. OffsetInv /\ [Next]_vars => OffsetInv'
  BY TypeStep, OffsetStep DEF OffsetInv
<1>3. OffsetInv => OffsetExact
  BY DEF OffsetInv
<1> QED
  BY <1>1, <1>2, <1>3, PTL DEF Spec

-----------------------------------------------------------------------------
(* OneOrigin.                                                              *)

\* Every step preserves that the variants count from the origin.
LEMMA VariantsStep ==
  ASSUME OffsetInv, VariantsExact, [Next]_vars
  PROVE  VariantsExact'
<1>1. CASE \E version \in Versions : Start(version)
  BY <1>1, CacheAssumption DEF Start, machine, files, history, VariantsExact
<1>2. CASE \E version \in Versions : StartReinitialized(version)
  BY <1>2, CacheAssumption DEF StartReinitialized, machine, history, VariantsExact
<1>3. CASE KeepVersion
  BY <1>3, CacheAssumption, Records DEF KeepVersion, Clocks, RelativeTime, AbsoluteTime, machine, files, history, VariantsExact
<1>4. CASE PurgeOldVersion
  BY <1>4, CacheAssumption DEF PurgeOldVersion, machine, history, VariantsExact
<1>5. CASE SetVersion
  BY <1>5, CacheAssumption, Records DEF SetVersion, Clocks, RelativeTime, AbsoluteTime, machine, history, VariantsExact
<1>6. CASE OpenFails
  BY <1>6, CacheAssumption, Records DEF OpenFails, Ended, NoVersion, machine, files, history, VariantsExact
<1>7. CASE KeepBootOffset
  BY <1>7, CacheAssumption DEF KeepBootOffset, machine, files, history, VariantsExact
<1>8. CASE ComputeBootOffset
  BY <1>8, CacheAssumption, Records DEF ComputeBootOffset, ComputedOffset, TimeSinceOriginBoot, machine, VariantsExact
<1>9. CASE ResetPurges
  BY <1>9, CacheAssumption DEF ResetPurges, machine, history, VariantsExact
<1>10. CASE ResetSaves
  BY <1>10, CacheAssumption, Records DEF ResetSaves, machine, VariantsExact
<1>11. CASE ReinitializeCache
  BY <1>11, CacheAssumption DEF ReinitializeCache, machine, history, VariantsExact
<1>12. CASE GiveUp
  BY <1>12, CacheAssumption, Records DEF GiveUp, Ended, NoVersion, machine, files, VariantsExact
<1>13. CASE UpdateBootOffsetSourceFunc
  BY <1>13, CacheAssumption, Records DEF UpdateBootOffsetSourceFunc, Running, SaveTimestamps, RelativeTime, AbsoluteTime, Clocks, machine, process, VariantsExact
<1>14. CASE Finalize
  BY <1>14, CacheAssumption, Records DEF Finalize, Running, Ended, SaveTimestamps, RelativeTime, AbsoluteTime, NoVersion, Clocks, machine, VariantsExact
<1>15. CASE Store
  <2> DEFINE v == [stamp |-> RelativeTime + bootOffset, version |-> software,
                   at |-> now, drift |-> drift]
  <2>1. v \in Variant
    BY DEF OffsetInv, TypeOK, RelativeTime, Variant
  <2>2. variants' = Append(variants, v) /\ variants \in Seq(Variant)
    BY <1>15 DEF Store, CorrectedTime, OffsetInv, TypeOK
  <2>3. v.stamp = v.at - origin + v.drift
    BY <1>15 DEF Store, CorrectedTime, OffsetInv, TypeOK, OffsetExact, RelativeTime, Running
  <2> HIDE DEF v
  <2>4. \A i \in DOMAIN variants' :
          variants'[i] = v \/ \E j \in DOMAIN variants : variants'[i] = variants[j]
    BY <2>1, <2>2, Appended
  <2> QED
    BY <1>15, <2>3, <2>4 DEF Store, CorrectedTime, VariantsExact, Running, machine, process, history
<1>16. CASE RemoveVariants
  <2>1. \A i \in DOMAIN variants' : \E j \in DOMAIN variants : variants'[i] = variants[j]
    BY <1>16, Removed DEF RemoveVariants, OffsetInv, TypeOK
  <2> QED
    BY <1>16, <2>1 DEF RemoveVariants, VariantsExact, Running, machine, process, history
<1>17. CASE Tick
  BY <1>17, CacheAssumption DEF Tick, files, process, history, VariantsExact
<1>18. CASE SetClock
  BY <1>18, CacheAssumption DEF SetClock, files, process, history, VariantsExact
<1>19. CASE Kill
  BY <1>19, CacheAssumption, Records DEF Kill, Ended, NoVersion, machine, files, history, VariantsExact
<1>20. CASE PowerOff
  BY <1>20, CacheAssumption DEF PowerOff, machine, files, history, VariantsExact
<1>21. CASE Boot
  BY <1>21, CacheAssumption DEF Boot, files, history, VariantsExact
<1>22. CASE LoseTiming
  BY <1>22, CacheAssumption, Records DEF LoseTiming, machine, process, history, VariantsExact
<1>23. CASE UNCHANGED vars
  BY <1>23 DEF vars, machine, files, process, history, VariantsExact
<1> QED
  BY <1>1, <1>2, <1>3, <1>4, <1>5, <1>6, <1>7, <1>8, <1>9, <1>10, <1>11, <1>12, <1>13, <1>14, <1>15, <1>16, <1>17, <1>18, <1>19, <1>20, <1>21, <1>22, <1>23 DEF Next

\* The cache never mixes variants that count from different origins.
THEOREM OriginCorrect == Spec => []OneOrigin
<1>a. Init => VariantsExact
  BY NoVariants DEF Init, VariantsExact
<1>b. Init => OffsetInv
  BY InitialTypes, Records DEF Init, OffsetInv, ClocksExact, TimingExact, OffsetExact, Running
<1>1. Init => OffsetInv /\ VariantsExact
  BY <1>a, <1>b
<1>2. OffsetInv /\ VariantsExact /\ [Next]_vars => (OffsetInv /\ VariantsExact)'
  BY TypeStep, OffsetStep, VariantsStep DEF OffsetInv
<1>3. VariantsExact => OneOrigin
  BY DEF VariantsExact, OneOrigin
<1> QED
  BY <1>1, <1>2, <1>3, PTL DEF Spec

-----------------------------------------------------------------------------
(* OwnFormat.                                                              *)

\* Every step preserves that the version file tells the format of the variants.
LEMMA VersionStep ==
  ASSUME TypeOK, VersionExact, [Next]_vars
  PROVE  VersionExact'
<1>1. CASE \E version \in Versions : Start(version)
  BY <1>1, CacheAssumption DEF Start, machine, files, history, VersionExact
<1>2. CASE \E version \in Versions : StartReinitialized(version)
  BY <1>2, CacheAssumption DEF StartReinitialized, machine, history, VersionExact
<1>3. CASE KeepVersion
  BY <1>3, CacheAssumption, Records DEF KeepVersion, Clocks, RelativeTime, AbsoluteTime, machine, files, history, VersionExact
<1>4. CASE PurgeOldVersion
  BY <1>4, CacheAssumption DEF PurgeOldVersion, machine, history, VersionExact
<1>5. CASE SetVersion
  BY <1>5, CacheAssumption, Records DEF SetVersion, Clocks, RelativeTime, AbsoluteTime, machine, history, VersionExact
<1>6. CASE OpenFails
  BY <1>6, CacheAssumption, Records DEF OpenFails, Ended, NoVersion, machine, files, history, VersionExact
<1>7. CASE KeepBootOffset
  BY <1>7, CacheAssumption DEF KeepBootOffset, machine, files, history, VersionExact
<1>8. CASE ComputeBootOffset
  BY <1>8, CacheAssumption, Records DEF ComputeBootOffset, ComputedOffset, TimeSinceOriginBoot, machine, VersionExact
<1>9. CASE ResetPurges
  BY <1>9, CacheAssumption DEF ResetPurges, machine, history, VersionExact
<1>10. CASE ResetSaves
  BY <1>10, CacheAssumption, Records DEF ResetSaves, machine, VersionExact
<1>11. CASE ReinitializeCache
  BY <1>11, CacheAssumption DEF ReinitializeCache, machine, history, VersionExact
<1>12. CASE GiveUp
  BY <1>12, CacheAssumption, Records DEF GiveUp, Ended, NoVersion, machine, files, VersionExact
<1>13. CASE UpdateBootOffsetSourceFunc
  BY <1>13, CacheAssumption, Records DEF UpdateBootOffsetSourceFunc, Running, SaveTimestamps, RelativeTime, AbsoluteTime, Clocks, machine, process, VersionExact
<1>14. CASE Finalize
  BY <1>14, CacheAssumption, Records DEF Finalize, Running, Ended, SaveTimestamps, RelativeTime, AbsoluteTime, NoVersion, Clocks, machine, VersionExact
<1>15. CASE Store
  <2> DEFINE v == [stamp |-> RelativeTime + bootOffset, version |-> software,
                   at |-> now, drift |-> drift]
  <2>1. v \in Variant
    BY DEF TypeOK, RelativeTime, Variant
  <2>2. variants' = Append(variants, v) /\ variants \in Seq(Variant)
    BY <1>15 DEF Store, CorrectedTime, TypeOK
  <2>3. v.version = versionFile
    BY <1>15 DEF Store, CorrectedTime, VersionExact, Running
  <2> HIDE DEF v
  <2>4. \A i \in DOMAIN variants' :
          variants'[i] = v \/ \E j \in DOMAIN variants : variants'[i] = variants[j]
    BY <2>1, <2>2, Appended
  <2> QED
    BY <1>15, <2>3, <2>4 DEF Store, CorrectedTime, VersionExact, Running, machine, process, history
<1>16. CASE RemoveVariants
  <2>1. \A i \in DOMAIN variants' : \E j \in DOMAIN variants : variants'[i] = variants[j]
    BY <1>16, Removed DEF RemoveVariants, TypeOK
  <2> QED
    BY <1>16, <2>1 DEF RemoveVariants, VersionExact, Running, machine, process, history
<1>17. CASE Tick
  BY <1>17, CacheAssumption DEF Tick, files, process, history, VersionExact
<1>18. CASE SetClock
  BY <1>18, CacheAssumption DEF SetClock, files, process, history, VersionExact
<1>19. CASE Kill
  BY <1>19, CacheAssumption, Records DEF Kill, Ended, NoVersion, machine, files, history, VersionExact
<1>20. CASE PowerOff
  BY <1>20, CacheAssumption DEF PowerOff, machine, files, history, VersionExact
<1>21. CASE Boot
  BY <1>21, CacheAssumption DEF Boot, files, history, VersionExact
<1>22. CASE LoseTiming
  BY <1>22, CacheAssumption, Records DEF LoseTiming, machine, process, history, VersionExact
<1>23. CASE UNCHANGED vars
  BY <1>23 DEF vars, machine, files, process, history, VersionExact
<1> QED
  BY <1>1, <1>2, <1>3, <1>4, <1>5, <1>6, <1>7, <1>8, <1>9, <1>10, <1>11, <1>12, <1>13, <1>14, <1>15, <1>16, <1>17, <1>18, <1>19, <1>20, <1>21, <1>22, <1>23 DEF Next

\* No release reads what another one has stored in its own format, whenever it
\* was killed while it opened the cache.
THEOREM FormatCorrect == Spec => []OwnFormat
<1>1. Init => TypeOK /\ VersionExact
  BY InitialTypes, NoVariants DEF Init, VersionExact
<1>2. TypeOK /\ VersionExact /\ [Next]_vars => (TypeOK /\ VersionExact)'
  BY TypeStep, VersionStep
<1>3. VersionExact => OwnFormat
  BY DEF VersionExact, OwnFormat, Running
<1> QED
  BY <1>1, <1>2, <1>3, PTL DEF Spec
=============================================================================
