--------------------------- MODULE EmerDaemon_proofs ---------------------------
(***************************************************************************)
(* What is proved of EmerDaemon for every value of its constants.          *)
(***************************************************************************)
EXTENDS EmerDaemon, SequenceTheorems, TLAPS

-----------------------------------------------------------------------------
(* First and Without split a sequence in two.                              *)

\* The first k elements of a sequence: their type, number and values.
LEMMA FirstProperties ==
  ASSUME NEW S, NEW s \in Seq(S), NEW k \in 0..Len(s)
  PROVE  /\ First(s, k) \in Seq(S)
         /\ Len(First(s, k)) = k
         /\ \A i \in 1..k : First(s, k)[i] = s[i]
<1>1. \A i \in 1..k : s[i] \in S
  BY ElementOfSeq
<1> QED
  BY <1>1, SubSeqProperties DEF First

\* What is left of a sequence when its first k elements are removed.
LEMMA WithoutProperties ==
  ASSUME NEW S, NEW s \in Seq(S), NEW k \in 0..Len(s)
  PROVE  /\ Without(s, k) \in Seq(S)
         /\ Len(Without(s, k)) = Len(s) - k
         /\ \A i \in 1..Len(s) - k : Without(s, k)[i] = s[i + k]
<1>1. \A i \in k + 1..Len(s) : s[i] \in S
  BY ElementOfSeq
<1> QED
  BY <1>1, SubSeqProperties, LenProperties DEF Without

\* What two sequences of events hold together.
LEMMA ConcatRange ==
  ASSUME NEW s \in Seq(Event), NEW t \in Seq(Event)
  PROVE  s \o t \in Seq(Event) /\ Range(s \o t) = Range(s) \cup Range(t)
<1>1. s \o t \in Seq(Event)
  BY ConcatProperties
<1>2. Range(s \o t) = Range(s) \cup Range(t)
  BY RangeConcatenation
<1> QED
  BY <1>1, <1>2

\* Appending one by one is appending at once.
LEMMA ConcatThree ==
  ASSUME NEW s \in Seq(Event), NEW t \in Seq(Event), NEW u \in Seq(Event)
  PROVE  (s \o t) \o u = s \o (t \o u)
<1> QED
  BY ConcatAssociative

\* No element is lost when a sequence is split in two (NoEventLost needs it of
\* the store and of the removal, which split the buffer and the cache).
LEMMA SplitRange ==
  ASSUME NEW S, NEW s \in Seq(S), NEW k \in 0..Len(s)
  PROVE  Range(s) = Range(First(s, k)) \cup Range(Without(s, k))
<1>a. /\ Len(s) \in Nat
      /\ 1 \in 1..Len(s) + 1
      /\ k \in 1 - 1..Len(s)
      /\ Len(s) \in k..Len(s)
  BY LenProperties
<1>b. SubSeq(s, 1, k) \o SubSeq(s, k + 1, Len(s)) = SubSeq(s, 1, Len(s))
  BY <1>a, ConcatAdjacentSubSeq
<1>1. First(s, k) \o Without(s, k) = s
  BY <1>b, SubSeqFull DEF First, Without
<1>2. First(s, k) \in Seq(S) /\ Without(s, k) \in Seq(S)
  BY FirstProperties, WithoutProperties
<1>3. Range(First(s, k) \o Without(s, k))
        = Range(First(s, k)) \cup Range(Without(s, k))
  BY <1>2, RangeConcatenation
<1> QED
  BY <1>1, <1>3

\* Appending to a sequence does not change its first elements, so the token of
\* a request stays valid when the cache is appended to.
LEMMA FirstOfConcat ==
  ASSUME NEW S, NEW s \in Seq(S), NEW t \in Seq(S), NEW k \in 0..Len(s)
  PROVE  /\ k <= Len(s \o t)
         /\ First(s \o t, k) = First(s, k)
<1>1. /\ s \o t \in Seq(S)
      /\ Len(s \o t) = Len(s) + Len(t)
      /\ \A i \in 1..k : (s \o t)[i] = s[i]
  BY ConcatProperties, LenProperties
<1>2. k \in 0..Len(s \o t) /\ k \in Nat
  BY <1>1, LenProperties
<1>3. /\ First(s, k) \in Seq(S)
      /\ Len(First(s, k)) = k
      /\ \A i \in 1..k : First(s, k)[i] = s[i]
  BY FirstProperties
<1>4. /\ First(s \o t, k) \in Seq(S)
      /\ Len(First(s \o t, k)) = k
      /\ \A i \in 1..k : First(s \o t, k)[i] = (s \o t)[i]
  BY <1>1, <1>2, FirstProperties
<1>5. \A i \in 1..Len(First(s \o t, k)) : First(s \o t, k)[i] = First(s, k)[i]
  BY <1>1, <1>3, <1>4
<1> QED
  BY <1>1, <1>2, <1>3, <1>4, <1>5, SeqEqual

\* A request body is the events of the cache followed by those of the buffer.
LEMMA ConcatSplits ==
  ASSUME NEW S, NEW s \in Seq(S), NEW t \in Seq(S)
  PROVE  /\ First(s \o t, Len(s)) = s
         /\ Without(s \o t, Len(s)) = t
<1>1. /\ s \o t \in Seq(S)
      /\ Len(s \o t) = Len(s) + Len(t)
      /\ \A i \in 1..Len(s) : (s \o t)[i] = s[i]
      /\ \A i \in 1..Len(t) : (s \o t)[i + Len(s)] = t[i]
  BY ConcatProperties, LenProperties
<1>2. /\ Len(s) \in 0..Len(s \o t)
      /\ Len(s) \in Nat
      /\ Len(t) \in Nat
  BY <1>1, LenProperties
<1>3. First(s \o t, Len(s)) = s
  <2>1. /\ First(s \o t, Len(s)) \in Seq(S)
        /\ Len(First(s \o t, Len(s))) = Len(s)
        /\ \A i \in 1..Len(s) : First(s \o t, Len(s))[i] = (s \o t)[i]
    BY <1>1, <1>2, FirstProperties
  <2>2. \A i \in 1..Len(First(s \o t, Len(s))) : First(s \o t, Len(s))[i] = s[i]
    BY <1>1, <2>1
  <2> QED
    BY <2>1, <2>2, SeqEqual
<1>4. Without(s \o t, Len(s)) = t
  <2>1. /\ Without(s \o t, Len(s)) \in Seq(S)
        /\ Len(Without(s \o t, Len(s))) = Len(s \o t) - Len(s)
        /\ \A i \in 1..Len(s \o t) - Len(s) :
              Without(s \o t, Len(s))[i] = (s \o t)[i + Len(s)]
    BY <1>1, <1>2, WithoutProperties
  <2>2. Len(Without(s \o t, Len(s))) = Len(t)
    BY <1>1, <1>2, <2>1
  <2>3. \A i \in 1..Len(Without(s \o t, Len(s))) : Without(s \o t, Len(s))[i] = t[i]
    BY <1>1, <1>2, <2>1, <2>2
  <2> QED
    BY <2>1, <2>2, <2>3, SeqEqual
<1> QED
  BY <1>3, <1>4

-----------------------------------------------------------------------------
(* Types.                                                                  *)

\* The elements of a sequence of events are events.
LEMMA RangeType ==
  ASSUME NEW S, NEW s \in Seq(S)
  PROVE  Range(s) \subseteq S
<1> QED
  BY LenProperties, ElementOfSeq DEF Range

\* The queue of requests stays a queue when its head is popped.
LEMMA TailType ==
  ASSUME NEW S, NEW s \in Seq(S), s # <<>>
  PROVE  Tail(s) \in Seq(S)
<1> QED
  BY HeadTailProperties

\* What is read from the config file is a configuration.
LEMMA LoadedType ==
  ASSUME ProviderTypeOK
  PROVE  Loaded \in Config /\ EnvironmentRead \in Config
<1>1. Fallback \in Config
  BY DEF Fallback, Config, Key, Environment
<1>2. Loaded \in Config
  BY <1>1 DEF ProviderTypeOK, Loaded
<1>3. [Loaded EXCEPT !.environment = "dev"] \in Config
  BY <1>2 DEF Config, Environment
<1> QED
  BY <1>2, <1>3 DEF EnvironmentRead

\* Asking for the environment keeps the types of the provider.
LEMMA GetEnvironmentType ==
  ASSUME ProviderTypeOK, GetEnvironment
  PROVE  ProviderTypeOK'
<1>1. permissions' \in Config /\ configFile' = configFile
  BY LoadedType DEF GetEnvironment
<1>2. writeScheduled' \in BOOLEAN /\ diverged' \in BOOLEAN
  BY DEF GetEnvironment
<1> QED
  BY <1>1, <1>2 DEF ProviderTypeOK

\* So does asking for the server URL, which may ask for the environment.
LEMMA GetServerUrlType ==
  ASSUME ProviderTypeOK, GetServerUrl
  PROVE  ProviderTypeOK'
<1>1. CASE UrlNamesEnvironment
  BY <1>1, GetEnvironmentType DEF GetServerUrl
<1>2. CASE ~UrlNamesEnvironment
  BY <1>2 DEF GetServerUrl, providerVars, ProviderTypeOK
<1> QED
  BY <1>1, <1>2

\* Cancelling an upload changes nothing of it but its cancellable.
LEMMA CancelledType ==
  ASSUME NEW u \in Upload
  PROVE  /\ Cancelled(u) = [u EXCEPT !.cancelled = TRUE]
         /\ Cancelled(u) \in Upload
         /\ Cancelled(u).cancelled
<1>1. u # NoUpload
  BY NoUploadAssumption
<1> QED
  BY <1>1 DEF Cancelled, Upload

\* What a flush leaves in the buffer, in the cache and in the write buffer.
LEMMA FlushType ==
  ASSUME TypeOK,
         NEW buffer \in Seq(Event), NEW stored \in Seq(Event),
         NEW repeated \in SUBSET Event,
         FlushToPersistentCache(buffer, stored, repeated)
  PROVE  /\ variantArray' \in Seq(Event)
         /\ cache' \in Seq(Event)
         /\ writeBuffer' \in Seq(Event)
         /\ mayRepeat' \in SUBSET Event
<1>1. CASE ~recordingEnabled \/ buffer = <<>>
  BY <1>1 DEF FlushToPersistentCache, TypeOK
<1>2. CASE recordingEnabled /\ buffer # <<>>
  <2>1. PICK k \in LongestPrefix(buffer, RoomInCache(stored)) :
          \/ /\ variantArray' = KeepUnstored(buffer, k)
             /\ cache' = stored \o writeBuffer \o First(buffer, k)
             /\ writeBuffer' = <<>>
             /\ mayRepeat' = mayRepeat \cup repeated
          \/ /\ variantArray' = buffer
             /\ cache' = stored
             /\ writeBuffer' = writeBuffer \o First(buffer, k)
             /\ mayRepeat' = mayRepeat \cup repeated \cup Range(First(buffer, k))
    BY <1>2 DEF FlushToPersistentCache
  <2>2. k \in 0..Len(buffer)
    BY DEF LongestPrefix
  <2>3. First(buffer, k) \in Seq(Event) /\ Without(buffer, k) \in Seq(Event)
    BY <2>2, FirstProperties, WithoutProperties
  <2>4. /\ stored \o writeBuffer \in Seq(Event)
        /\ stored \o writeBuffer \o First(buffer, k) \in Seq(Event)
        /\ writeBuffer \o First(buffer, k) \in Seq(Event)
    BY <2>3, ConcatProperties DEF TypeOK
  <2>5. Range(First(buffer, k)) \subseteq Event
    BY <2>3, RangeType
  <2> QED
    BY <2>1, <2>3, <2>4, <2>5, EmptySeq DEF KeepUnstored, TypeOK
<1> QED
  BY <1>1, <1>2

\* What the handler of the permissions does to the state of the daemon: nothing
\* when recording is enabled, a cancelled upload otherwise.
LEMMA PermissionsChangedType ==
  ASSUME TypeOK, NEW u \in Upload \cup {NoUpload}, OnPermissionsChanged(u)
  PROVE  /\ recordingEnabled' \in BOOLEAN
         /\ variantArray' \in Seq(Event)
         /\ cache' \in Seq(Event)
         /\ upload' \in Upload \cup {NoUpload}
         /\ (upload' = NoUpload) <=> (u = NoUpload)
         /\ discarded' \in SUBSET Event
         /\ mayRepeat' \in SUBSET Event
         /\ optedOut' \in 0..MaxEvents
<1>1. recordingEnabled' \in BOOLEAN
  BY DEF OnPermissionsChanged, DaemonEnabled
<1>2. CASE DaemonEnabled(permissions')
  BY <1>1, <1>2 DEF OnPermissionsChanged, TypeOK
<1>3. CASE ~DaemonEnabled(permissions')
  <2>1. /\ upload' \in Upload \cup {NoUpload}
        /\ (upload' = NoUpload) <=> (u = NoUpload)
    BY <1>3, CancelledType, NoUploadAssumption DEF OnPermissionsChanged, Cancelled
  <2>2. Range(variantArray) \subseteq Event /\ Range(cache) \subseteq Event
    BY RangeType DEF TypeOK
  <2>3. cache' \in Seq(Event) /\ mayRepeat' \in SUBSET Event
    BY <1>3, <2>2, EmptySeq DEF OnPermissionsChanged, RemoveAll, TypeOK
  <2>4. variantArray' \in Seq(Event)
    BY <1>3, EmptySeq DEF OnPermissionsChanged
  <2>5. discarded' \in SUBSET Event
    BY <1>3, <2>2 DEF OnPermissionsChanged, TypeOK
  <2>6. optedOut' \in 0..MaxEvents
    BY <1>3 DEF OnPermissionsChanged, TypeOK
  <2> QED
    BY <1>1, <2>1, <2>3, <2>4, <2>5, <2>6
<1> QED
  BY <1>2, <1>3

\* The same for the functions that ask for the server URL.
LEMMA ServerUrlNotifyingType ==
  ASSUME TypeOK, NEW u \in Upload \cup {NoUpload}, GetServerUrlNotifying(u)
  PROVE  /\ ProviderTypeOK'
         /\ recordingEnabled' \in BOOLEAN
         /\ variantArray' \in Seq(Event)
         /\ cache' \in Seq(Event)
         /\ upload' \in Upload \cup {NoUpload}
         /\ (upload' = NoUpload) <=> (u = NoUpload)
         /\ discarded' \in SUBSET Event
         /\ mayRepeat' \in SUBSET Event
         /\ optedOut' \in 0..MaxEvents
<1>1. ProviderTypeOK'
  BY GetServerUrlType DEF GetServerUrlNotifying, TypeOK
<1>2. CASE UrlNamesEnvironment
  BY <1>1, <1>2, PermissionsChangedType DEF GetServerUrlNotifying
<1>3. CASE ~UrlNamesEnvironment
  BY <1>1, <1>3 DEF GetServerUrlNotifying, TypeOK
<1> QED
  BY <1>2, <1>3

\* What is left of a sequence of events is one.
LEMMA WithoutType ==
  ASSUME NEW S, NEW s \in Seq(S), NEW k \in Nat
  PROVE  Without(s, k) \in Seq(S)
<1>1. /\ k + 1 \in Int
      /\ Len(s) \in Int
      /\ \A i \in k + 1..Len(s) : s[i] \in S
  BY LenProperties, ElementOfSeq
<1> QED
  BY <1>1, SubSeqProperties DEF Without

\* An error of the server keeps the types.
LEMMA ErrorAnsweredType ==
  ASSUME TypeOK, ErrorAnswered
  PROVE  delivered' \subseteq Event /\ mayRepeat' \subseteq Event
<1>1. upload \in Upload
  BY DEF ErrorAnswered, Answered, InFlight, TypeOK
<1>2. Range(upload.body) \subseteq Event
  BY <1>1, RangeType DEF Upload
<1> QED
  BY <1>2 DEF ErrorAnswered, TypeOK

\* An upload that waits for its next attempt is still an upload.
LEMMA BackoffType ==
  ASSUME TypeOK, HandleHttpResponseBackoff
  PROVE  upload' \in Upload /\ upload' # NoUpload
<1>1. upload \in Upload
  BY DEF HandleHttpResponseBackoff, ErrorAnswered, Answered, InFlight, TypeOK
<1>2. upload' = [upload EXCEPT !.attempt = upload.attempt + 1, !.phase = "backoff"]
  BY DEF HandleHttpResponseBackoff, NextAttempt
<1>3. upload.attempt + 1 \in Nat /\ "backoff" \in Phase
  BY <1>1 DEF Upload, Phase
<1>4. upload' \in Upload
  BY <1>1, <1>2, <1>3 DEF Upload
<1> QED
  BY <1>4, NoUploadAssumption

\* A read of the cache returns a prefix of what it leaves there.
LEMMA ReadOutcomesType ==
  ASSUME TypeOK, NEW max, NEW read \in ReadOutcomes(max)
  PROVE  read.left \in Seq(Event) /\ read.token \in 0..Len(read.left)
<1>1. CASE \E k \in 0..Len(cache) :
             read = [left |-> cache, token |-> k, addBuffer |-> k = Len(cache)]
  BY <1>1 DEF TypeOK
<1>2. CASE \E k \in 0..Len(cache) - 1 :
             read = [left |-> First(cache, k), token |-> k,
                     addBuffer |-> k = Len(First(cache, k))]
  <2>1. PICK k \in 0..Len(cache) - 1 : read.left = First(cache, k) /\ read.token = k
    BY <1>2
  <2>2. k \in 0..Len(cache)
    BY LenProperties DEF TypeOK
  <2>3. First(cache, k) \in Seq(Event) /\ Len(First(cache, k)) = k
    BY <2>2, FirstProperties DEF TypeOK
  <2> QED
    BY <2>1, <2>2, <2>3
<1>3. CASE \E left \in {cache, <<>>} :
             read = [left |-> left, token |-> 0, addBuffer |-> TRUE]
  <2>1. PICK left \in {cache, <<>>} : read.left = left /\ read.token = 0
    BY <1>3
  <2>2. left \in Seq(Event)
    BY EmptySeq DEF TypeOK
  <2>3. Len(left) \in Nat
    BY <2>2, LenProperties
  <2> QED
    BY <2>1, <2>2, <2>3
<1>4. \/ \E k \in 0..Len(cache) :
             read = [left |-> cache, token |-> k, addBuffer |-> k = Len(cache)]
      \/ \E k \in 0..Len(cache) - 1 :
             read = [left |-> First(cache, k), token |-> k,
                     addBuffer |-> k = Len(First(cache, k))]
      \/ \E left \in {cache, <<>>} :
             read = [left |-> left, token |-> 0, addBuffer |-> TRUE]
  <2>1. Len(cache) \in Nat
    BY LenProperties DEF TypeOK
  <2>2. 0..Len(cache) - 1 \subseteq 0..Len(cache)
    BY <2>1
  <2> QED
    BY <2>2 DEF ReadOutcomes, LongestPrefix
<1> QED
  BY <1>1, <1>2, <1>3, <1>4

\* No more of the buffer goes into a request than it holds.
LEMMA BufferPrefixesType ==
  ASSUME TypeOK, NEW max, NEW read, NEW n \in BufferPrefixes(max, read)
  PROVE  n \in 0..Len(variantArray)
<1> QED
  BY LenProperties DEF BufferPrefixes, LongestPrefix, TypeOK

\* The process that is started next finds empty memory.
LEMMA MemoryLostType ==
  ASSUME TypeOK, MemoryLost, cache' \in Seq(Event),
         delivered' \subseteq Event, mayRepeat' \subseteq Event
  PROVE  TypeOK' /\ CallsAreJustified'
<1>1. discarded' \subseteq Event
  BY RangeType DEF MemoryLost, TypeOK
<1> QED
  BY <1>1, EmptySeq DEF MemoryLost, TypeOK, ProviderTypeOK, CallsAreJustified, Calls

-----------------------------------------------------------------------------
(* TypeOK and CallsAreJustified are inductive together: the first needs the *)
(* second to know that a request is popped from a queue that has one.      *)

TypeInv == TypeOK /\ CallsAreJustified

\* The initial states satisfy the type invariant.
LEMMA InitType == Init => TypeInv
<1> SUFFICES ASSUME Init PROVE TypeInv
  OBVIOUS
<1>1. ProviderTypeOK
  <2>1. configFile \in Config \cup {NoFile}
    BY ProviderAssumption DEF Init
  <2>2. Fallback \in Config
    BY DEF Fallback, Config, Key, Environment
  <2>3. permissions \in Config
    BY <2>1, <2>2 DEF Init, Loaded
  <2> QED
    BY <2>1, <2>3 DEF Init, ProviderTypeOK
<1>2. TypeOK
  <2>1. <<>> \in Seq(Event) /\ <<>> \in Seq(Task)
    BY EmptySeq
  <2>2. 0 \in 0..MaxEvents
    BY DaemonAssumption
  <2> QED
    BY <1>1, <2>1, <2>2 DEF Init, TypeOK, Calls
<1> QED
  BY <1>2 DEF Init, TypeInv, CallsAreJustified

\* Every step of the daemon preserves the type invariant.
LEMMA TypeStep == TypeInv /\ [Next]_vars => TypeInv'
<1> SUFFICES ASSUME TypeInv, [Next]_vars PROVE TypeInv'
  OBVIOUS
<1> USE DEF TypeInv

<1>1. CASE RecordEvent
  <2>1. recorded + 1 \in Event /\ recorded' \in 0..MaxEvents
    BY <1>1, DaemonAssumption DEF RecordEvent, Event, TypeOK
  <2>2. Append(variantArray, recorded + 1) \in Seq(Event)
    BY <2>1, AppendProperties DEF TypeOK
  <2>3. variantArray' \in Seq(Event) /\ discarded' \subseteq Event
    BY <1>1, <2>1, <2>2 DEF RecordEvent, TypeOK
  <2> QED
    BY <1>1, <2>1, <2>3 DEF RecordEvent, TypeOK, ProviderTypeOK,
       CallsAreJustified, Calls, Idle, InFlight, providerVars, uploadVars
<1>2. CASE UploadEvents
  <2>1. PICK task \in ExplicitTask : PushUploadTask(task)
    BY <1>2 DEF UploadEvents
  <2>2. uploadQueue' \in Seq(Task) /\ uploadQueue' # <<>>
    BY <2>1, AppendProperties DEF PushUploadTask, Task, TypeOK
  <2> QED
    BY <1>2, <2>1, <2>2 DEF UploadEvents, PushUploadTask, TypeOK, ProviderTypeOK,
       CallsAreJustified, Calls, providerVars, memoryVars, historyVars
<1>3. CASE HandleUploadTimer
  <2>1. PICK task \in TimerTask : PushUploadTask(task)
    BY <1>3 DEF HandleUploadTimer
  <2>2. uploadQueue' \in Seq(Task) /\ uploadQueue' # <<>>
    <3>1. task \in Task /\ uploadQueue \in Seq(Task)
      BY <2>1 DEF Task, TypeOK
    <3>2. uploadQueue' = Append(uploadQueue, task)
      BY <2>1 DEF PushUploadTask
    <3> QED
      BY <3>1, <3>2, AppendProperties
  <2>3. ProviderTypeOK'
    BY <1>3, GetEnvironmentType DEF HandleUploadTimer, TypeOK
  <2>4. upload \in Upload \cup {NoUpload} /\ OnPermissionsChanged(upload)
    BY <1>3 DEF HandleUploadTimer, TypeOK
  <2> QED
    BY <1>3, <2>1, <2>2, <2>3, <2>4, PermissionsChangedType
    DEF HandleUploadTimer, PushUploadTask, TypeOK, CallsAreJustified, Calls
<1>4. CASE RefuseRecordingDisabled
  <2>1. uploadQueue' \in Seq(Task)
    BY <1>4, TailType DEF RefuseRecordingDisabled, TypeOK, CallsAreJustified
  <2> QED
    BY <1>4, <2>1 DEF RefuseRecordingDisabled, TypeOK, ProviderTypeOK,
       CallsAreJustified, Calls, providerVars, memoryVars, historyVars
<1>5. CASE RefuseUploadingDisabled
  <2>1. /\ variantArray \in Seq(Event) /\ cache \in Seq(Event)
        /\ {} \in SUBSET Event
        /\ FlushToPersistentCache(variantArray, cache, {})
    BY <1>5 DEF RefuseUploadingDisabled, TypeOK
  <2>2. /\ variantArray' \in Seq(Event) /\ cache' \in Seq(Event)
        /\ writeBuffer' \in Seq(Event) /\ mayRepeat' \in SUBSET Event
    BY <2>1, FlushType
  <2>3. uploadQueue' \in Seq(Task)
    BY <1>5, TailType DEF RefuseUploadingDisabled, TypeOK, CallsAreJustified
  <2>4. flushedInFlight' \in BOOLEAN
    BY <1>5 DEF RefuseUploadingDisabled
  <2> QED
    BY <1>5, <2>2, <2>3, <2>4 DEF RefuseUploadingDisabled, TypeOK, ProviderTypeOK,
       CallsAreJustified, Calls, providerVars
<1>6. CASE ProbeNetwork
  <2>1. upload \in Upload \cup {NoUpload} /\ GetServerUrlNotifying(upload)
    BY <1>6 DEF ProbeNetwork, TypeOK
  <2>2. probes' \in Nat
    BY <1>6 DEF ProbeNetwork, TypeOK
  <2> QED
    BY <1>6, <2>1, <2>2, ServerUrlNotifyingType
    DEF ProbeNetwork, TypeOK, CallsAreJustified, Calls
<1>7. CASE HandleUploadFinished
  <2>1. calling' \in {"main_loop", "dequeue_and_do_upload"}
    BY <1>7 DEF HandleUploadFinished, FurtherUpload
  <2>2. calling' = "dequeue_and_do_upload" => uploadQueue # <<>>
    BY <1>7 DEF HandleUploadFinished, FurtherUpload
  <2> QED
    BY <1>7, <2>1, <2>2 DEF HandleUploadFinished, TypeOK, ProviderTypeOK,
       CallsAreJustified, Calls, InFlight, providerVars, memoryVars, historyVars
<1>8. CASE QueueHttpRequest
  <2>1. upload \in Upload
    BY <1>8 DEF QueueHttpRequest, TypeOK, CallsAreJustified, InFlight
  <2>2. [upload EXCEPT !.phase = "sent"] \in Upload \cup {NoUpload}
    BY <2>1 DEF Upload, Phase
  <2>3. GetServerUrlNotifying([upload EXCEPT !.phase = "sent"])
    BY <1>8 DEF QueueHttpRequest
  <2> QED
    BY <1>8, <2>2, <2>3, ServerUrlNotifyingType
    DEF QueueHttpRequest, TypeOK, CallsAreJustified, Calls
<1>9. CASE QueueHttpRequestFails
  BY <1>9 DEF QueueHttpRequestFails, FinishNetworkCallback, TypeOK, ProviderTypeOK, CallsAreJustified, Calls,
     Idle, InFlight, providerVars, memoryVars, uploadVars, historyVars
<1>10. CASE CanReachWhileInFlight
  BY <1>10 DEF CanReachWhileInFlight, CallsBack, TypeOK, ProviderTypeOK, CallsAreJustified, Calls,
     Idle, InFlight, providerVars, memoryVars, uploadVars, historyVars
<1>11. CASE CanReachUnreachable
  <2>1. /\ variantArray \in Seq(Event) /\ cache \in Seq(Event)
        /\ {} \in SUBSET Event
        /\ FlushToPersistentCache(variantArray, cache, {})
    BY <1>11 DEF CanReachUnreachable, TypeOK
  <2>2. /\ variantArray' \in Seq(Event) /\ cache' \in Seq(Event)
        /\ writeBuffer' \in Seq(Event) /\ mayRepeat' \in SUBSET Event
    BY <2>1, FlushType
  <2>3. uploadQueue' \in Seq(Task) /\ taskLeaked' \in BOOLEAN
    BY <1>11, TailType DEF CanReachUnreachable, TypeOK
  <2>4. probes' \in Nat
    BY <1>11 DEF CanReachUnreachable, CallsBack, TypeOK
  <2> QED
    BY <1>11, <2>2, <2>3, <2>4 DEF CanReachUnreachable, TypeOK, ProviderTypeOK,
       CallsAreJustified, Calls, providerVars
<1>12. CASE CanReachCreateRequest
  <2> DEFINE max == MaxUploadSize(Head(uploadQueue))
  <2>1. Head(uploadQueue) \in Task /\ uploadQueue' \in Seq(Task)
    BY <1>12, HeadTailProperties DEF CanReachCreateRequest, TypeOK
  <2>a. PICK read \in ReadOutcomes(max) :
          \E n \in BufferPrefixes(max, read) :
             /\ cache' = read.left
             /\ discarded' = discarded \cup (Range(cache) \ Range(read.left))
             /\ upload' = [task      |-> Head(uploadQueue),
                           body      |-> First(read.left, read.token)
                                         \o First(variantArray, n),
                           token     |-> read.token,
                           numBuffer |-> n,
                           attempt   |-> 0,
                           phase     |-> "preparing",
                           cancelled |-> FALSE]
    BY <1>12 DEF CanReachCreateRequest
  <2>2. PICK n \in BufferPrefixes(max, read) :
             /\ cache' = read.left
             /\ discarded' = discarded \cup (Range(cache) \ Range(read.left))
             /\ upload' = [task      |-> Head(uploadQueue),
                           body      |-> First(read.left, read.token)
                                         \o First(variantArray, n),
                           token     |-> read.token,
                           numBuffer |-> n,
                           attempt   |-> 0,
                           phase     |-> "preparing",
                           cancelled |-> FALSE]
    BY <2>a
  <2>3. read.left \in Seq(Event) /\ read.token \in 0..Len(read.left)
    BY <2>2, ReadOutcomesType
  <2>4. n \in 0..Len(variantArray)
    BY <2>2, BufferPrefixesType
  <2>5. First(read.left, read.token) \in Seq(Event) /\ First(variantArray, n) \in Seq(Event)
    BY <2>3, <2>4, FirstProperties DEF TypeOK
  <2>6. First(read.left, read.token) \o First(variantArray, n) \in Seq(Event)
    BY <2>5, ConcatProperties
  <2>7. read.token \in Nat /\ n \in Nat
    BY <2>3, <2>4
  <2>8. upload' \in Upload
    BY <2>1, <2>2, <2>6, <2>7 DEF Upload, Phase
  <2>9. discarded' \subseteq Event
    BY <2>2, RangeType DEF TypeOK
  <2>10. probes' \in Nat
    BY <1>12 DEF CanReachCreateRequest, CallsBack, TypeOK
  <2>11. CallsAreJustified'
    BY <1>12, <2>8, NoUploadAssumption DEF CanReachCreateRequest, CallsAreJustified, InFlight
  <2> QED
    BY <1>12, <2>1, <2>2, <2>3, <2>8, <2>9, <2>10, <2>11 DEF CanReachCreateRequest,
       TypeOK, ProviderTypeOK, Calls, providerVars, memoryVars
<1>13. CASE CanReachNoRequest
  <2> DEFINE max == MaxUploadSize(Head(uploadQueue))
  <2>1. uploadQueue' \in Seq(Task)
    BY <1>13, TailType DEF CanReachNoRequest, TypeOK
  <2>2. PICK read \in ReadOutcomes(max) :
          /\ cache' = read.left
          /\ discarded' = discarded \cup (Range(cache) \ Range(read.left))
    BY <1>13 DEF CanReachNoRequest
  <2>3. cache' \in Seq(Event)
    BY <2>2, ReadOutcomesType
  <2>4. discarded' \subseteq Event
    BY <2>2, RangeType DEF TypeOK
  <2>5. probes' \in Nat
    BY <1>13 DEF CanReachNoRequest, CallsBack, TypeOK
  <2> QED
    BY <1>13, <2>1, <2>3, <2>4, <2>5 DEF CanReachNoRequest, TypeOK, ProviderTypeOK,
       CallsAreJustified, Calls, providerVars, memoryVars
<1>14. CASE HandleHttpResponseSuccess
  <2>1. upload \in Upload
    BY <1>14 DEF HandleHttpResponseSuccess, Answered, InFlight, TypeOK
  <2>2. Range(upload.body) \subseteq Event
    BY <2>1, RangeType DEF Upload
  <2>3. Range(cache) \subseteq Event
    BY RangeType DEF TypeOK
  <2>4. /\ Without(variantArray, upload.numBuffer) \in Seq(Event)
        /\ Without(cache, upload.token) \in Seq(Event)
    BY <2>1, WithoutType DEF Upload, TypeOK
  <2>5. PICK stored \in {cache, Without(cache, upload.token)},
             repeated \in {{}, Range(cache) \cap Range(upload.body)} :
          FlushToPersistentCache(Without(variantArray, upload.numBuffer),
                                 stored, repeated)
    BY <1>14 DEF HandleHttpResponseSuccess
  <2>6. stored \in Seq(Event) /\ repeated \in SUBSET Event
    BY <2>3, <2>4, <2>5 DEF TypeOK
  <2>7. /\ variantArray' \in Seq(Event) /\ cache' \in Seq(Event)
        /\ writeBuffer' \in Seq(Event) /\ mayRepeat' \in SUBSET Event
    BY <2>4, <2>5, <2>6, FlushType
  <2> QED
    BY <1>14, <2>2, <2>7 DEF HandleHttpResponseSuccess, FinishNetworkCallback, TypeOK,
       ProviderTypeOK, CallsAreJustified, Calls, providerVars
<1>15. CASE HandleHttpResponseCancelled
  <2>1. upload \in Upload
    BY <1>15 DEF HandleHttpResponseCancelled, Answered, InFlight, TypeOK
  <2>2. Range(upload.body) \subseteq Event
    BY <2>1, RangeType DEF Upload
  <2> QED
    BY <1>15, <2>2 DEF HandleHttpResponseCancelled, FinishNetworkCallback, TypeOK,
       ProviderTypeOK, CallsAreJustified, Calls, providerVars, memoryVars
<1>16. CASE HandleHttpResponseGiveUp
  <2>1. delivered' \subseteq Event /\ mayRepeat' \subseteq Event
    BY <1>16, ErrorAnsweredType DEF HandleHttpResponseGiveUp
  <2> QED
    BY <1>16, <2>1 DEF HandleHttpResponseGiveUp, ErrorAnswered, FinishNetworkCallback,
       TypeOK, ProviderTypeOK, CallsAreJustified, Calls, providerVars, memoryVars
<1>17. CASE HandleHttpResponseBackoff
  <2>1. delivered' \subseteq Event /\ mayRepeat' \subseteq Event
    BY <1>17, ErrorAnsweredType DEF HandleHttpResponseBackoff
  <2>2. upload' \in Upload
    BY <1>17, BackoffType
  <2> QED
    BY <1>17, <2>1, <2>2, NoUploadAssumption DEF HandleHttpResponseBackoff, ErrorAnswered,
       TypeOK, ProviderTypeOK, CallsAreJustified, InFlight, Calls, providerVars, memoryVars
<1>18. CASE HandleBackoffTimer
  <2>1. upload \in Upload
    BY <1>18 DEF HandleBackoffTimer, BackedOff, InFlight, TypeOK
  <2>2. upload' \in Upload
    BY <1>18, <2>1 DEF HandleBackoffTimer, Upload, Phase
  <2> QED
    BY <1>18, <2>2, NoUploadAssumption DEF HandleBackoffTimer, TypeOK, ProviderTypeOK,
       CallsAreJustified, InFlight, Calls, providerVars, memoryVars, historyVars
<1>19. CASE HandleBackoffTimerFails
  BY <1>19 DEF HandleBackoffTimerFails, FinishNetworkCallback, TypeOK, ProviderTypeOK, CallsAreJustified, Calls,
     Idle, InFlight, providerVars, memoryVars, uploadVars, historyVars
<1>20. CASE OnSetEnabled
  <2>1. ProviderTypeOK'
    BY <1>20 DEF OnSetEnabled, SetBothEnabled, KeyOf, TypeOK, ProviderTypeOK, Config, Key
  <2>2. upload \in Upload \cup {NoUpload} /\ OnPermissionsChanged(upload)
    BY <1>20 DEF OnSetEnabled, TypeOK
  <2> QED
    BY <1>20, <2>1, <2>2, PermissionsChangedType
    DEF OnSetEnabled, TypeOK, CallsAreJustified, Calls, InFlight
<1>21. CASE WriteConfigFile
  <2>1. ProviderTypeOK'
    BY <1>21 DEF WriteConfigFile, WriteConfigFileIdle, TypeOK, ProviderTypeOK
  <2> QED
    BY <1>21, <2>1 DEF WriteConfigFile, TypeOK, CallsAreJustified, Calls, InFlight,
       memoryVars, uploadVars, historyVars
<1>22. CASE EditConfig
  <2>1. ProviderTypeOK'
    BY <1>22, ProviderAssumption DEF EditConfig, EditConfigFile, TypeOK, ProviderTypeOK
  <2> QED
    BY <1>22, <2>1 DEF EditConfig, TypeOK, CallsAreJustified, Calls, InFlight,
       memoryVars, uploadVars, historyVars
<1>23. CASE QuitFinalized
  <2>1. /\ variantArray \in Seq(Event) /\ cache \in Seq(Event)
        /\ {} \in SUBSET Event
        /\ FlushToPersistentCache(variantArray, cache, {})
    BY <1>23 DEF QuitFinalized, TypeOK
  <2>2. /\ variantArray' \in Seq(Event) /\ cache' \in Seq(Event)
        /\ writeBuffer' \in Seq(Event) /\ mayRepeat' \in SUBSET Event
    BY <2>1, FlushType
  <2> QED
    BY <1>23, <2>2 DEF QuitFinalized, TypeOK, ProviderTypeOK, CallsAreJustified, Calls,
       providerVars
<1>24. CASE QuitReferenced
  BY <1>24 DEF QuitReferenced, TypeOK, ProviderTypeOK, CallsAreJustified, Calls,
     Idle, InFlight, providerVars, memoryVars, uploadVars, historyVars
<1>25. CASE ProcessExits \/ Killed \/ CanReachWithoutTask
  <2>1. ProcessEnds
    BY <1>25 DEF ProcessExits, Killed, CanReachWithoutTask
  <2>2. /\ delivered' \subseteq Event /\ mayRepeat' \subseteq Event
        /\ cache' = cache
    BY <2>1, RangeType DEF ProcessEnds, InFlight, TypeOK, Upload
  <2> QED
    BY <2>1, <2>2, MemoryLostType DEF ProcessEnds, TypeOK
<1>26. CASE HandleHttpResponseOutOfRange
  <2>1. upload \in Upload
    BY <1>26 DEF HandleHttpResponseOutOfRange, RemovedOutOfRange, Answered, InFlight,
       TypeOK
  <2>2. delivered' \subseteq Event
    BY <1>26, <2>1, RangeType DEF HandleHttpResponseOutOfRange, RemovedOutOfRange,
       Upload, TypeOK
  <2>3. /\ Without(cache, upload.token) \in Seq(Event)
        /\ Range(cache) \cap Range(upload.body) \subseteq Event
    BY <2>1, WithoutType, RangeType DEF Upload, TypeOK
  <2>4. cache' \in Seq(Event) /\ mayRepeat' \subseteq Event
    BY <1>26, <2>3 DEF HandleHttpResponseOutOfRange, TypeOK
  <2> QED
    BY <1>26, <2>2, <2>4, MemoryLostType DEF HandleHttpResponseOutOfRange, TypeOK
<1>29. CASE HandleHttpResponseOutOfRangeSurvived
  <2>1. upload \in Upload
    BY <1>29 DEF HandleHttpResponseOutOfRangeSurvived, RemovedOutOfRange, Answered,
       InFlight, TypeOK
  <2>2. delivered' \subseteq Event
    BY <1>29, <2>1, RangeType DEF HandleHttpResponseOutOfRangeSurvived,
       RemovedOutOfRange, Upload, TypeOK
  <2>3. /\ Without(cache, upload.token) \in Seq(Event)
        /\ Range(cache) \cap Range(upload.body) \in SUBSET Event
    BY <2>1, WithoutType, RangeType DEF Upload, TypeOK
  <2>4. PICK stored \in {cache, Without(cache, upload.token)},
             repeated \in {{}, Range(cache) \cap Range(upload.body)} :
          FlushToPersistentCache(variantArray, stored, repeated)
    BY <1>29 DEF HandleHttpResponseOutOfRangeSurvived
  <2>5. /\ variantArray \in Seq(Event) /\ stored \in Seq(Event)
        /\ repeated \in SUBSET Event
    BY <2>3, <2>4 DEF TypeOK
  <2>6. /\ variantArray' \in Seq(Event) /\ cache' \in Seq(Event)
        /\ writeBuffer' \in Seq(Event) /\ mayRepeat' \in SUBSET Event
    BY <2>4, <2>5, FlushType
  <2> QED
    BY <1>29, <2>2, <2>6 DEF HandleHttpResponseOutOfRangeSurvived,
       FinishNetworkCallback, TypeOK, ProviderTypeOK, CallsAreJustified, Calls,
       providerVars
<1>27. CASE Start
  <2>1. ProviderTypeOK'
    BY <1>27, GetEnvironmentType DEF Start, TypeOK
  <2>2. OnPermissionsChanged(NoUpload)
    BY <1>27 DEF Start
  <2> QED
    BY <1>27, <2>1, <2>2, PermissionsChangedType
    DEF Start, TypeOK, CallsAreJustified, Calls
<1>28. CASE UNCHANGED vars
  BY <1>28 DEF vars, TypeOK, ProviderTypeOK, CallsAreJustified, Calls,
     Idle, InFlight, providerVars, memoryVars, uploadVars, historyVars
<1> QED
  BY <1>1, <1>2, <1>3, <1>4, <1>5, <1>6, <1>7, <1>8, <1>9, <1>10, <1>11, <1>12,
     <1>13, <1>14, <1>15, <1>16, <1>17, <1>18, <1>19, <1>20, <1>21, <1>22,
     <1>23, <1>24, <1>25, <1>26, <1>27, <1>28, <1>29
  DEF Next, Continue, NetworkMonitorAnswers, ServerAnswers, BackoffEnds, ProcessLife

\* TypeOK holds in every state, and every function finds what it takes for
\* granted.
THEOREM TypeCorrect == Spec => []TypeOK
<1>1. Spec => []TypeInv
  BY InitType, TypeStep, PTL DEF Spec
<1>2. TypeInv => TypeOK
  BY DEF TypeInv
<1> QED
  BY <1>1, <1>2, PTL

\* dequeue_and_do_upload finds a request to pop, queue_http_request an upload in
\* flight, and a process that starts an empty queue.
THEOREM CallsCorrect == Spec => []CallsAreJustified
<1>1. Spec => []TypeInv
  BY InitType, TypeStep, PTL DEF Spec
<1>2. TypeInv => CallsAreJustified
  BY DEF TypeInv
<1> QED
  BY <1>1, <1>2, PTL

-----------------------------------------------------------------------------
(* SuccessRemovesWhatWasSent: while an upload is in flight the cache only   *)
(* grows at its end, and so does the buffer, unless it is flushed.          *)

SentInv == TypeInv /\ SuccessRemovesWhatWasSent

\* u is the upload in flight, but for how far it has come.
SameUpload(u) ==
  u # NoUpload =>
    /\ upload # NoUpload
    /\ u.body = upload.body
    /\ u.token = upload.token
    /\ u.numBuffer = upload.numBuffer
    /\ u.cancelled = upload.cancelled

\* A step that changes neither the cache, the buffer nor what the upload holds
\* of them keeps SuccessRemovesWhatWasSent.
LEMMA SentKept ==
  ASSUME SuccessRemovesWhatWasSent, SameUpload(upload'),
         UNCHANGED <<cache, variantArray, flushedInFlight>>
  PROVE  SuccessRemovesWhatWasSent'
<1> QED
  BY DEF SuccessRemovesWhatWasSent, SameUpload, Uncancelled, InFlight

\* What is appended to the cache, and to the buffer, changes nothing.
LEMMA SentKeptByAppending ==
  ASSUME SentInv, upload' = upload, flushedInFlight => flushedInFlight',
         NEW s \in Seq(Event), cache' = cache \o s,
         NEW t \in Seq(Event),
         \/ variantArray' = variantArray \o t
         \/ ~InFlight
         \/ upload.numBuffer = 0 /\ variantArray' \in Seq(Event)
         \/ flushedInFlight'
  PROVE  SuccessRemovesWhatWasSent'
<1> USE DEF SentInv, TypeInv
<1> SUFFICES ASSUME Uncancelled'
             PROVE  /\ upload.token <= Len(upload.body)
                    /\ upload.token <= Len(cache')
                    /\ First(cache', upload.token) = First(upload.body, upload.token)
                    /\ ~flushedInFlight' =>
                          /\ upload.numBuffer <= Len(variantArray')
                          /\ First(variantArray', upload.numBuffer)
                                 = Without(upload.body, upload.token)
  BY DEF SuccessRemovesWhatWasSent
<1>1. Uncancelled /\ InFlight
  BY DEF Uncancelled, InFlight
<1>2. upload \in Upload
  BY <1>1 DEF InFlight, TypeOK
<1>3. upload.token \in 0..Len(cache)
  BY <1>1, <1>2, LenProperties DEF SuccessRemovesWhatWasSent, Upload, TypeOK
<1>4. /\ upload.token <= Len(cache')
      /\ First(cache', upload.token) = First(upload.body, upload.token)
  <2>1. cache \in Seq(Event)
    BY DEF TypeOK
  <2>2. /\ upload.token <= Len(cache \o s)
        /\ First(cache \o s, upload.token) = First(cache, upload.token)
    BY <1>3, <2>1, FirstOfConcat
  <2> QED
    BY <1>1, <2>2 DEF SuccessRemovesWhatWasSent
<1>5. ASSUME ~flushedInFlight'
      PROVE  /\ upload.numBuffer <= Len(variantArray')
             /\ First(variantArray', upload.numBuffer) = Without(upload.body, upload.token)
  <2>1. /\ variantArray \in Seq(Event)
        /\ upload.numBuffer \in 0..Len(variantArray)
        /\ First(variantArray, upload.numBuffer) = Without(upload.body, upload.token)
    BY <1>1, <1>2, <1>5, LenProperties DEF SuccessRemovesWhatWasSent, Upload, TypeOK
  <2>2. CASE variantArray' = variantArray \o t
    BY <2>1, <2>2, FirstOfConcat
  <2>3. CASE upload.numBuffer = 0 /\ variantArray' \in Seq(Event)
    <3>1. 0 < 1 /\ 0 \in Int /\ 1 \in Int
      OBVIOUS
    <3>2. First(variantArray', 0) = <<>> /\ First(variantArray, 0) = <<>>
      BY <3>1, SubSeqEmpty DEF First
    <3>3. Len(variantArray') \in Nat
      BY <2>3, LenProperties
    <3> QED
      BY <2>1, <2>3, <3>2, <3>3
  <2> QED
    BY <1>1, <1>5, <2>2, <2>3
<1> QED
  BY <1>1, <1>4, <1>5 DEF SuccessRemovesWhatWasSent

\* flush_to_persistent_cache only appends to the cache.
LEMMA FlushAppends ==
  ASSUME TypeOK,
         NEW buffer \in Seq(Event), NEW stored \in Seq(Event),
         NEW repeated \in SUBSET Event,
         FlushToPersistentCache(buffer, stored, repeated)
  PROVE  \E s \in Seq(Event) : cache' = stored \o s
<1>1. CASE cache' = stored
  BY <1>1, EmptySeq, ConcatEmptySeq
<1>2. CASE \E k \in 0..Len(buffer) : cache' = stored \o writeBuffer \o First(buffer, k)
  <2>1. PICK k \in 0..Len(buffer) : cache' = stored \o writeBuffer \o First(buffer, k)
    BY <1>2
  <2>2. writeBuffer \in Seq(Event) /\ First(buffer, k) \in Seq(Event)
    BY FirstProperties DEF TypeOK
  <2>3. cache' = stored \o (writeBuffer \o First(buffer, k))
    BY <2>1, <2>2, ConcatThree
  <2>4. writeBuffer \o First(buffer, k) \in Seq(Event)
    BY <2>2, ConcatRange
  <2> QED
    BY <2>3, <2>4
<1> QED
  BY <1>1, <1>2 DEF FlushToPersistentCache, LongestPrefix

\* The handler of the permissions either changes nothing of what an upload
\* will remove, or cancels the upload.
LEMMA SentKeptByPermissions ==
  ASSUME SentInv, NEW u \in Upload \cup {NoUpload}, SameUpload(u),
         OnPermissionsChanged(u), UNCHANGED flushedInFlight
  PROVE  SuccessRemovesWhatWasSent'
<1>1. CASE DaemonEnabled(permissions')
  BY <1>1, SentKept DEF OnPermissionsChanged, SentInv
<1>2. CASE ~DaemonEnabled(permissions')
  <2>1. upload' = NoUpload \/ upload'.cancelled
    BY <1>2, CancelledType DEF OnPermissionsChanged, Cancelled
  <2> QED
    BY <2>1 DEF SuccessRemovesWhatWasSent, Uncancelled, InFlight
<1> QED
  BY <1>1, <1>2

\* The same for the functions that ask for the server URL.
LEMMA SentKeptByServerUrl ==
  ASSUME SentInv, NEW u \in Upload \cup {NoUpload}, SameUpload(u),
         GetServerUrlNotifying(u), UNCHANGED flushedInFlight
  PROVE  SuccessRemovesWhatWasSent'
<1>1. CASE UrlNamesEnvironment
  BY <1>1, SentKeptByPermissions DEF GetServerUrlNotifying
<1>2. CASE ~UrlNamesEnvironment
  BY <1>2, SentKept DEF GetServerUrlNotifying, SentInv
<1> QED
  BY <1>1, <1>2

\* An upload that has just been made.
LEMMA SentWhenCreated ==
  ASSUME TypeOK, CanReachCreateRequest
  PROVE  SuccessRemovesWhatWasSent'
<1>1. PICK read \in ReadOutcomes(MaxUploadSize(Head(uploadQueue))) :
      \E n \in BufferPrefixes(MaxUploadSize(Head(uploadQueue)), read) :
        /\ cache' = read.left
        /\ upload'.token = read.token
        /\ upload'.numBuffer = n
        /\ upload'.body = First(read.left, read.token) \o First(variantArray, n)
  BY SMTT(30) DEF CanReachCreateRequest
<1>2. PICK n \in BufferPrefixes(MaxUploadSize(Head(uploadQueue)), read) :
        /\ cache' = read.left
        /\ upload'.token = read.token
        /\ upload'.numBuffer = n
        /\ upload'.body = First(read.left, read.token) \o First(variantArray, n)
  BY <1>1
<1>3. /\ read.left \in Seq(Event) /\ read.token \in 0..Len(read.left)
      /\ variantArray \in Seq(Event) /\ n \in 0..Len(variantArray)
  BY <1>2, ReadOutcomesType, BufferPrefixesType DEF TypeOK
<1> DEFINE head == First(read.left, read.token)
           tail == First(variantArray, n)
<1>4. head \in Seq(Event) /\ Len(head) = read.token /\ tail \in Seq(Event)
  BY <1>3, FirstProperties
<1> HIDE DEF head, tail
<1>5. First(head \o tail, read.token) = head /\ Without(head \o tail, read.token) = tail
  BY <1>4, ConcatSplits
<1>b. read.token <= Len(head \o tail)
  BY <1>3, <1>4, ConcatProperties, LenProperties
<1>6. variantArray' = variantArray
  BY DEF CanReachCreateRequest, memoryVars
<1>7. read.token <= Len(read.left) /\ n <= Len(variantArray)
  BY <1>3, LenProperties
<1> QED
  BY <1>2, <1>5, <1>b, <1>6, <1>7 DEF head, tail, SuccessRemovesWhatWasSent

\* Every step of the daemon preserves SuccessRemovesWhatWasSent.
LEMMA SentStep == SentInv /\ [Next]_vars => SuccessRemovesWhatWasSent'
<1> SUFFICES ASSUME SentInv, [Next]_vars PROVE SuccessRemovesWhatWasSent'
  OBVIOUS
<1>a. upload \in Upload \cup {NoUpload} /\ SameUpload(upload)
  BY DEF SentInv, TypeInv, TypeOK, SameUpload
<1>1. CASE RecordEvent
  <2>1. CASE variantArray' = variantArray
    BY <1>1, <2>1, <1>a, SentKept DEF RecordEvent, uploadVars, SentInv
  <2>2. CASE variantArray' = Append(variantArray, recorded + 1)
    <3>1. /\ variantArray \in Seq(Event) /\ cache \in Seq(Event)
          /\ recorded + 1 \in Event
      BY <1>1, DaemonAssumption DEF RecordEvent, Event, SentInv, TypeInv, TypeOK
    <3>2. /\ <<recorded + 1>> \in Seq(Event)
          /\ variantArray' = variantArray \o <<recorded + 1>>
      BY <2>2, <3>1, AppendIsConcat
    <3>3. <<>> \in Seq(Event) /\ cache' = cache \o <<>>
      BY <1>1, <3>1, EmptySeq, ConcatEmptySeq DEF RecordEvent
    <3>4. upload' = upload /\ flushedInFlight' = flushedInFlight
      BY <1>1 DEF RecordEvent, uploadVars
    <3> QED
      BY <3>2, <3>3, <3>4, SentKeptByAppending
  <2> QED
    BY <1>1, <2>1, <2>2 DEF RecordEvent
<1>2. CASE \/ UploadEvents \/ RefuseRecordingDisabled \/ HandleUploadFinished
           \/ CanReachWhileInFlight \/ WriteConfigFile \/ EditConfig
           \/ QuitReferenced \/ UNCHANGED vars
  BY <1>2, <1>a, SentKept
  DEF UploadEvents, RefuseRecordingDisabled, HandleUploadFinished, CanReachWhileInFlight,
      WriteConfigFile, EditConfig, QuitReferenced, vars, memoryVars, uploadVars,
      historyVars, SentInv
<1>3. CASE HandleUploadTimer \/ OnSetEnabled
  BY <1>3, <1>a, SentKeptByPermissions DEF HandleUploadTimer, OnSetEnabled
<1>4. CASE RefuseUploadingDisabled
  <2>1. /\ variantArray \in Seq(Event) /\ cache \in Seq(Event) /\ {} \in SUBSET Event
        /\ TypeOK /\ FlushToPersistentCache(variantArray, cache, {})
    BY <1>4 DEF RefuseUploadingDisabled, SentInv, TypeInv, TypeOK
  <2>2. PICK s \in Seq(Event) : cache' = cache \o s
    BY <2>1, FlushAppends
  <2>3. variantArray' \in Seq(Event)
    BY <2>1, FlushType
  <2>4. upload' = upload /\ (flushedInFlight => flushedInFlight')
    BY <1>4 DEF RefuseUploadingDisabled
  <2>5. CASE InFlight /\ upload.cancelled
    BY <2>4, <2>5 DEF SuccessRemovesWhatWasSent, Uncancelled
  <2>6. CASE Uncancelled /\ upload.numBuffer > 0
    <3>1. flushedInFlight'
      BY <1>4, <2>6 DEF RefuseUploadingDisabled
    <3> QED
      BY <2>2, <2>4, <3>1, EmptySeq, SentKeptByAppending
  <2>7. CASE ~InFlight
    BY <2>4, <2>7 DEF SuccessRemovesWhatWasSent, Uncancelled, InFlight
  <2>8. CASE InFlight /\ ~(upload.numBuffer > 0)
    <3>1. upload.numBuffer = 0
      BY <2>8 DEF InFlight, SentInv, TypeInv, TypeOK, Upload
    <3> QED
      BY <2>2, <2>3, <2>4, <3>1, EmptySeq, SentKeptByAppending
  <2> QED
    BY <2>5, <2>6, <2>7, <2>8 DEF Uncancelled
<1>5. CASE ProbeNetwork
  BY <1>5, <1>a, SentKeptByServerUrl DEF ProbeNetwork
<1>6. CASE QueueHttpRequest
  <2>1. upload \in Upload
    BY <1>6 DEF QueueHttpRequest, SentInv, TypeInv, TypeOK, CallsAreJustified, InFlight
  <2> DEFINE u == [upload EXCEPT !.phase = "sent"]
  <2>2. u \in Upload \cup {NoUpload} /\ SameUpload(u)
    BY <2>1, NoUploadAssumption DEF Upload, Phase, SameUpload
  <2> QED
    BY <1>6, <2>2, SentKeptByServerUrl DEF QueueHttpRequest
<1>7. CASE CanReachUnreachable \/ CanReachNoRequest \/ QuitFinalized
  <2>1. upload' = NoUpload
    BY <1>7 DEF CanReachUnreachable, CanReachNoRequest, QuitFinalized, InFlight, LiveTasks
  <2> QED
    BY <2>1 DEF SuccessRemovesWhatWasSent, Uncancelled, InFlight
<1>8. CASE CanReachCreateRequest
  BY <1>8, SentWhenCreated DEF SentInv, TypeInv
<1>9. CASE \/ QueueHttpRequestFails \/ HandleBackoffTimerFails
           \/ HandleHttpResponseSuccess \/ HandleHttpResponseCancelled
           \/ HandleHttpResponseGiveUp
           \/ ProcessExits \/ Killed \/ CanReachWithoutTask
           \/ HandleHttpResponseOutOfRange \/ HandleHttpResponseOutOfRangeSurvived
  <2>1. upload' = NoUpload
    BY <1>9
    DEF QueueHttpRequestFails, HandleBackoffTimerFails, HandleHttpResponseSuccess,
        HandleHttpResponseCancelled, HandleHttpResponseGiveUp, FinishNetworkCallback,
        ProcessExits, Killed, CanReachWithoutTask, HandleHttpResponseOutOfRange,
        HandleHttpResponseOutOfRangeSurvived, ProcessEnds, MemoryLost
  <2> QED
    BY <2>1 DEF SuccessRemovesWhatWasSent, Uncancelled, InFlight
<1>10. CASE HandleHttpResponseBackoff \/ HandleBackoffTimer
  <2>1. upload \in Upload
    BY <1>10 DEF HandleHttpResponseBackoff, ErrorAnswered, Answered, HandleBackoffTimer,
       BackedOff, InFlight, SentInv, TypeInv, TypeOK
  <2>2. SameUpload(upload')
    BY <1>10, <2>1, NoUploadAssumption
    DEF HandleHttpResponseBackoff, HandleBackoffTimer, SameUpload, Upload
  <2>3. UNCHANGED <<cache, variantArray, flushedInFlight>>
    BY <1>10 DEF HandleHttpResponseBackoff, ErrorAnswered, HandleBackoffTimer,
       memoryVars, historyVars
  <2> QED
    BY <2>2, <2>3, SentKept DEF SentInv
<1>11. CASE Start
  <2>1. OnPermissionsChanged(NoUpload) /\ TypeOK
    BY <1>11 DEF Start, SentInv, TypeInv
  <2>2. upload' = NoUpload
    BY <2>1, PermissionsChangedType
  <2> QED
    BY <2>2 DEF SuccessRemovesWhatWasSent, Uncancelled, InFlight
<1> QED
  BY <1>1, <1>2, <1>3, <1>4, <1>5, <1>6, <1>7, <1>8, <1>9, <1>10, <1>11
  DEF Next, Continue, NetworkMonitorAnswers, ServerAnswers, BackoffEnds, ProcessLife

\* What the daemon removes when an upload succeeds is what it has sent
\* (remove_from_persistent_cache and remove_events in handle_http_response).
THEOREM SuccessCorrect == Spec => []SuccessRemovesWhatWasSent
<1>1. Init => SentInv
  BY InitType DEF SentInv, Init, SuccessRemovesWhatWasSent, Uncancelled, InFlight
<1>2. SentInv /\ [Next]_vars => SentInv'
  BY TypeStep, SentStep DEF SentInv
<1>3. SentInv => SuccessRemovesWhatWasSent
  BY DEF SentInv
<1> QED
  BY <1>1, <1>2, <1>3, PTL DEF Spec

-----------------------------------------------------------------------------
(* NoEventLost: what leaves the buffer or the cache is stored, delivered or *)
(* discarded.  It rests on SuccessRemovesWhatWasSent, which says that what  *)
(* a success removes is in what was delivered.                              *)

Accounted == Held \cup delivered \cup discarded

EventsInv == SentInv /\ NoEventLost

\* A step that keeps every event accounted for keeps NoEventLost.
LEMMA EventsKept ==
  ASSUME NoEventLost, Accounted \subseteq Accounted', recorded' = recorded,
         flushedInFlight => flushedInFlight'
  PROVE  NoEventLost'
<1> QED
  BY DEF NoEventLost, Accounted

\* flush_to_persistent_cache moves events, and loses none.
LEMMA FlushKeepsEvents ==
  ASSUME TypeOK,
         NEW buffer \in Seq(Event), NEW stored \in Seq(Event),
         NEW repeated \in SUBSET Event,
         FlushToPersistentCache(buffer, stored, repeated)
  PROVE  Range(buffer) \cup Range(stored) \cup Range(writeBuffer) \subseteq Held'
<1>1. CASE ~recordingEnabled \/ buffer = <<>>
  BY <1>1 DEF FlushToPersistentCache, Held
<1>2. CASE recordingEnabled /\ buffer # <<>>
  <2>1. PICK k \in 0..Len(buffer) :
          \/ /\ variantArray' = Without(buffer, k)
             /\ cache' = stored \o writeBuffer \o First(buffer, k)
             /\ writeBuffer' = <<>>
          \/ /\ variantArray' = buffer
             /\ cache' = stored
             /\ writeBuffer' = writeBuffer \o First(buffer, k)
    BY <1>2 DEF FlushToPersistentCache, LongestPrefix, KeepUnstored
  <2>2. First(buffer, k) \in Seq(Event) /\ writeBuffer \in Seq(Event)
    BY FirstProperties DEF TypeOK
  <2>3. stored \o writeBuffer \in Seq(Event)
    BY <2>2, ConcatRange
  <2>4. Range(stored \o writeBuffer) = Range(stored) \cup Range(writeBuffer)
    BY <2>2, ConcatRange
  <2>6. Range((stored \o writeBuffer) \o First(buffer, k))
          = Range(stored \o writeBuffer) \cup Range(First(buffer, k))
    BY <2>2, <2>3, ConcatRange
  <2>7. Range(writeBuffer \o First(buffer, k))
          = Range(writeBuffer) \cup Range(First(buffer, k))
    BY <2>2, ConcatRange
  <2>5. Range(buffer) = Range(First(buffer, k)) \cup Range(Without(buffer, k))
    BY SplitRange
  <2> QED
    BY <2>1, <2>4, <2>5, <2>6, <2>7 DEF Held
<1> QED
  BY <1>1, <1>2

\* What the handler of the permissions drops, it discards.
LEMMA PermissionsKeepEvents ==
  ASSUME NEW u, OnPermissionsChanged(u), UNCHANGED <<writeBuffer, delivered>>
  PROVE  Accounted \subseteq Accounted'
<1> QED
  BY DEF OnPermissionsChanged, Accounted, Held

\* The same for the functions that ask for the server URL.
LEMMA ServerUrlKeepsEvents ==
  ASSUME NEW u, GetServerUrlNotifying(u), UNCHANGED <<writeBuffer, delivered>>
  PROVE  Accounted \subseteq Accounted'
<1> QED
  BY PermissionsKeepEvents DEF GetServerUrlNotifying, Accounted, Held

\* What a success removes from the cache and from the buffer was delivered.
LEMMA RemovedWasSent ==
  ASSUME SentInv, Uncancelled
  PROVE  /\ Range(cache) \subseteq Range(Without(cache, upload.token))
                                     \cup Range(upload.body)
         /\ ~flushedInFlight =>
              Range(variantArray) \subseteq Range(Without(variantArray, upload.numBuffer))
                                              \cup Range(upload.body)
<1>a. upload \in Upload /\ upload.body \in Seq(Event)
  BY DEF SentInv, TypeInv, TypeOK, Uncancelled, InFlight, Upload
<1>1. /\ cache \in Seq(Event) /\ variantArray \in Seq(Event)
      /\ upload.token \in 0..Len(upload.body)
      /\ upload.token \in 0..Len(cache)
      /\ upload.numBuffer \in Nat
  BY <1>a, LenProperties
  DEF SentInv, TypeInv, TypeOK, SuccessRemovesWhatWasSent, Upload
<1>2. /\ Range(cache) = Range(First(cache, upload.token))
                          \cup Range(Without(cache, upload.token))
      /\ Range(upload.body) = Range(First(upload.body, upload.token))
                                \cup Range(Without(upload.body, upload.token))
  BY <1>a, <1>1, SplitRange
<1>3. First(cache, upload.token) = First(upload.body, upload.token)
  BY DEF SentInv, SuccessRemovesWhatWasSent
<1>4. ASSUME ~flushedInFlight
      PROVE  Range(variantArray)
               \subseteq Range(Without(variantArray, upload.numBuffer))
                           \cup Range(upload.body)
  <2>1. /\ upload.numBuffer \in 0..Len(variantArray)
        /\ First(variantArray, upload.numBuffer) = Without(upload.body, upload.token)
    BY <1>1, <1>4, LenProperties DEF SentInv, SuccessRemovesWhatWasSent
  <2>2. Range(variantArray) = Range(First(variantArray, upload.numBuffer))
                                \cup Range(Without(variantArray, upload.numBuffer))
    BY <1>1, <2>1, SplitRange
  <2> QED
    BY <1>2, <2>1, <2>2
<1> QED
  BY <1>2, <1>3, <1>4

\* Every step of the daemon preserves NoEventLost.
LEMMA EventsStep == EventsInv /\ [Next]_vars => NoEventLost'
<1> SUFFICES ASSUME EventsInv, [Next]_vars PROVE NoEventLost'
  OBVIOUS
<1>a. /\ NoEventLost /\ SentInv /\ TypeOK
      /\ variantArray \in Seq(Event) /\ cache \in Seq(Event) /\ {} \in SUBSET Event
  BY DEF EventsInv, SentInv, TypeInv, TypeOK
<1>1. CASE RecordEvent
  <2>1. 1..recorded' \subseteq 1..recorded \cup {recorded + 1}
    BY <1>1, <1>a DEF RecordEvent, TypeOK
  <2>2. recorded + 1 \in Event
    BY <1>1, <1>a, DaemonAssumption DEF RecordEvent, Event, TypeOK
  <2>3. Range(Append(variantArray, recorded + 1))
          = Range(variantArray) \cup {recorded + 1}
    <3>1. /\ Append(variantArray, recorded + 1) = variantArray \o <<recorded + 1>>
          /\ <<recorded + 1>> \in Seq(Event)
      BY <1>a, <2>2, AppendIsConcat
    <3>2. Range(<<recorded + 1>>) = {recorded + 1}
      BY DEF Range
    <3>3. Range(variantArray \o <<recorded + 1>>)
            = Range(variantArray) \cup Range(<<recorded + 1>>)
      BY <1>a, <3>1, ConcatRange
    <3> QED
      BY <3>1, <3>2, <3>3
  <2>4. /\ recorded + 1 \in Accounted'
        /\ Accounted \subseteq Accounted'
        /\ flushedInFlight' = flushedInFlight
    BY <1>1, <2>3 DEF RecordEvent, Accounted, Held
  <2> QED
    BY <1>a, <2>1, <2>4 DEF NoEventLost, Accounted
<1>2. CASE \/ UploadEvents \/ RefuseRecordingDisabled \/ HandleUploadFinished
           \/ QueueHttpRequestFails \/ CanReachWhileInFlight
           \/ HandleBackoffTimer \/ HandleBackoffTimerFails
           \/ WriteConfigFile \/ EditConfig \/ QuitReferenced \/ UNCHANGED vars
  <2>1. UNCHANGED <<memoryVars, cache, historyVars>>
    BY <1>2
    DEF UploadEvents, RefuseRecordingDisabled, HandleUploadFinished,
        QueueHttpRequestFails, CanReachWhileInFlight, HandleBackoffTimer,
        HandleBackoffTimerFails, WriteConfigFile, EditConfig, QuitReferenced, vars
  <2> QED
    BY <1>a, <2>1 DEF NoEventLost, Held, memoryVars, historyVars
<1>3. CASE HandleUploadTimer \/ OnSetEnabled \/ Start
  <2>1. \E u : OnPermissionsChanged(u)
    BY <1>3 DEF HandleUploadTimer, OnSetEnabled, Start
  <2>2. UNCHANGED <<writeBuffer, delivered, recorded, flushedInFlight>>
    BY <1>3 DEF HandleUploadTimer, OnSetEnabled, Start
  <2> QED
    BY <1>a, <2>1, <2>2, PermissionsKeepEvents, EventsKept
<1>4. CASE ProbeNetwork \/ QueueHttpRequest
  <2>1. \E u : GetServerUrlNotifying(u)
    BY <1>4 DEF ProbeNetwork, QueueHttpRequest
  <2>2. UNCHANGED <<writeBuffer, delivered, recorded, flushedInFlight>>
    BY <1>4 DEF ProbeNetwork, QueueHttpRequest
  <2> QED
    BY <1>a, <2>1, <2>2, ServerUrlKeepsEvents, EventsKept
<1>5. CASE RefuseUploadingDisabled \/ CanReachUnreachable \/ QuitFinalized
  <2>1. FlushToPersistentCache(variantArray, cache, {})
    BY <1>5 DEF RefuseUploadingDisabled, CanReachUnreachable, QuitFinalized
  <2>3. UNCHANGED <<delivered, discarded, recorded>>
    BY <1>5 DEF RefuseUploadingDisabled, CanReachUnreachable, QuitFinalized
  <2>4. flushedInFlight => flushedInFlight'
    BY <1>5 DEF RefuseUploadingDisabled, CanReachUnreachable, QuitFinalized
  <2>2. Held \subseteq Held'
    BY <1>a, <2>1, FlushKeepsEvents DEF Held
  <2> QED
    BY <1>a, <2>2, <2>3, <2>4, EventsKept DEF Accounted
<1>6. CASE CanReachCreateRequest \/ CanReachNoRequest
  <2>1. /\ discarded' = discarded \cup (Range(cache) \ Range(cache'))
        /\ UNCHANGED <<memoryVars, delivered, recorded, flushedInFlight>>
    BY <1>6 DEF CanReachCreateRequest, CanReachNoRequest
  <2> QED
    BY <1>a, <2>1, EventsKept DEF Accounted, Held, memoryVars
<1>7. CASE HandleHttpResponseSuccess
  <2>1. Uncancelled /\ upload \in Upload
    BY <1>7, <1>a DEF HandleHttpResponseSuccess, Answered, Uncancelled, InFlight, TypeOK
  <2> DEFINE buffer == Without(variantArray, upload.numBuffer)
             left   == Without(cache, upload.token)
  <2>2. buffer \in Seq(Event) /\ left \in Seq(Event)
    BY <1>a, <2>1, WithoutType DEF Upload
  <2>3. Range(cache) \cap Range(upload.body) \in SUBSET Event
    BY <1>a, RangeType
  <2>4. \/ FlushToPersistentCache(buffer, left, {})
        \/ FlushToPersistentCache(buffer, cache, Range(cache) \cap Range(upload.body))
    BY <1>7 DEF HandleHttpResponseSuccess
  <2>5. \/ Range(buffer) \cup Range(left) \cup Range(writeBuffer) \subseteq Held'
        \/ Range(buffer) \cup Range(cache) \cup Range(writeBuffer) \subseteq Held'
    <3> HIDE DEF buffer, left
    <3> QED
      BY <1>a, <2>2, <2>3, <2>4, FlushKeepsEvents
  <2>6. /\ Range(cache) \subseteq Range(left) \cup Range(upload.body)
        /\ ~flushedInFlight =>
             Range(variantArray) \subseteq Range(buffer) \cup Range(upload.body)
    BY <1>a, <2>1, RemovedWasSent
  <2>7. /\ delivered' = delivered \cup Range(upload.body)
        /\ UNCHANGED <<discarded, recorded, flushedInFlight>>
    BY <1>7 DEF HandleHttpResponseSuccess
  <2>8. ~flushedInFlight => Accounted \subseteq Accounted'
    BY <2>5, <2>6, <2>7 DEF Accounted, Held
  <2> QED
    BY <1>a, <2>7, <2>8 DEF NoEventLost, Accounted
<1>8. CASE HandleHttpResponseCancelled
  BY <1>8, <1>a, EventsKept DEF HandleHttpResponseCancelled, memoryVars, Accounted, Held
<1>9. CASE HandleHttpResponseGiveUp \/ HandleHttpResponseBackoff
  <2>1. ErrorAnswered
    BY <1>9 DEF HandleHttpResponseGiveUp, HandleHttpResponseBackoff
  <2> QED
    BY <1>a, <2>1, EventsKept DEF ErrorAnswered, memoryVars, Accounted, Held
<1>10. CASE ProcessExits \/ Killed \/ CanReachWithoutTask
  <2>1. ProcessEnds
    BY <1>10 DEF ProcessExits, Killed, CanReachWithoutTask
  <2>2. /\ discarded' = discarded \cup Range(variantArray) \cup Range(writeBuffer)
        /\ delivered \subseteq delivered'
        /\ UNCHANGED <<cache, recorded, flushedInFlight>>
    BY <2>1 DEF ProcessEnds, MemoryLost
  <2> QED
    BY <1>a, <2>2, EventsKept DEF Accounted, Held
<1>11. CASE HandleHttpResponseOutOfRange
  <2>1. Uncancelled /\ delivered' = delivered \cup Range(upload.body)
    BY <1>11 DEF HandleHttpResponseOutOfRange, RemovedOutOfRange, Answered, Uncancelled
  <2>2. /\ discarded' = discarded \cup Range(variantArray) \cup Range(writeBuffer)
        /\ cache' \in {cache, Without(cache, upload.token)}
        /\ UNCHANGED <<recorded, flushedInFlight>>
    BY <1>11 DEF HandleHttpResponseOutOfRange, MemoryLost
  <2>3. Range(cache) \subseteq Range(cache') \cup Range(upload.body)
    BY <1>a, <2>1, <2>2, RemovedWasSent
  <2> QED
    BY <1>a, <2>1, <2>2, <2>3, EventsKept DEF Accounted, Held
<1>12. CASE HandleHttpResponseOutOfRangeSurvived
  <2>1. Uncancelled /\ upload \in Upload
    BY <1>12, <1>a DEF HandleHttpResponseOutOfRangeSurvived, RemovedOutOfRange, Answered,
       Uncancelled, InFlight, TypeOK
  <2> DEFINE left == Without(cache, upload.token)
  <2>2. /\ variantArray \in Seq(Event) /\ cache \in Seq(Event) /\ left \in Seq(Event)
        /\ {} \in SUBSET Event
    BY <1>a, <2>1, WithoutType DEF Upload, TypeOK
  <2>3. Range(cache) \cap Range(upload.body) \in SUBSET Event
    BY <1>a, RangeType
  <2>4. \/ FlushToPersistentCache(variantArray, left, {})
        \/ FlushToPersistentCache(variantArray, cache,
                                  Range(cache) \cap Range(upload.body))
    BY <1>12 DEF HandleHttpResponseOutOfRangeSurvived
  <2>5. \/ Range(variantArray) \cup Range(left) \cup Range(writeBuffer) \subseteq Held'
        \/ Range(variantArray) \cup Range(cache) \cup Range(writeBuffer) \subseteq Held'
    <3> HIDE DEF left
    <3> QED
      BY <1>a, <2>2, <2>3, <2>4, FlushKeepsEvents
  <2>6. Range(cache) \subseteq Range(left) \cup Range(upload.body)
    BY <1>a, <2>1, RemovedWasSent
  <2>7. /\ delivered' = delivered \cup Range(upload.body)
        /\ UNCHANGED <<discarded, recorded, flushedInFlight>>
    BY <1>12 DEF HandleHttpResponseOutOfRangeSurvived, RemovedOutOfRange
  <2> QED
    BY <1>a, <2>5, <2>6, <2>7, EventsKept DEF Accounted, Held
<1> QED
  BY <1>1, <1>2, <1>3, <1>4, <1>5, <1>6, <1>7, <1>8, <1>9, <1>10, <1>11, <1>12
  DEF Next, Continue, NetworkMonitorAnswers, ServerAnswers, BackoffEnds, ProcessLife

\* No event is lost, unless the buffer was flushed under the request that
\* holds it (buffer_event, flush_to_persistent_cache, handle_http_response).
THEOREM EventsCorrect == Spec => []NoEventLost
<1>1. Init => EventsInv
  <2> SUFFICES ASSUME Init PROVE EventsInv
    OBVIOUS
  <2>1. SentInv
    BY InitType DEF SentInv, Init, SuccessRemovesWhatWasSent, Uncancelled, InFlight
  <2>2. 1..recorded = {}
    BY DEF Init
  <2> QED
    BY <2>1, <2>2 DEF EventsInv, NoEventLost
<1>2. EventsInv /\ [Next]_vars => EventsInv'
  BY TypeStep, SentStep, EventsStep DEF EventsInv, SentInv
<1>3. EventsInv => NoEventLost
  BY DEF EventsInv
<1> QED
  BY <1>1, <1>2, <1>3, PTL DEF Spec

-----------------------------------------------------------------------------
(* RequestsAreAttended.                                                    *)

\* Every step of the daemon preserves RequestsAreAttended.
LEMMA AttendedStep ==
  TypeInv /\ RequestsAreAttended /\ [Next]_vars => RequestsAreAttended'
<1> SUFFICES ASSUME TypeInv, RequestsAreAttended, [Next]_vars,
                    Idle', uploadQueue' # <<>>
             PROVE  probes' > 0 \/ InFlight'
  BY DEF RequestsAreAttended
<1> USE DEF TypeInv, TypeOK, InFlight, Idle
<1>1. CASE \/ RecordEvent \/ CanReachWhileInFlight \/ WriteConfigFile \/ EditConfig
           \/ UNCHANGED vars
  BY <1>1 DEF RecordEvent, CanReachWhileInFlight, WriteConfigFile, EditConfig, vars,
     uploadVars, RequestsAreAttended
<1>2. CASE OnSetEnabled
  <2>1. (upload' = NoUpload) <=> (upload = NoUpload)
    BY <1>2, PermissionsChangedType DEF OnSetEnabled
  <2> QED
    BY <1>2, <2>1 DEF OnSetEnabled, RequestsAreAttended
<1>3. CASE ProbeNetwork
  BY <1>3 DEF ProbeNetwork
<1>4. CASE HandleUploadFinished
  BY <1>4 DEF HandleUploadFinished, FurtherUpload
<1>5. CASE QueueHttpRequest
  <2>1. upload \in Upload
    BY <1>5 DEF QueueHttpRequest, CallsAreJustified
  <2>2. [upload EXCEPT !.phase = "sent"] \in Upload
    BY <2>1 DEF Upload, Phase
  <2>3. (upload' = NoUpload) <=> ([upload EXCEPT !.phase = "sent"] = NoUpload)
    BY <1>5, <2>2, ServerUrlNotifyingType DEF QueueHttpRequest
  <2> QED
    BY <2>2, <2>3, NoUploadAssumption
<1>6. CASE HandleHttpResponseBackoff
  <2>1. upload \in Upload
    BY <1>6 DEF HandleHttpResponseBackoff, ErrorAnswered, Answered
  <2>2. upload' # NoUpload
    BY <1>6, <2>1, BackoffType
  <2> QED
    BY <2>2
<1>7. CASE Start
  BY <1>7 DEF Start, CallsAreJustified
<1>8. CASE \/ UploadEvents \/ HandleUploadTimer \/ RefuseRecordingDisabled
           \/ RefuseUploadingDisabled \/ QueueHttpRequestFails
           \/ CanReachUnreachable \/ CanReachCreateRequest \/ CanReachNoRequest
           \/ CanReachWithoutTask \/ HandleHttpResponseSuccess
           \/ HandleHttpResponseCancelled \/ HandleHttpResponseGiveUp
           \/ HandleHttpResponseOutOfRange \/ HandleHttpResponseOutOfRangeSurvived
           \/ BackoffEnds \/ QuitFinalized \/ QuitReferenced \/ ProcessExits \/ Killed
  BY <1>8
  DEF UploadEvents, HandleUploadTimer, PushUploadTask, RefuseRecordingDisabled,
      RefuseUploadingDisabled, QueueHttpRequestFails, CanReachUnreachable,
      CanReachCreateRequest, CanReachNoRequest, CanReachWithoutTask,
      HandleHttpResponseSuccess, HandleHttpResponseCancelled, HandleHttpResponseGiveUp,
      HandleHttpResponseOutOfRange, HandleHttpResponseOutOfRangeSurvived,
      FinishNetworkCallback, BackoffEnds,
      HandleBackoffTimer, HandleBackoffTimerFails, QuitFinalized, QuitReferenced,
      ProcessExits, Killed, ProcessEnds, MemoryLost
<1> QED
  BY <1>1, <1>2, <1>3, <1>4, <1>5, <1>6, <1>7, <1>8
  DEF Next, Continue, NetworkMonitorAnswers, ServerAnswers, ProcessLife

\* No upload request is forgotten (dequeue_and_do_upload,
\* handle_upload_finished).
THEOREM RequestsCorrect == Spec => []RequestsAreAttended
<1>1. Init => TypeInv /\ RequestsAreAttended
  BY InitType DEF Init, RequestsAreAttended, Idle
<1>2. TypeInv /\ RequestsAreAttended /\ [Next]_vars => TypeInv' /\ RequestsAreAttended'
  BY TypeStep, AttendedStep
<1> QED
  BY <1>1, <1>2, PTL DEF Spec

-----------------------------------------------------------------------------
(* SettingKept.                                                            *)

\* What is in memory is also what the file says of recording, unless a write of
\* it is scheduled, has failed, or the file has been edited since.
SettingWritten ==
    calling # "exited" =>
        writeScheduled \/ diverged \/ permissions.daemon = Loaded.daemon

SettingInv == TypeInv /\ SettingWritten

\* What SettingKept says of a step.
SettingStep ==
    permissions'.daemon # permissions.daemon =>
        calling = "exited" \/ OnSetEnabled \/ writeScheduled \/ diverged

\* Reading the file back changes no setting that is written, and what is read is
\* what the file says, unless the write of a correction is scheduled.
LEMMA ReloadKeepsSetting ==
  ASSUME ProviderTypeOK, GetEnvironment \/ UNCHANGED providerVars,
         writeScheduled \/ diverged \/ permissions.daemon = Loaded.daemon
  PROVE  /\ writeScheduled' \/ diverged' \/ permissions'.daemon = Loaded'.daemon
         /\ permissions'.daemon # permissions.daemon => writeScheduled \/ diverged
<1>1. EnvironmentRead.daemon = Loaded.daemon
  BY LoadedType DEF EnvironmentRead, Config
<1>2. CASE GetEnvironment
  <2>1. permissions' = EnvironmentRead /\ Loaded' = Loaded
    BY <1>2 DEF GetEnvironment, Loaded
  <2> QED
    BY <1>1, <2>1
<1>3. CASE UNCHANGED providerVars
  BY <1>3 DEF providerVars, Loaded
<1> QED
  BY <1>2, <1>3

\* Every step of the daemon preserves SettingInv, and none undoes a setting.
LEMMA SettingPreserved ==
  ASSUME SettingInv, [Next]_vars
  PROVE  SettingWritten' /\ SettingStep
<1>1. ProviderTypeOK
  BY DEF SettingInv, TypeInv, TypeOK
<1>2. CASE UNCHANGED vars
  BY <1>2 DEF vars, providerVars, uploadVars, SettingInv, SettingWritten, SettingStep, Loaded
<1>3. CASE OnSetEnabled
  BY <1>3 DEF OnSetEnabled, SetBothEnabled, SettingWritten, SettingStep
<1>4. CASE WriteConfigFile
  <2>1. /\ permissions' = permissions
        /\ configFile' = permissions \/ diverged' = TRUE
    BY <1>4 DEF WriteConfigFile, WriteConfigFileIdle
  <2>2. permissions # NoFile
    BY <1>1, ProviderAssumption DEF ProviderTypeOK
  <2> QED
    BY <2>1, <2>2 DEF SettingWritten, SettingStep, Loaded
<1>5. CASE EditConfig
  BY <1>5 DEF EditConfig, EditConfigFile, SettingWritten, SettingStep
<1>6. CASE Start
  <2>1. GetEnvironment /\ calling = "exited"
    BY <1>6 DEF Start
  <2>2. permissions' = EnvironmentRead /\ Loaded' = Loaded
    BY <2>1 DEF GetEnvironment, Loaded
  <2>3. EnvironmentRead.daemon = Loaded.daemon
    BY <1>1, LoadedType DEF EnvironmentRead, Config
  <2> QED
    BY <2>1, <2>2, <2>3 DEF SettingWritten, SettingStep
<1>7. CASE \/ ProcessExits \/ Killed \/ CanReachWithoutTask
           \/ HandleHttpResponseOutOfRange
  <2>1. calling' = "exited" /\ permissions' = permissions
    BY <1>7 DEF ProcessExits, Killed, CanReachWithoutTask,
       HandleHttpResponseOutOfRange, ProcessEnds, MemoryLost
  <2> QED
    BY <2>1 DEF SettingWritten, SettingStep
<1>8. CASE \/ RecordEvent \/ UploadEvents \/ HandleUploadTimer \/ Continue
           \/ CanReachWhileInFlight \/ CanReachUnreachable \/ CanReachCreateRequest
           \/ CanReachNoRequest
           \/ HandleHttpResponseSuccess \/ HandleHttpResponseCancelled
           \/ HandleHttpResponseGiveUp \/ HandleHttpResponseBackoff
           \/ HandleHttpResponseOutOfRangeSurvived
           \/ BackoffEnds \/ QuitFinalized \/ QuitReferenced
  <2>1. calling # "exited"
    BY <1>8
    DEF RecordEvent, UploadEvents, HandleUploadTimer, MayRequest, Continue,
        RefuseRecordingDisabled, RefuseUploadingDisabled, ProbeNetwork,
        HandleUploadFinished, QueueHttpRequest, QueueHttpRequestFails,
        CanReachWhileInFlight, CanReachUnreachable, CanReachCreateRequest,
        CanReachNoRequest, CallsBack, HandleHttpResponseSuccess,
        HandleHttpResponseCancelled, HandleHttpResponseGiveUp,
        HandleHttpResponseBackoff, HandleHttpResponseOutOfRangeSurvived,
        RemovedOutOfRange, ErrorAnswered, Answered, BackoffEnds, HandleBackoffTimer,
        HandleBackoffTimerFails, BackedOff, QuitFinalized, QuitReferenced, Idle
  <2>2. GetEnvironment \/ UNCHANGED providerVars
    BY <1>8
    DEF RecordEvent, UploadEvents, HandleUploadTimer, Continue,
        RefuseRecordingDisabled, RefuseUploadingDisabled, ProbeNetwork,
        HandleUploadFinished, QueueHttpRequest, QueueHttpRequestFails,
        CanReachWhileInFlight, CanReachUnreachable, CanReachCreateRequest,
        CanReachNoRequest, HandleHttpResponseSuccess,
        HandleHttpResponseCancelled, HandleHttpResponseGiveUp,
        HandleHttpResponseBackoff, HandleHttpResponseOutOfRangeSurvived,
        ErrorAnswered, BackoffEnds, HandleBackoffTimer, HandleBackoffTimerFails,
        QuitFinalized, QuitReferenced, GetServerUrlNotifying, GetServerUrl
  <2>3. writeScheduled \/ diverged \/ permissions.daemon = Loaded.daemon
    BY <2>1 DEF SettingInv, SettingWritten
  <2> QED
    BY <1>1, <2>2, <2>3, ReloadKeepsSetting DEF SettingWritten, SettingStep
<1> QED
  BY <1>2, <1>3, <1>4, <1>5, <1>6, <1>7, <1>8
  DEF Next, NetworkMonitorAnswers, ServerAnswers, ProcessLife

\* Whatever fails and whoever edits the file, no reader of it
\* (handle_upload_timer, and whoever asks for the server URL) undoes what
\* SetEnabled has set once it has been written, until a write fails or the file is
\* edited.
THEOREM SettingCorrect == Spec => SettingKept
<1>1. Init => SettingInv
  BY InitType DEF SettingInv, SettingWritten, Init
<1>2. SettingInv /\ [Next]_vars => SettingInv' /\ [SettingStep]_vars
  BY TypeStep, SettingPreserved DEF SettingInv
<1>3. Spec => [][SettingStep]_vars
  BY <1>1, <1>2, PTL DEF Spec
<1>4. SettingStep <=> (permissions'.daemon # permissions.daemon =>
                         \/ calling = "exited"
                         \/ OnSetEnabled
                         \/ writeScheduled
                         \/ diverged)
  BY DEF SettingStep
<1> QED
  BY <1>3, <1>4, PTL DEF SettingKept

=============================================================================
