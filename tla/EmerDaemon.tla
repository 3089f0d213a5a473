------------------------------ MODULE EmerDaemon ------------------------------
(***************************************************************************)
(* The event recorder daemon (src/daemon/emer-daemon.c): the buffer of     *)
(* recorded events, the persistent cache it is flushed to, the queue of    *)
(* upload requests, the probe of the network, the one HTTP request in      *)
(* flight with its retries, and the permissions that may change at any     *)
(* moment of all this.                                                     *)
(*                                                                         *)
(* The daemon is single-threaded: one source of the GLib main loop runs    *)
(* at a time, to its end.  A source that calls several functions which     *)
(* change state is modelled as one step per function; `calling' names the  *)
(* function that runs next, and no other source runs until it is           *)
(* "main_loop" again.                                                      *)
(*                                                                         *)
(* Events are numbered in the order in which they are recorded.  The cache *)
(* is the sequence of the events that can be read from the disk; its bytes *)
(* are the subject of EmerCircularFile.                                    *)
(***************************************************************************)
EXTENDS EmerPermissionsProvider, Integers, Sequences, FiniteSets, Functions

CONSTANTS
    MaxEvents,            \* bound: how many events are recorded
    Large,                \* the events that cost two units, not one
    Oversized,            \* the events that cost more than MaxRequestPayload
    MaxRequestPayload,    \* MAX_REQUEST_PAYLOAD
    GMaxSize,             \* G_MAXSIZE, the limit of an explicit upload
    MaxBytesBuffered,     \* max_bytes_buffered
    MaxCacheSize,         \* what the persistent cache can hold
    NetworkAttemptLimit,  \* NETWORK_ATTEMPT_LIMIT
    TimerTask,            \* upload tasks made by the upload timer
    ExplicitTask,         \* upload tasks made for emer_daemon_upload_events
    MaxProbes,            \* bound: probes and requests outstanding at once
    NoUpload              \* current_upload_cancellable = NULL

Task == TimerTask \cup ExplicitTask

Event == 1..MaxEvents

ASSUME DaemonAssumption ==
    /\ MaxEvents \in Nat
    /\ Large \subseteq Event
    /\ Oversized \subseteq Event
    /\ MaxRequestPayload \in Nat
    /\ GMaxSize \in Nat
    /\ MaxBytesBuffered \in Nat
    /\ MaxCacheSize \in Nat
    /\ NetworkAttemptLimit \in Nat \ {0}
    /\ TimerTask \cap ExplicitTask = {}
    /\ MaxProbes \in Nat

Phase == {"preparing", "sent", "backoff"}

\* NetworkCallbackData of the task whose upload is in flight.
Upload ==
    [task      : Task,
     body      : Seq(Event),   \* the events in request_body
     token     : Nat,          \* how many of them come from the cache
     numBuffer : Nat,          \* and how many from variant_array
     attempt   : Nat,
     phase     : Phase,
     cancelled : BOOLEAN]      \* the state of current_upload_cancellable

ASSUME NoUploadAssumption == NoUpload \notin Upload

VARIABLES
    recordingEnabled,
    variantArray,     \* recorded events, in memory only
    cache,            \* the events saved in the persistent cache
    writeBuffer,      \* events appended to the circular file, not yet saved
    uploadQueue,      \* the tasks that wait for their upload
    probes,           \* calls of g_network_monitor_can_reach_async pending
    upload,           \* the upload in flight
    calling,          \* the function that runs next
    taskLeaked,       \* a finished task was never unreffed
    countWrong        \* num_bytes_buffered is not what the buffer costs

\* History variables: what has become of the events.  No step of the
\* program depends on them.
VARIABLES
    recorded,         \* how many events emer_daemon_record_* has been given
    delivered,        \* the events the server has accepted
    discarded,        \* the events dropped for a reason the code states
    mayRepeat,        \* the events whose delivery the daemon cannot know of
    optedOut,         \* the last event recorded before recording was disabled
    flushedInFlight   \* the buffer was flushed under a request that holds it

memoryVars == <<recordingEnabled, variantArray, writeBuffer>>
uploadVars ==
    <<uploadQueue, probes, upload, calling, taskLeaked, countWrong>>
historyVars ==
    <<recorded, delivered, discarded, mayRepeat, optedOut, flushedInFlight>>

vars == <<providerVars, memoryVars, cache, uploadVars, historyVars>>

Calls ==
    {"main_loop", "dequeue_and_do_upload", "queue_http_request",
     "upload_finished", "exiting", "exited"}

TypeOK ==
    /\ ProviderTypeOK
    /\ recordingEnabled \in BOOLEAN
    /\ variantArray \in Seq(Event)
    /\ cache \in Seq(Event)
    /\ writeBuffer \in Seq(Event)
    /\ uploadQueue \in Seq(Task)
    /\ probes \in Nat
    /\ upload \in Upload \cup {NoUpload}
    /\ calling \in Calls
    /\ taskLeaked \in BOOLEAN
    /\ countWrong \in BOOLEAN
    /\ recorded \in 0..MaxEvents
    /\ delivered \subseteq Event
    /\ discarded \subseteq Event
    /\ mayRepeat \subseteq Event
    /\ optedOut \in 0..MaxEvents
    /\ flushedInFlight \in BOOLEAN

-----------------------------------------------------------------------------
(* Sequences of events and what they cost.                                 *)

First(s, k) == SubSeq(s, 1, k)

\* Errors in Without: the wrong end is removed, or nothing.
WithoutLast(s, k) == SubSeq(s, 1, Len(s) - k)

WithoutNone(s, k) == s

\* What is left of s when its first k elements are removed (remove_events).
Without(s, k) == SubSeq(s, k + 1, Len(s))

\* Where the events of a set are in s.
Positions(s, events) == {i \in DOMAIN s : s[i] \in events}

\* emer_persistent_cache_cost, summed over s: one unit for an event, two for a
\* large one, more than a request may hold for an oversized one.
CostOf(s) ==
    (Len(s) + Cardinality(Positions(s, Large)))
    + MaxRequestPayload * Cardinality(Positions(s, Oversized))

\* How many elements are taken from s, in order, until the next one would
\* exceed the given room.
LongestPrefix(s, room) ==
    {k \in 0..Len(s) : /\ CostOf(First(s, k)) <= room
                       /\ k < Len(s) => CostOf(First(s, k + 1)) > room}

MaxUploadSize(task) ==
    IF task \in TimerTask THEN MaxRequestPayload ELSE GMaxSize

Idle == calling = "main_loop"

InFlight == upload # NoUpload

\* An upload whose success would still remove events.
Uncancelled == InFlight /\ ~upload.cancelled

\* An error in Cancelled: the upload is forgotten.
NeverCancelled(u) == u

\* g_cancellable_cancel does nothing when there is no upload.
Cancelled(u) == IF u = NoUpload THEN u ELSE [u EXCEPT !.cancelled = TRUE]

-----------------------------------------------------------------------------
(* The functions that the sources of the main loop share.                  *)

\* An error in RoomInCache: write_buffer->len is not counted.
RoomWithoutWriteBuffer(stored) == MaxCacheSize - CostOf(stored)

\* The room that emer_circular_file_append sees.
RoomInCache(stored) == MaxCacheSize - CostOf(stored \o writeBuffer)

\* An error in KeepUnstored: the whole buffer is taken to be stored.
KeepNone(buffer, k) == <<>>

\* What flush_to_persistent_cache leaves in a buffer of which k events have
\* been stored.
KeepUnstored(buffer, k) == Without(buffer, k)

\* flush_to_persistent_cache, for a buffer and a cache that the calling step
\* may have changed already.  The append loop of emer_persistent_cache_store
\* stops at the first event that does not fit; the save writes what was
\* appended, now and earlier.  A save that fails leaves both the buffer and
\* the elements that were appended: they will be stored twice.
FlushToPersistentCache(buffer, stored, repeated) ==
    IF ~recordingEnabled \/ buffer = <<>>
    THEN /\ variantArray' = buffer
         /\ cache' = stored
         /\ mayRepeat' = mayRepeat \cup repeated
         /\ UNCHANGED writeBuffer
    ELSE \E k \in LongestPrefix(buffer, RoomInCache(stored)) :
            \/ /\ variantArray' = KeepUnstored(buffer, k)
               /\ cache' = stored \o writeBuffer \o First(buffer, k)
               /\ writeBuffer' = <<>>
               /\ mayRepeat' = mayRepeat \cup repeated
            \/ /\ "save" \in Faults
               /\ variantArray' = buffer
               /\ cache' = stored
               /\ writeBuffer' = writeBuffer \o First(buffer, k)
               /\ mayRepeat' = mayRepeat \cup repeated \cup Range(First(buffer, k))

\* An error in RemoveAll: the events on disk are kept.
RemoveNothing == UNCHANGED <<cache, mayRepeat>>

\* emer_persistent_cache_remove_all, when recording is disabled.
RemoveAll ==
    \/ /\ cache' = <<>>
       /\ UNCHANGED mayRepeat
    \/ /\ "purge" \in Faults
       /\ UNCHANGED cache
       /\ mayRepeat' = mayRepeat \cup Range(cache)

\* on_permissions_changed, the handler of notify::daemon-enabled, for the
\* permissions the step has just set.
OnPermissionsChanged(currentUpload) ==
    /\ recordingEnabled' = DaemonEnabled(permissions')
    /\ IF DaemonEnabled(permissions')
       THEN /\ upload' = currentUpload
            /\ UNCHANGED <<variantArray, cache, discarded, mayRepeat,
                           optedOut>>
       ELSE /\ upload' = Cancelled(currentUpload)
            /\ variantArray' = <<>>
            /\ RemoveAll
            /\ discarded' = discarded \cup Range(variantArray) \cup Range(cache)
            /\ optedOut' = recorded

\* emer_permissions_provider_get_server_url, which reloads the permissions
\* when the URL has to be completed, and so notifies the daemon.
GetServerUrlNotifying(currentUpload) ==
    /\ GetServerUrl
    /\ IF UrlNamesEnvironment
       THEN OnPermissionsChanged(currentUpload)
       ELSE /\ upload' = currentUpload
            /\ UNCHANGED <<recordingEnabled, variantArray, cache, discarded,
                           mayRepeat, optedOut>>

\* finish_network_callback: the upload is over, and the signal that says so
\* is emitted.
FinishNetworkCallback ==
    /\ upload' = NoUpload
    /\ calling' = "upload_finished"

-----------------------------------------------------------------------------
(* Recording.                                                              *)

\* Why buffer_event drops an event; the first alone is an error in the second.
Overflows(event) == CostOf(Append(variantArray, event)) > MaxBytesBuffered

Dropped(event) == event \in Oversized \/ Overflows(event)

\* emer_daemon_record_singular_event, emer_daemon_enqueue_aggregate_event and
\* buffer_event.  An event is dropped, too, when its time cannot be corrected by
\* the boot offset, and anything but an oversized event may be dropped or kept
\* once num_bytes_buffered is wrong.
RecordEvent ==
    /\ Idle
    /\ recordingEnabled
    /\ recorded < MaxEvents
    /\ recorded' = recorded + 1
    /\ LET event == recorded + 1 IN
       \/ /\ Dropped(event) \/ countWrong \/ "clock" \in Faults
          /\ discarded' = discarded \cup {event}
          /\ UNCHANGED variantArray
       \/ /\ ~Dropped(event) \/ (countWrong /\ event \notin Oversized)
          /\ variantArray' = Append(variantArray, event)
          /\ UNCHANGED discarded
    /\ UNCHANGED <<providerVars, recordingEnabled, writeBuffer, cache,
                   uploadVars, delivered, mayRepeat, optedOut,
                   flushedInFlight>>

-----------------------------------------------------------------------------
(* Upload requests.                                                        *)

\* The tasks of which the daemon holds a reference it will release.
LiveTasks ==
    Range(uploadQueue) \cup (IF InFlight THEN {upload.task} ELSE {})

\* The bound on outstanding probes; each request starts at most one.
MayRequest(task) ==
    /\ Idle
    /\ task \notin LiveTasks
    /\ probes + (IF InFlight THEN 1 ELSE 0) < MaxProbes

\* upload_events
PushUploadTask(task) ==
    /\ uploadQueue' = Append(uploadQueue, task)
    /\ calling' = "dequeue_and_do_upload"

\* emer_daemon_upload_events
UploadEvents ==
    \E task \in ExplicitTask :
        /\ MayRequest(task)
        /\ PushUploadTask(task)
        /\ UNCHANGED <<providerVars, memoryVars, cache, probes, upload,
                       taskLeaked, countWrong, historyVars>>

\* handle_upload_timer: reloads the permissions, rearms itself, and uploads.
HandleUploadTimer ==
    \E task \in TimerTask :
        /\ MayRequest(task)
        /\ GetEnvironment
        /\ OnPermissionsChanged(upload)
        /\ PushUploadTask(task)
        /\ UNCHANGED <<writeBuffer, probes, taskLeaked, countWrong, recorded,
                       delivered, flushedInFlight>>

\* dequeue_and_do_upload when upload_permitted says that recording is
\* disabled: the task at the head is returned with an error.
RefuseRecordingDisabled ==
    /\ calling = "dequeue_and_do_upload"
    /\ ~recordingEnabled
    /\ uploadQueue' = Tail(uploadQueue)
    /\ calling' = "upload_finished"
    /\ UNCHANGED <<providerVars, memoryVars, cache, probes, upload,
                   taskLeaked, countWrong, historyVars>>

\* The same when uploading is disabled; upload_permitted first flushes.
RefuseUploadingDisabled ==
    /\ calling = "dequeue_and_do_upload"
    /\ recordingEnabled
    /\ ~UploadingEnabled(permissions)
    /\ FlushToPersistentCache(variantArray, cache, {})
    /\ uploadQueue' = Tail(uploadQueue)
    /\ calling' = "upload_finished"
    /\ flushedInFlight' = \/ flushedInFlight
                          \/ Uncancelled /\ upload.numBuffer > 0
    /\ UNCHANGED <<providerVars, recordingEnabled, probes, upload,
                   taskLeaked, countWrong, recorded, delivered, discarded,
                   optedOut>>

\* The same when the upload is permitted: get_ping_socket asks for the URL and
\* the network monitor is asked whether it can be reached.
ProbeNetwork ==
    /\ calling = "dequeue_and_do_upload"
    /\ recordingEnabled
    /\ UploadingEnabled(permissions)
    /\ GetServerUrlNotifying(upload)
    /\ probes' = probes + 1
    /\ calling' = "main_loop"
    /\ UNCHANGED <<writeBuffer, uploadQueue, taskLeaked, countWrong,
                   recorded, delivered, flushedInFlight>>

\* Errors in FurtherUpload: the queue is not looked at again, or is not checked
\* to hold a request.
NoFurtherUpload == "main_loop"

UncheckedFurtherUpload == "dequeue_and_do_upload"

\* What handle_upload_finished calls.
FurtherUpload ==
    IF uploadQueue = <<>> THEN "main_loop" ELSE "dequeue_and_do_upload"

\* handle_upload_finished, run by each emission of upload-finished.
HandleUploadFinished ==
    /\ calling = "upload_finished"
    /\ calling' = FurtherUpload
    /\ UNCHANGED <<providerVars, memoryVars, cache, uploadQueue, probes,
                   upload, taskLeaked, countWrong, historyVars>>

-----------------------------------------------------------------------------
(* The answer of the network monitor, and the request it starts.           *)

\* How emer_persistent_cache_read may end for a limit of max: what is left in
\* the cache, how many of its first elements are in the request, and whether
\* the buffer may follow (emer_persistent_cache_has_more).  A zeroed tail is
\* cut off where the read meets it, or, when the metadata cannot be written (as in
\* a purge that fails), stays and keeps the buffer out of the request; corrupt
\* data empties the cache; any other error leaves the cache out of the request.
ReadOutcomes(max) ==
    LET Outcome(left, k) == [left |-> left, token |-> k, addBuffer |-> k = Len(left)]
        Unread(left) == [left |-> left, token |-> 0, addBuffer |-> TRUE]
        BeforeZeros == {k \in 0..Len(cache) - 1 :
                          "zeroed_tail" \in Faults /\ CostOf(First(cache, k)) <= max}
    IN  {Outcome(cache, k) : k \in LongestPrefix(cache, max)}
        \cup {Outcome(First(cache, k), k) : k \in BeforeZeros}
        \cup {Outcome(cache, k) : k \in {j \in BeforeZeros : "purge" \in Faults}}
        \cup (IF "read" \in Faults THEN {Unread(cache)} ELSE {})
        \cup (IF "corrupt" \in Faults THEN {Unread(<<>>)} ELSE {})
        \cup (IF {"corrupt", "purge"} \subseteq Faults THEN {Unread(cache)} ELSE {})

\* An error in BufferPrefixes: the buffer follows whatever the cache still has.
BufferPrefixesUnchecked(max, read) ==
    LongestPrefix(variantArray, max - CostOf(First(read.left, read.token)))

\* add_buffered_events_to_builders: how much of the buffer follows.
BufferPrefixes(max, read) ==
    IF read.addBuffer
    THEN LongestPrefix(variantArray, max - CostOf(First(read.left, read.token)))
    ELSE {0}

\* An error in CallsBack: a call that has been answered calls back again.
CallsBackAgain == Idle /\ probes' = probes - 1

\* A pending call of g_network_monitor_can_reach_async calls back, once.
CallsBack ==
    /\ Idle
    /\ probes > 0
    /\ probes' = probes - 1

\* handle_network_monitor_can_reach while another upload is in flight.
CanReachWhileInFlight ==
    /\ CallsBack
    /\ InFlight
    /\ UNCHANGED <<providerVars, memoryVars, cache, uploadQueue, upload,
                   calling, taskLeaked, countWrong, historyVars>>

\* The network cannot be reached: the buffer goes to the cache, and the task
\* at the head of the queue is returned but not unreffed.
CanReachUnreachable ==
    /\ CallsBack
    /\ ~InFlight
    /\ FlushToPersistentCache(variantArray, cache, {})
    /\ IF uploadQueue = <<>>
       THEN UNCHANGED <<uploadQueue, taskLeaked>>
       ELSE /\ uploadQueue' = Tail(uploadQueue)
            /\ taskLeaked' = TRUE
    /\ calling' = "upload_finished"
    /\ UNCHANGED <<providerVars, recordingEnabled, upload, countWrong,
                   recorded, delivered, discarded, optedOut, flushedInFlight>>

\* The network can be reached: create_request_body, whose result is the upload
\* in flight.
CanReachCreateRequest ==
    /\ CallsBack
    /\ ~InFlight
    /\ uploadQueue # <<>>
    /\ uploadQueue' = Tail(uploadQueue)
    /\ \E read \in ReadOutcomes(MaxUploadSize(Head(uploadQueue))) :
       \E n \in BufferPrefixes(MaxUploadSize(Head(uploadQueue)), read) :
           /\ cache' = read.left
           /\ discarded' = discarded \cup (Range(cache) \ Range(read.left))
           /\ upload' = [task      |-> Head(uploadQueue),
                         body      |-> First(read.left, read.token)
                                       \o First(variantArray, n),
                         token     |-> read.token,
                         numBuffer |-> n,
                         attempt   |-> 0,
                         phase     |-> "preparing",
                         cancelled |-> FALSE]
    /\ calling' = "queue_http_request"
    /\ UNCHANGED <<providerVars, memoryVars, taskLeaked, countWrong,
                   recorded, delivered, mayRepeat, optedOut, flushedInFlight>>

\* create_request_body fails after it has read the cache: the time cannot be
\* read.  The task is returned but not unreffed.
CanReachNoRequest ==
    /\ CallsBack
    /\ ~InFlight
    /\ uploadQueue # <<>>
    /\ "clock" \in Faults
    /\ uploadQueue' = Tail(uploadQueue)
    /\ \E read \in ReadOutcomes(MaxUploadSize(Head(uploadQueue))) :
           /\ cache' = read.left
           /\ discarded' = discarded \cup (Range(cache) \ Range(read.left))
    /\ taskLeaked' = TRUE
    /\ calling' = "upload_finished"
    /\ UNCHANGED <<providerVars, memoryVars, upload, countWrong, recorded,
                   delivered, mayRepeat, optedOut, flushedInFlight>>

\* queue_http_request: the URL is asked for, which may reload the permissions,
\* and the request is sent whatever they say.
QueueHttpRequest ==
    /\ calling = "queue_http_request"
    /\ GetServerUrlNotifying([upload EXCEPT !.phase = "sent"])
    /\ calling' = "main_loop"
    /\ UNCHANGED <<writeBuffer, uploadQueue, probes, taskLeaked, countWrong,
                   recorded, delivered, flushedInFlight>>

\* The body could not be compressed.
QueueHttpRequestFails ==
    /\ calling = "queue_http_request"
    /\ "gzip" \in Faults
    /\ FinishNetworkCallback
    /\ UNCHANGED <<providerVars, memoryVars, cache, uploadQueue, probes,
                   taskLeaked, countWrong, historyVars>>

-----------------------------------------------------------------------------
(* The answer of the server: handle_http_response and handle_backoff_timer. *)

Answered == Idle /\ InFlight /\ upload.phase = "sent"

\* What the daemon removes when an upload has succeeded: the events it read
\* from the cache, and as many events of the buffer as it has sent.  If the
\* buffer holds fewer than that, remove_events reads past its end
\* (HandleHttpResponseOutOfRange).
HandleHttpResponseSuccess ==
    /\ Answered
    /\ ~upload.cancelled
    /\ upload.numBuffer <= Len(variantArray)
    /\ delivered' = delivered \cup Range(upload.body)
    /\ \/ FlushToPersistentCache(Without(variantArray, upload.numBuffer),
                                 Without(cache, upload.token), {})
       \/ /\ "remove" \in Faults
          /\ FlushToPersistentCache(Without(variantArray, upload.numBuffer), cache,
                                    Range(cache) \cap Range(upload.body))
    /\ FinishNetworkCallback
    /\ UNCHANGED <<providerVars, recordingEnabled, uploadQueue, probes,
                   taskLeaked, countWrong, recorded, discarded, optedOut,
                   flushedInFlight>>

\* The upload was cancelled because recording was disabled: nothing is left of
\* what it held, so nothing is removed.
HandleHttpResponseCancelled ==
    /\ Answered
    /\ upload.cancelled
    /\ delivered' = delivered \cup Range(upload.body)
    /\ FinishNetworkCallback
    /\ UNCHANGED <<providerVars, memoryVars, cache, uploadQueue, probes,
                   taskLeaked, countWrong, recorded, discarded, mayRepeat,
                   optedOut, flushedInFlight>>

\* The answer is an error.  The server may have accepted the events all the
\* same, and then it may be sent them again.
ErrorAnswered ==
    /\ Answered
    /\ \/ UNCHANGED <<delivered, mayRepeat>>
       \/ /\ "answer" \in Faults
          /\ delivered' = delivered \cup Range(upload.body)
          /\ mayRepeat' = mayRepeat \cup Range(upload.body)
    /\ UNCHANGED <<providerVars, memoryVars, cache, uploadQueue, probes,
                   taskLeaked, countWrong, recorded, discarded, optedOut,
                   flushedInFlight>>

\* handle_http_response returns the task with an error: the upload was
\* cancelled, or the last attempt has failed, or the error is not one after
\* which the daemon tries again.
HandleHttpResponseGiveUp ==
    /\ ErrorAnswered
    /\ FinishNetworkCallback

\* An error in NextAttempt: the attempt is not counted.
SameAttempt(attempt) == attempt

\* ++callback_data->attempt_num
NextAttempt(attempt) == attempt + 1

\* An HTTP or parsing error before the last attempt: try again later.
HandleHttpResponseBackoff ==
    /\ ErrorAnswered
    /\ ~upload.cancelled
    /\ NextAttempt(upload.attempt) < NetworkAttemptLimit
    /\ upload' = [upload EXCEPT !.attempt = NextAttempt(@), !.phase = "backoff"]
    /\ UNCHANGED calling

BackedOff == Idle /\ InFlight /\ upload.phase = "backoff"

\* handle_backoff_timer: the same events, with a new time, are sent again.
HandleBackoffTimer ==
    /\ BackedOff
    /\ upload' = [upload EXCEPT !.phase = "preparing"]
    /\ calling' = "queue_http_request"
    /\ UNCHANGED <<providerVars, memoryVars, cache, uploadQueue, probes,
                   taskLeaked, countWrong, historyVars>>

\* The time cannot be read (get_updated_request_body).
HandleBackoffTimerFails ==
    /\ BackedOff
    /\ "clock" \in Faults
    /\ FinishNetworkCallback
    /\ UNCHANGED <<providerVars, memoryVars, cache, uploadQueue, probes,
                   taskLeaked, countWrong, historyVars>>

-----------------------------------------------------------------------------
(* The permissions.                                                        *)

\* on_set_enabled, the D-Bus method SetEnabled.
OnSetEnabled ==
    /\ Idle
    /\ \E enabled \in BOOLEAN : SetBothEnabled(enabled)
    /\ OnPermissionsChanged(upload)
    /\ UNCHANGED <<writeBuffer, uploadQueue, probes, calling, taskLeaked,
                   countWrong, recorded, delivered, flushedInFlight>>

WriteConfigFile ==
    /\ Idle
    /\ WriteConfigFileIdle
    /\ UNCHANGED <<memoryVars, cache, uploadVars, historyVars>>

EditConfig ==
    /\ EditConfigFile
    /\ UNCHANGED <<memoryVars, cache, uploadVars, historyVars>>

-----------------------------------------------------------------------------
(* The life of the process.                                                *)

\* What is in memory only is gone, and so is a config write that is still
\* scheduled.
MemoryLost ==
    /\ calling' = "exited"
    /\ recordingEnabled' = FALSE
    /\ variantArray' = <<>>
    /\ writeBuffer' = <<>>
    /\ uploadQueue' = <<>>
    /\ probes' = 0
    /\ upload' = NoUpload
    /\ taskLeaked' = FALSE
    /\ countWrong' = FALSE
    /\ writeScheduled' = FALSE
    /\ discarded' = discarded \cup Range(variantArray) \cup Range(writeBuffer)
    /\ UNCHANGED <<permissions, configFile, diverged, recorded, optedOut,
                   flushedInFlight>>

\* The server may have accepted a request that was sent.
ProcessEnds ==
    /\ MemoryLost
    /\ \/ UNCHANGED <<delivered, mayRepeat>>
       \/ /\ InFlight
          /\ upload.phase = "sent"
          /\ delivered' = delivered \cup Range(upload.body)
          /\ mayRepeat' = mayRepeat \cup Range(upload.body)
    /\ UNCHANGED cache

\* quit_main_loop and the end of main, when no task holds a reference to the
\* daemon: emer_daemon_finalize flushes the buffer.
QuitFinalized ==
    /\ Idle
    /\ LiveTasks = {}
    /\ ~taskLeaked
    /\ FlushToPersistentCache(variantArray, cache, {})
    /\ calling' = "exiting"
    /\ UNCHANGED <<providerVars, recordingEnabled, uploadQueue, probes,
                   upload, taskLeaked, countWrong, recorded, delivered,
                   discarded, optedOut, flushedInFlight>>

\* The same when a task, live or leaked, holds a reference: the daemon is not
\* finalized.
QuitReferenced ==
    /\ Idle
    /\ LiveTasks # {} \/ taskLeaked
    /\ calling' = "exiting"
    /\ UNCHANGED <<providerVars, memoryVars, cache, uploadQueue, probes,
                   upload, taskLeaked, countWrong, historyVars>>

ProcessExits ==
    /\ calling = "exiting"
    /\ ProcessEnds

\* The process is killed, or the machine goes down.
Killed ==
    /\ "kill" \in Faults
    /\ calling # "exited"
    /\ ProcessEnds

\* The network can be reached, but the queue is empty: the data of a NULL task
\* is read.
CanReachWithoutTask ==
    /\ Idle
    /\ probes > 0
    /\ ~InFlight
    /\ uploadQueue = <<>>
    /\ ProcessEnds

\* The upload has succeeded, but the buffer is shorter than what was sent of
\* it: remove_events reads freed events past its end, which ends the process or
\* leaves a wrong num_bytes_buffered; GLib then refuses to remove the range.
RemovedOutOfRange ==
    /\ Answered
    /\ ~upload.cancelled
    /\ upload.numBuffer > Len(variantArray)
    /\ delivered' = delivered \cup Range(upload.body)

HandleHttpResponseOutOfRange ==
    /\ RemovedOutOfRange
    /\ \/ /\ cache' = Without(cache, upload.token)
          /\ UNCHANGED mayRepeat
       \/ /\ "remove" \in Faults
          /\ mayRepeat' = mayRepeat \cup (Range(cache) \cap Range(upload.body))
          /\ UNCHANGED cache
    /\ MemoryLost

HandleHttpResponseOutOfRangeSurvived ==
    /\ RemovedOutOfRange
    /\ \/ FlushToPersistentCache(variantArray, Without(cache, upload.token), {})
       \/ /\ "remove" \in Faults
          /\ FlushToPersistentCache(variantArray, cache,
                                    Range(cache) \cap Range(upload.body))
    /\ countWrong' = TRUE
    /\ FinishNetworkCallback
    /\ UNCHANGED <<providerVars, recordingEnabled, uploadQueue, probes,
                   taskLeaked, recorded, discarded, optedOut, flushedInFlight>>

\* The daemon is started: the permissions are read, recording is set from
\* them, and emer_daemon_constructed, asking for the environment, makes the
\* provider notify it.
Start ==
    /\ calling = "exited"
    /\ GetEnvironment
    /\ OnPermissionsChanged(NoUpload)
    /\ calling' = "main_loop"
    /\ UNCHANGED <<writeBuffer, uploadQueue, probes, taskLeaked, countWrong,
                   recorded, delivered, flushedInFlight>>

-----------------------------------------------------------------------------

Init ==
    /\ configFile \in InitialConfigs
    /\ permissions = Loaded
    /\ writeScheduled = FALSE
    /\ diverged = FALSE
    /\ recordingEnabled = FALSE
    /\ variantArray = <<>>
    /\ cache = <<>>
    /\ writeBuffer = <<>>
    /\ uploadQueue = <<>>
    /\ probes = 0
    /\ upload = NoUpload
    /\ calling = "exited"
    /\ taskLeaked = FALSE
    /\ countWrong = FALSE
    /\ recorded = 0
    /\ delivered = {}
    /\ discarded = {}
    /\ mayRepeat = {}
    /\ optedOut = 0
    /\ flushedInFlight = FALSE

\* The rest of a source that has begun.
Continue ==
    \/ RefuseRecordingDisabled \/ RefuseUploadingDisabled \/ ProbeNetwork
    \/ HandleUploadFinished
    \/ QueueHttpRequest \/ QueueHttpRequestFails

NetworkMonitorAnswers ==
    \/ CanReachWhileInFlight \/ CanReachUnreachable \/ CanReachCreateRequest
    \/ CanReachNoRequest \/ CanReachWithoutTask

ServerAnswers ==
    \/ HandleHttpResponseSuccess \/ HandleHttpResponseCancelled
    \/ HandleHttpResponseGiveUp \/ HandleHttpResponseBackoff
    \/ HandleHttpResponseOutOfRange \/ HandleHttpResponseOutOfRangeSurvived

BackoffEnds == HandleBackoffTimer \/ HandleBackoffTimerFails

ProcessLife == QuitFinalized \/ QuitReferenced \/ ProcessExits \/ Killed \/ Start

Next ==
    \/ RecordEvent
    \/ UploadEvents \/ HandleUploadTimer
    \/ Continue
    \/ NetworkMonitorAnswers
    \/ ServerAnswers
    \/ BackoffEnds
    \/ OnSetEnabled \/ WriteConfigFile \/ EditConfig
    \/ ProcessLife

Spec == Init /\ [][Next]_vars

\* A source that has begun runs to its end; the main loop serves each of its
\* sources in turn, however often others become ready, so a pending answer or
\* timeout is not put off for ever (SF, because the dispatch of another source
\* is in between); GNetworkMonitor and libsoup answer every call.
Fairness ==
    /\ WF_vars(Continue)
    /\ WF_vars(ProcessExits)
    /\ SF_vars(NetworkMonitorAnswers)
    /\ SF_vars(ServerAnswers)
    /\ SF_vars(BackoffEnds)

FairSpec == Spec /\ Fairness

-----------------------------------------------------------------------------
(* Safety.                                                                 *)

\* What the daemon will remove when the upload in flight succeeds is what it
\* has sent: the token still names the events read from the cache, although
\* the cache has been appended to since, and the head of the buffer still is
\* the part of the buffer in the request.  (remove_from_persistent_cache and
\* remove_events in handle_http_response.)  The second half needs that nobody
\* flushed the buffer under the request.
SuccessRemovesWhatWasSent ==
    Uncancelled =>
        /\ upload.token <= Len(upload.body)
        /\ upload.token <= Len(cache)
        /\ First(cache, upload.token) = First(upload.body, upload.token)
        /\ ~flushedInFlight =>
              /\ upload.numBuffer <= Len(variantArray)
              /\ First(variantArray, upload.numBuffer)
                     = Without(upload.body, upload.token)

\* The events that the daemon still holds, in memory or on disk.
Held == Range(variantArray) \cup Range(cache) \cup Range(writeBuffer)

\* Every event given to the daemon is still held, or was accepted by the
\* server, or was dropped for one of the reasons the code states: the size of
\* the event or of the buffer, an opt-out, corrupt data, the end of the
\* process.  The exception, a flush of the buffer under the request that holds
\* it, is the subject of a run of its own.
NoEventLost ==
    ~flushedInFlight => 1..recorded \subseteq Held \cup delivered \cup discarded

\* Each function finds what it takes for granted: dequeue_and_do_upload a
\* request to pop, queue_http_request an upload in flight, a process that
\* starts an empty queue.
CallsAreJustified ==
    /\ calling = "dequeue_and_do_upload" => uploadQueue # <<>>
    /\ calling = "queue_http_request" => InFlight
    /\ calling = "exited" => uploadQueue = <<>>

\* No upload request is forgotten: while requests wait, a probe or an upload
\* is under way whose end will look at the queue again (dequeue_and_do_upload,
\* handle_upload_finished).
RequestsAreAttended ==
    Idle /\ uploadQueue # <<>> => probes > 0 \/ InFlight

Increasing(s) == \A i, j \in DOMAIN s : i < j => s[i] < s[j]

\* "In other words, the persistent cache is FIFO": as long as no save fails,
\* the cache followed by the buffer holds each event once, in the order of
\* recording.
StoredInOrder ==
    "save" \notin Faults => Increasing(cache \o variantArray)

\* A request holds an event that the server has already accepted only if an
\* answer was lost, a removal, a purge or a save failed, or the process ended
\* before the answer arrived.
DeliveredOnce ==
    InFlight /\ ~flushedInFlight =>
        Range(upload.body) \cap delivered \subseteq mayRepeat

\* "Discard any outstanding events": what was recorded before an opt-out is
\* gone from memory and from the cache, and the upload that may still hold it
\* is cancelled.  A disk that refuses the purge or an earlier save is the
\* subject of OptOutLeavesNothing.
OptOutDiscards ==
    Faults \cap {"save", "purge"} = {} =>
        /\ \A event \in Held : event > optedOut
        /\ Uncancelled => \A event \in Range(upload.body) : event > optedOut

\* Neither the buffer nor the circular file takes more than it may, counting
\* what a failed save has left in the write buffer.  (A wrong num_bytes_buffered
\* limits nothing.)
WithinLimits ==
    /\ ~countWrong => CostOf(variantArray) <= MaxBytesBuffered
    /\ CostOf(cache \o writeBuffer) <= MaxCacheSize

\* Once the scheduled write has run, no reader of the file
\* (read_config_file_sync, called by the upload timer and for the server URL)
\* undoes what SetEnabled has set: while the process lasts, recording changes by
\* SetEnabled, by a reader that comes before the write (see EnabledPersists), or
\* by the first reader after a write that failed or an edit of the file.
SettingKept ==
    [][permissions'.daemon # permissions.daemon =>
          calling = "exited" \/ OnSetEnabled \/ writeScheduled \/ diverged]_vars

\* A read of the cache may fail and leave all of it out of the request.
MaySkipCache == "read" \in Faults \/ {"corrupt", "purge"} \subseteq Faults

\* The server gets the events in the order of recording (create_request_body adds
\* the buffer only when nothing of the cache is left): when it has accepted one,
\* every earlier event that the daemon still holds was accepted or given up, too,
\* whatever is stored, sent again, kept by a failed removal or left out of a
\* request that was full.  The buffer does overtake a cache that cannot be read,
\* and what a failed save has left in the write buffer if the copy of it in the
\* buffer goes unsent (NothingLostWhenUploadingDisabled).
DeliveredInOrder ==
    ~MaySkipCache /\ ("save" \in Faults => ~flushedInFlight) =>
        \A sent \in delivered, event \in Held :
            event < sent => event \in delivered \cup discarded

-----------------------------------------------------------------------------
(* Liveness.                                                               *)

\* "the function to call once the upload completes": every upload request
\* comes to an end, whatever becomes of the network, the server, the disk and
\* the permissions.
RequestsComplete ==
    \A task \in Task : task \in LiveTasks ~> task \notin LiveTasks

\* "Don't get wedged by large event": if uploads go on succeeding, every event
\* the daemon holds gets out.
EventsGetOut ==
    []<><<HandleHttpResponseSuccess>>_vars =>
        \A event \in Event : event \in Held ~> event \in delivered \cup discarded

-----------------------------------------------------------------------------
(* What the code, its comments and its tests say, and the code does not    *)
(* always do.  Each of these is refuted by a run.                          *)

\* "The first batch, which were pending when the daemon was disabled, should
\* have been discarded": a request that is sent, again or for the first time,
\* holds no event recorded before an opt-out.
OptedOutNotResent ==
    [][QueueHttpRequest => \A event \in Range(upload.body) : event > optedOut]_vars

\* "Discard any outstanding events", even after a save that failed.
OptOutLeavesNothing == \A event \in Held : event > optedOut

\* "Make sure the Enabled property's value persists": recording is enabled or
\* disabled by SetEnabled only, as long as nobody edits the file.
EnabledPersists ==
    [][permissions'.daemon # permissions.daemon => OnSetEnabled]_vars

\* "The rest of the fields will be populated when the request is dequeued":
\* when a probe ends and no upload is in flight there is a request to dequeue.
ProbeFindsRequest == Idle /\ probes > 0 /\ ~InFlight => uploadQueue # <<>>

\* "the EmerPersistentCache in which to store metrics locally when they can't
\* be sent over the network": no event disappears unsent when only uploading
\* is disabled.
NothingLostWhenUploadingDisabled ==
    1..recorded \subseteq Held \cup delivered \cup discarded

\* "While an upload is ongoing, the GTask holds a ref to the EmerDaemon": when
\* none is, quitting finalizes the daemon, which stores the buffer if there is
\* room for it.
QuitStoresBuffer ==
    [][/\ Idle /\ calling' = "exiting"
       /\ LiveTasks = {}
       /\ recordingEnabled
       /\ CostOf(cache \o variantArray) <= MaxCacheSize
       => Range(variantArray) \subseteq Range(cache')]_vars

\* "if the event recorder is allowed to upload events": a request is sent only
\* while uploading is permitted.
SentOnlyWhenPermitted ==
    [][QueueHttpRequest => recordingEnabled /\ UploadingEnabled(permissions)]_vars

=============================================================================
