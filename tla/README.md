# Verification of the metrics event recorder daemon

The event recorder daemon of Endless OS accepts events over D-Bus, buffers
them, keeps them on disk when they cannot be sent, and uploads them to a metrics
server, unless the user has opted out. This directory holds TLA+ modules of the
daemon, the TLC configurations that check them, and TLAPS proofs.

Check one run with `tlc -config EmerDaemon_faults.cfg MCEmerDaemon` (a
configuration is named after its module and its run), and the proofs of a
component with `tlapm EmerDaemon_proofs.tla`. `PROJECT.json` lists the runs, the
mutants that show that each property can fail, and the source lines each
definition stands for.

## The system

| part | source | state | operations |
|---|---|---|---|
| upload protocol | `emer-daemon.c` | the buffer `variant_array`, the queue of upload tasks, the cancellable of the one upload in flight, its token, counts and attempts, `recording_enabled` | record an event, request an upload, upload timer, answers of the network monitor and of the server, backoff timer, permission changes, finalize |
| permissions provider | `emer-permissions-provider.c` | the key file in memory and on disk, one scheduled idle write | getters, setters, read again, write |
| persistent cache | `emer-persistent-cache.c` | the circular file, the boot offset with its key file, a periodic source | store, read, remove, purge, boot offset, version check at start |
| circular file | `emer-circular-file.c` | the ring of bytes on disk, head and size in memory, in a key file and on disk, the write buffer | append, save, read, remove, purge, open and resize |
| aggregate tally | `emer-aggregate-tally.c` | two SQLite tables of counters per day and month | store, iterate and delete, clear |
| aggregate timers | `emer-aggregate-timer-impl.c`, `emer-daemon.c` | the running timers, the timers of each D-Bus sender, the date being tallied | start, stop, sender vanished, midnight tick |
| boot-time source | `eins-boottime-source.c` | a kernel timer per source, and what has been read from it | add, check, dispatch, remove |
| D-Bus service | `emer-main.c` | the bus name and the objects | method calls, authorization, signals that quit |
| id, version and size providers, gzip, tools | the other files | none, or one file | read, write |

How they interact. Everything runs in one thread, on a GLib main loop: a source
(a D-Bus call, a timer, an answer) runs to its end before the next. What is
concurrent is the order of the sources, and what lies between two of them: the
probe of the network, the HTTP request, the backoff and the idle write of the
config file all span several turns of the loop. The provider tells the daemon of
a change by a property notification, which is a call: asking the provider for
the environment reads the file and may call back `on_permissions_changed` in
the middle of the function that asked. The end of an upload is a signal, whose
handler starts the next one. The daemon and the cache are tied by *tokens*: what
was read for a request is removed when the request has succeeded, long after.

What is hard: the token and the count of buffered events of a request must stay
valid over everything that happens before its answer; each queued request must
be attended to although a probe that ends at the wrong time does nothing; an
opt-out must reach every place where events are; each disk operation may fail
on its own; the process may be killed anywhere. What makes each part correct:

- upload protocol: a success removes exactly what was sent; no event is lost or
  sent twice except for a stated reason; every request ends; an opt-out leaves
  nothing; events are stored in order;
- permissions provider: what was set is what is read and what ends up on disk;
- circular file: a FIFO of elements, whatever the wrap-around, resizing, failure
  or crash; a file whose data and metadata always agree;
- persistent cache: relative times grow over reboots; old formats are never read;
- tally and timers: every second and every count is reported once;
- D-Bus service: only authorized callers change the permissions.

## The modules

`EmerPermissionsProvider` holds the state of the provider and its operations as
actions on that state. It is not run alone: the hazards are in what the daemon
does when it is notified.

`EmerDaemon` extends it with the upload protocol. The components below and
beside it have modules of their own, each checked with its own faults:

| module | models | meets the others |
|---|---|---|
| `EmerCircularFile` | the bytes and the metadata file of the circular file, one disk access at a time | implements `EmerFifo`, the FIFO that `cache` and `writeBuffer` of `EmerDaemon` are |
| `EmerFifo` | the abstract specification: a bounded FIFO with tokens | |
| `EmerPersistentCache` | opening the cache, its version, the boot offset, over boots | the variants of the FIFO, whose times it corrects |
| `EmerAggregateTimers` | timers, senders, the tally, midnights, opt-out, shutdown | what it hands over is recorded by `RecordEvent` of `EmerDaemon` |
| `EinsBoottimeSource` | timeouts that go on while the machine sleeps | `ClockTickedMidnight` and `HandleUploadTimer` are its callbacks |

`MC...` modules give the constants their values, `..._proofs` modules hold the
theorems. The modules are not composed in one state space: what one knows of
another is the little the table says, and composing them would multiply
independent interleavings of one thread. Where a component is abstract in another
module, its failures are there too: the faults of `EmerDaemon` are what
`EmerCircularFile` does when a disk access fails.

State and code of `EmerDaemon`:

| variable | code |
|---|---|
| `permissions`, `configFile`, `writeScheduled` | `self->permissions`, the file, `write_config_file_idle_id` |
| `diverged` | history: a write of the file failed, or somebody edited it, since it was last read or written |
| `recordingEnabled`, `variantArray` | the fields of `EmerDaemon` |
| `cache`, `writeBuffer` | the elements the circular file has saved, and those it has appended only |
| `uploadQueue`, `upload` | `upload_queue`; the task and `NetworkCallbackData` whose cancellable is `current_upload_cancellable` |
| `probes` | calls of `g_network_monitor_can_reach_async` that have not called back |
| `calling` | the function that runs next in a source that has begun; `main_loop` between sources |
| `taskLeaked` | a finished `GTask` still holds a reference to the daemon |
| `countWrong` | `num_bytes_buffered` no longer is what the buffer costs |
| `recorded`, `delivered`, `discarded`, `mayRepeat`, `optedOut`, `flushedInFlight` | history: what became of the events; no step depends on them |

An action is a handler, or the part of one between two functions that change
state; `calling` then lets no other source in. The `Idle` guard of every handler
says that the loop runs one source at a time. `upload_permitted` and
`dequeue_and_do_upload` are `RefuseRecordingDisabled`, `RefuseUploadingDisabled`
and `ProbeNetwork`; `handle_network_monitor_can_reach` is the four `CanReach...`
actions; `handle_http_response` is `HandleHttpResponse...`. Notifications are
inside the action of the function that causes them (`OnPermissionsChanged`,
`GetServerUrlNotifying`).

Abstractions. An event is the number of its recording; its cost is one unit, two if it
is large, or more than a request may hold. An event keeps nothing of its payload, so
timestamps, serialization and compression are left out, but for their failures.
The cache is the sequence of the elements that can be read; the failures of its
operations are those of its disk accesses, of corrupt data (everything is
dropped) and of a tail that a power loss has zeroed (the read cuts it off; if that
fails, it stays in the file and the buffer is kept out of the request). One
task of each kind is enough names, since a name may be used again when its task
has ended. The network monitor and the server answer anything, in any order.
`remove_events` called with more events than there are reads freed memory: the
process dies, or goes on with a wrong `num_bytes_buffered`, and both are
modelled. Events with an id that is not a UUID are not recorded at all.

`EmerDaemon` starts a process on the cache its predecessor has saved. What a
removal or purge that fails does to the file later
(`EmerCircularFile_removal.cfg` below) is in `EmerCircularFile` only.

State and code of `EmerCircularFile`. The file is a sequence of cells: the
length of an element takes `HeaderCells` cells, as a little-endian integer that
is small, so all but the first are zero, and a cell of data is known by its
element and its place in it. A read that takes the wrong cells for a length gets
`Garbage` or zero, as the code would get some number. `data` and `metadata` are
the two files; `keyFile`, `maxSize`, `size`, `head` and `writeBuffer` the private
fields; `doing` the disk access that comes next, so that the process can die
between any two. Nothing syncs the data file before the metadata count it, so a
power loss (once in a run) may zero any number of the cells saved last, as the
code expects of it (it checks for lengths of zero); that no earlier cell is lost,
and that the metadata, which are replaced by a rename, reach the disk, is assumed.
`appended`, `refused`, `answer`, `powerLost` and `damaged` are history; `damaged`
says that one of the two things has happened that harm the file for good: a save
after a removal, or a purge, that failed (the key file in memory is then ahead of
the metadata file, and the save writes a head and a size that do not belong
together), or a reinitialization with less room than the data file takes. A
damaged file may return a token that exceeds the size. The unsigned size then
wraps round; in the model it is negative, which the metadata that are accepted,
append and save exclude as they would exclude a size near 2^64.

State and code of `EmerPersistentCache`: `timing` is the boot offset metadata file, `versionFile`
the local version file, `doing` the step of `emer_persistent_cache_initable_init` that comes
next, `clocks` the two clocks `update_boot_offset` read when it began. Real time is
`now`, which no clock shows; `CLOCK_REALTIME` is off by `skew`.

State and code of `EmerAggregateTimers`: `timers` and `monitored` are the two
hash tables, `tally` the rows of the database by type, period and event,
`tallyDate` and `midnightAt` the date of the last tick and the boot-time source of
the next. A handler is one action. Time is counted in units of which `Second`
make a second and `DayLength` a day, so that a timer can run for less than a
second. `worked`, `handed`, `stores` and `repeated` are history: how long timers ran, what
was handed over, how often something was rounded down, and whether rows that were
handed over could not be deleted.

## The runs

### Upload protocol

`Faults` names the operations that may fail: saving, removing, purging, reading,
corrupt data, a zeroed tail, the clock (with the boot offset), compression, an
answer that is lost, a kill, and the write of the config file.

| run | faults and instance | shows |
|---|---|---|
| `order` | failing removals and writes of the config file; 3 events, one of them large, both kinds of request, uploading may be forbidden | `StoredInOrder`, `OptOutDiscards`, `DeliveredInOrder`, `SettingKept`, `TypeOK` |
| `faults` | all that decide what becomes of events; 2 events | `SuccessRemovesWhatWasSent`, `NoEventLost`, `DeliveredOnce`, `WithinLimits` |
| `requests` | all but failing reads and purges; one small and one oversized event, a cache smaller than the buffer, 2 requests, 2 probes | `CallsAreJustified`, `RequestsAreAttended`, `RequestsComplete`, `EventsGetOut` |

Bounds: `MaxEvents` events, `MaxProbes` probes and requests outstanding at once
(two, so that one can overtake the other; each request starts at most one), two
attempts per request (one in `order`, since another one sends again what the first
has sent), a buffer and a cache of two events or three units (they fill,
and one may fill before the other). Three events are needed for an order that a
wrong removal or a partial flush disturbs, two for the rest. In `order` the second of
three is as large as a request, so that it does not fit after the first, and the
third would. Timer-driven requests hold at most two
events and explicit ones everything, so that a request may or may not reach the
buffer. The restriction of `faults` to the faults of events keeps the run under
two minutes: the omitted ones end a request early or delay it, which `requests`
has. `faults` starts with all permissions given; `EmerDaemon_missing_file.cfg` is the
same, and `SettingKept`, with a config file that may be missing, which takes longer and passes too.
`requests` in turn leaves out errors of reading and of purging the cache, since one
that never goes away keeps the events from getting out for ever.

`SettingKept` is an action property: no reader of the file undoes what `SetEnabled` has
set once it has been written. What the file says differs from what was set before
the write has run (see `EnabledPersists` below), after a write that failed, which the
code only logs, and after an edit of the file; it says what was set again after the next
write that succeeds. `order` has all of these.

`DeliveredInOrder` relates what the server has accepted to what the daemon still
holds: no event overtakes an earlier one, also if the earlier one did not fit in the
cache or in the request. There are two exceptions, which its premise names. A cache that
cannot be read is left out of the request, and the buffer is sent without it. And a flush
under a request (`NothingLostWhenUploadingDisabled` below) may have a failed save leave in
the write buffer what then is taken from the buffer without having been sent; it is
stored by a later save, behind events that have been sent in between.
`EmerDaemon_delivery.cfg` checks the same with saves and purges that fail, a zeroed
tail, lost answers and kills instead of edits, with one probe at a time.

Fairness. A source that has begun ends (WF of `Continue`, `ProcessExits`). The
main loop serves each ready source in turn, so an answer or a timeout that is
due is not put off for ever; other sources run in between and may disable it for
a moment, hence SF of `NetworkMonitorAnswers`, `ServerAnswers` and `BackoffEnds`.
GIO and libsoup complete every call, if only by a timeout. Nothing is assumed of
clients, of the upload timer, of the idle write or of success. `EventsGetOut`
therefore has its own premise: uploads go on succeeding.

### Circular file

| run | faults and instance | shows |
|---|---|---|
| `file_ring` | failing writes of data and metadata, kills, a power loss; files of 7 and 8 cells, 3 elements of 3 or 4 cells | `IsFifo` (refinement of `EmerFifo`), `OnlySavedIsRead`, `OpensAgain`, `PhysicalSizeLimited`, `TypeOK` |
| `file_resets` | everything but a power loss, also failing removals and purges and a lost metadata file; files of 7 and 10 cells and of none, 4 elements | `HarmlessUntilDamaged` |

The sizes are such that a length, or the data after it, is split by the end of
the file, that the head meets the tail, that an element fits or does not by one
cell, and that a smaller file keeps all elements or fewer. In `IsFifo` a save is one
step of the FIFO, the write of the metadata: the data written before it, whole or
in part, is not seen. Resizing is two steps, since it makes the file empty before
it replaces it: a crash in between loses everything, which the code accepts and
`EmerFifo` states. After a power loss what is kept is a prefix, whose last
element may have lost its contents. A removal that fails is not in `file_ring`: it
breaks the file, see `EmerCircularFile_removal.cfg`. `file_resets` shows that the
failure alone does not, nor the loss of the metadata file: until the file is
damaged, in the sense above, it opens, is not too long, is read as it was saved,
and the size never wraps round.

### Persistent cache

`cache_boots`: boots, restarts, kills, lost timing files, unreadable files, two
releases with different versions, a clock that is right or two units fast.
Five units of time are enough for two boots with a variant stored in each;
`OffsetExact`, `OneOrigin` and `OwnFormat` are also proved for any number.

### Timers and tally

| run | faults and instance | shows |
|---|---|---|
| `timers_conserved` | kills, deletions that fail, a database of another schema, a clock that is set back and right again, at any time; two timers of one client, days of two units, a second of two, one midnight | `DailyConserved` |
| `timers_liveness` | failing stores and clears, edits of the config file, kills; two clients, one unit a day | `TypeOK`, `TablesAgree`, `NothingAfterOptOut`, `GoneSendersStop`, `PastIsHanded` |

`MaxTimers`, `MaxTime` and `MaxHanded` bound a run. A month has two days, so that
both a day and a month end within a run of `timers_liveness`; in `timers_conserved` it
has one, so that every midnight ends both. `Passes` keeps a tick that is due from being
put off over another midnight: the main loop is idle nearly always, and a daemon
that has not run for a whole day after midnight was suspended, and gets the tick
when it wakes up (a suspend may last for days; it is the *delay* that may not).
The fault `late` drops this assumption. The proofs do not need it; `PastIsHanded` does:
a tick that comes a day late hands over the date at which it comes, like one after the
clock was set (`EmerAggregateTimers_late.cfg` below). That the clock is not set and that
deletions succeed are its other premises, and `timers_liveness` has neither.
`GoneSendersStop` says that the timers of a client that has left end for good: the calls
it still had in the queue may start some more, at most `MaxTimers` in all, and these
end, too.
`DailyConserved` bounds what is handed over from both sides: never more than was
worked, unless rows could not be deleted after they were handed over, which the
code accepts (it hands them over again), and never less but for the fraction of a
second each store drops.
`MonthlyConserved` is the same property for monthly rows: it does not hold.

Fairness: weak fairness of `ClockTickedMidnight` and of `SenderNameVanished` for
each sender, which are sources that stay ready until they are dispatched (the second
only while the sender is watched, and that it is as long as it has timers is what
`GoneSendersStop` needs of the two tables); the
daemon need not start and clients need not do anything.

### Boot-time source

`boottime_calls`: two sources, intervals of 1 to 3, suspends of up to six units,
reads that fail. `NeverTooOften`: a source is not called more often than its interval has
passed, however many expirations have gathered. Intervals of zero are left to
`EinsBoottimeSource_zero.cfg`, the only configuration that uses the fairness of the
module (a source that is ready is dispatched); the run stops when time does, so deadlock
is not checked.

### What the code does not do

Each of these runs refutes a sentence of the repository, which `PROJECT.json`
quotes.

| run | property | what happens |
|---|---|---|
| `optout_retry` | `OptedOutNotResent` | a request that failed before an opt-out is sent again after it, by the backoff timer, which does not look at the cancellable |
| `uploading_disabled` | `NothingLostWhenUploadingDisabled` | the buffer is flushed under the request in flight, whose success removes as many other events |
| `timers_monthly` | `MonthlyConserved` | timers restart every midnight, but only the last day of a month reaches the monthly tally |

Further configurations, which are not among the runs of `PROJECT.json`, show other
places where the code does not do what a reader of its comments would expect:

| configuration | property | what happens |
|---|---|---|
| `EmerDaemon_optout_saved.cfg` | `OptOutLeavesNothing` | events a failed save has left in the write buffer survive an opt-out and are stored by the next save |
| `EmerDaemon_enabled_persists.cfg` | `EnabledPersists` | the config file is read again (upload timer, server URL) before the idle write of `SetEnabled` has run: the setting is undone |
| `EmerDaemon_probe_request.cfg` | `ProbeFindsRequest` | two probes, one request: the second reads the data of a NULL task |
| `EmerDaemon_quit_stores.cfg` | `QuitStoresBuffer` | tasks returned by `handle_network_monitor_can_reach` keep the daemon alive, so that quitting does not store the buffer |
| `EmerDaemon_sent_permitted.cfg` | `SentOnlyWhenPermitted` | permissions are checked before the probe and not again |
| `EmerCircularFile_removal.cfg` | `OnlySavedIsRead` | a failed removal (or purge) leaves the new head in the key file in memory; the next save writes it to disk with a size that belongs to the old head |
| `EmerCircularFile_wraps.cfg` | `OpensAgain` | after that the token of a read may exceed the size, which wraps round when the token is removed: the file is refused at the next start |
| `EmerCircularFile_reinitialized.cfg` | `PhysicalSizeLimited` | reinitializing with a smaller maximum keeps the longer data file |
| `EmerCircularFile_zero.cfg` | `OpensAgainWithoutRoom` | a file with a maximum size of zero refuses its own head, zero, at the next start |
| `EmerPersistentCache_key_file.cfg` | `ResetHelps` | malformed boot offset metadata make both attempts fail, as only the circular file is reset |
| `EmerAggregateTimers_clock_set.cfg` | `PastIsHanded` | the tick does not follow the wall clock, and hands over its own date only: other rows stay |
| `EmerAggregateTimers_late.cfg` | `PastIsHanded` | nor does it make up for a midnight that passed while it was waiting to be dispatched |
| `EmerAggregateTimers_shutdown.cfg` | `StoredOnShutdown` | calls served between the shutdown and the end of the main loop start timers that are not stored |
| `EinsBoottimeSource_zero.cfg` | `ZeroIsReady` | an interval of zero disarms the kernel's timer |

## What is proved

`EmerDaemon_proofs` proves, for all values of the constants that satisfy
`ProviderAssumption`, `DaemonAssumption` and `NoUploadAssumption` (any numbers of
events, tasks, probes and attempts, any sizes, any set of faults):

- `TypeCorrect`, `CallsCorrect`: `TypeOK` and `CallsAreJustified`. They are one
  inductive invariant, `TypeInv`: that the queue is not empty when it is popped
  is needed for the queue to stay a sequence, and that `queue_http_request` has
  an upload for the upload to stay a record.
- `SuccessCorrect`: `SuccessRemovesWhatWasSent`, inductive with `TypeInv`
  (`SentInv`). The cache and the buffer are only appended to while a request is in flight
  (`SentKeptByAppending`, `FlushAppends`), or the request is cancelled
  (`SentKeptByPermissions`).
- `EventsCorrect`: `NoEventLost`, inductive with `SentInv` (`EventsInv`): a
  success removes events from the cache and from the buffer, and only what
  `SentInv` says of them shows that they are in what was delivered.
- `RequestsCorrect`: `RequestsAreAttended`, inductive with `TypeInv`.
- `SettingCorrect`: the action property `SettingKept`, inductive with `TypeInv`
  (`SettingInv`): unless a write is scheduled, has failed, or the file has been edited
  since, what the file would be read as (`Loaded`) has the setting that is in memory
  (`SettingWritten`). There are no hypotheses about faults or edits.

`EmerDaemonEvents_proofs` goes on from there, with the cache, the buffer and the
write buffer as sequences, under the same assumptions:

- `CostType`, `ConcatCost`: what a sequence of events costs is a number, and
  costs add up, so that room may be counted event by event. They rest on
  `PositionsType` and `PositionsConcat`: the large events of two sequences are those
  of one and those of the other.
- `StepMoves`: every step of the daemon leaves parts of the cache and of the buffer
  (`Stays`), records one event at the end of the buffer (`Records`), or flushes a
  prefix of what is left of it (`Flushes`). `StepUploadMoves` and `DeliveredStep`
  say the same of the upload and of what is delivered. The four theorems are
  about these few moves instead of the thirty actions.
- `OrderCorrect`: `StoredInOrder`, inductive with `SentInv`, with the fact that
  what is held has been recorded (`HeldRecorded`), and with an empty write buffer
  as long as no save fails.
- `DiscardsCorrect`: `OptOutDiscards`, inductive with `optedOut <= recorded`.
- `LimitsCorrect`: `WithinLimits`, inductive with `SentInv`.
- `OnceCorrect`: `DeliveredOnce`. An event may be at two places only if it may be
  repeated (`Repeats`), and so may one that is held although the server has
  accepted it, or that an upload which was cancelled still holds; `SuccessLeaves`
  is where it matters that a success removes what was sent.

`EmerPersistentCache_proofs`, for all values that satisfy
`CacheAssumption`: `OffsetCorrect`, `OriginCorrect` and `FormatCorrect`
prove `OffsetExact`, `OneOrigin` and `OwnFormat`, from one invariant that also says
what the files hold between two processes, and at each step of opening the
cache; `TypeCorrect` its types.

`EmerAggregateTimers_proofs`, for all values that satisfy `AggregateAssumption`:

- `TablesCorrect`, `OptOutCorrect` and `TypeCorrect` prove `TablesAgree`,
  `NothingAfterOptOut` and `TypeOK`, for every set of faults, also for those that no
  run combines. That a timer does not start in the future of the monotonic clock
  is why no counter is negative (`CounterType`).
- `DailyCorrect` proves `DailyConserved`, with two hypotheses. `TalliesKept`: no row
  fails to be stored or cleared, and the configuration file is not edited while
  the daemon is down; each of these loses rows, or keeps those that were to be
  cleared, and the property then fails. Kills, a database that is replaced, deletions
  that fail, suspends and clocks that are set are included. `CountersFit`: all the
  timers together do not run for longer than one counter can hold (136 years in
  the code).

  `DailyConserved` is not inductive. `Balanced`, which is, says for each event how what
  was worked, what its timers have run since they were last stored, what its rows
  hold and what was handed over add up (`Fits`), and that what was worked is at most
  `MaxTimers * time`. The second part is there for the clamp: with `CountersFit` no counter
  or row reaches the limit at which `Clamp` would drop seconds (`CounterFits`). That
  rows are empty while recording is disabled, and that disabling is an opt-out,
  come from the invariant of `OptOutCorrect`. Each step is then one of a few moves:
  timers move from those that run into the rows (`BalancedStopped`), rows are handed
  over (`DailyIterated`, `MonthlyIterated`), or time passes for all that run
  (`BalancedTick`); `BalancedMidnight` and `BalancedStart` do the first two in turn.
  What a set of timers or rows sums up to is split by the lemmas `SumSplit`,
  `SumBetween` and `SumOfNext` of `RecursionFacts`.

`EmerCircularFile_proofs` is about the circular file, for all values that satisfy
`CircularFileAssumption`: any length of a header, any lengths of elements, maximum
sizes and numbers of elements.

- `HarmlessFaults` is `HarmlessUntilDamaged`, with any set of faults.
- `Refinement` is `IsFifo`: every step of the file is a step of `EmerFifo`, or
  none. `ReadsOnlySaved`, `OpensEveryTime`, `DataFileLimited` and `TypeCorrect` are
  the invariants of the runs. These five assume `MetadataKept`: that saving the
  metadata does not fail in a removal or a purge, and that the metadata file is not
  lost. The code needs that: the configurations `removal`, `wraps` and
  `reinitialized` below the runs violate each of them otherwise. Failing writes of
  the data, metadata that fail to be saved by a save, a read or a resize, kills
  between any two disk accesses, and the power loss are all included.

The argument. `Inv(elems, pend, tainted)` says that the cells from the head on,
round the end of the file, are the records of the elements `elems`, that behind
them come cells that were zeroed (`tainted`) or nothing, that the write buffer is
the records of `pend`, and at each disk access of a save or of resizing what is
on the disk already. It is stated of three values that are no variables: a step is
shown to take the invariant of some elements to that of the elements the FIFO has
afterwards (`AppendStep`, `AddToSizeStep`, `RemoveStep`, ...), and `IInv` says that
such elements exist, unless the file is damaged. `ReadableIs` shows that what can be
read are then those very elements, so that the same lemmas give the invariants and
the refinement (`AppendRefines`, `SaveRefines`, ...).

`EmerCircularFileCells_proofs` holds the lemmas about cells: what a length that is
written is read as, whether it is split by the end of the file or not
(`RingRead`, `RingFacts`); that the records of a sequence determine it
(`Contents`); that appending, removing, zeroing and cutting cells appends, removes,
loses and cuts elements; that `Reading` and `TrimmedSize`, round by round, go over the
records one at a time. These two are recursive functions, and `RecursionFacts` has what
is needed of recursion, and of the sums of the community modules, which are folds:
that a function on the numbers that is defined by its predecessor exists and
satisfies its definition, and that a property of a set of numbers that holds of
zero and is passed on holds of all, which is derived from the smallest element of
a set, as the induction theorem of the library, which takes an operator, cannot be
applied.

`EinsBoottimeSource_proofs`: `NotTooOften` proves `NeverTooOften`, for any number of
sources and any intervals. What is inductive is that the expirations a source has
consumed, times its interval, fit in the time since it was added.

TLC checks each of these properties on its instance first. Only model-checked are
liveness (`RequestsComplete`, `EventsGetOut`, `GoneSendersStop`, `PastIsHanded`), which
is out of the prover's reach, and `DeliveredInOrder`.

## Not modelled, and what is left

- The D-Bus glue and its authorization: calls of other services, without state of
  their own. `SetEnabled`, `UploadEvents`, the timers and the signals that quit are
  actions; that a caller is authorized is decided by polkit.
- Providers of the cache size, the image version and the site id: functions that
  read one file. Gzip and `shared/`: functions without state, of which the models
  keep that they may fail. The tools, which are run by hand.
- Payloads, timestamps and serialization of events: nothing the properties tell
  apart.
- `EmerDaemon` is not composed with `EmerCircularFile`: its own faults say what the
  file may do to it. An abstract specification of delivery (recorded, delivered,
  discarded) that `EmerDaemon` implements would say no more than `NoEventLost`,
  `DeliveredOnce` and `OptOutDiscards` do together, which are proved.
- What is left: a proof of `DeliveredInOrder`. What should be inductive is that what has
  been neither delivered nor discarded is in the order of recording in the cache followed
  by the write buffer, and in the cache followed by the buffer, and that an upload holds
  all events before any it holds. Of the monthly rows `MonthlyConserved` does not hold,
  and no weaker balance is stated.
