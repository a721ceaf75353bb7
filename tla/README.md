# Formal models of yt-metadata-service

TLA+ specifications of the Rust service under `rust/src`, their TLC runs and
their TLAPS proofs. Line references are to the repository.

## 1. The system

One process (axum on a multi-threaded tokio runtime) answers
`GET /api/v1/audio-url`. It turns a YouTube video id into a song document and
an MP3 on S3. Several requests are in flight at once; they share one Redis
connection, one Mongo database, one bucket, one semaphore of `MAX_CONCURRENCY`
permits, the temporary directory and the container's process limit. Requests
for the same video are not joined.

| Part | State it keeps | Operations | Hard behaviour |
|---|---|---|---|
| resolver (`resolver.rs`) | per request: the await it is at, the song in hand, its directory, its permit | `resolve`, `with_waveform` | every await interleaves with other requests; a JSON handler is dropped at any await when its client goes |
| stores (`services.rs:123-231`) | Redis documents with a TTL, Mongo documents, S3 objects | `cache_get/set`, `mongo_get/save`, `s3_has/get/put` | a call that fails may have taken effect; Redis is lost for good when its connection is; the process dies between two writes; upserts race |
| semaphore, directories (`services.rs:255-278`) | permits, FIFO queue, directories | `acquire_permit`, `mkdtemp`, `rmrf` | release on every path, dropped and panicking ones too |
| child processes (`services.rs:288-527`) | a child, two pipes, a side task | `yt_dlp`, `run_ffmpeg` | full pipes, timeout, kill, a process left behind by the child |
| SSE stream (`main.rs:118-160`, `services.rs:28-63`) | channel, registry of senders, ping task, resolve task | `register`, `emit`, `unregister`, `sse_resolve` | the stream ends only when three places have dropped their sender; two requests may get one token |
| dates (`resolver.rs:46-66`, `services.rs:607-627`) | none | `chrono_like_now`, `iso_to_bson_date` | calendar arithmetic |
| HTTP front (`main.rs:58-115,163-196`) | none | `cors`, `auth`, `audio_url`, `shaped` | order of the layers |
| `extract_video_id`, `peaks`, `scan_pcts`, `parse_hms`, `build_cookie_args` | none | pure | first-match parsing, floating-point bucket bounds |
| stderr loop of `run_ffmpeg` (`services.rs:478-516`) | line, duration, tail | progress, error tail | chunks cut anywhere, a cut by bytes in a `String` |
| configuration, bootstrap | read once | `from_env`, `Services::new` | empty entries of a list |
| Node service (`src/*.ts`) | – | the discontinued original | – |

What makes each part correct: nothing names an MP3 that is not there, and
nothing shown to a client or cached runs ahead of the durable record
(resolver and stores); no permit, queue place, directory or child is lost on
any path (semaphore, directories, children); a run ends, completely or with an
error, and never blocks its child (children); a stream tells its own outcome,
shows its own steps in order, and ends (SSE).

`PROJECT.json` lists the parts, the hazards by line, the map from definitions
to lines, and the runs.

## 2. The modules

| Module | Models | Used by |
|---|---|---|
| `Resolver` | `resolve`, `with_waveform` and the services they call, for a set of request slots | everything below |
| `SongStore` | the abstract promise: audio, record, cache, answers | refinement |
| `ResolverStore` | the refinement mapping from `Resolver` to `SongStore` | `MCResolver`, proofs |
| `MCResolver` | TLC instances of `Resolver`, symmetry of slots | runs `resolver_*` but `resolver_live` |
| `ResolverProofs` | type correctness, the balance of permits, the control graph; audio before record, durability, refinement, `createdAt` | TLAPS |
| `ResolverLimitProofs` | the queue, jobs, directories, refused videos, harmless failures, a service in which nothing fails | TLAPS |
| `ResolverEventProofs` | that `ResolverEvents` implements `ResolveSteps` | TLAPS |
| `SseStreamProofs` | types of the streams, the outcome before the end, the order of steps, the senders | TLAPS |
| `ChildRunProofs` | complete results, no child left, pipes that are read | TLAPS |
| `CivilDateProofs` | both date conversions, for every year | TLAPS |
| `ChildOutputProofs` | loops and folds over an output of any length; progress and tail | TLAPS |
| `PartsProofs` | that `MCParts` behaves as each of its parts; dates, waveform, front, saves, video ids, the output of ffmpeg | TLAPS |
| `SongsCollection` | the upsert of one video inside Mongo, below the atomic save of `Resolver` | `MCParts`, run `songs_unindexed` |
| `ResolveSteps` | the abstract promise of one `resolve`: its steps and how it may end in each | `SseStream`, refinement |
| `ResolverEvents` | `Resolver` with the step each request announced last; that it implements `ResolveSteps` | run `resolver_live` |
| `SseStream` | SSE requests on one registry: their tasks and clients | runs `sse_*` |
| `ChildRun` | one run of `yt_dlp` or `run_ffmpeg` | run `child_run` |
| `CivilDate` | the two date conversions, against the calendar | `MCParts` |
| `Peaks` | the buckets of `peaks`, with rounded bounds | `MCParts` |
| `HttpFront` | one request through CORS, auth, routes and the checks of `audio_url` | `MCParts` |
| `VideoId` | `extract_video_id` next to the function it is a port of | `MCParts` |
| `ChildOutput` | the stderr loop of `run_ffmpeg`: lines, progress, tail | `MCParts` |
| `MCParts` | a TLC instance of `SongsCollection` and the last five, side by side | run `parts` |

Definitions named "Faulty variant of X" are plausible bugs of X, kept so that
each property can be seen to fail on one; no specification uses them.

### Resolver

`pc[r]` is the await at which the request of slot `r` is suspended. Code
between two awaits runs without giving way, so an action is one awaited call,
its result and everything up to the next await: `CacheGet`, `MongoGet`,
`CacheFill`, `S3Has`, then `YtInfo`, `SaveFound`, `CacheFound` for an MP3
without a record, `Mkdtemp`, `Acquire`, `YtDlp`, `Ffmpeg`, `S3Put`, `Save`,
`CacheSong`, `RemoveDir` for a fresh song, and `WithWaveform`, `WfAcquire`,
`WfS3Get`, `WfFfmpeg`, `WfSave`, `WfCache`, `WfRemoveDir` for a backfill.

| Variable | In the code |
|---|---|
| `pc`, `vid`, `doc`, `status` | the future of `resolve`: its await, `video_id`, `song`, its result |
| `redis`, `redisUp` | the keys `song:<id>`; the one `MultiplexedConnection` |
| `mongo` | the collection `songs` |
| `s3` | the objects, by video (the key is a function of the id) |
| `avail`, `ahead` | `Services::sem` and its waiters in arrival order |
| `dirs`, `orphans` | directories in the temporary directory; processes that no request waits for: children that outlive their request, and what a killed yt-dlp leaves running |

Abstractions:

- A document is a pair: whether it has a waveform, and whether `createdAt` is
  an ISO string, a Date or null. Title, artist and URLs do not affect control.
- A save or an upload that is reported failed may have happened or not. A call
  whose request is abandoned either took effect before or never does; a save
  that lands after its request has gone is one of the savers of
  `SongsCollection`, which nothing waits for.
- A save is one atomic step per video. `SongsCollection` shows that an upsert
  on a collection with the unique index is one.
- S3 objects are not deleted: the service never does so. A Redis value that is
  not JSON is a miss, which `CacheGet` includes only as an error of Redis.
- `rmrf` of an abandoned request that had already begun runs to its end, since
  tokio does the removal on a thread of its own.
- Restarted requests of a slot are new requests; `Crash` empties every slot
  and makes a new semaphore and connection, as `Services::new` does, and
  leaves stores and directories.

The CONSTANT `Faults` says what may go wrong in an instance: errors of
`"redis"`, `"mongo"`, `"s3"`, of child processes (`"proc"`), of the `"disk"`;
a yt-dlp killed at its timeout that leaves a process of its own running
(`"leftover"`, services.rs:355-359: the ffmpeg it downloads through, or the
JavaScript runtime of `yt_info`); dropped JSON handlers (`"cancel"`), a `"panic"` in `run_ffmpeg`, a `"crash"`
with restart, a `"reset"` of the database under the service.

### SongsCollection

`mongo_save` as the server runs it: find a match, else insert. The unique index
on `videoId` was declared by the Node service (`src/db.ts:23`); the Rust code
creates none, so both cases are modelled. With the index, `AtomicSave` says
that each upsert is one atomic enrichment of one record: the operator `Saved`
of `Resolver`. `NeverRefused` says that the update document never puts one path
in two operators and never sets `_id`.

### ResolveSteps and ResolverEvents

An SSE client sees of `resolve` the steps it announces and how it ends.
`ResolveSteps` says which step may follow which and which outcome may follow a
step. `ResolverEvents` adds a history variable to `Resolver`, the step that
each request announced last (`Emitted`, at the lines that call `emit`), and
`AnnouncesSteps` says that every request implements `ResolveSteps`, on every
path. `SseStream` takes its steps from the same operators, so what it shows of
streams holds with the resolver under them.

### SseStream

| Variable | In the code |
|---|---|
| `registry`, `token` | `STEPS`, and the key of each request in it |
| `task`, `step`, `outcome` | the spawned task that runs `resolve`: its next statement, the step announced, the result |
| `ping`, `pinged`, `aborted` | the ping task, the sender it holds, `ping.abort()` |
| `client`, `last`, `heard` | the receiver; the last event and the outcomes in the channel |

A token is a clock reading, chosen freely when a request opens: two requests
may share one. Then the registry holds the sender of the later, which gets the
steps of both, and the first of the two to end takes it out. The steps the
client sees may then be of another request, and it may see none; its outcome
is its own all the same, since that goes through the task's own sender
(`EofAfterOutcome`), and every stream ends (`StreamEndsUnlessPanic`). Pings
leave no trace; percentages repeat the step they belong to.

### ChildRun

The shape that `yt_dlp` and `run_ffmpeg` share: the caller drains one pipe
under the timeout, a spawned task drains the other, then `wait`, then the task
is joined. The child writes `MaxChunks` chunks at most to each pipe in any
order, hangs, fails or is killed at any time; with `Grandchild` it leaves a
process that holds both pipes. `wait` and the join are outside the timeout: the
model takes it that a child keeps its pipes until it exits and that what it
leaves behind holds both or none, as yt-dlp's ffmpeg does. Pipes do not fail: a
read error, which the code takes for the end of the pipe (services.rs:474, 487),
is left out. `NoChildLeft` is about the direct child; what that leaves behind is
`LeavesBehind` in `Resolver`.

### ChildOutput

Output is a sequence of marks: durations and times with their number, characters
of one byte or two, ends of lines. `Chunk` hands any one or two of them to the
loop, whose locals are `line`, `duration`, `tail` and `pct`, the percentage
announced last. `written` is the whole output, from which the two properties
say, with no reference to chunks, what must have been announced, what the tail
must be, and when cutting it panics: just when, at the end of a line, the
character `TailMax` bytes from the end straddles that place. That is the
panic which `Resolver` and `SseStream` take into account. A mark is whole: chunks
that cut a number or a character in two are not modelled, and a duration or a
time that `parse_hms` refuses (services.rs:631) counts as text.

### VideoId

An input is up to four pieces: markers, parts of markers, runs of 5, 11 or 12
id characters, a dot, a blank. Between them they give first places without an
id, ids that are too long or too short, markers in the middle of an id and
markers that overlap. `NodeVideoId` is the function of
`src/resolve.controller.ts` that the code is a port of, and the two differ.
The port looks for each marker once, at its first place: `?v=.?v=<id>` has an id
for Node, which goes on to the second place, and none for the port. And it tries
the markers one by one where Node takes the leftmost match of a whole pattern:
with `/v/<id>` before `/embed/<id>` they find different ids. `AgreesWithNode`,
checked and proved for all inputs, says that these are the only two differences
(`LaterPlace`, `TriedLate`), that only the first can make the port refuse what
Node accepts, and that the port never accepts what Node refuses.
`PortIsFaithful`, that there is no difference, is what resolver.rs:10 and
README.md:7 claim; run `video_id_port` refutes it.

### CivilDate

A walk through the calendar, day by day, next to the two conversions. Numbers
stay within 32 bits by keeping days and seconds apart; the program has 64.

### Peaks

A float is an integer mantissa of `Precision` bits, rounded to nearest, over a
power of two; `Start` and `End` are truncated products as in the code. For TLC
22 bits stand for 53; what has to fit is eight times the points times the
samples, which it does there and in the program (15 minutes are 7.2 million
samples at 8 kHz). The last sample is in no bucket for some counts, which
`BucketsCover` allows.

### HttpFront

`at` is the layer a request is in. `CorsIn`, `Auth`, `Route` and `AudioUrl`
either answer or pass it on, `CorsOut` adds its headers to what comes back.
Requests are all combinations of method, path, origin, key, input and `sse`,
under a key and a bucket set or not and several lists of origins, with blanks
and empty entries as `CORS_ORIGINS` may have them. Two things it makes plain: errors before
the stream are 400, 401 or 500 even with `sse=1`, where docs/API.md:103 says
always 200; and `/health` is behind auth, so docker-compose.yml:29 needs
`SERVICE_API_KEY` to be empty.

## 3. What is checked

Passing runs; request slots are symmetric unless liveness is checked.

| Run | Bounds | Shows |
|---|---|---|
| `resolver_faults` | 2 JSON slots, 2 videos, one too long, 1 permit, 1 process, every fault but reset | `PermitsBalance`, `QueueHasHead`, `AudioBeforeRecord`, `CacheNotAhead`, `AnswersAreDurable`, `CreatedAtIsDate`, `RecordsOnlyGrow`, `RefusedNeverUploaded`, `ImplementsSongStore` |
| `resolver_stream` | 3 SSE slots, 1 video, 1 permit, 2 directories, failing stores and processes, database reset | `JobsBounded`, `DirsAccounted`, `BackfillHarmless`, `RedisHarmless` |
| `resolver_live` | 2 SSE slots, 2 videos, one without audio, 1 permit, no faults, fair | `EveryRequestAnswered`, `RequestCompletesRecord`, `AnsweredWithWaveform`, `CacheCaughtUp`, `AnnouncesSteps` |
| `sse_stream` | 2 streams, 2 tokens, panics, fair | `EofAfterOutcome`, `StepsInOrder`, `StreamEndsUnlessPanic`, `SendersGo` |
| `child_run` | pipes of 2, up to 4 chunks each, a process left behind, fair | `OkIsComplete`, `NoChildLeft`, `ChildNeverStuck`, `RunReturns` |
| `parts` | every day of 1970 to 2410; up to 1500 samples, 200 buckets; every request; inputs of up to 4 pieces; output of up to 6 marks in chunks of 1 or 2, a tail of 3 bytes; 4 savers, unique index | `WritesTheDate`, `ReadsItBack`, `BucketsCover`, `CorsOnEveryAnswer`, `NoWorkUnchecked`, `AgreesWithNode`, `ProgressIsCurrent`, `TailIsEnd`, `NeverRefused`, `AtomicSave` |

`TypeOK` is checked once for each of `Resolver`, `SseStream`, `ChildRun` and
`SongsCollection` (there as `SongsTyped`).

Why these bounds. Two JSON slots on one permit give a holder and a waiter, or
two waiters of which one is dropped, and a slow and a fast request for one
video; videos interact only through the semaphore, the disk and the process
limit, and two of them let a refused and an accepted one share these. Three SSE
slots add a third request behind the head of the queue, and with room for two
directories the third finds the disk full. One child process at a time
(`ProcLimit = 1` in `resolver_faults`) makes spawns fail next to a running or an
orphaned child; `resolver_stream` has room for all. A slot serves any number of
requests in turn, so sequences are not bounded. Four chunks are more than a
pipe of two holds. Two streams on two tokens are alone or collide, at the same
time or one after the other; a third could only collide again. Six marks are
two lines with a duration and a time each, and twice a tail of three bytes; in
the program a chunk is 4096 bytes and a tail 500, and a line is as likely to
be cut. Four pieces are two markers with their ids. The Gregorian calendar
repeats after 400 years.

A few properties hold only where nothing they exclude goes wrong, and the run's
`Faults` says so: `JobsBounded` without dropped requests, panics and processes
that a killed yt-dlp leaves running; `DirsAccounted` without dropped requests,
panics, crashes and failing removals, so the directories that a crash or a
dropped request leaves behind for good are outside it; `BackfillHarmless` without
dropped or panicking requests; `CacheCaughtUp` and `AnsweredWithWaveform` without
faults. `JobsBounded` is thus no promise of the code. A killed yt-dlp breaks it
without any dropped request: `resolver_orphans` with `Faults = {"leftover"}` and
`Json = {}` ends in that state too. What does hold under every fault is
`ExceededByLeftovers` (section 4): the limit is exceeded only while such a process
runs. `AnnouncesSteps` is checked here where nothing fails;
`StepsAreAnnounced` proves it for failing calls and for dropped, panicking and
crashed requests too.
Adding `"cancel"` to the faults of `resolver_stream` shows a dropped request
leaving its work directory: the removal is an await after the inner block and
not the `finally` that resolver.rs:165 speaks of. `JobsBounded` counts
downloads and encodes; `yt_info` runs without a permit, as services.rs:369
says and README.md:101 does not.

Fairness. `Fairness` of `Resolver` asks that each request's own steps are not
put off for ever: every awaited call returns, since child runs are cut by a
timeout (`RunReturns`) and the Mongo and S3 drivers by theirs. The Redis
connection has none; that its calls return is an assumption. Granting a permit
needs no fairness of its own: the semaphore is FIFO, so a waiter at its head
stays enabled while a permit is free. Nothing is assumed of clients, TTLs or
orphans. In `SseStream` spawned tasks run, an aborted task stops, a client that
is there reads; in `ChildRun` the timer fires and nothing is assumed of the
child.

Disagreements. Each of these runs states what a document or a comment says and
TLC finds it violated by what the code does.

| Run | Claim | What happens |
|---|---|---|
| `resolver_orphans` | docs/API.md:140, at most `MAX_CONCURRENCY` jobs | a dropped request releases its permit, its child runs on; so does what a killed yt-dlp has spawned |
| `resolver_twice` | README.md:5, what is on S3 is not downloaded again | S3 is asked before the queue, not after it |
| `resolver_created_at` | services.rs:161, `createdAt` is a Date | an upsert of a document read from Mongo inserts null after a reset |
| `sse_panic` | openwiki/architecture.md:66, ends with `done` or `error` | `String::drain` inside a character (services.rs:509) panics; after that the stream pings for ever |
| `video_id_port` | resolver.rs:10, README.md:7, a 1:1 port of `extractVideoId` | of a marker that comes twice the port looks at the first place only |
| `songs_unindexed` | openwiki/architecture.md:16, unique `videoId` | two upserts insert two documents |

## 4. What is proved

TLAPS checks these for every value of the constants: any finite set of slots,
any videos, any limits, any faults, unless a theorem has a hypothesis. Where
one has, it is the one under which the property is checked (section 3), and no
stronger; each names faults that the code does not survive in that respect.
Every invariant below was first checked by TLC.

### Resolver

- `TypeInvariant`, `TypeCorrect`, `PermitsAreBalanced` (`ResolverProofs`).
  `TypeOK` is not inductive: a store can only be handed a song if a request
  about to save has one, `avail` stays within its bounds only if every release
  has a permit to give back, and `dirs` stays natural only if whoever removes a
  directory owns one. `TypeInv` adds these three: a song in hand wherever the
  code uses one, `PermitsBalance`, and at least as many directories as
  requests that own one. The proof has a lemma for what one step does to the
  control state (`StepMoves`), one that a move keeps each part (`MovesKeep`),
  with counting done once (`CountAfter`), and one for the stores. The same
  module has the control graph: `Flow` says which stages and results follow
  which, `StepFlows` that every action keeps to it, `StepAt` that a stage has
  one action. Later proofs walk the graph and not the actions.
- `AudioComesFirst` (`ResolverProofs`): `AudioBeforeRecord`. Inductive once it says that a request
  at a stage after the lookup found, or the upload put, its MP3 on S3.
- `CacheIsNeverAhead`, `AnswersAreKept`: `CacheNotAhead` and
  `AnswersAreDurable`, without resets. The strengthening `DurableInv` says of
  each stage what Mongo already holds of the song in hand: nothing before a
  save, everything after it, all but the new waveform during a backfill.
- `CreatedAtStaysDate`: `CreatedAtIsDate`, without resets. Added to it: a
  request about to save a new song brings an ISO string. A backfill may bring
  null, but by `DurableInv` it finds a record, whose `createdAt` stays.
- `ResolverImplementsSongStore`: initial states map to initial states and each
  step to a step of `SongStore` or a stutter, by the two invariants above.
  `RecordsGrow`: `RecordsOnlyGrow`. Both without resets.
- `StepsAreAnnounced` (`ResolverEventProofs`): `AnnouncesSteps`, under every
  fault. `StepFits` says of each stage which step was announced last. From
  there it is a walk over the control graph: each edge announces a step that
  may follow, none, or returns as the step allows.
- `QueueNeverStalls`, `OneHead` (`ResolverLimitProofs`): `QueueHasHead`, and
  that at most one waiter is at the head, under every fault. `QueueHasHead`
  says nothing of how the queue changes; `QueueInv` does: `ahead` is a strict
  total order of those who wait, and of nobody else. A step joins at the end,
  leaves (from any place: it may be dropped) or passes by, and each keeps the
  order. That an order on a finite set has a first element is `HeadExists`, by
  the well-foundedness of strict inclusion.
- `JobsStayBounded`: `JobsBounded`, without dropped or panicking requests and
  if a killed yt-dlp leaves nothing running; crashes are allowed. By
  `PermitsBalance`, since then no job is without a request.
  `ExceededByLeftovers`: under every fault, `JobsBounded` whenever no process is
  without a request.
- `DirsAreAccounted`: `DirsAccounted`, without dropped or panicking requests,
  crashes or failing removals. Inductive as it stands, with `TypeInv`: whatever
  call fails, the request that made a directory comes to its removal.
- `RefusedVideosStayOut`: `RefusedNeverUploaded`. Inductive once it says that
  nobody past the download has a refused video.
- `RedisFailsNobody`, `BackfillFailsNobody`: `RedisHarmless`, under every
  fault, and `BackfillHarmless`, without dropped or panicking requests and
  crashes. Both are walks over the control graph; the first also needs that a
  request has no result before it begins to clean up (`ResultInv`).
- `AnswersHaveWaveform`, `CacheCatchesUp`: `AnsweredWithWaveform` and
  `CacheCaughtUp`, without faults and with room for a directory and a process
  for each request (`Roomy`; without it a full disk makes a backfill give up).
  The second is about overtaking requests: one reads an old document, another
  makes the waveform, saves and caches it, and the first caches the old one
  over it. `BehindInv` says that Redis is behind Mongo only on a video that some
  request is about to refresh (`Refreshing`). Two lemmas carry it: whoever
  refreshes goes on or has cached the waveform (`RefreshGoesOn`), and whoever
  puts Redis behind is going to refresh it (`BehindIsRefreshed`).

### Streams and children

- `SseTypeCorrect`, `OutcomeThenEnd` (`SseStreamProofs`): `TypeOK` and
  `EofAfterOutcome`, for any requests and tokens and with panics. That a stream
  has ended says only that no sender is left, so the invariant `StreamInv` also
  says who still holds one: a request alone under its token is in the registry
  until it unregisters, for good if it panicked, so it cannot end without an
  outcome (`Kept`). What each channel holds is `Told` and `LastTold`; that
  another request's `emit` reaches it only under a shared token is `Keyed`.
- `StepsComeInOrder`: `StepsInOrder`. Added: whoever is alone under its token
  and reads has been shown the step its own `resolve` is in (`StepShown`).
- `SendersAreReleased`: of a request that has ended, and whose token no
  panicking request had, the registry holds no sender, and a ping task that
  still has one is aborted or belongs to a request under way. This is the
  safety half of `SendersGo`, the rest of which is that aborted tasks stop.
- `RunTypeCorrect`, `SuccessIsComplete`, `ReturnedIsReaped` (`ChildRunProofs`):
  `TypeOK`, `OkIsComplete` and `NoChildLeft`, for every capacity and output.
  `RunInv` adds that chunks are conserved between child, pipe and reader, that
  the end of a pipe, once seen, stays the end, although a process left behind
  holds it too, and what the caller has waited for at each statement.
- `NoDeadlockOnPipes`: while the child runs, a full pipe that it wants to write
  to has a reader. This is `ChildNeverStuck` without its `ENABLED`.

### The parts

`PartsProofs` shows of each part below that every behaviour of `MCParts` is one
of the part, which is at work or at rest; so what is proved of the part's own
specification holds there.

- `DatesAreWritten` (`CivilDateProofs`): for every date of every year, in any
  era, the numbers that `chrono_like_now` computes from its day are that date.
  `YearWritten` is its core: the formula with spans of 1460, 36524 and 146096
  days guesses the year of the era to the day. `DateIsTheCalendars`
  (`PartsProofs`) takes it to the walk: `WritesTheDate`, through any years from
  1970 on. `WalkInv` says that `count` is the number of the date; at the start
  of a year that needs the number of leap years counted one by one, which
  `LeapYears` compares to the quotients by way of the smallest year at which
  they would part.
- `DatesRoundTrip` (`CivilDateProofs`): `IsoToDate(ChronoLikeNow(days, secs))`
  is the same day and second, for all integers `days`. `DateIsReadBack`
  (`PartsProofs`): `ReadsItBack`. The integers are those of mathematics; the
  program's `i64` holds every day that a clock can show.
- `EverySampleCounts` (`PartsProofs`): `BucketsCover`, for every number of
  points, samples and bits with `8 * Points * MaxSamples <= 2^Precision`
  (`Precise`), hence for the program's 200, 7.2 million and 53. The room is
  enough, not needed; with 8 bits it fails at 201 samples. Before it is
  truncated, a bound is off by less than half a sample divided by the number of
  buckets (`BoundIsNear`): two roundings are off by at most half a unit of the
  last bit each, and `Shift` leaves four times the square of the number of
  buckets for one sample. So bounds rise by more than a sample if there are more
  samples than buckets (`BoundsRise`); if there are as many, every rounding is
  exact. The provers know nothing of `2^n`; `PowerSteps` gets
  `2^(n+1) = 2 * 2^n` from the library's count of the subsets of `1 .. n`.
- `NoWorkIsUnchecked`, `EveryAnswerHasCors` (`PartsProofs`): `NoWorkUnchecked`
  and `CorsOnEveryAnswer`. `FrontInv` says what the layers have checked of a
  request that has got so far.
- `UpdatesAreAccepted`, `SavesAreAtomic`, `IndexedIsUnique`, `SongsAreTyped`
  (`PartsProofs`): `NeverRefused`; with the unique index, `AtomicSave`,
  `UniqueRecord` and `SongsTyped`, for any number of savers. Added: a saver
  that holds a backfilled song has seen the record, which is not deleted.
  `AtomicSave` is what `Resolver` takes a save for. Without the index
  `SongsTyped` is not proved.

- `PortAgrees` (`PartsProofs`): `AgreesWithNode`, for inputs of any number of
  pieces, with any number of markers. Unless some marker has its id at a later
  place (`LaterPlace`), a pattern of the Node service matches just where the
  first place of one of its markers has an id; patterns are in the order of their
  markers, so both look at the same pattern first; and unless a marker is tried
  before one further left (`TriedLate`) the first that is tried has the leftmost
  place (`PartingWays`).
- `AnnouncesTheNewest`, `KeepsTheEnd` (`ChildOutputProofs`), and
  `ProgressKeepsUp`, `TailKeepsUp` (`PartsProofs`) of the parts side by side:
  `ProgressIsCurrent` and `TailIsEnd`, for every output, cut into chunks of any
  size, and every `TailMax`; the bounds `MaxOutput` and `MaxChunk` play no part.
  `OutInv` says of the state between two chunks, unless a cut had no place, what
  a reader of all that was written would say: `line` is what follows the last
  end of a line; `duration`, `pct` and `tail` are what the complete lines make
  them. A step takes a chunk mark by mark (`LoopInv`), so where the chunks were
  cut no longer matters. Two facts carry the tail: sizes add up over parts of an
  output (`SizeOfConcat`), and what an earlier cut dropped is not in the end of
  a longer text either (`Lost`, `TailStep`). For the progress, the newest line
  with a time and the duration known at it stay what they are while the output
  grows, until a new line takes their place (`LeadsStay`, `KnownAtEol`,
  `NewestStep`).
- Both rest on what a loop over a sequence computes. The library's induction
  theorems cannot be used here, so `LoopOf`, `FoldOf`, `FoldIsLoop` and
  `LoopGoesOn` show it by a least counterexample: a fold of the library is a
  function on the lengths of the prefixes, and if it were not the loop there
  would be a first length at which they part.

### Only model-checked

- Liveness: `EveryRequestAnswered`, `RequestCompletesRecord`,
  `StreamEndsUnlessPanic`, `SendersGo`, `RunReturns`. They rest on fairness,
  which the prover does not reach. `ChildNeverStuck` has an `ENABLED`.

## 5. Plan

Done: the modules of section 2 and the theorems above. Next:

1. `ChildRun` below `YtDlp` and `Ffmpeg`.

## 6. Not modelled

- Work directories that share a name (services.rs:262). Two requests in one
  clock tick would download into one directory; no document says what then
  holds.
- `scan_pcts`: both calls of `yt_dlp` pass no `on_pct`, so it is never reached.
- The lines `yt_dlp` collects and its tail of bytes; the choice of the info
  JSON among the lines.
- `shaped_value`, a projection of the document; the maximum within a bucket of
  `peaks` and its scaling; URLs and keys.
- `build_cookie_args`, which runs once and formats text; what yt-dlp does with
  the cookie file, which all its processes share.
- The rest of the configuration, whose numbers are the CONSTANTS of the models;
  deployment; the Node service but for `extractVideoId`.
