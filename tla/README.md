# goindi: models, checks and proofs

goindi is a Go implementation of the INDI protocol: a **server** (a hub that
publishes the properties of its devices to any number of TCP clients and hands
their commands to the devices), a **client** (it mirrors the properties of a
server and waits for them to reach states), two **adapters** that make devices
of a camera and a mount, and a **conformance checker**. These TLA+ modules
model its logic; TLC checks them on small instances and TLAPS proves
the main results for every instance. Paths below are relative to `src/`.

## The system

| Component | State | Operations | Properties that make it correct |
|---|---|---|---|
| hub (`server/server.go`) | `conns`; per connection a bounded `queue`, `qbytes`, `closed`, BLOB `policy`; a reader, a writer and a ctx watcher goroutine | accept, read loop, `broadcast`/`send`/`enqueue`, `writeLoop`, `removeConn`, `snapshot`, `enableBLOB` | no send on a closed channel; a client's stream has no gap; a stalled client costs bounded memory and stalls nobody; every goroutine ends |
| lifecycle (`server/server.go` `Serve`, `AddDevice`, `acceptLoop`) | `devices`, `order`, `serveCtx`, listener, backoff | add a device, serve, accept with backoff | each `Starter` starts once; nothing outlives the ctx |
| dispatch (`server/server.go` `dispatchNew`, `inboundGuard`; `server/number.go`) | none but the guard's count | validate, then `HandleNew`, Alert, or an "ignored" reply | only valid commands reach a driver |
| property model (`server/property.go`, `device.go`) | a vector's state and members under a mutex | setters, `SetSwitch` rules, `snapshot` | the switch rule holds after any calls |
| wire (`server/xml.go`, `client/xml.go`), standard properties (`server/standard.go`, `ccd/properties.go`, `ccd/caps.go`) | none | constructors, `marshalDef`, `marshalSet` | what a client holds is what a property was at one moment |
| client store (`client/client.go`) | `store`, `order`, `Rev`s, `updated` channel, `closed`, message ring | `applyDef/Set/Del`, `fail`, `WaitFor`, `WaitRev`, `setAndWait`, `WaitDevices` | no lost wakeup, no stale acknowledgement, no answer lost to a dying connection |
| client BLOBs (`client/blob.go`) | sinks; one payload's base64 decoder and inflating counter (a goroutine) | sink registration, `readBlobVector`, `readOneBlob` | a payload is delivered whole or not at all; a writer is ended once; a sink cannot break the stream |
| FITS (`client/fits.go`, `fitsstream.go`), numbers (`client/parse.go`, `trackrate.go`) | header buffer, partial row, frame | decode at once, decode as a stream, parse | both decoders agree, and the frame is the image that was encoded |
| camera adapter (`ccd/ccd.go`) | `exposing`, `cancelExp`, `exposeDone`; `CCD_EXPOSURE`; the optional `CCD_FRAME`, `CCD_CONTROLS` | `HandleNew`, `startExposure`, `stopExposure`, `awaitFrame`, `defineCaps` | no overlapping exposures, no frame after its abort, Busy always ends; a setting shows what the camera took |
| mount adapter (`mount/mount.go`) | `connected`, `dualAxisCap`; `EQUATORIAL_EOD_COORD`, guide properties | `HandleNew`, goto and pulse goroutines, poll loop | target and action belong together, Busy means moving |
| conformance checker (`conform/conform.go`, `cmd/indiconform`) | `props`, `connectedByUs`, a report, a time budget | a sequence of checks through the client | verdicts are of the device and not of timing; a device is left as found |

**Interactions.** A device's goroutines and all clients' read loops call
`Publisher` methods of the hub, which put bytes into every client's queue; a
client's read loop calls the device's `HandleNew` directly, so two clients run
`HandleNew` of one device concurrently (DRIVERS.md says so and leaves the
serialisation to drivers). On the other side of the wire the client's read loop
applies elements to the store and announces each through the `updated` channel
that waiters hold; BLOB payloads bypass the store and go to a sink on the read
loop itself.

**What is hard.** Interleavings of read loops, device goroutines and writers
around one connection's teardown; a value marshalled in one step and queued in a
later one; capture-then-block in the waiters; deletion and redefinition under a
waiter; one payload failing in the middle; goroutines that outlive the command
that started them; two clients commanding one device. `PROJECT.json` lists every
such hazard at its line with the properties that watch it.

## Modules

Each component has a model, a `...Properties` module, an `MC...` module with the
constants of its runs, and a `...Proofs` module. ServerProofs has the proofs of Settings and
Lifecycle, CameraProofs those of Ccd and Fits; for that, Lifecycle and Fits give their
`Init`, `Next`, `Spec` and `vars` a prefix. An action is one
critical section, channel operation, socket operation or device call, so every
interleaving the Go scheduler can produce at that grain is explored. A
definition named `X_Something` in front of `X` is a plausible mistake in the
code that `X` models; the properties are shown to notice it.

* **Feed** -- what a connection promises: messages are admitted to an ordered
  stream and delivered from its head until it is cut. No gap, no reordering, no
  duplicate.
* **Hub** -- `Accept`, the read loop (`GetProperties`, `EnableBLOB`, `Command`,
  `Reject`, `Ignore`, `ReadFails`), `Publish` of a device goroutine, and for each
  caller the steps of a publication: `Marshal` (the value is read *here*),
  `SnapshotConns`, `Visit` (`wants`), then `enqueue` under `qmu` as `Admit`,
  `Gone` or `Full`; `removeConn` in its three critical sections `Unregister`,
  `CloseQueue`, `HangUp`; the writer's `Receive`, `Account`, `Write`,
  `WriteFails`, `Drained`; the watcher's two arms. `chan = "panic"` stands for a
  send on, or close of, a closed channel. **HubProperties** also maps the hub to
  `Feed`.
* **Client** -- the read loop (`applyDef`, `applySet`, `applyBlobMeta`,
  `applyDel`, `addMessage`, `fail`) and the calls of any number of waiters, with
  the capture of `updated`, the look and the select as separate steps. `updated`
  is a generation number: a held channel is closed iff it is not the current one.
* **Blob** -- registration of sinks, the token loop over vectors and payloads,
  `b64Writer` (a count of characters left over from the last token, a padding
  flag), the writer of the payload, its end by `Close` or `CloseWithError`, and
  the inflating goroutine behind an `io.Pipe`.
* **Ccd** -- `HandleNew` in the steps at which it can be interleaved (`Take`,
  `Join` with its 2 seconds, `Halt`, `StartCamera`, `Record`, `Busy`, `Spawn`),
  `awaitFrame` (`Leave`, `Tick`, `ReadFrame`, `SendBLOB`, `clearExposing`,
  `Finish`), the server's ctx, and a camera that integrates one exposure, can be
  unplugged, may refuse to abort one (`AbortFails`, remembered in `refused`; the code
  ignores the error), and wedges if a second one is started.
* **Mount** -- gotos (`Begin` with `withOp`, `SetTargetRA`, `SetTargetDec`,
  `Act`, `Report`), aborts, pulses and their timers, connects and disconnects
  with the dynamic `DUAL_AXIS_TRACKING`, the poll loop in its three steps, and the end
  of the context, which stops the poll loop and timers that are running (`TimerStops`); a
  mount with two target registers that slews and pulses. The history variable `crossed`
  says whether a DISCONNECT was handled during a CONNECT that no later one has mended.
* **Lifecycle** -- `AddDevice` as one section of `s.mu` at any moment of `Serve`
  (`Listen`, `Lock`, `StartDevices`, then `Accept`, `Fails` and `Resume` of the accept
  loop with its `backoff`), and the goroutine that closes the listener.
* **Settings** -- `dispatchNew` (`Dropped`, `Rejected`, `Outside`, `rejectNumber`) in
  front of the camera's other handlers: `CCD_FRAME` and `CCD_CONTROLS` as `Cam`, a write
  (`SetSubframe`, `SetControl`), `Read` (the read-back) and one `SetNumber` per member;
  `CCD_BINNING`; `CONNECTION` with `defineCaps` (`ReadCap`, `LockCap`, `PublishCap`).
  Every client's read loop runs them. `Publish` makes a definition or update visible
  at once; module Hub has its way to the clients. A number is an integer or `NaN`, which
  `ParseNumber` accepts: `Outside` compares it with bounds as Go does, so that it is never
  outside, and the camera gets what `int` makes of it (any of `NaNInts`, as Go leaves
  that to the processor).
* **Mirror** -- the composition of server and client: threads of the server set a
  property, `Marshal` it and `Offer` the message to one connection, which is an
  instance of `Feed` (what Hub is proved to implement), and the client's `applyDef`,
  `applySet`, `applyBlobMeta` and `applyDel` consume it. `SendBLOB` publishes a payload
  (`setBLOBVector`), whose state is Ok whatever the vector's is. `numVal` rounds a number
  as the wire does.
* **Fits** -- `DecodeFITS` as an operator on a payload and the number of bytes that
  arrived, `FITSWriter` as a state machine over any cut of them (`Write`: `consumeHeader`,
  `WholeRow`, `CarryRow`, `Padding`; `Close`), and `encodeFITS`. A byte is its position, so
  a byte read twice, lost or out of place shows; blocks of 3 bytes stand for 2880 and
  16-bit samples wrap at a constant half. Products of a header's sizes wrap as a machine's
  `int` does (`Wrap`, `IntMax`), and `size` panics (`panicked`) where Go's `make` does: at
  a length that is negative or more than can be allocated (`MaxAlloc`). A frame that wrapped
  to a smaller one panics where a row is converted into it.
* **Conform** -- `Run`: `Discover`, `Settle`, `Anchor`, `Inspect`, `checkContracts`,
  the four kinds of command as `Send`, `Settled`, `TimedOut` and `SendFails`, `Frame`,
  `Finish`, and the exit code of `indiconform`. The device is a record that says what it
  defines, how it answers and which switches of CONNECTION are On when it is connected and
  when it is not (any subset of the two; `Inspect` fails a vector that has not exactly
  one, and `Passes` tests the switch that the code tests); when that arrives is up to the
  environment.

Cameras, mounts, sockets' peers and users' sinks are not in the repository: they
are modelled as the code uses them, and marked external in the map.

## Checks

`tlc -config MC<M>_<run>.cfg MC<M>`. Passing runs:

| Run | Bounds | Shows |
|---|---|---|
| `hub_teardown` | 1 connection, 1 device goroutine that publishes anything once, 1 command of any kind, cancellation at any time, queue of 2 messages or 3 bytes; no fairness but the publisher's | `TypeOK`, `NoChannelPanic`, `Budget`, `Forgotten`, `GapFree`, `PolicyHonoured`, `FeedRefined`, `PublicationEnds`; `ConnsReaped`, which states the fairness it needs |
| `lifecycle_serve` | 3 devices, 2 of one name, 2 with a background loop; 2 clients, pauses of 1 to 3; Accept fails and recovers at any time, ctx ends at any time | `StartedOnce`, `ServeEnds` |
| `settings_two` | 2 clients with 2 of 18 commands each, NaN among them, 3 number vectors of 1 or 2 members, a camera that clamps and is unplugged at any time | `OutsideOnlyByNaN`, `Answered`, `ShowsDevice`, `PublishedIsCurrent` |
| `mirror_copies` | 4 properties of 4 types, one of them optional, 2 members; 2 publications by a driver, payloads of a BLOB vector among them, 1 getProperties | `ViewIsPast`, `Converges` |
| `client_live` | 1 waiter, 1 call of any kind, 2 devices, 4 elements, ring of 2 | `TypeOK`, `BlockedIsCurrent`, `FreshAck`, `DownIsFinal`, `RevCounts`, `WaitersWake` |
| `blob_payloads` | 1 payload of up to 3 tokens of 1, 3 or 4 characters, sizes 0, 2 and 3, compressed or not, 3 kinds of sink | `ClosedIsWhole`, `SinkSparesStream`, `InflaterReaped`, `ReadLoopReturns` |
| `fits_cuts` | images of up to 2 by 3 samples in every orientation and phase, unusable headers, headers whose sizes multiply to more than an int of 127 or an allocation of 64, camera frames of every sample value; up to 32 bytes, cut anywhere | `DecodesAlike`, `FrameIsImage` |
| `ccd_single` | 1 client, 4 commands of any kind, 3 exposures; a camera whose calls fail, aborts included, and that is unplugged; shutdown | `OverlapOnlyRefused`, `StopIsFinal`, `BusyEnds`, `ShutdownStops` |
| `mount_session` | 2 clients, 3 commands of any kind, 2 gotos, 2 positions, 2 pulses on 2 axes; shutdown at any time | `GotoPaired`, `CapsAgreeUncrossed`, `BusySettles` |
| `conform_devices` | 74 devices, with and without `-mutate`; anything arrives at any time or never, one loss of the connection, one end of ctx | `VerdictIsDevice`, `LeftAsFound`, `OnlyLive`, `RunEnds` |

**Why the bounds are enough.** A queue of two messages or three bytes is
overrun by count and by size with one publication and one command (a
getProperties queues a definition for every property, a rejection an update and a
message), and a definition is larger than the whole budget. A client sends one
enableBLOB at most: which of several scopes decides is left to the proof
(`WantsIsEntitled`). One connection suffices for the hub's safety: a step
touches one connection's state and the set `conns`, and what is proved is proved
for any number. Two positions that differ in both coordinates make any mix of
them visible. Tokens of 1, 3 and 4 characters cut a quad at every place, and
everything `readOneBlob` keeps is local to one payload. One waiter suffices
because waiters do not write what others read (the proofs cover any number). In
the mount, one client's gotos and pulses already overlap, as each has a
goroutine of its own; two clients are the least whose CONNECTION commands overlap, and
three commands let a third one mend what they did. No property counts higher than the bounds of the commands.
Two clients with two commands each are the least at which a handler both overlaps
another and follows one. In Mirror one connection and one device suffice, as neither
shares state with another; two publications of a driver are the least that can cross
a getProperties in both directions. A FITS payload of two rows of two samples has
every cut inside a row, between rows and in the header; an int of 127 is wrapped by
products of two and of three sizes, to nothing, a few pixels, too many and less than none.
The devices of Conform each have one fault at most, so that a verdict cannot be right for
the wrong reason.

Three configurations leave something out that the code can meet, `SlowRead = FALSE` in
`ccd_single`, its single client, and `Fails = {"write"}` in `blob_payloads`. What is left
out breaks the property: the next section says how to see it.

### Disagreements

Two runs expect a violation (`PROJECT.json` "findings" quotes the comments and documents
that they contradict):

* `ccd_overlap` (`NoOverlap`): two clients overlap exposures, as both stop what they find
  and both start the camera. `ccd_single` says what is left for one client: an exposure
  only starts over one that the camera refused to abort (`OverlapOnlyRefused`).
* `mount_caps` (`CapsAgree`): a CONNECT and a DISCONNECT of two clients cross, and
  clients are left with a `DUAL_AXIS_TRACKING` that `Properties` does not list.
  `mount_session` says when this can be, and what mends it (`CapsAgreeUncrossed`).

The models show more places where the code does something else than a comment or a
document says. They have no run of their own; to see one, check the named property
in the configuration named, changed as described:

| Property | Configuration | What happens |
|---|---|---|
| `InRange` | `MCSettings_two` | a member given as NaN is not rejected (`server.go:548`), is shown, and reaches the camera as whatever integer the processor makes of it, against "The server rejects [...] numbers outside declared bounds" (DRIVERS.md:62-63) |
| `RejectsAlike` | `MCFits_cuts` | a header of one block with large sizes makes `FITSWriter` panic, where `DecodeFITS` returns an error (`fits.go:66`), against "so the two agree on what they will accept" (`fitsstream.go:119`) |
| `NoOverlap` | `MCCcd_single`, `SPECIFICATION Spec` | one client, a refused abort: `stopExposure` drops the error (`ccd.go:382`) and the next exposure starts over the one that still integrates (`ccd.go:308`) |
| `StateIsPast` | `MCMirror_copies` | a payload of an Idle or Busy BLOB vector shows it as Ok (`server.go:631`, `client/blob.go:277`) |
| `ClientsEndCurrent` | `MCHub_teardown`, `SPECIFICATION Spec`, `Publisher = {d1, d2}`, `Requests = {}`, `Shutdown = FALSE` | two goroutines update one property; the older value can be queued last, and stays (`server.go:604`) |
| `HoldsWhatIsListed` | `MCMirror_copies` | the same end to end: a definition marshalled before a deletion is sent after it, and the client keeps a property that is no more |
| `EmptyQueueAdmits` | `MCHub_teardown`, `SPECIFICATION Spec` | between the writer's receive and its accounting, a message larger than the budget drops a client whose queue is empty (`server.go:94` says it is admitted) |
| `AckSeen` | `MCClient_live`, `Device = {d1}`, `Elements = {"def", "set", "del"}`, `Ops = {"SetAndWait"}`, `MaxElements = 6` | a property deleted and redefined during `setAndWait` restarts its `Rev`, and the acknowledgement goes unseen (`client.go:539`) |
| `EndedAnyway` | `MCBlob_payloads` | a stream that breaks in the middle of a payload leaves the sink's writer open (`blob.go:46`) |
| `SinkSparesStream` | `MCBlob_payloads`, `Fails = {"close"}` | an error of a sink's `Close` ends the connection, though the stream is in sync (`client.go:240`) |
| `StopIsFinal` | `MCCcd_single`, `SPECIFICATION Spec`, `SlowRead = TRUE` | a goroutine that outlived the 2 seconds of `stopExposure` sends its frame after the abort (`ccd.go:378`) |
| `BusyUntilFrame` | `MCCcd_single`, `Faults = FALSE`, commands `{"expose"}` | a finished exposure overwrites the next one's Busy with Ok (`ccd/properties.go:22`) |
| `ShowsCamera` | `MCSettings_two` | two clients set the frame at once: each handler reads the camera back, then sets the members, and the older reading can be set last (`ccd.go:205`) |
| `AbortIsFinal` | `MCMount_session`, `SPECIFICATION Spec` | a goto that has not reached `SlewToTarget` slews after an abort (`standard.go:79`) |
| `OkMeansArrived` | `MCMount_session` | the poll loop shows Ok between a goto's Busy and its slew (`mount.go:347`) |
| `BusyWhilePulsing` | `MCMount_session` | the first pulse's timer shows Ok while a second one moves the mount (`mount.go:414`) |
| `EqSettlesAlways` | `MCMount_session` | a disconnect during a slew leaves Busy for ever (`mount.go:347`) |
| `Restored` | `MCConform_devices` | a CONNECT that settles after the wait for it, or as Idle, is reported as failed and never undone (`cmd/indiconform/main.go:20`, `conform.go:279`) |

Weaker than one might expect, by design of the code:

* An `Update` of a BLOB vector is never sent (`marshalSet` has no such message). A client
  learns its state from definitions, and each payload says Ok: `ViewIsPast` speaks of a
  content up to that Ok, and `Converges` leaves a BLOB vector's state out.
* `Answered` excepts commands to a camera that is gone, whose handlers return without a
  word. A command that is out of range puts its property in Alert even while it is Busy
  with another's.
* `OutsideOnlyByNaN` remembers the members that some command gave as NaN, and says nothing
  more of those.
* `BusyEnds` excepts a camera that is unplugged, or wedged by an exposure over one that it
  refused to abort: its Busy stays. `BusySettles` speaks of a program that is not shut down
  (a timer that the ctx ends leaves its property as it is).
* `VerdictIsDevice` excepts runs (`excused`) in which the checker stopped waiting before
  the device was through or took an unrelated update for an answer; a pulse that is not
  answered is a warning, but a failure if the property was in Alert before (the comment at
  `conform.go:523` has Busy acknowledge a pulse, but the test there is of a switch and
  never holds of a number; the exit code does not depend on it). A device whose CONNECTION
  has both or neither switch On fails, whatever else it does.
* `LeftAsFound` excepts a device that has failed by having both switches On: DISCONNECT is
  then taken to have passed on the switch alone, and the device may stay connected.
* `OnlyLive` counts a device as live if no CONNECTION of it has arrived yet.
* An Off-only or empty CONNECTION command disconnects the camera.

### Fairness

* `Hub!PublisherSpec`: a device goroutine that is publishing keeps running.
  Nothing else, which is the point of `PublicationEnds`.
* `Hub!ServerFairness`, which `ConnsReaped` has as its hypothesis: every goroutine that
  can run does; a read of a socket closed here fails; the write deadline (`writeTimeout`)
  ends every write. Clients need not send or read.
* `Client!LiveSpec`: waiters and, after the connection's close, the read loop
  run; no element need arrive, no ctx be cancelled.
* `Blob!LiveSpec`: the read loop and the inflater run; no token need arrive.
* `Ccd!LiveSpec`: handlers and exposure goroutines run, and the camera finishes an
  exposure it integrates (the only assumption on hardware, needed by `BusyEnds`;
  a camera that is unplugged or wedged stops being one, and `BusyEnds` says so).
* `Mount!LiveSpec`: goroutines and the poll ticker run, slews and pulses end. The
  strong fairness of `PollReads` says that reading the position succeeds again
  and again; without it the poll loop skips every tick (mount.go:483).
* `Lifecycle!LiveSpec`: `Serve` goes on when it can (a failing Accept returns, a pause
  is a timer) and the goroutine that waits for ctx runs. `ServeEnds` assumes that
  Accept stops failing only where it promises that a client is accepted.
* `Conform!LiveSpec`: the run's next step comes, because every wait in it has a time
  limit; nothing is assumed of the device or the network.

## Proofs

`tlapm <M>Proofs.tla`, for the eight modules below. Their theorems hold for every value
of the constants that satisfies the named assumption of the component's module, so for
any number of clients, threads, devices, payloads and commands, unless a hypothesis says
otherwise. `PROJECT.json` lists them with the properties they state. Every invariant and
every action property that a run checks is one of them.

Each argument has an inductive invariant, `IInv` or the parts named below, because no
property of several actors is inductive by itself: it has to say what each goroutine
knows at each place where another one can run. TLC has checked the invariants on the
runs' instances before they were proved.

* **HubProofs**: `TypeCorrect`, `NoPanic`, `RefusedIsDropped`, `GoneIsForgotten`,
  `NoGaps`, `ImplementsFeed`, `PoliciesHonoured`, `BudgetKept`. `IInv` adds to the type
  and to two of the properties: where each goroutine can be and what it holds there
  (`Callers`, `Writers`, `Targets`); that only an accepted connection concerns a
  thread (`Accepted`); and how far each `removeConn` has come (`Teardown`). The
  last is the heart: the channel is closed exactly when `closed` says so, which
  is what makes the three unsynchronised `removeConn`s of one connection safe.
  Every action has a lemma that it keeps `IInv`; `NoGaps` needs from it that a
  refused sender has no further business with the connection before
  it is closed, and `ImplementsFeed` maps each step to a step of `Feed` or a stutter.
  For `PoliciesHonoured`, `Audiences` says that a sender at `enqueue` is at a connection
  whose policy let its message through at some moment of the broadcast. `Budget` is
  inductive beside `IInv`. As `Bytes` is a recursive sum over a sequence, the module
  first shows by induction that there are such sums, and that they add up when a message
  goes in at one end and out at the other (`BytesAdd`); the induction (`Induction`) is
  over a set of numbers and rests on `<` being well-founded on the naturals.
* **ClientProofs**: `NoMissedUpdate`, `AcksAreFresh`, `DownMeansUnanswered`,
  `RevIsMonotone`, `ListsAgree`. The strengthening says that what a waiter remembers lies
  in the past (`Past`), that a dead connection is one whose read loop has given up
  (`Dead`), and that a property nothing has written since a `Rev` was recorded
  has not passed it (`Recording`). The read loop's steps are shown once to be
  `Announced` (a change of the store renews `updated`), the waiters' to be local
  to one waiter, and the invariant is proved of those two kinds of step. `ListsAgree`
  is about what the client keeps twice: `Ordering` relates the order of the devices
  to the store, through deletions from the middle, and `Ring` says of each place of the
  message ring which message of the log it holds.
* **ServerProofs**, the commands: `NothingElseOutside`, `EachIsAnswered`,
  `PublicationsCatchUp`, `ShownAsItIs`. `Base` says where a handler can be with which
  command. `Ranges` follows a number from `dispatchNew` through the handler's copy and
  the camera to the read-back, and says at each place that it is in its range or in a
  member that was given as NaN. `Current` says that a change not yet published is owed by somebody
  (`Owes`), `DefinedOnce` that an optional property's definition is in one
  client's hands. `Synced` and `Switched` speak of properties whose handlers have not
  overlapped, and `Sole` says that these have one handler at most.
  The server's life: `StartedByOne`. A device's loop has been started exactly if it has
  been added, `Serve` has taken its snapshot, and the device is not in the part of the
  snapshot that is still to be started (`Counted`). That needs `Sections` (what the mutex
  separates) and `Listed` (no name twice).
* **MirrorProofs**: `NeverTorn`, `EndsInStep`. For the first, every message on its way
  and every entry of the store is of one past content, a payload and what it has been
  applied to up to its Ok (`AllHonest`). For the second,
  a property has to be followed through the stream: `WillHave` and `WillShow` say what
  the client will hold once the stream has run out, `HasListed` and `ShowsCurrent` that
  this is what is listed and how it is, unless a thread still has an update to offer.
  `ListedFirst` and `Work` say in which order the threads do things, `OneAtATime` that
  outside `overlap` one publication is under way.
* **BlobProofs**: `WholeOrNotAtAll`, `WritesSpareStream`, `NoInflaterLeft`. `Counted`
  relates the decoder's state to the characters read so far: their number modulo 4 is
  left over, and what is decoded is what the whole quads stand for, less the padding.
  `Delivering` says that a writer that has not failed has been given all of that, and
  `EndedInTime` where a payload's writer has been ended, and how often.
* **CameraProofs**, the camera: `OnlyRefusedOverlaps`, `OneClientStopsForGood`.
  `OneRuns` says that a goroutine that can still touch the camera is the current
  exposure's or one that somebody waits for, `CameraServes` ties the camera to that
  goroutine, to the handler that is between `StartExposure` and its goroutine, or to an
  exposure that it refused to abort, and `Frames` says what was sent for whom.
  The decoders: `CutsAlike`, `ShowsImage`. `FitsInv` relates what `FITSWriter` holds
  between two calls to the bytes it has consumed, which are the first of the payload whatever the
  cuts (`Typed`): before the header is complete they are all in `hdrBuf`, and an error
  means that they hold no usable header (`Collecting`); then they end in row `y` of
  the file, whose beginning is in `row` (`Filling`); and the rows before it are in their
  places, converted (`Filled`). `ShortIs` shows that the check of the length by division
  in `DecodeFITS` fails exactly if the last row would not be complete, which is when
  `Close` finds `y` short of the height. Ranges of bytes are cut, joined and divided into
  rows and samples by a few lemmas (`BytesIf` to `RowsAre`). Of the int, `WrapIs` shows what
  a product wraps to, and `Fitting` keeps that a `FITSWriter` which has not panicked could
  allocate what it asked for, that the length of a row did not wrap once there has been one,
  and that the frame has room for the rows filled so far; `NotAllocated` and
  `RowFits` then say that a panic means a frame or row that cannot be allocated. `ShowsImage` adds the parity
  of the rows under a flip (`FlippedParity`) and the conversion of a sample
  (`FastIsGeneral`, `WrittenIsRead`).
* **MountProofs**: `NeverMixed`, `UncrossedAgrees`. `OneHolds` is mutual exclusion by
  `OpLock`, and `Registers` what the holder has set so far. For the second, `CapsInv` says
  of any number of clients, at each step of their CONNECTION commands, what has been sent
  and who has still to send what, as long as none have crossed.
* **ConformProofs**: `LeavesAsFound`, `ChangesOnlyLive`, `VerdictsAreDevices`. The first two
  follow from `Base`: which commands are still planned at each place of `Run`
  (`Planned`), that the store shows CONNECTION's switches as the device has them
  (`Synced`), that a device the run takes for connected is, until it is sent DISCONNECT
  (`Live`), and what
  `connectedByUs` says of the device while no command is reported (`Restoring`). For the
  verdict, a run is either bound to end with 1, of a device that does not conform
  (`Doomed`), or no check has failed (`Hopeful`): then all that the device has defined
  has arrived or is on its way (`Arrivals`), the device is sound as far as the run has
  looked (`Sound`, `Joined`, `Checked`), and the command that is waited for has been
  answered as the device answers it, or not yet (`Outstanding`).

**What they assume.** Of the constants: that the sets and bounds are of their types, that a
message has a size of 1 or more and the queue has room for one (Hub), that there are finitely many
properties and their readings are integers (Mirror; a value's conversion to text and
back is `numVal`), that a position has two coordinates (Mount), that a number command's
values are integers, NaN or not numbers at all and that `int(NaN)` is an integer (Settings),
that a header's fields are of their types, that nothing larger than an int is allocated
and that a payload that names a camera's sample is what `encodeFITS` writes for it (Fits),
and that the fields of a device's record are of their types (Conform). Four theorems have a
hypothesis, each because the property is false without it:

| Theorem | Hypothesis | Without it |
|---|---|---|
| `OnlyRefusedOverlaps` | one client, and no camera call outlasts the 2 seconds of `stopExposure` | run `ccd_overlap` |
| `OneClientStopsForGood` | the same | with `SlowRead` a frame follows its abort (see the table above) |
| `WritesSpareStream` | no sink's `Close` fails | its error is returned and ends the connection |
| `VerdictsAreDevices` | the device is `Ordinary`: found connected, it has defined everything; an Ok that does nothing is its answer to CONNECT at most; it does not define CONNECTION again, in Alert, after it has connected | such a definition is taken for the answer to CONNECT, and a device that has connected is reported as failed; the first two only exclude records that stand for no device |

The first two say of the code that it is right for one session, which is what
DRIVERS.md leaves to drivers to ensure.

**Only model-checked.** Every liveness property: `PublicationEnds`, `ConnsReaped`,
`ServeEnds`, `WaitersWake`, `ReadLoopReturns`, `BusyEnds`, `ShutdownStops`,
`BusySettles` and `RunEnds` need fairness and ENABLED, which are beyond the prover.

## Not modelled

* Text: XML, number formats (`ParseNumber`, `server/number.go`, `client/parse.go`), track
  rates, timestamps, labels, log lines, the wording of results. Infinities (the range
  check treats them as it does large integers; where a member has no range, `int` makes of
  them what the processor likes, as of NaN) and fractions; module Mirror has no NaN.
* `inboundGuard`, a count of bytes per element whose one effect, the end of the
  connection, Hub has as `ReadFails`.
* In the FITS decoders, header syntax: a header is a record of what its cards say. How
  much can be allocated is one constant for frames (2 bytes a pixel) and rows.
* In the camera, what a goroutine that outlived `stopExposure` does (the runs have
  `SlowRead = FALSE`; see `StopIsFinal` above), and `CCD_INFO`'s constants.
* In the mount, the guide rate, optics, pier side, `ON_COORD_SET`'s own update and the
  dual-axis command: each sets a member and publishes it.
* In the checker, the informational results, of which one misses the messages of a
  pulse when the client's ring is full (`conform.go:526`), and runs on several devices,
  which follow one another.
* A second `Serve` on one server, which would start the devices again.

The deadlock check says nothing here. Most of the systems really stop, when their clients
have nothing more to send or a run is over, and their configurations switch it off. In
`lifecycle_serve` and `settings_two` it is on but idle, as the environment can always take a
step (Accept fails or recovers, the camera is unplugged or plugged in). That nothing waits
for ever is what the liveness properties are for.

## Plan

Done: Feed, Hub, Client, Ccd, Mount, Blob, Lifecycle, Settings, Mirror, Fits and
Conform, and the proofs of all their safety properties, the machine's int, NaN and several
clients of the mount included. The list of runs stays short on
purpose: one for each question, and a question that a deeper property answers gives up
its own.

Next:

1. Hub: what `Budget` and `NoGaps` say together of a client that is dropped for being
   slow: that it had all that was admitted before.
2. Ccd: what two clients can still rely on, in the manner of `CapsAgreeUncrossed`: which
   overlaps of two handlers overlap exposures.
3. Blob: which sinks' failing `Close` ends the connection, with `FITSWriter` (Fits) as one.
