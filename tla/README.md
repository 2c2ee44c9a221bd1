# tuner: a TLA+ verification project

tuner is a Go daemon that discovers lab services over mDNS, keeps a registry of
the live ones, publishes them as channels over HTTP and as Television channel
files, and serves channels of its own (custom sources, notes, adhd's feature
certifications). The modules here model the parts whose correctness depends on
concurrency, time, failure and order. They are translated from the Go source;
`PROJECT.json` maps every definition to the lines it stands for.

## The system

| Component | State it keeps | Operations | Interacts with | What is hard | What makes it correct |
|---|---|---|---|---|---|
| mDNS browser, `internal/mdns/browser.go` | records with discovery and last-seen times | continuous browse, refresh, expire, Add, shutdown | calls `OnChange`/`OnRemove` from several goroutines | departures are inferred from silence; two tickers in one select; sightings race expiry | callbacks pair up, one miss is tolerated, detection is bounded |
| Registry, `internal/channelsource` | source per instance, subscribers | Observe, Retire, Subscribe, unsubscribe, Get, List | browser writes, TV writer and log subscribe, HTTP reads | change and announcement are separate critical sections | delivery is serialized, subscribers converge |
| Discovery wiring, `cmd/tuner` (`cmdServe`), `internal/lezzdemo` | none of its own | callbacks, seed, subscriptions | joins the two above | an address change is two records | no channel outlives its record, no record is without channel |
| Cable directory, `internal/tv` | one TOML file per channel | WatchDiscovered, WriteChannel, RemoveChannel, preset sync | subscribes to the registry | outlives the process, shared with presets, names are folded | files follow sources, none outlives its source |
| Custom channels, `internal/custom` and its handlers | cached snapshot per channel | Snapshot, fetch, Ingest, SSE, ingest route | HTTP clients; commands, HTTP and SSE sources | lock held across a fetch, cancellations, two unsynchronised periods | one fetch serves all, nobody is stuck, streams keep up |
| Feature browser, `internal/featurebrowser`, `internal/mcpclient` | cached merged view | View, fetch, merge, Verify | HTTP handlers; adhd instances over MCP | fetches run side by side outside the lock; answers of several instances meet in one entry | rungs shown are adhd's own, answers are fresh, nothing is laundered or mixed, Verify is gated |
| HTTP server, `internal/server` | audience counters, listeners | routes, SSE streams | all of the above | streams and disconnects | every listed channel answers, streams end |
| Notes, `internal/notes` and its handlers | cached feed per channel | Get, Read, SSE | HTTP clients; files and HTTP feeds | one mutex over all feeds, held across a read | waits are bounded, a stream announces what lasts |
| Life cycle of serve, `cmd/tuner`, `internal/mdns/advertiser.go` | listeners, zeroconf server | bindWithRetry, Start, Shutdown, signal handling | other tuners on the host through its ports | two unlocked shutdowns race with the end of the process; streams that never end | the record names what is served and is withdrawn, a signal ends the process |
| Signals, config, llms.txt, rendering, viz | none | pure functions, parsing, drawing | | | |

The hazards met while reading are listed in `PROJECT.json` under "hazards", each
with the properties that would notice it going wrong.

## Modules

| Module | Models | EXTENDS / composes |
|---|---|---|
| `Registry` | `channelsource.Registry` | |
| `RegistryProofs` | its theorems | `Registry`, `TLAPS` |
| `Browser` | `mdns.Browser` for one service type | |
| `BrowserProofs` | its theorems | `Browser`, `TLAPS` |
| `Discovery` | `cmdServe`'s wiring | instances of `Browser` and `Registry` |
| `CableDir` | `tv.WatchDiscovered` and the directory | |
| `Television` | the TV writer in `cmdServe`, from the network to the files | `Discovery`, `CableDir` |
| `DiscoveryProofs` | the theorems of `Discovery`, `CableDir` and `Television`, and those of the parts carried over | `Television`, `TLAPS`; instances of `BrowserProofs`, `RegistryProofs` |
| `FeedCache` | what `custom` and `notes` promise of their caches | abstract |
| `CustomChannel` | one `custom.channel` and its handlers | implements `FeedCache` |
| `CustomChannelProofs` | its theorems | `CustomChannel`, `TLAPS` |
| `Notes` | `notes.Store` and its handlers | implements `FeedCache` |
| `NotesProofs` | its theorems | `Notes`, `TLAPS` |
| `FeatureView` | `featurebrowser.Browser`: when the view is fetched and served | |
| `FeatureViewProofs` | its theorems | `FeatureView`, `FiniteSetTheorems`, `WellFoundedInduction`, `TLAPS` |
| `FeatureMerge` | `SourceSet`, `fetchSource`'s evidence and `merge`: what the view says | |
| `FeatureMergeProofs` | its theorems | `FeatureMerge`, `FiniteSetTheorems`, `WellFoundedInduction`, `TLAPS` |
| `Serve` | `cmdServe` from its listeners to its exit, `mdns.Advertiser` | |
| `ServeProofs` | its theorems | `Serve`, `TLAPS` |
| `MC*` | constants and symmetry for TLC | the module of the same name |

Definitions marked MUTANT are faulty variants of the definition they precede.
Nothing uses them; substituting one shows that the property it belongs to can
fail (`PROJECT.json`, "mutants").

**Registry.** `Registry.mu` covers a few assignments, so a critical section under
it is one action. `notifyMu` is held across callbacks and is a variable holding
its owner. `Observe(c, svc)` and `Retire(c, svc)` end where mu is released and
leave the goroutine at `"publish"`; `PublishLock`, `Deliver` and `PublishDone` are
`publish`; `SubscribeCall` enters `Subscribe` and waits for `notifyMu`, and `SubscribeStart`, `Replay`,
`SubscribeDone` are the rest of it. `mirror` is
what a subscriber would believe from its callbacks alone. `overlap` is history: the
instances whose last change was made while an earlier one of the same instance
was still being announced.

**Browser.** Records are pairs of name and address, as `recordKey` makes them. A seed's name is verbatim and that of an
mDNS record is its full DNS-SD name, so the two are different members of `Instances`.
`net` is what hosts advertise. The goroutines of the continuous browse, of a
refresh and of the seed each run `addService` as one action and then `OnChange`.
The loop of `Start` is `loop`; `TakeRefresh`/`RefreshDone` and `TakeExpiry`/`OnRemove`
are its two cases. A ticker's channel holds one tick and drops the rest.

**Discovery.** The name of a record stands for its instance label too; a seed named like the label of an mDNS record, which
the registry would take for the same instance, is not modelled. `OnChange` is `Observe` and `OnRemove` is `Retire`, each from the call
to the return of the last callback, run by the browser goroutine concerned.
`shadowed` is history: instances with a sighting that the registry was not told of
or will forget. There are three ways (`Shadows`): a held record is sighted again while its instance is
registered at another address, or while a report of another address is on its way to the registry; and
a record is sighted anew between its expiry and the call of `Retire`.

**CableDir.** One event with its file work is one action, since `notifyMu`
serializes events. Names are short sequences of characters because `ChannelFile`
folds them; contents are records telling files apart. Writes and removals may fail,
and `Restart` empties the registry but not the directory.

**Television.** `Discovery` with the directory its subscriber keeps. `Delivered(t)` is `publish` calling the TV writer: a
`Deliver` of the registry with the file work of `CableDir` for that event, in one step, since the goroutine holds `notifyMu`.
`Undelivered` is any other step of `Discovery`, and `SyncPreset` another process that writes a preset. The instances of
`Discovery` are numbers and `NameOf` gives each its name. `UpToDate(i)` says that nothing is left to be told about an instance and that its
file is its own and could be written.

**FeedCache.** The abstract specification of a cache in front of a slow source: a fill begins
only when nothing held is young enough, at most one is under way per key, it stores what the
source said during it or is abandoned, and what is held ages until its lifetime is over. Keys that
share a lock, readers, streams, tickers and hang-ups are details of the modules that implement it.

**CustomChannel.** `mu` is held by the reader that fetches. `Ask`, `SnapshotCached`,
`SnapshotFetch`, `FetchOK` and `FetchError` are `snapshot`; a stream is a reader with
a ticker; `handleCustomIngest` and `Ingest` are the two halves of a push, between which
others may run. A channel with a configuration error only reports it and is left out. `kind` is
chosen in `Init`: a webhook, a source that is pulled, or a command that leaves a child behind which
keeps the output open (`"orphan"`): `exec.Cmd` waits for it after the timeout has killed the shell, and a shell that
had exited by then still makes the fetch a success, late (`FetchOK`).

**Notes.** `mu` is the store's one mutex and `read` the feed being read under it. Ages replace the
clock, so that the state space is finite without a bound on time: `waited` is how long a reader has
been waiting, `unsent` how long an item has been in a feed that a stream watches without being
announced on it (history, up to the bounds the properties state). A content is a set of item ids, one
of which may be missing (`NoID`).

**FeatureView.** A handler looks at the cache (`ViewCached`), fetches (`Fetch`, then per
source `Handshake*` and `Call*`), and stores (`ViewStored`) in separate actions, because
`Browser.mu` is not held in between. An answer is abstracted to the rung it evidences, and the contract
calls a source still has to answer to their number: each is of a tool of its own, and their order decides nothing.
The instances come and go, reassign rungs and change their tools at any time (`SourcesChange`, `Reassigns`, `Reoffers`), also in the
middle of a fetch, and a call of a tool that is gone by then fails. `lastRung`, `lastWith` and `lastSans` are history: when an
instance last assigned a rung at least so high, last served Verify's tool, and last did not.
`Return` includes Verify's choice of a source and its gate.

**FeatureMerge.** `Fetch` decides whom to ask (`DiscoveredSources`, `ConfigSources`, `SourceSet`);
each `MergeSource` begins an iteration of merge's loop with an arbitrary answer of the next source, and `FeatureEntry`,
`SkillEntry` and `MemberEntry` are the iterations of the three loops inside it, with `at` as their index; `Merge`
is the code after the loop. One entry per step is what makes the invariant of the loop provable. Loops that append what
they keep are one operator, `Subsequence`, which is given the positions kept. The properties compare the view with
definitions over the set of answers.

**Serve.** The processes of one host share its ports (`listener`). `BindOK`, `BindInUse` and `BindFails`
are `bindWithRetry`, one port at a time. `shut` says where each of the two callers of
`Advertiser.Shutdown` is; the test, the call and the clearing of `a.server` are separate steps
without a lock, and a second read that finds nil may panic. zeroconf's own lock and the withdrawal of
the record are external. `Ends` takes the listeners of a process away wherever it is.

## Runs

| Run | Result | Shows |
|---|---|---|
| `registry` | pass | serialized delivery; events and subscribers agree with the registry unless changes overlap; every call returns, its wait for the lock included |
| `browser` | pass | callbacks pair up; one missed refresh is tolerated; a departed record is dropped and reported in bounded time |
| `discovery_lost` | violation | a held record can be left without a channel |
| `cable_dir` | pass | files follow sources; none outlives its source, whatever names share it |
| `cable_dir_preset` | violation | the departure of an instance named like a preset removes the preset |
| `television` | pass | channels are backed by records; records have channels unless shadowed; after an alarm comes, moves and goes, the file is what the registry's state calls for |
| `custom` | pass | the channel implements `FeedCache`; no lock is left behind; one fetch of waiting at most while none fails; streams follow fetches and pushes; every reader is answered |
| `notes` | pass | the store implements `FeedCache`; a reader waits for one read of every feed at most while none fails; an item that stays is announced in bounded time |
| `serve` | pass | the record names a port its own tuner serves, under a name of its own; it is withdrawn when the process ends by itself; a signal ends the process |
| `feature_view` | pass | only complete views are cached; a rung shown was assigned since its fetch began; answers are fresh although fetches race; Verify's target has served the tool and assigned rung 3 of late, but for one case |
| `feature_merge` | pass | certification, demo labels, gated fields, trails, skills and members are what the answers say, in any order of the sources |
| `feature_cancel` | violation | a canceled request's view is cached for others |

The violations are described in `PROJECT.json` under "findings", with the lines
of documentation they contradict. Modelling met more places where a comment says
more than the code does. The passing runs' properties are stated so as to leave them out:

* `registry.go:135`, "a callback always sees the change it is told about": mu is released before
  `notifyMu` is taken, so another change of the instance can come between, and two events can
  even be delivered in the opposite order of the changes. `EventIsCurrentUnlessOverlap` says when
  the sentence holds.
* `discovered.go:35`, "the other discovered channels are left exactly as they were": names that
  fold to one file name overwrite and remove each other's file. `FileFollowsSource` is about
  names with a file to themselves.
* `README.md:88`, "at most once per `refresh`": a failed fetch is not remembered and the next reader
  repeats it. `IsFeedCache` is about fetches that succeed.
* `custom.go:43`, "fetchTimeout bounds one command execution": the timeout kills the shell, not its
  children, and the fetch goes on while one of them holds the output. `WaitBounded` and
  `ReadersAnswered` except such a command.
* `tuner.go:474`, "the current items once, then any new item": an item without an id is never
  announced. `Announced` is about items with one.
* `tuner.go:742`, "send a heartbeat until client disconnects": the loop does not look at the request
  and outlives its client. `SignalEndsProcess` holds because `Shutdown` has a deadline and the process
  then ends.
* `main.go:31`, "the address it actually bound": with port 0 it is the address asked for, and
  `tuner:0` would be advertised. `Serve` assumes positive ports.
* `main.go:277`, "which makes two tuners advertise the same instance name": the port tells tuners of
  one host apart, and those of two hosts share a name when both bind the default. `NamesDiffer` is
  about one host.
* `featurebrowser.go:144`, "the worst count any source reported": an entry of a higher rung replaces the
  count gathered before it, so the order of the sources decides. `DemoAndBestWin` is about the sources
  of the highest rung.
* `featurebrowser.go:134`, "every instance that reported the entry": sources that share a name appear in the
  trail of a certified feature once for each that certifies it. `TrailCertifyingFirst` asks for one
  mention where names differ.
* `tuner.go:552`, "each new one as the source changes": the payload compared holds its fetch time,
  so unchanged data is sent after every fetch. The model sends it too (`Return`).
* `featurebrowser.go:508`, "A refusal is evidence too": the end of `fetchSource` overwrites the rung that
  `recordCallFailure` stored (`After`).
* `featurebrowser.go:271`, "below it, tuner does not call": the gate looks at the highest rung of all
  sources and the call goes to the best one that serves the tool, so the instance called may be of rung 0 when another of rung 3 does
  not serve the tool. And the view may be cached, so either may have changed since. `ProbeBacked` asks for a rung 3 of the instance called within
  the age of an answer, and leaves out that first case and no other.

### Bounds

* Registry: two goroutines are one to change and one to change or subscribe in between; two addresses
  and two discovery times produce every outcome of `Changed` and `Stale` but a changed identity.
  `MaxSubs` bounds subscriptions, since ids are never reused. More goroutines, instances and
  identities are left to the proofs.
* Browser: one instance with two addresses (the move is the interesting case). `Interval` 2, `MinExpiry` 3, `Window` 1 give an
  expiry of 4 and a check period of 2, the proportions of the defaults; `MaxTime` 12 lets a record be
  discovered, missed, expire and come back, and is past the bounds stated (`LongestUnseen` is 9, `MaxLag` 1). This loop is
  overloaded: a refresh may end just as the next one is due.
* Television: the same without the seed, up to time 6, where a record has expired and can be back at the other
  address; up to 10 in `discovery_lost`, on `Discovery` alone.
* CableDir: a name with a file to itself, two that share one, a preset's name, and a
  preset nobody shadows. No bound on time: the state is finite.
* CustomChannel: a getter, a stream and a pusher are one that fetches, one that waits and one that
  stores between them; a refresh of two units, a fetch of one, and a clock of 7, which is past the two
  refreshes and one fetch that `StreamFresh` allows.
* Notes: two feeds, so that one can delay the other; two getters and a stream, so that two
  can queue ahead of the third. TTL 3, period 2 and timeout 1 keep the order of 30, 20 and 5 seconds,
  and `ReadableWithinTTL` says that all feeds can be read within one TTL, which five seconds a feed
  allows for six feeds. The code sets no limit on the number of feeds; `MCNotes` takes the statement as an assumption, and
  `WaitBounded` and `Announced` are about such a store. `AnnounceBound` is within one unit of the longest delay TLC finds.
* Serve: two tuners, a health port just below the broadcast port and two retries make the ranges
  overlap; a third program on one of the ports makes a scan run out. Connections are one kind that ends
  and one that does not.
* FeatureView: two handlers that verify, interchangeable, on two instances. One contract tool beside Verify's: the first
  instance serves the contract tool, the second both tools or none. Rungs 0 and 3 suffice: the code compares with 3 and
  takes maxima. One change of the instances in a behaviour (`MaxChanges`) and a clock of 3 let a view be fetched, become wrong, be served and be
  fetched again; mixtures of several answers of a source, more tools and more changes are left to the proofs.
* FeatureMerge: three sources, two of them with the same name; each answers about features, skills or
  members, whose merges share nothing but the source. Every form of one entry, and lists with a second
  entry, a repeated one and one without a name.

### Time and fairness

Time is a counter. It advances only when the code's own deadlines allow: a loop takes
a ready tick, a refresh ends with its window, a fetch ends with its timeout, a callback
returns within `MaxLag`. `MaxLag` is an assumption about callbacks (they write a small
file), and `DiscoveryAssumption` asks that it be shorter than the expiry, which is a minute or more
in the code: a record must not expire while its arrival is still being reported. `WaitBounded`, `StreamFresh` and, on a pulled channel, `StreamFollows` are stated up to the first
fetch that fails (`failed`): readers behind a failing source wait for one fetch after the other.

The bounds on departures are theorems under a hypothesis, `KeepsUp`: a refresh (`Window`), the callbacks of one expiry of all records and
one more callback take less than a refresh interval. A serving tuner keeps up: its interval is 30 seconds, its window 3, and a
callback writes a small file. A one-second interval, as `main.go:749` sets for a scan, does not: a refresh is then always ready when the loop
comes back to its select, which may choose it over the expiry again and again, and no bound follows from the code. A scan ends
after seconds and expires nothing. TLC checks `OneMissTolerated`, `DetectionBounded` and `DepartureBounded` on such an overloaded loop all the same.

`WaitBounded` and `Announced` of Notes are stated the same way. Notes further assumes that a read ends
within its timeout. That is so over HTTP; a feed read from a file has no timeout (`notes.go:97`), and one on a
stalled mount would hold up every notes channel.

The liveness properties assume weak fairness for the steps of a goroutine inside a call and strong
fairness for taking a contended mutex: `sync.Mutex` switches to handing itself to its
longest waiter. A fetch is not assumed to end on a channel whose command leaves a child behind. In `Serve`
main and both callers of `Shutdown` are weakly fair, and the deadline of a server's `Shutdown` comes;
no connection is assumed to end. Nobody is assumed to make a call, to push, or to change.

## Proofs

`RegistryProofs` proves, for every set of goroutines, instances, addresses, identities and
times and every bound on subscriptions:

* `TypeCorrect`: `TypeOK` is inductive by itself.
* `Serialized`: from `LockInv`, which says that whoever is in callbacks or a replay owns
  `notifyMu`. `DeliverySerialized` alone is not inductive: a step that takes the lock must
  know that nobody is inside without it.
* `CallbackSeesChangeWithoutOverlap` and `Convergence`: from `MirrorInv`. It adds to the two
  properties that an instance outside `overlap` has at most one goroutine announcing it
  (`OneAnnouncer`), that mirrors of subscriptions not made yet are empty (`NewMirrorsEmpty`)
  and that what is still to be replayed is current or will be announced (`ReplayCurrent`).

`ServeProofs` proves `TypeCorrect`, `AdvertisedServed`, `InstanceNamesDiffer` and `RecordWithdrawn` for any
number of tuners, ports and retries. One invariant per process carries all four (`Inv`): nothing of the
advertiser exists before `Start` (`NothingYet`); main stops only on a signal and calls `Shutdown` last
(`MainFollows`); the broadcast listener lives from its bind to its shutdown (`BroadcastServed`); a record is there only while its
zeroconf server is up, and `a.server` then still points to it (`RecordBacked`); and a caller that is past
zeroconf's `Shutdown` has left it down (`DownWhenCleared`). The last two are why neither of the two unlocked
callers can find nil while the record is still published. Names differ because ports do.

`CustomChannelProofs` and `NotesProofs` prove for any readers, contents and periods:

* `TypeCorrect`, with that only pulled channels are fetched and only webhooks pushed to, and that whoever
  waits serves a configured channel (`TInv`);
* `ImplementsFeedCache`: each step maps to a step of `FeedCache` or to none (`StepRefines`), under the refinement
  mapping of `IsFeedCache`;
* `WaitsAreBounded`. `WaitBounded` is not inductive: what bounds a wait is where it began. In
  `CustomChannel` a waiting reader began after the fetch under way, or finds the result of the one that has just
  ended (`WaitExplained`). In `Notes` a reader has waited for one read of each feed whose content is younger than its
  wait, and for the read under way (`WaitExplained`, a count over finite sets), and a feed is read only when
  what is held of it has expired (`ReadStale`); where all feeds can be read within one TTL (`ReadableWithinTTL`, a hypothesis of this
  theorem and of `ItemsAnnounced`), none is read twice during a wait;
* `StreamsAreFresh` and `StreamsFollow` (`CustomChannel`), from where the next tick of each stream lies relative to what it sent
  last and to what was stored last (`FreshUntilAsked`, `AsksForStored`); `ItemsAnnounced` (`Notes`), from that an
  item missing in what is held or being read is as new as that read (`MissingIsNew`), and that what a
  stream owes is limited by its next tick or its wait (`OwedUntilTick`).

`FeatureViewProofs` proves `TypeCorrect`, `RungsAreAssigned` and the action properties `ProbesAreBacked` and
`AnswersAreFresh`, for any handlers, instances, tools and number of changes. The invariant says of every
result, of a fetch under way or cached, that it is dated with the fetch, that its rung and the evidence so far have been assigned by its
instance since that date, and that what it says of Verify's tool, listed or not, was so since that date too
(`Backed`), that a fetch is no older than `MaxFetch` (`OnTime`), and that the histories are up to date (`Current`). A view that is handed out is at most `OldestAnswer` old, so what held since its date
held of late. It rests on lemmas about `Max`, `Best` and `ViewRung`.

`FeatureMergeProofs` proves all six invariants of `FeatureMerge`, for any sources, answers, entries and names: `TypeCorrect`, `NothingLaundered`,
`GatedFieldsReleasedTogether`, `RungCovers`, `TrailsCertifyingFirst` and `DemoAndBestAlwaysWin`. The argument is that of a loop:

* `Seen(t)` is the set of reports of tool t merged so far, each a source's result with one entry in it. `MapsAgree` says what the maps hold in
  terms of that set alone, not of an order: of a feature, that it is certified if a report is, that its gated fields come from one report
  and no report holds more, and that its trail names the reporters, each once (`FeatureOf`); of a skill and a member
  likewise (`SkillOf`, `MemberOf`); of the votes, that each stands for a certificate (`VotesOf`).
* Each iteration adds one report to `Seen` (`SeenAfterEntry`), and `FeatureMerged`, `SkillMerged` and `MemberMerged` show that the code's step
  keeps the agreement. `Evidenced` says of each result that its demo flag and rung cover its entries, which `fetchSource` owes to merge.
* At the end `Seen` is all that was said (`SeenInTheEnd`), and the view is read off the maps.
* `Max` of a finite set and the enumeration that `Subsequence` chooses exist by induction on finite sets. The library's induction theorems cannot be
  instantiated here; a smallest counterexample under the subset ordering, which the library proves well-founded, takes their place
  (`HasMaximum`, `HasEnumeration`).

`BrowserProofs` proves `TypeCorrect` and `CallbacksBalance`, for any records, seeds and timing. `ReportedOnce` needs beside
the types that `departed` is empty outside expire and holds one service per record (`InExpire`). Under `KeepsUp` it further proves
`DetectionInTime`, `DepartureInTime` and the action property `SlackOfOneRefresh`. Their invariant (`TimedInv`) follows the loop through its
busy periods: one that begins with an idle select serves at most one tick of each ticker, because it ends before the next
refresh is due, and no expiry is due sooner (`Scheduled`). So every tick is taken and a late one is late by a refresh and one
expiry at most, which bounds the age of what is held (`Detected`) and of what is being reported (`DepartedInTime`), and puts two refreshes
between a record's last sighting and its expiry (`MissesCounted`).

`DiscoveryProofs` proves for any number of instances and addresses and all timing that `DiscoveryAssumption` allows:

* `ChannelsAreBacked`, from the types and that a record stays held while it is being reported (`ReportedIsHeld`, which needs
  `MaxLag` below the expiry);
* `HeldRecordsHaveSources`. A held record of an instance that is not shadowed is still to be registered, is the one registered, or
  was last seen no later than the one registered (`Covered`), so that it expires no later and is gone
  when the source is retired. To keep that, the reports on their way must be ordered: one that will be registered leaves no
  record behind that was seen later (`InOrder`, `OpenFresh`), the registry's mark is no later than its record was seen (`MarkSeen`), and
  what is held was seen after all that departs (`DepartedFirst`);
* `ImplementsBrowser` and `ImplementsRegistry`: the wired system is a behaviour of each part, so what is proved of
  the parts holds in it. `PartsHold` says so of `ReportedOnce`, `DeliverySerialized` and `MirrorsConverge`;
* `ChannelsEndInTime`, under `KeepsUp`: what backs a source is a record held (`DetectionInTime`) or departing (`DepartureInTime`).

Of `CableDir` by itself, for every set of names, presets and addresses, it proves `CableTypeCorrect`, `FilesFollowSources`
(from typing and that different owners have different files), `FilesNeverOutliveSources` (its invariant adds that a file holds only what was written under
its own name: whichever name writes or removes a shared file, what is left names a source that is as the file says).

Of `Television` it proves that it implements `Discovery` and `CableDir`, so that all of the above holds in it, and from the parts' theorems:

* `ScreenFollows`. `FilesFollowSources` relates files to what the directory was told, `MirrorsConverge` relates what a subscriber was told to what
  is registered; `LiveIsMirror` says that the two were told the same. It needs that nothing is ever replayed to the TV writer,
  because it subscribes before the browser starts (`WatchedFirst`);
* `ScreenEndsInTime`, under `KeepsUp`, from `ScreenFollows` and `ChannelsEndInTime`: the bound holds from the alarm's last answer to the file.

Every inductive invariant was first checked by TLC on the instance of its component's run. What the proofs found:

* `HeldRecordHasSourceUnlessShadowed` was false when a callback may last longer than the run's one unit: a held
  record, sighted again while the arrival of another address of its instance is being reported, is
  left without a channel once that other record expires. TLC confirms it with an expiry of 5 and `MaxLag` 3. It is the third of the ways in `Shadows`,
  and a variant of the finding of `discovery_lost`.
* `OneMissTolerated` and `DetectionBounded` do not follow from the code for all timing constants: the loop must
  keep up with its tickers. `KeepsUp` is the hypothesis under which they do, and the code's defaults satisfy it.
* `FeatureView` and `FeatureMerge` had `CASE`s with overlapping arms, which TLA+ leaves open and
  TLC resolves in order; they are chains of `IF` now, as in the code.

The assumptions are those named in the modules: instance names, ports and times are positive
numbers, periods are not zero, the goroutines of different kinds are different, tools are finitely many, and the "no value" markers are not
values. `DiscoveryAssumption` further relates a callback's time to the expiry, as said under Time, and `ReadableWithinTTL` is a hypothesis of the two
theorems named above.

Only model-checked, on the instances above:

* `CallsReturn`, `ReadersAnswered` and `SignalEndsProcess`: liveness under fairness is outside what the proof system handles;
* `OneMissTolerated`, `DetectionBounded` and `DepartureBounded` of a loop that does not keep up;
* the violations.

Only proved: the `TypeOK`s of `CableDir` and `FeatureMerge`, and `ChannelsDieInTime` and `ScreenDiesInTime`. A run with
two addresses and a loop that keeps up, long enough for their bounds, has more states than TLC gets through in minutes.

## Not modelled

Wire formats (mDNS packets, JSON, JSON-RPC, TOML text), configuration parsing, rendering,
`llms.txt`, the Rust visualisation and launching Television: text and I/O without
state of their own. `Source.LastSeen` in the registry is stored and never compared. Several
service types and domains of the browser share only its loop. The lock of `custom.Set` covers a
map that never changes. The decoding of alerts and signal strength (`internal/signal`) is a pure
function of one document. The one-shot commands of `cmd/tuner` read and print. Of the server, routing,
listings and the audience counters (one map under one mutex) are left out. Of `mcpclient` only how a
call ends is modelled.

## State

Every component of the table but the last is modelled, checked and has theorems, the HTTP server only as far as its stream, notes, custom and
feature handlers and its shutdown go (see Not modelled), and every invariant and safety property of a passing run
is stated by a theorem. Left open: the folding of records into endpoints, and a restart in the
middle of discovery (`CableDir` has it by itself).
