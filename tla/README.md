# Verification of prostometrics-agent

The agent runs on a host, collects metrics from it and from the services on it,
and hands them to the `prostometrics-go` client, which sends them. This
directory holds TLA+ models of its parts, TLC configurations that check them on
small instances, and TLAPS proofs for instances of every size. Paths below are
relative to `src/`.

## 1. Inventory

| Component | Where | State it keeps | Operations | What makes it correct |
|---|---|---|---|---|
| Runner | `internal/agent/{runner,settings,collector,probe}.go` | slots (`sem`), a goroutine with a ticker and a deadline per collector, log limiter | probe, start, tick, wait for a slot, collect, cancel, drain, close | no slot lost or given back twice; nothing used after `Close`; no tick lost; nobody starved; shutdown completes |
| Process entry | `cmd/prostometrics-agent/main.go` | signal context | configure, run, flush | the client is flushed last and always |
| Access-log follower | `internal/collectors/nginx/accesslog.go` (`logTail`) | file, inode, offset, unfinished line | open, notice rotation and truncation, read new lines | each line once, whole and in order; catches up |
| Access-log collector | the same file, `accesslog_probe.go` | reservoirs of one tick | parse, sample, emit | each request in its class; unbiased sample; counts before ranked rows |
| Ranked lists | `nginx/toplists.go` | none | path, referrer and status to row | one page has one row, one site one row; what a page loads has none |
| `stub_status` | `nginx/collector.go`, `probe.go` | endpoint | fetch, parse | the right endpoint is found |
| Instances | `postgres`, `mysql`, `redis`, `mongo`, `rabbitmq` | per instance: connection, next attempt, previous readings | collect, back off, reset, close | a failing instance does not starve the others; no connection leaks or is reused after an error |
| exec, prometheus | `exec/`, `prom/` | granted deadline; series warnings | run commands or scrape targets one after another | each gets its share of the time |
| systemd, RabbitMQ top lists | `systemd/collector.go`, `rabbitmq/collector.go` | names reported last time | report, zero what left the list | a zero means recovered or drained |
| Docker | `docker/` | previous CPU reading per container, host memory | list, worker pool, differences | no reading paired with the wrong predecessor; a round ends |
| Host | `core/` | previous counters | read `/proc`, differences | resets are not progress; no division by zero |
| Client library (external) | `prostometrics-go` | bounded queue, last totals | enqueue, send, flush | full queues drop what comes last |
| Configuration | `config.go`, `integrations/instance.go` | none | choose source, expand, resolve | precedence; distinct labels |
| Installer | `scripts/install_agent.sh` | terminal mode, typed key | prompt, install | the whole key is read and nothing but the key |

**How they interact.** `main` resolves the configuration, makes the probes and
calls `agent.Run`, which probes one integration after another, starts one
goroutine per collector and returns after a signal, when all goroutines are over
and the collectors are closed; then `main` flushes the client. Collectors know
nothing of each other. They meet in three places: the four slots of the runner,
the client's bounded queue, and the main goroutine that closes them. Inside a
collector everything is sequential, except in the Docker collector, which has a
worker pool.

**What is hard.** Deadlines that start before a slot is free; `select`
statements that choose at random between a tick and a cancelled context;
collectors that ignore their context (a `statfs` on a dead mount, a child
process that keeps a pipe open); nginx and logrotate acting between any two
system calls of the follower; state that outlives a failed round (connections,
previous readings, names reported last). `PROJECT.json` lists these hazards with
their lines and the properties that cover them, or why none does.

## 2. Modules

| Module | Models | Role |
|---|---|---|
| `AgentPromise` | what `agent.Run` promises | abstract specification: bounded concurrency, no collection once closing begins, every closer closed once before the flush |
| `Runner` | `runner.go`, its constants, the signal and the flush of `main.go` | the scheduler; `PromiseKept` is the refinement |
| `MCRunner` | an instance of `Runner` | four collectors: `host` answers at once, `disk` may hang for ever, `db` names no interval, `scrape` is slow and asks for more time than its interval |
| `RunnerProofs` | | theorems about `Runner` |
| `LogTail` | `logTail` with nginx, logrotate and the file system | the access-log follower |
| `LogTailProofs` | | theorems about `LogTail` |
| `Instances` | the `Collect` loops of PostgreSQL, MySQL, Redis, MongoDB and RabbitMQ, with their connections and deadlines | the integrations that watch a list of servers |
| `MCInstances` | an instance of `Instances` | two servers; the intervals and timeouts of the code |
| `InstancesProofs` | | theorems about `Instances` |
| `Budget` | the `Collect` loops of `exec` and `prom`, what they ask of the runner and what they get | jobs that share one granted deadline |
| `BudgetProofs` | | theorems about `Budget` |
| `MCBudget` | configurations for `Budget` | on both sides of each cap of `collectorTimeout` |
| `Docker` | `docker/cpu.go` with the daemon and its containers | a round of the Docker collector and its worker pool |
| `MCDocker` | instances of `Docker` | services of one container each; a service with two replicas |
| `DockerProofs` | | theorems about `Docker` |
| `TopLists` | `nginx/toplists.go` | functions from a request to its rows, and the reference definitions they are checked against |
| `AccessLog` | `Collect` and `parseAccessLogLine`, extending `TopLists` | from the lines of a tick to the client's queue |
| `MCAccessLog` | an instance of `AccessLog` | five lines in the documented formats |
| `AccessLogProofs` | | theorems about `AccessLog` and `TopLists` |
| `SumTheorems` | | induction over numbers and finite sets, and the laws of sums, for `BudgetProofs` and `AccessLogProofs` |
| `TopSeries` | `lastFailed` of systemd, `lastQueues` of RabbitMQ | lists that report zero for what they no longer name |
| `CounterDelta` | previous readings of cores, disks and MongoDB servers | differences of counters |
| `MCMemory` | an instance of `TopSeries` and one of `CounterDelta`, side by side | what collectors remember between rounds |
| `MemoryProofs` | | a theorem about `TopSeries` and one about `CounterDelta` |

### Runner

| Model | Code |
|---|---|
| `phase` | where the main goroutine is: the probe loop of `Run`, `<-ctx.Done()` and `wg.Wait()` in `run`, `closeCollectors`, `flushAndClose`, gone |
| `pc[c]` | where `c`'s goroutine is: before its first collection (`start`), in the `select` of `runCollector`, in the `select` of `collectOnce` (`waiting`), in `Collect` (`collecting`), returned (`done`) |
| `sem` | `len(r.sem)` |
| `ticker[c]`, `tick[c]` | the time to the ticker's next firing (0 before it is created) and its channel, which holds one tick |
| `left[c]` | the time left on the context of the current `collectOnce` |
| `cancelled` | `ctx.Done()` of the signal context |
| `closed` | the collectors whose `Close` was called |
| `missed`, `skipped` | history: dropped ticks, collections that never got a slot |

`Probe`, `Spawn`, `Cancel`, `Drained`, `Close`, `Return` and `Flush` are the main
goroutine and the signal; `First`, `Receive`, `Stop`, `Acquire`, `GiveUp` and
`Finish` are a collector's goroutine. `Granted` is `collectorTimeout`. A
collection returns at once, or (in `Slow`) at any time up to the end of its
context, or (in `Deaf`) whenever it likes, if at all. A value, an error and a
recovered panic differ only in what is logged, so `Finish` stands for all three.
Probes may be tried in any order here, in the code in the order of the list;
since a probe only adds itself to the collectors this loses nothing.

Time is counted down in units by `Elapse`, which happens only when no goroutine
has a step to take at once (`Ready`). That is the assumption that scheduling
latency is small compared with the seconds the code counts in. `NoTickMissed`
and `NoTurnSkipped` need it: on a machine so busy that goroutines do not run for
seconds, ticks are dropped. The other properties do not depend on it.

### LogTail

A file is the sequence of pieces written to it and an offset counts pieces; a
piece ends a line or does not, and carries its position in the whole history of
the log. `Write`, `Rename`, `Create`, `Reopen` and `Truncate` are nginx and
logrotate (external to the repository). `Restart` kills the agent and starts it
with a new `logTail`. The reader takes one step per system call: `Check`
(`os.Stat` of the path in `rotated`), `Open`/`OpenFails`, `Measure`/`MeasureFails`
(`Stat`, the three decisions on the size, `Seek`) and `Read` (up to the end of
the file as it is then). `Check`, `OpenFails` and `MeasureFails` include a
failure for no lasting reason, at most `MaxFaults` times. Where the code
discards what it had (`t.partial = ""` with a new offset), a new *stretch*
begins: `from`, `mark` and `readGen` remember where in the file, how much had
been reported and which truncation of the file it was.

A line without a visible character, which the code drops, and the carriage
return before a newline are left out. The environment does not rename or
truncate in the middle of a line. An inode number is not given to a new file
while the old file is one of the model's; the code holds the old file open
until it sees the new one.

### Instances

One behaviour is about one integration (`kind`), so one module covers all five
and says where they differ: what is made on first use (`Dial`, `OpenPool`,
`StartClient`, nothing for RabbitMQ), whether the deadline of the round is
obeyed (`HeedsContext`: not by Redis), what a failure closes and how long that
may take (`Drop`, `CloseTimeoutOf`), and what follows the first reading (`extra`).

| Model | Code |
|---|---|
| `pc`, `pos` | where `Collect` is: between rounds, at the head of its loop, connecting, logging in (AUTH, ping), waiting for the first reading, for the optional ones, closing |
| `late`, `spent` | the time from the tick to the start of the round, and since then; `Ctx` is what is left of the context |
| `op` | what is left to the operation under way |
| `wait[j]` | `nextAttempt`, as seen from the `now` of the round |
| `conn[j]` | `inst.conn`, `inst.db` or `inst.client`: nothing, usable, usable as far as the collector knows (`stale`), or closed by pgx (`shut`) |
| `sessions`, `unread` | history: connections made and not closed; connections that still owe an answer |
| `server[j]`, `Change` | the servers, external: they answer at once, dawdle, fall silent, refuse, and change at any moment |

Time passes (`Elapse`) only while a server keeps the collector waiting. A login
on PostgreSQL is part of `pgx.Connect`, hence of `Connected`. The optional
readings are one step, because none of them can fail the collection; what they
cost comes out of the deadline of the round. RabbitMQ's may take two requests.

### Budget

| Model | Code |
|---|---|
| `setup` | a configuration: commands with their timeouts or targets, and the interval |
| `manner[n]` | what job `n` does (external): answers at once, when it likes, never, or is killed and leaves a child that keeps its output open |
| `Asked`, `Granted` | `Timeout()` of the two collectors, `collectorTimeout` |
| `start`, `left` | what was left of the deadline when `Collect` was called, and what is left now |
| `op`, `whole` | the time left to the running job; whether it began with all of its own |
| `fate[n]` | history of the round: not started, ended, expired, cut short by the round's deadline |

`Begin` is the nested `context.WithTimeout`, `Finish` and `Stop` are the two ways
a job ends, `LetGo` the end of a lingering child, for which `cmd.Run` waits
although its context is done. An error is only logged, so the loop goes on in
every case (`Settle`). `OnTime` and `RoundsEnd` are what `Runner` assumes of a
collector outside `Deaf`; an `exec` collector with a lingering child is inside, and
what it does to the others is what `NoTurnSkipped` and `EveryCollectorHeard` say.

### Docker

| Model | Code |
|---|---|
| `phase` | where `Collect` is: between rounds, in `ensureHostMemTotal`, in `listContainers`, sending to the channel, waiting for the workers |
| `expired` | the context of the round is done; `Expire` may happen between any two steps |
| `step[c]` | what the round still has to do for `c`: not yet sent, in a worker waiting for statistics, in a worker waiting for the inspection |
| `free` | the workers that wait at the channel. A worker has no identity: it is known by the container it has |
| `prev` | `c.prev`; one number stands for the CPU counter, zero for no entry |
| `memKnown` | `hostMemTotal > 0` |
| `life`, `usage`, `daemon` | containers and daemon, external: they start, stop, are removed, use CPU time, answer, say nothing or refuse |
| `total`, `sent` | what the client keeps of a series of totals, external: the last one, and the differences it sent |

`Exchange` is the step under `c.mu`; `Keep` the pruning after `wg.Wait`, which is
also done when a listing has no running container and not when it fails.
`Listed` chooses which containers the daemon shows when there are more than the
listing has room for. `Send` and `CloseChannel` are the producer's `select`,
which takes either branch when the context is done and a worker waits. The
labels matter only for what two containers share (`Service`). Memory, health,
restarts and OOM flags are values of the moment and left out, except the memory
limit, which is compared with the host's memory.

### TopLists and AccessLog

Text is a sequence of tokens: a delimiter, a scheme's `://`, a number, a word.
The functions are the code's, delimiter by delimiter; their inputs are spelled
out in `Spellings` and `Targets`, and the reference definitions (`Page`,
`Furniture`, the host itself) say what the row should be from the parts the
input was made of, without parsing. What differs is in `OtherSites`,
`OtherPages` and `Misplaced`, which must be empty.

What the inputs are is assumed by name, for the runs and for the proofs alike.
`HostsAssumption`: a host is a name without delimiters that begins like a host and
does not end in a dot, or an address in brackets. `SegmentsAssumption`: a segment
has no slash, `?` or `#` in it, and neither a slash nor a prefix of assets names a
record. `LowerAssumption`: no letter becomes a dot. `ItemAssumption`: the ceiling of
an item is a number, and "200" is the number 200. A control byte, for which
`clampItem` drops the whole item, is in none of them. `LinesAssumption`: a request
is followed by its status, and nothing else that is quoted is followed by a field
that could be one. The formats the documentation gives write it so: behind the
referrer come the quoted user agent and, behind that, times with decimals. It
excludes a client that sends a referrer or user agent that looks like a status
(section 4).

A tick of the collector is `Begin`, a `Line` for each line, `Parsed`, an `Offer`
for each event, `Return`. The first line may have lost its beginning, all of it
included, as `LogTail` allows after a first open in the middle of a line and after
a jump.
Which sample a reservoir holds is a matter of chance; instead of choosing one,
`ways` has every sample it may hold and the number of equally likely sequences of
random numbers that lead to it, so a probability is a number of ways. `queue` is
the client's queue (external), filled by other collectors too (`Other`) and
emptied at any time (`Send`). `BaseFirst` is about one tick: `Begin` forgets
which events in the queue are ranked rows.

### TopSeries and CounterDelta

`TopSeries` covers two collectors (`kind`): systemd takes the head of the listing
as it comes and names units, RabbitMQ sorts by depth and names queues without
their vhost, so two may share a line (`Name`). `line` is what the reader of the
metrics sees, the last value sent under a name; `Listing` is what `systemctl` or the
broker answers (`listUnits`, `listQueues`); `orphans` are the lines an
earlier process left that no later one ever named. `Round` is a round that could
read the list, `RoundFails` one that could not.

`CounterDelta` covers three sources: cores (a core that is offline keeps its
reading), disks (`Forget`: one that is gone is forgotten) and MongoDB servers
(`diffCounter`). A device has several counters, remembered and subtracted alike;
the model has one. `truth` counts what really happened since the reading
remembered, `fresh` and `missing` whether the counter started again and whether
the device was absent since.

The two share nothing but a run: in `MCMemory` a behaviour is of the one or of the
other (`which`).

## 3. Runs

| Run | Instance | What it shows |
|---|---|---|
| `runner` | four collectors, three slots, one deaf, one slow; default deadline 1, limit 3, intervals 2 and 3 (34,418 states) | `TypeOK`, `SlotsAccounted`, `NoUseAfterClose`, `NoTickMissed`, `NoTurnSkipped`, `EveryCollectorHeard`, `ShutdownCompletes`, `PromiseKept` hold |
| `logtail` | 4 pieces, 2 files, window 2, line limit 1, one truncation, restart and fault each (334,593 states) | `TypeOK`, `ByteExact`, `InOrderOnce`, `CatchesUp` hold |
| `logtail_rotation` | no faults, no restart, no truncation | `DrainsBeforeLeaving` fails: the end of the rotated file is lost |
| `logtail_replay` | one fault | `NoReplay` fails: after one failed `stat` the current file is reported again |
| `instances` | two servers of each integration, the times of the code in seconds, a start 0 or 2 s late (812,080 states) | `TypeOK`, `Owned`, `CleanConn`, `InTime`, `DeadCostLittle` hold |
| `instances_starved` | two PostgreSQL servers | `EveryInstanceHeard` fails: a server slow in its optional readings starves the one behind it |
| `budget` | eleven configurations with up to three jobs, the times of the code in seconds, a wait of 0 or 2 s (133,865 states) | `TypeOK`, `OwnShare`, `SumIsEnough`, `QuickNotStarved`, `OnTime`, `RoundsEnd` hold |
| `budget_starved` | three targets scraped every 5 s | `OneHangsOthersDoNot` fails: one hung endpoint starves those behind it |
| `docker` | three containers on two workers, one whose statistics never come, one without a limit, one restart of the busiest, two events (430,777 states) | `TypeOK`, `NothingInvented`, `RoundIsWhole`, `HungCostsItself`, `RoundsEnd`, `CrashReported`, `FalseLimitsCease` hold |
| `docker_replicas` | two containers of one service on one worker | `CountsTraffic` fails: the series they share grows though neither of them does |
| `accesslog` | up to five lines of five formats, samples and rows of two, a queue of four (473,603 states) | `TypeOK`, `CountsTrue`, `Uniform`, `BaseFirst`, `OneSiteOneRow`, `OnePageOneRow`, `FurnitureStaysOut` hold |
| `memory` | four units or queues, two of which share a name, a list of two, one restart; two devices, three counts and three events (130,741 states) | `LinesSettle`, `ZeroMeansCrowded`, `DifferencesTrue` hold |

**Bounds.** In `runner` one deaf and one slow collector leave one slot of three,
which is the tightest case in which `NoTurnSkipped` still claims something; the
interval 2 with a request of 5, the default 1 and the limit 3 make each of the
three caps of `collectorTimeout` bite for some collector; `db` has the interval
0, which `runCollector` replaces. There is no bound on the number of ticks:
countdowns make the state space finite. In `logtail` the window of 2 is smaller
than what can be written between two reads, the line limit of 1 is exceeded by
two unfinished pieces, and two files are one rotation. The passing properties
were also checked with five pieces and three files (7.9 million states).

In `instances` two servers are one ahead of another, which is what sharing a
deadline is about, and every time is the code's, so there is nothing to scale.
`DeadCostLittle` says how many silent servers the others survive: each costs a
round, and there are `RetryEvery / Every` rounds before it is tried again. It
was also checked with three servers that answer or are silent, where its
precondition allows two silent ones for MySQL and one for RabbitMQ (every 30 s);
without the margin of one `CollectTimeout`, for a round that starts late, two
silent brokers pass the precondition and starve the third.

In `budget` three jobs are one with something ahead and something behind; the
configurations have sums below, at and above the interval, the default of 3 s
and the limit of 30 s, and empty lists.

In `docker` three containers on two workers are the least that leaves one waiting
while one hangs and one is served; two events are a stop and a new start, which
is what makes a counter smaller than its predecessor.

In `accesslog` five lines
are more than twice what a reservoir of two holds; the rows of two requests
alone fill the queue of four; the lines have two, one, named and no times, and one
is no request. An item may have seven tokens, so that some paths are cut.

In `memory` four things on a list of two can crowd out two, and among them two share
a name; three counts exceed what a counter that starts again had.

**Fairness.** `Runner`: every goroutine that can go on does (Go schedules all of
them), the main goroutine goes on, time passes, and a collection outside `Deaf`
comes to an end. There is no fairness for `Cancel` (a signal need not come) or
for the `Finish` of a deaf collection. `Detect`, `New` and `Close` are assumed to
return; `Close` of a MongoDB client is bounded by the context it is given.
`LogTail`: weak fairness of the reader as a whole, which the runner's ticks
justify (`EveryCollectorHeard`); none for nginx or logrotate, and failures may
happen up to their bound.
`Instances`: weak fairness of the collector as a whole, whose steps include the
passing of time and the next round; none for the servers or the signal.
`Budget`: the same; none for `LetGo`, since a child may never let go.
`Docker`: weak fairness of the collector's goroutines as a whole and of the timer of the
context, and strong fairness of an answer about the host's memory and of a
listing: a daemon that is up again and again answers within a deadline now and
then. None for the containers, the daemon or the statistics of a container.
`Memory`: weak fairness of a round that reads its list, again because not every
round fails; none for the things listed. `AccessLog` has no liveness property and
no fairness.

## 4. Findings

Each is shown by a run whose property states what the documentation says.

1. `accesslog.go:430` - lines written to the old file between the agent's last
   tick and nginx's reopening are dropped at a rotation, where `settings.go:21`
   says a tick drains whatever the log gained.
2. `accesslog.go:451` - a failed `stat` or `seek` makes the follower read the
   current file from its start again, where the comment assumes a new file.
3. `postgres/collector.go:80` - instances behind one that spends the shared
   deadline on its optional readings are never collected, silently, where
   `cmd/prostometrics-agent/README.md:6-8` lists PostgreSQL under "Every 10s". The
   slow one counts as collected, so the retry pause does not apply to it.
4. `prom/collector.go:96` - the own slice of a target lies inside a deadline
   capped by the interval, so with an interval of 5 s or less one hung endpoint
   starves those behind it, where `cmd/prostometrics-agent/README.md:296-297` says
   it cannot. The test of the exec collector's sum holds (`SumIsEnough`), but the
   same file, line 337, still speaks of the slowest command instead of the sum.
5. `docker/cpu.go:305` - replicas of one Compose service publish their own
   cumulative counters under one label, so the client sees the difference between
   two containers as progress, where `cmd/prostometrics-agent/README.md:11` says a
   counter that does not move costs nothing.

Met while reading, without a run of their own:

- `runner.go:122`: a collection whose deadline passes while it waits for a slot
  ends silently; the comment at 140-142 speaks of reporting a failure.
- `accesslog.go`: `maxRankedRowsPerTick` bounds the entries kept for the lists,
  each of which may cost three events.
- `accesslog.go:238`: in a line that lost its beginning, a referrer or user agent
  whose first word is a number from 100 to 599 passes for the status.
  `LinesAssumption` excludes such lines.
- `toplists.go:219`: a path is cut at 256 bytes before its extension is looked at,
  so an asset with a long path is a page; a referrer without a scheme whose query
  has a URL is credited to that URL's site.
- `accesslog.go:379`: a truncation shows only in a file shorter than the offset;
  one that has grown past it again is read on from there and its beginning is lost,
  where `cmd/prostometrics-agent/README.md:109` says that reading follows the file
  across truncation. `ByteExact` ends at a truncation that was not seen.
- `docker/cpu.go:51`: the listing behind `docker.container.up` has room for 200
  containers (`probe.go:32`), stopped ones included. One that crashed and was pushed
  out of it keeps the 1 it last reported, where
  `cmd/prostometrics-agent/README.md:69-71` speaks of the full list.
  `CrashReported` is checked with room for all.
- `systemd/collector.go:70`: a unit that recovers while the agent is being restarted
  never reports its zero, because `lastFailed` is empty then, where
  `cmd/prostometrics-agent/README.md:88-89` says that its line returns to the floor.
  `LinesSettle` leaves these lines out (`orphans`).
- `rabbitmq/collector.go`: the consumers of a queue that left the list keep their
  last value; only its depth is set to zero.
- `mongo/collector.go:217`: over a server restart an average divides two
  differences that need not belong together.

## 5. Proofs

`RunnerProofs`, for every finite set of collectors, all intervals and requests,
and every number of slots (`SetsAssumption`, `TimeAssumption`, `SlotsAssumption`):

- `TypesHold`, `SlotsHold`: `SlotsAccounted` alone is not inductive, because a
  `Finish` needs to know that its collector is one of those counted; with
  `TypeOK` and the fact that nobody runs before `Spawn` it is (`SlotsInv`). The
  work is in the cardinality of `Busy` when one element enters or leaves.
- `NoUseAfterCloseHolds`: by `LifeInv`, which ties the phases of the main
  goroutine to those of the others.
- `NoTickMissedHolds`: by `ClockInv`. Between two ticks the time left on a
  collection is at most the time to the next tick (the cap by the interval); when
  a tick arrives during a collection its context is done at that moment, so no
  time passes until it has returned and the tick is received.
- `NoTurnSkippedHolds`: by `TurnInv`. With fewer others that take time than
  slots, a waiting collector always finds either a free slot or one held by a
  collection that is about to end, so no time passes while it waits.
- `PromiseHolds`: the refinement of `AgentPromise`, step by step.

`LogTailProofs`, for every window, line limit and bound (`BoundsAssumption`):

- `TypesHold`, `ByteExactHolds`: by `TailInv`, which adds to `ByteExact` that the
  stretch lies inside the file (`from <= offset <= size`) unless a truncation was
  not seen yet, which `gen` tells. A write keeps the part of the file already
  read (`AppendKeepsPart`); a read extends it and splits the text in two
  (`PartExtends`, `LinesAndRest`); every step that discards something begins an
  empty stretch (`StretchCovered`).
- `InOrderOnceHolds`: by `OrderInv`. That what was handed over is in order says
  nothing of what comes next, so the invariant orders everything a step may hand
  over: the files among each other (`FilesOrdered`: nothing is in a file that nginx
  has not had open), what was handed over before the unfinished line and both
  before what the file in hand still holds (`Handed`), and all of that before the
  file of the log's name, once it is another one (`ReaderOrdered`). A file that is
  shorter than the offset was truncated, and then nothing in it was handed over
  yet, which is what a jump back to its start needs. The claim ends at the first
  failure for no lasting reason (finding 2).

`InstancesProofs`, for every list of instances and all times for which a round
and what it may run over fit its interval (`InstancesAssumption`,
`TimeAssumption`, `RoomAssumption`; `MCInstances` shows that the code's times do):

- `TypesHold`, `OwnedHolds`, `CleanConnHolds`: by `LinkInv`. `Owned` is not
  inductive: a dial must know that nothing was held before, a query that
  something is, and an unread answer that its connection is the one being
  closed (`LinkRules`); which steps an integration can be at is `Route`.
- `InTimeHolds`: by `ClockInv`, which bounds the time already spent plus what
  the operations still ahead of the current instance can take (`Ahead`). A new
  instance is begun only while some of the context is left.

`DockerProofs`, for every finite set of containers, any labels, workers and
listing limit (`DockerAssumption`):

- `TypesHold`, `RoundIsWholeHolds`, `NothingInventedHolds`: by `DockerInv`. That
  no worker outlives its round needs the pool to be counted (`PoolFits`: those
  that wait and those at work are at most those started), and the types need it
  too (`free` stays in its range). `NothingInvented` speaks of the end of a sum;
  its inductive form `Tally` relates a container's counter, the reading
  remembered and the one in a worker's hand to what was really used at each, so
  that an exchange moves the bound on and a restart of the container only loosens
  it.
- `HungCostsItselfHolds`: by one more part of `DockerInv`. While the sending goes on,
  the workers that wait and those at work are exactly those that were started
  (`Manned`); so when none waits and fewer than that are stuck, the sending is over,
  and before the deadline it ends only when nothing is left to send.

`BudgetProofs`, for any configurations, defaults and limits (`SetupsAssumption`,
`TimesAssumption`):

- `TypesHold`, `OwnShareHolds`, `SumIsEnoughHolds`, `QuickNotStarvedHolds`,
  `OnTimeHolds`: by `BudgetInv`. The three claims about shares are about one
  quantity, what is gone of the deadline: at most the timeouts of the jobs behind
  that do not answer at once and what the running one has used (`OnBudget`), unless a child lingered or the agent is stopping. A job is
  cut short only if its own timeout exceeds what was left (`Clipped`). The sums are
  a recursive function over the jobs: that it exists, grows and is monotone in the
  costs is proved by induction over their number (`SumsDef`, `SumsGrow`,
  `SumsCompare`).

`AccessLogProofs`, for any lines, limits, capacity and names
(`AccessLogAssumption` and those of section 2):

- `BaseFirstHolds`: by `RowsLast`: while a count or a time is still to be offered no
  row of the tick is in the queue.
- `TypesHold`, `UniformHolds`: by `AccessInv`. `Uniform` compares two values; the
  inductive form says how much each has: the number of ways in which a value is in
  the sample, times the values offered, is the number of all ways times the size of
  the sample (`Share`). When a reservoir is full, of the `n` numbers that `Intn` may
  return `maxSamples` bring the new value in and each value in the sample is lost to
  one of them (`ChancesOfNew`, `ChancesOfOld`). A sample may come about in several
  ways, so the step needs the sum over new samples of the sum over old ones, in the
  other order (`SumExchange`).
- `CountsTrueHolds`: what a parse finds depends on two quotation marks with none
  between them and on the field behind them (`EntryOfLine`); in a line that lost its
  beginning, two such marks are two neighbours of the whole line, to which
  `LinesAssumption` applies.
- `OneSiteOneRowHolds`: the delimiters are looked for from the left or from the
  right in a text put together of parts; `CutFirst`, `CutFinal`, `AfterFirst` and
  `AfterFinal` say where they are found when a part has none of them. `AuthorityOf`,
  `HostIs`, `PortOf` and `SiteOf` take a referrer apart in the order the code does.
- `OnePageOneRowHolds`: the row of two parts is the rows of the parts, if the second
  begins with a slash (`RowConcat`), because whether a token names a record is
  decided by its two neighbours. The query is off before the last slash is looked
  at (`PathIsFound`, `RowOfPage`).
- `FurnitureStaysOutHolds`: of a page's row, what is behind the last slash is what
  stands for its last segment (`AssetPathIs`), and what is behind the last dot of that
  is an extension exactly when it ends with a dot and that extension
  (`ExtensionIs`). With a name that must be cut, the claim ends, as in the model.

The texts of `TopLists` are sequences over `Token`, the strings with the literals of
the model listed again, since the provers do not know that a literal is a string.

`SumTheorems`: the library's induction theorems take a predicate, which the provers
cannot instantiate. Here they are stated for a set, with the least counterexample as
the proof (`UpToN`, `UpToSet`), and from them that the fold behind `SumFunctionOnSet`
exists and is what one expects (`IterExists`, `SumOut`, `SumAdd`, `SumExchange`). So
functions defined by recursion can be reasoned about for every input.

`MemoryProofs`:

- `ZeroMeansCrowdedHolds`: a thing left out of the head of a sorted list is behind as
  many others as the head has room for (`LeftOut`, by the cardinality of the head); a
  name that no other thing has is told its own level (`ToldOwn`). For systemd, whose
  list is not sorted, all levels are one.
- `DifferencesTrueHolds`: by `Balanced`, which says that the counter is at most the
  reading remembered plus what was counted since, and exactly that if it did not
  start again, and by `Forgotten`, that a disk missing in the last round has no
  reading.

**Only model-checked:** the liveness properties `EveryCollectorHeard`,
`ShutdownCompletes`, `CatchesUp`, `DeadCostLittle`, the `RoundsEnd` of `Budget`
and of `Docker`, `CrashReported`, `FalseLimitsCease` and `LinesSettle`, because
liveness under fairness is out of the prover's reach. Every invariant and every
safety property that a passing run checks is proved.

## 6. Not modelled

The log limiter and what is logged; metric names, labels and values; HTTP, SQL
and the wire protocols. Components without a module:

- *Configuration* runs once, before anything is concurrent, and turns files and
  environment variables into the constants of the models. Labels that coincide
  are listed as a hazard.
- *Prometheus text parser*: pure functions on single characters of a line, which
  a model on tokens would presuppose and one on characters only repeat. Two of
  its cases are listed as a hazard.
- *stub_status*: one request and one parse per tick; in `Runner` it is a collector
  like others.
- *Host collectors other than cores and disks*: one read of a file each, nothing
  outlives the tick; the network's totals go to the client as they are.
- *Catalogue*: constant lists. *Installer*: a shell script run once by an
  operator. *Client library*: not in the repository; what the models need of it
  is external.

Three hazards of modelled components are beyond the properties, because the code
does not, and mostly cannot, guard against them: a log that has grown past the
remembered offset again after a truncation, a unit that recovers while the agent is
being restarted, a crashed container for which the listing has no room. Section 4
says what happens then, and each model says by name where its claim ends.

## 7. What is left

The Prometheus parser, checked on characters; the labels that configuration
derives, against one another.
