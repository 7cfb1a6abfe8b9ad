# driver-hostmot2: specifications, model checks and proofs

`hm2-host` runs LinuxCNC's HostMot2 driver for Mesa FPGA cards in a process of
its own and talks to a motion control, "the core", over a shared-memory region.
This directory holds TLA+ modules that model its parts, the TLC configurations
that check them on small instances, and TLAPS proofs of the properties that
matter most for every value of the constants. `PROJECT.json` lists runs,
mutants, theorems, hazards, findings, and the source lines each definition
stands for.

    tlc -workers 2 -config channel.cfg Channel.tla     # one run
    tlapm Channel_proofs.tla                           # one module's proofs

## The system

    configuration file -> settings, module/param/pin lines           Config
       |
    LibreCNC (the core, external)
       |  shared region: two halves of inputs, two of outputs, two counters
    hm2-host: host/main.c, region.c    Channel, Region, Binding, LogRing, Layout
       |                               Startup (the whole run), Timing (clocks)
       |  signal table, parameters, funct(read), funct(write)
    shim: HAL and RTAPI as the driver sees them           Arena, Cells, Binding
       |
    hostmot2 and its functions: watchdog, encoder, sserial, ...
       |                                             Board, Encoder, Sserial
       |  llio: queued reads and writes
    hm2_eth: UDP, one request and one reply a period                    EthLink
       |
    the card and its remotes (external)              Board, Encoder, Sserial

| Component | State | Operations | Hard behaviour | What makes it correct |
|---|---|---|---|---|
| Shared region and cycle (`main.c`, `region.c`) | two halves a side, `cycle`, `response`, futex word; what was collected and applied | begin, fill, publish, wait, collect, apply; the core's read and answer | two processes, no lock; core stops, dies or leaves; pieces placed by arithmetic | no torn block, an answer of its own cycle, no lost wake-up, a silent core ends the run; no piece overlaps another |
| Log (`main.c`) | ring, two indices, count of drops | log, drain, stop | two threads, no lock; ring full | lines whole and in order, each out or counted |
| Period, bus state, soft reset (`main.c`, `hostmot2.c`, `watchdog.c`) | `has_bit`, `io_error`, `needs_reset`, `needs_soft_reset`, bus state | read, publish, answer, write | a bite and a loss in the same period; the control's changes between | the board's settings are what the driver takes them for; no bite without a fault shown |
| Ethernet link (`hm2_eth.c`) | read and write counts, error counter, queues | send, receive, confirm, count errors | lost, late and stale packets | a silent link is given up; a good read is this period's |
| Binding (`main.c`, `hal_shim.c`, `param_table.c`) | signals, cells, published list, last level applied | declare, fix, bind, seed, take_answer | control and driver both write some cells | names are unique, an output is written only when asked, one request acts once |
| Region life cycle and card tool (`region.c`, `main.c`) | names, header state, process steps | create, declare, rename, run, stop, kill; `--setsserial` | kill at any step, restart, second master | never half made, never resumed, one master |
| Configuration file (`config.c`) | settings, three lists, count of faults | read a line, check the whole, free | repeated, unfitting and never-used lines, wrap of narrow fields | what is cycled is the file in full |
| Process start and end (`main.c`, shim) | modules, arena, region, log thread, lists | load, start, declare, cycle, give up, end | a failure at every step, three ways out | every return gives back what was taken; no module outlives the arena |
| HAL and RTAPI shim (`hal_shim.c`) | arena, tables of pins, parameters and functions, 64-bit cells | hal_malloc, new pin, new param, export; the accessors | names too long, tables full, one cell seen at two widths | nothing handed out overlaps; what one side writes the other reads |
| Measurement, schedule and transfer guard (`main.c`) | deadlines, last wake-up and last write, worst case | measure, declare, sleep, guard, wait for the answer | a sleep that ends late, a period that overruns, a stop in between | each transfer has its time, lateness does not add up, the worst case declared covers what was measured |
| Smart Serial port (`sserial.c`, `sserial_watch.c`) | port state, parameter step, timer, fault count, command word | start, update, transfer, stop, watch | lost words, a busy card, control changing parameters meanwhile | faults stop the port, each is seen, it settles |
| Encoder (`encoder.c`) | the count extended, latch bits last sent, index and probe pins | update and handle index, write on change, force write | wrap; a pulse while packets are lost or late, and requests change | the count is the axis's; what is reported happened, and was asked for |
| Step generator, registration, I/O ports, PWM, DPLL, other functions | register images, counters | process_tram_read, prepare_tram_write | wrap, partial failure | not modelled, see the plan |

The parts meet in one thread's period. It reads the card (`hm2_read`), publishes
the inputs, takes the core's answer and writes it (`hm2_write`). With
`same_cycle` the answer to this period's publish is waited for until the send
deadline; without it the answer to the last publish is taken before the read.
Whoever calls whom, only three things run concurrently with that thread: the
core, over the region; the log's writer thread; and the card, over the link.

## Modules

Every module says at its head what it takes from where. Names are the source's
where there is one; the others are named for the step they stand for. Operators
with an underscore in their name (`Full_offByOne`) are mutated forms of the
definition that follows, used only to show that a run would notice such a bug.

**`Channel`** - the region's handshake. `cycle` and `response` are the counters
of the header, `input` and `output` the halves; `hpc` and `cpc` say where host
and core stand, and every access to a half that the other process could
interleave with is a step of its own. The host's steps follow one turn of the
loop at `main.c:1304-1520` with `hm2_region_begin`, `publish`, `wait_answer`
and `collect`; `take_answer`'s miss limit and `on_change` outputs are here too.
The core, from the protocol in `cnc_outboard.h`, answers cycles in order, may be
arbitrarily slow and may stop, leave or die at any step. A block's content is
the number of the cycle it belongs to, which is all a torn or stale block needs
to be told by. `sameCycle` is chosen in `Init`.

**`ChannelSpec`** - what the region promises: one input block and one output
block, each replaced in one step, answers in order. `Channel`'s `Refines` is
`ChannelSpec`'s `Spec` under the mapping that takes the half of the newest
counter for the block.

**`Layout`** - where header, counters, descriptors, halves and values lie, as
functions of the number of signals: the structures of `cnc_outboard.h`,
`hm2_region_layout`, the addressing of a half, and the descriptors
`declare_signals` makes. It has no state; what is said of it is proved.

**`LogRing`** - `hm2_log`, the ring, `log_writer`, `log_to_ring` and
`log_from_ring`, step by step between the atomics.

**`LogSpec`** - what the log promises: a bounded queue that a line enters in one
step or is dropped from, only when it is full but for the line that leaves it,
and that lines leave oldest first. `LogRing`'s `IsAQueue` is `LogSpec`'s `Spec`
with the lines from the first not put out up to `head` for the queue.

**`EthLink`** and **`Board`** - `EthLink` has the transport's state and
operators: replies on the air with the request they answer and the write count
they confirm, the error counter, `io_error`. `Board` EXTENDS it with the period:
read (`ReadRequest`, then `ReadReply` with the watchdog's status, `ReadSkip` or
`ReadTimeout`), `Publish`, the control's changes of `has_bit` and `io_error`
(`Control`), and the write (`WriteChanges`, or `WriteAll` when a reset is due).
All the card's settings are one value, sent on change or by a forced write; the
board loses what it had when its watchdog bites.

**`Encoder`** - EXTENDS `EthLink` too: the card's count, a latch it arms and
disarms, and the driver's extended count, pins and `prev_control`. The reply
holds what the card had when it was asked. The axis turns by at most `Speed`
counts a period, and the card may meet a pulse or an edge in each. `Process` is
`hm2_encoder_instance_update_rawcounts_and_handle_index`, `Write` a write that
sends all control registers if one of them changed. Before it looks at a latch,
a read that sees a quad-error-enable rise (`quadRises`) writes all control
registers itself: `prev_control` is then what the pins ask (`Asked`), while the
packet waits for the next write (`queued`). `due` is a history of the event
asked for, which no code reads. A probe and an index are one kind of event
to the card, which latches what it is armed for.

**`Binding`** - the start-up order declare, `fix_pins`, bind, seed, and then
periods: control, `take_answer`, driver. Constants name classes of pins by what
the driver declares and does with them, the `Strobes` being those it lowers
itself and `Rewritten` inputs that the driver writes too; those of them the shim
does not publish both ways are `Unheeded`.

**`Arena`** and **`Cells`** - what the shim hands to the driver. `Arena` has
`hal_malloc` and every call that declares something, with any arguments and in
any order, failures included: an address is a distance from the arena's start
and the tables are sequences. `Cells` has the union of a cell: what is read at
32 and 64 bits and through doubles after each kind of write; a conversion C
leaves undefined gives a set of results. Both are proved about, not run.

**`Config`** and **`Startup`** - `Config` is `config.c`: one action reads a line
into the settings or one of the lists, or counts a fault; `EndOfFile` looks at
what only the whole file tells. `Startup` EXTENDS it with the rest of a run of
`main`: shim, modules loaded and started with their arguments, the driver's
declarations for as long as there is room, `param.` lines taken and converted by
the parameter's type (`Converted`), cells the driver then sets itself
(`SetParam`, for a Smart Serial remote's parameters and what `hm2_force_write`
limits), `pin.` lines, what nobody took complained of, the region, the loop, the card tool, and the three ways out. Any
step that can fail in the code can fail here.

**`Timing`** - the clock. The measured periods, the worst case computed from
them, then periods with absolute deadlines: `sleep_until`, the transfer guard,
read, the wait for the core, write. A sleep ends on time or as late as `Lates`
says; the core answers at any time or never; a stop may come anywhere.

**`Region`** - one run of the program is a sequence of steps from `Create` under
`.measuring` over `Declare`, `Measure` and `Rename` to the cycle, with orderly
end, failure and kill from each; hosts are runs, so a restart is the next one.
The core that has mapped an object may move its state at any time. A run of
`--setsserial` looks for the region, opens the card and ends, each a step of its
own.

**`Sserial`** - one port: `state` is `port_state`, `loop`, `step` and `index`
are `port_state2`, `port_state3` and the parameter's index; `command` is the
word written to the card and `readBusy`, `readFailed` the two words read back.
A reply may be lost, which leaves the words as they were; a write may be lost.
The card is external: busy until it chooses, and free to fail. `Watch` is
`sserial_faults_seen`, which runs after every write.

**`*_proofs`** hold the theorems, below.

## Runs

Passing runs; bounds are in the `.cfg`.

| Run | Asks | Shows |
|---|---|---|
| `channel` | may the core's and the host's steps interleave badly, in either order of the period | no half is written while read; answers belong to the cycle read; at most one write past the limit uses a silent core's outputs; a held level is not applied again; no lost wake-up; a same-cycle write uses this cycle's answer unless late; every period ends; a silent core ends the run; and the two halves implement one block a side |
| `log_ring` | do the two threads share slots safely | no slot read while written, lines in order, all out or counted as dropped once the writer is joined, stderr told of all drops but the last one at most, stopping returns, and the ring implements a queue |
| `board` | do losses, late replies, bites and the control's changes leave driver and board apart | a silent link is given up; settings confirmed are the board's; no bite is undone without a fault shown and answered; in the same-cycle order a good read is this period's; once the link is good the board comes back |
| `encoder` | do wraps, losses, late replies and requests withdrawn fool the encoder | the extended count is the axis's position in each reply used, however many were lost before; in a read that confirms the last write, an event reported is one the card had since it was asked for, at its place, unless that read itself changed what counts as asked |
| `binding` | can a cell be written by the wrong side | one signal of a name and direction; but for inputs the driver rewrites and the shim publishes one way, an output is written only when the control asked, and a strobe acts once per request |
| `region` | kills, restarts and the tool at every step | no half-made region under the final name; no ended channel resumed but by the store of `RUNNING` after a run's own rename; while the driver of a named run has the card its name stays, and a tool that looks for it is refused |
| `sserial` | lost words, a slow or failing card, a control that changes its mind | the watch counts exactly the faults, faults stop the port at its limit, what is taken as written was sent unless the writing was disturbed, a port settles |
| `startup` | can a line be lost, or a resource, on any way through `main` | a run that cycles has every line of the file in force but in the cells the driver sets itself, and the settings are the ones the file gives; no module is alive without the arena its pins lie in; every return has closed and freed all it took |
| `timing` | what do late sleeps, overruns, a slow core and stops do to the schedule | each Smart Serial transfer has had its time when the read asks for it, periods stay on their grid, the write is not held up past its deadline, the first write follows the last measured one soon, the worst case declared covers what was measured |

Violation runs; each is a statement of the repository that the code does not keep.

| Run | Statement | What happens |
|---|---|---|
| `channel_lost` | a change of an on-change output's level is the write (`cnc_outboard.h:375-376`) | an answer landing between collect and begin is never read, so lower and raise cancel out |
| `board_bite` | a bite raises `has_bit` until the control lowers it (`README.md:82-83`) | with a watchdog timeout of five periods or less, as the defaults have, four lost writes bite, the lost reads force a soft reset, and the bite is cleared unseen |
| `startup_exit` | `rtapi_app_exit()` is not called when `rtapi_app_main()` fails (`hm2_eth.c:1724-1725`) | a start that is given up calls the exit of every library loaded (`main.c:1559-1566`), also of one whose main failed or was never called |

### What the passing runs except

Where the code breaks a statement of the repository in one case, the property of
the passing run excepts that case and no more, and the statement without the
exception stands beside it with a configuration of its own, in which TLC finds
the counterexample within seconds. These configurations are not among the runs of
`PROJECT.json`.

| Configuration | Excepted in | Statement | What happens |
|---|---|---|---|
| `binding_strobe.cfg`: `EveryStrobeOnce` of `Binding` | `ActsOnce`, `OnlyWhenAsked` | `probe-enable` is the one `HAL_IN` pin the driver clears itself and so has to be published both ways (`hal_shim.c:286-300`) | `raw.write_strobe` is another, published one way: a held true is written over the clear and acts every period |
| `region_resumed.cfg`: `NeitherMovesBack` of `Region` | `NotResumed` | neither side moves the state back from `SHUTDOWN` or `FAULTED` (`cnc_outboard.h:701-704`) | a core that finds the region after the rename and goes at once is overwritten by the host's `RUNNING` (`main.c:1186`) |
| `region_tool.cfg`: `ToolAlone` of `Region` | `CardFreedFirst` | the region must not exist when the tool writes a card, for two masters leave a remote half-flashed (`main.c:863-866`) | the look is made once, before the modules are started, and a run takes the name in between |
| `encoder_quad.cfg`: `EventAskedOfCard` of `Encoder` | `EventIsReal` | a latch bit that reads clear is the pulse "if we've told the FPGA" to look for it (`encoder.c:804-808`) | a rising quad-error-enable sets `prev_control` from inside the read, so an index-enable raised in the same answer reads as a pulse before anything was sent |
| `startup_remote.cfg`: `StartsAtItsLine` of `Startup` | `InForce` | a parameter's starting value is its `param.` line's, or the driver's default (`README.md:66-69`) | a remote's parameter is set to what the card holds right after it took its line (`sserial.c:478`) |

### Bounds, and why they are enough

* `channel`: `MaxAnswers = 3` is three uses of the two halves, so each is used
  again; `ResponseLimit = 2` and `MaxUnanswered = 2` let the limit be reached
  and counted past once. The levels 0 and 1 are all an on-change comparison
  tells apart. The proofs cover every value of these constants.
* `log_ring`: two slots fill and wrap three times in six lines. The counters are
  unbounded in the code and 64 bits wide.
* `board`: the limits are the driver's defaults, 10, 2 and 1. `EarliestBite = 5`
  is a watchdog timeout of more than five periods; `board_bite` has 4, which a
  5 ms timeout at 1 ms is. `MaxLate = 3` replies on the air are one
  more than the two that can be confused. One setting of two values stands for
  all registers, because they are sent together or not at all. Whether the
  transport sends a rewrite of everything in a packet of its own is chosen in
  `Init`.
* `encoder`: a register of 8 counts and positions 6 to 10, across the wrap. With
  `ErrorLimit = 3` and `Speed = 1` the link is given up before the axis has gone
  half the register's width between two replies used; what that takes is
  `SlowEnough`, below. `MaxLate = 1` lets one late reply be taken for the next.
  The model ends where the link does: `io_error` stays.
* `binding`: one `pin.` line, each declaration class once or twice, and two
  values. Pins do not interact except by name, and names that clash are
  included. `writeStrobe`, after `raw.write_strobe`, is a strobe that the driver
  rewrites and the shim publishes one way; `binding_strobe` also has
  `sampleFrequency`, an input that is rewritten and is no strobe.
* `region`: three runs are one to be killed, one to find what it left, and one
  more. One host lives at a time: two at once are the service's to prevent, and
  what overlapping ones would do to `.measuring` is a hazard noted below.
* `sserial`: two parameters, one of them read-only and either kind of memory
  (chosen in `Init`), so skipping, sending, and a second turn occur. The fault
  limits 2, 1, 2 stand for the defaults 10, 1, 200: what matters is that a fault
  outweighs a decay, which `SserialAssumption` requires. `Patience = 2` lets a
  wait succeed or run out; `MaxRow = 4` bounds a history counter and passes the
  limit. A timer is meaningful only in a wait, and the model leaves it at its
  last value else.
* `startup`: two lines are what repetition, a key against a key, and a fault
  after a good line take. There is a parameter of each type, the whole number
  being the one the driver sets itself, and `param.` lines give 2.5 or a word, so
  that a conversion shows. `MaxRoom = 5` is room for all that
  the driver declares; `Init` chooses how much there is, so a start that runs
  out at each declaration occurs. `Words = 65536` stands for 2^32, and
  65686 for a number that wraps to a lawful one; 0, 9 and 1000 lie on either
  side of the least values, 0, 8 and 10 tenths of those of reals.
* `timing`: a period of 8 units with the deadline at 5 and a transfer of 3, so
  that a late sleep (9, more than a period) makes a period overrun, and a read
  of 3 makes a write late. `Margin` is 1.5. `Stated` has both a worst case of
  the file and none. Three periods are the first, one that comes after a late
  one, and one more.

Where a run stops (`CHECK_DEADLOCK FALSE`) the system may: the host has ended, a
configuration was refused, every run is over, or a bound is reached.

### Fairness

* `Channel`, `Board`, `Sserial`: the host's step is weakly fair. The clock
  releases each period and every wait inside has an absolute deadline
  (`sleep_until`, the futex timeout, the receive timeout of `hm2_eth`), so the
  thread is never blocked for good. `Channel`'s deadline passing is fair for the
  same reason.
* `LogRing`: the writer thread is weakly fair: it runs at ordinary priority and
  sleeps 10 ms at most, and stopping waits while the cycle no longer runs.
* Nothing is assumed of the core, the control, the card or the link. `Recovers`
  assumes in its own statement that the link is good from some time on and the
  control lowers `has_bit` and clears `io_error` again and again; `SilenceEnds`
  that the core is gone after an answer. `Encoder`, `Binding`, `Region`,
  `Startup` and `Timing` assume nothing and have no liveness property.

## Proofs

TLAPS checks these for every value of the constants that each module's named
assumption allows (`ChannelAssumption`, `EthAssumption`, `BoardAssumption`,
`LogAssumption`, `RegionAssumption`, `SserialAssumption`, `EncoderAssumption`,
`BindingAssumption`, `ConfigAssumption`, `StartupAssumption`,
`TimingAssumption`); TLC evaluates those on each run. Every invariant and action
property of the passing runs is proved; three of those theorems need a condition
besides, named below and in their statements. What a property excepts is in the
property, and where it breaks a statement of the repository a configuration above
shows it.

**`Channel_proofs`** - `TypeCorrect`, `NoRace`, `WholeSamples`, `Implements`,
`NoWakeupLost`, `FreshWhenInTime`, `SilentCoreBounded`, `HeldLevelsStay`.
`NoDataRace` is not inductive. Why the host may not fill a half that the core
reads is a fact about the counters, and the counters are only right because
each side reads the other's before it starts. `IInv` is `TypeOK` with
`Handshake` (the core is at most one cycle behind, and level with the host
while a half is filled), `InputBlocks` and `OutputBlocks` (a half holds the
cycle its parity says, in full or up to the step that the filler has reached).
The steps are proved in lemmas by who moves: the host away from the blocks
(`HostQuiet`), publishing (`HostPublishing`), the idle core (`Idle`) and the
busy one (`CoreWorking`); `NextInv` joins them. The lemma behind all of them is
`HalfFacts`: neighbouring cycles have different parities. `Implements` maps
every step to a step of `ChannelSpec` or to a stutter, from the same `IInv`.
The other four need one more invariant each, on top of `IInv`: `Waiting` (the
word the host sleeps on is the one it checked, or a wake is on its way),
`Fresh` (which answer stands where the wait has ended), `Silenced` (how many
writes the miss counter has allowed at each place of a period) and `Requests`
(the levels applied so far count no more changes than were asked for).

**`Board_proofs`** - `TypeCorrect`, `GivesUp`, `GoodReadIsNewest`,
`SettingsInSync`, `BitesAreAnswered`. `SilenceTold` speaks of how many reads in
a row brought nothing and needs the counter that the code keeps: `CostCounted`
bounds their number by it, and `Trusted` says that no reply is waited for past
the limit. The step sizes are any integers, because `hm2_eth` clamps increments
below one to one. On it rest `Numbers` (a reply that confirms the last write is
the newest, and older replies are behind it), `Agreed` (what the driver takes as
confirmed the board has, or a rewrite is due), and `Warned`: a bite takes as
many missed writes as a row of failed reads that the counter has seen, so before
the write that would clear the bite the link is given up or a read has told of
it. `BitesAreAnswered` therefore assumes that the writes a board must miss cost
the error limit, `EarliestBite * AtLeastOne(ErrorIncrement) >= ErrorLimit`;
`board_bite` is the run in which the defaults miss just that.

**`Shim_proofs`** - of `Arena`, under `Sizes` (the sizes are natural numbers): nothing
`hal_malloc` hands out overlaps, tables are never overrun, two signals share a
cell only as the two directions of one pin, and each pin the driver holds is
published at its cell. The invariant is that everything handed out lies below
the mark of what is used, from which a new block is apart from all older ones.
Of `Cells`, `FixedReadBack` and `DriverWritesAreRead`, by the arithmetic of
2^32 and 2^64 that `SintOfWord` and `SsOfWord` state.

**`LogRing_proofs`** - `SlotsUnshared`, `LinesInOrder`, `NothingLost`,
`Implements`. The
indices each thread has loaded lag behind the shared ones, and lag the right
way: `Turns` and `Counters` say by how much. `SlotsApart` turns that into
different slots: two lines less than a ring apart do not meet. `Implements` maps
every step to one of the queue's or to none: the copy is none, because the slot
it fills is not among those that wait (`WaitingKept`), and `head` moving past it
puts the line in, the line of that call and whole. That the lines come out in
order, each once, is part of it; `LinesInOrder` states it by itself, and the run
checks the queue.

**`Region_proofs`** - the region's life, layout and signals.

Of `Region`: `WholeWhenFound`, `EndedStays`, `OneMaster`. `OneAlive`, `Places`
(which name a run has at which step) and `Found` (what bears the final name was
finished) are inductive together. `EndedStays` excepts the one store of
`RUNNING` and nothing else, with a core that moves any state at any time.
`OneMaster` says that a look is refused; that the tool then opens the card under
a run named since is `region_tool`'s.

Of `Layout`, for every number of signals (the pieces: if there is any): the
counters of each side on lines of their own, no two pieces overlapping and none
past the end, the two halves of a direction on different lines, no two values at
one place, descriptors and starting values written inside their pieces, and no
descriptor outside the core's enumerations. The common fact is that `ToLine`
rounds up to a multiple of the line and by less than a line.

Of `Binding`: `NamesAreUnique`, `AnswersChangeWhatIsAsked`, `StrobesActOnce`.
What `take_answer` compares with is in one of two places: `Levels` says that of
an on-change output it is `last`, and of every other the cell itself, which
nobody but `take_answer` writes. `Table` (a pin is published in all its
directions or in none) and `BoundAsPublished` say which outputs are which, and
`Raised` that a strobe that is up is one the control asked for. For a pin
that the driver rewrites and the shim publishes one way (`Unheeded`) both are
false, in the invariant as in the code: the two properties except those pins,
and the theorems hold for any set of them.

**`Sserial_proofs`** - `WatchCountsFaults`, `FaultsStopThePort`, `TakenIsSent`.
`RowCosts` bounds the faults in a row by the count the code keeps: each costs
`FaultInc` less one decay. `TakenIsSent` rests on what is so between sending a
value and noting it (`UnderWay`: the remote lacks at most that one, and a card
no longer busy has it) and at any other time (`AtRest`: nothing is being set).

**`Encoder_proofs`** - `CountIsTheAxis`, `EventsAreReal`. A narrow count extends
right while the axis has moved by less than half the register since the last
count used (`Extended`), and how long that is ago no variable says. `Window`
takes it from the error counter: if n reads have failed since the last good one,
they cost `n * Step`, and all that the card had since, late replies and the
latch included, lies within `Speed` counts for each period. The rest of the
invariant says which reply confirms (`Newest`), what the card is armed for when
it has the last write (`Synced`), that an event it had is due until it is
reported (`Owed`), that a lost write is sent again (`Retold`), and that a
register written from inside a read waits for that period's write (`Queued`):
until then the card has not been told (`Told`), which is why `EventIsReal` excepts
the read that does it. Both theorems
assume `SlowEnough`: half the register is not turned in the reads that may fail
before the link is given up, and one more. With 16 bits and the defaults, where
the fifth failed read in a row ends the link, that is an axis of up to 6553
counts a period.

**`Host_proofs`** - one run of the process.

Of `Startup`, and with it of `Config`: `FileInForce`, `DriverHasItsArena`,
`EndsClean`, for a file of any length and a driver that declares anything. A
line on its way into force is never in one place: `AllFiled` says that each line
read lies in its setting or list, or a fault was counted; `ParamsPlaced` that of
the module parameters placed so far the last of each name and index is the one
in the module; `LinesInCells` that a claimed line, converted by type, is in its
cell, or the cell is one the driver sets itself; `PinsFixed` the same of pins. `LineAppended` is what the steps of the loader have in common:
a line that is the last of its name in the longer file was so before, and the
new line is of another name. That `param.` lines are counted as they are listed
(`Counted`) goes by adding one element to a finite set. The ways out need no
more than tables: which step of `main` finds which module in which state
(`ModulesByStep`) and what it holds (`HeldByStep`).

Of `Timing`: `TransferAlwaysHad`, `PeriodsStayOnGrid`, `WritesInTime`,
`FirstWriteIsSoon`, `DeclarationCovers`, for every period, deadline and set of
durations that has a longest. The properties speak of one place of the period
each; the invariant says what time it may be at all the others. `Deadlines`
(`next` is a whole number of periods after `start`) and `Grid` (a period is over
by the next deadline, one lateness, or the write it was late with) are
inductive together; `FirstPeriod` follows the first period on its own, because
until its write no answer is waited for; `Waits` bounds the wait for one;
`Writes` says which write was the last.

Only model-checked: the liveness properties (`PeriodEnds`, `SilenceEnds`,
`StopReturns`, `Recovers`, `Settles`), which are beyond this prover.

## Remarks on the code

The cycle and the link:

* `GoodIsNewest` is stated for the same-cycle order, in which every read follows
  a write, so that a late reply bears an old write count. In the other order the
  control may clear `io_error` right before a read: nothing was written since an
  earlier request, and the late reply to that one counts as good.
* `main.c:1396-1397` says that the driver re-sends every setting and the board
  resumes. On a litehm2 board the rewrite goes in a packet of its own
  (`hm2_eth.c:1182`) and only the newest write number is compared
  (`hm2_eth.c:1053`): if that packet is lost and the one behind it arrives, the
  settings are taken as confirmed and not sent again. `InSync` and
  `BiteIsAnswered` except this transport for that reason.
* `link_dead` falls when the control clears `io_error`, before the board has
  answered (`main.c:1381-1388`); `main.c:1223-1225` and `README.md:90-91` tell
  it for the rest of the run. `README.md:70-72` has the newer words.
* The periods of the measurement have no transfer guard (`main.c:742-743`
  against `759-768`), so a Smart Serial transfer may be read too soon there;
  `Timing` guards the cycle only, as the code does. A stop ends the wait of the
  guard early, and the read of that period comes too soon as well.
* The host's response watchdog counts periods, not time.
* The two halves of the fixed input block share a cache line (1056 bytes are
  sixteen lines and a half), so a core that reads one half may be slowed by the
  filling of the other; the halves of the signal values do not.
* The header's `cycle_ns` is a 32-bit product (`cycle_us * 1000u`) and wraps for
  periods above 4.29 s.

Functions of the card:

* The packet that arms an encoder's latch may be lost: the next reply, used
  although it does not confirm the write (`hm2_eth.c:1053`), has the bit clear,
  so the position is zeroed and `index_enable` lowered with no pulse
  (`encoder.c:813`, `304-306`). `EventIsReal` speaks of reads that confirm.
* A pulse that the card has latched and the driver not read yet is forgotten
  when the control registers are written again: after a lost reply by the soft
  reset, or in that period because another encoder's control or a common setting
  changed (`encoder.c:206-285`). The latch is armed anew and a later pulse zeroes
  the position.
* Some functions limit or round what they were asked for in the pin itself: the
  encoder's `sample-frequency` and `skew` (`encoder.c:167`, `179`), timer numbers
  (`stepgen.c:495`, `xy2mod.c:272`), and pins of `dpll`, `oneshot`, `periodm`,
  `rcpwmgen` and `xy2mod`. They are published one way, so the control's value is
  written over the limited one each period, and a `pin.` line may fix them:
  `OnlyWhenAsked` excepts them.
* `sserial.c:1526` says "Set the written = param": a parameter that the control
  changes between the sending (`1476-1518`) and the confirming is remembered as
  written though the old value was sent. `WrittenIsSent` excepts that change.
* The driver also limits some parameters in the start, when `hm2_force_write`
  first sends them: the watchdog's time, the generators' frequencies, step
  timings (`watchdog.c:236`, `pwmgen.c:102`, `stepgen.c:364-400`). It logs those;
  what it reads from a remote over a `param.` line it does not (`startup_remote`).
* A port that stops writes its last command once more: state 3 leaves the word
  (`sserial.c:1776-1780`). A start whose packet is lost is not sent again.
* A lost reply leaves the words of the last one, so one unfinished transfer may
  be counted in more periods than it lasted. The state 100 of `port_state` has
  no way in. A fault not larger than its decay would hide from the watch.

Start, configuration and end:

* A name that `pin.` lines fix and that a parameter bears too is published as a
  pin that cannot be written and a parameter that can: `Binding` assumes, as
  upstream does, that no parameter has the name of a pin the driver only reads.
* `send_deadline` is checked by comparisons that a NaN passes (`config.c:368`).
  Whole numbers are read by `strtoul` without a look at where it stopped, so a
  word is 0; for the response watchdog that is off. `fgets` gives a line longer
  than its buffer as two.
* `hm2_region_destroy` stores `SHUTDOWN` over `FAULTED` (`region.c:402` after
  `main.c:1434`), so only a core that looks in between learns which.
* `--setsserial` is refused when a run has its final name (`main.c:868`), not
  while one starts and measures, although that run drives the card already; and
  it is not refused by one named after the look (`region_tool`).
* Unsigned pins are declared to the core as signed 32-bit values
  (`main.c:545-546`), so those of 2^31 and more are shown negative. A negative
  start value is cast to unsigned for a parameter (`hal_shim.c:398`) and clamped
  for a pin (`hal_shim.c:552`).
* A parameter that finds no memory for its entry is left out without a word
  (`param_table.c:74`). `main`'s failing exit does not free the views of the
  parameters (`main.c:1559-1574`): `CleanEnd` does not speak of the tables of what
  is bound.
* A NaN on a `param.` line of a whole-number parameter is cast to an integer
  (`hal_shim.c:398-399`), which C leaves undefined; the runs' files have none.

## Not modelled, and why

Real-time set-up (`mlockall`, scheduler class, CPU choice) is a row of system
calls with no state of its own. Of the shim, log lines, string helpers and
`rtapi_delay` are wrappers of libc. How a configuration line is cut into key and
value is abstracted: `Config` starts from the pair. The remaining functions of
the card (`pwmgen`, `tp_pwmgen`, `rcpwmgen`, `xy2mod`, `oneshot`, `periodm`,
`dpll`, `resolver`, `abs_encoder`, `ioport`, `ssr`, `outm`, `inm`, `inmux`,
`led`) are floating-point scaling and register images. `uart`, `pktuart` and
`bspi` are compiled and have no caller here. `hm2_modbus` and the PCI, SPI and
parallel-port transports are not built (`Makefile:45-53`); `hm2_test` serves
constants. Of the link, the probe of the board, ARP and firewall entries and the
layout of packets are left out; of Smart Serial, discovery of remotes and the
layout of process data; of the encoder, velocity, scaling and the quadrature
error's own pin (the write its enable causes in a read is modelled); of the period, the statistics of its times. NaN and infinities are left
out of `Cells`; `Config` has NaN, for `send_deadline`.

Recursive data are avoided: a file is a sequence of lines that one action
appends to, so that what is true of files of any length is an invariant.

## Plan

Done, in this order: the channel with its abstract specification; the log; the
link and the board; binding; region; Smart Serial; the encoder; the shim's arena
and cells and the region's layout, proved; the configuration file and the run of
`main` around all of it; the clock; and the proofs of all of them.

1. `Stepgen`: accumulator extension and the switch of the control type.
2. `Registration`: `hm2_register` with its error exit and clean-up, and the read
   and write lists of `tram.c`.
3. `PktUart` if the callers it has upstream are to be built here.
4. Theorem: the region as one master after another, an abstract specification
   that `Region` implements.
