# Avalon sailing: a verification project

TLA+ models of the control software of a sailing robot, checked with TLC and, where it matters most,
proved with TLAPS. The models are translated from the sources under `src/`; every definition that
stands for code is listed with its lines in `PROJECT.json` ("map"), every part of the system with what is
and is not modelled of it ("components"), and everything in the code that is hard to test ("hazards").

## 1. The system

The boat runs about twenty small single-threaded processes. They talk over text lines on local sockets:
every process is a client of a *line bus*, and there are several buses (one for the motor controllers,
`ebus`; one for the sensors and the helmsman, `lbus`; see `src/etc/init.d`). Nothing is shared in memory
between processes. Concurrency is that of independent loops, of lines that wait in sockets and buffers,
of motors that take seconds, and of one wall clock that may be set at any time (imutime).

| Component | Source | State it keeps | Operations |
|---|---|---|---|
| Line buffer | `io2/lib/linebuffer.c` | characters, length, `eol`, `discard` | read, put, get, write, pending |
| Line bus daemon | `io2/linebusd_main.c` | list of clients, their buffers, options and subscriptions, counted filters | accept, read a line and hand it on, commands, write, reap |
| Statistics timer | `io2/lib/timer.c` | ring of time stamps, count | tick, reset, queries, statistics |
| EPOS register cache | `io2/eposclient.c` | per register: ABSENT, INVALID, PENDING or VALID, value, timer | get, set, invalidate, receive, expire |
| EPOS serial link, bus bridge | `io2/com.c`, `io2/seq.c`, `io2/eposcom_main.c` | nodes found, what is on the wires | probe, framed dialogue, retries, serve a request |
| Rudder control | `io2/rudderctl_main.c`, `io2/actuator.c` | cache, state, target angle | process input, rudder_init, rudder_control |
| Sail control | `io2/sailctl_main.c` | the same, and the skew | process input, sail_init, sail_control |
| Skew monitor | `io2/skewmon_main.c` | samples around one sensor reading | ask, take a sample, publish the skew |
| Helmsman main loop | `helmsman/helmsman_main.cc` | control mode, deadlines, heading, input of the controller | read lines, fail-safe, control step, query the skipper |
| Sensors and filters | `helmsman/filter_block.cc`, `compass_mixer.cc`, `lib/filter` | windows of samples, what is valid | filter one set of measurements |
| Ship control | `helmsman/ship_control.cc` | meta state, controller in use, wind range | commands, Run |
| Initial, normal, test controller | `helmsman/*_controller.cc` | phase, waiting times; count of slow steps; test phase and index | Entry, Run, Done, GiveUp |
| Manoeuvres, sail trim | `normal_controller.cc`, `common/point_of_sail.cc`, `maneuver_type.cc`, `sail_controller.cc` | sector, plan, gust buffers; mode of the sail, delay | decide and plan a manoeuvre; angle of the sail |
| Skipper | `skipper/`, `vskipper/` | plan, storm state, last heading | answer an input with a heading |
| AIS receiver, AIS buffer | `io2/aivdm.c`, `io2/aisbuf_main.c` | fragments, names; messages newest first | assemble and decode; keep, expire, write |
| Modem and status daemons | `modem/` | message queues in directories, retries | send, receive, act on commands, compose a status |
| SMS tool | `sms/` | a lock file | list, delete, send, receive |
| Drive status | `io2/drivests_main.c` | which rudders are homed, when each drive was told about | read a line, tell, keep alive |
| Bus watch | `io2/buswatch_main.c` | a count per prefix, time of the next check | listen, check and name, wait for the command |
| Plug, sensor readers, monitors | `io2/` | little | copy, convert |

How they interact:

* *calls*: linebusd calls the line buffer; rudderctl and sailctl call the cache, which calls nothing but
  writes request lines; the main loop of the helmsman calls the filter block and the ship control, which calls one
  controller per step, which calls the manoeuvres and the trim of the sail.
* *lines*: `rudderctl -> linebusd -> eposcom -> EPOS -> eposcom -> linebusd -> rudderctl`, with eposprobe
  asking the same drive, and its answers refreshing the same cache; `skewmon -> sailctl`; `remote -> helmsman`,
  `helmsman -> skipper -> helmsman`, `helmsman -> rudderctl, sailctl`.
* *files*: `nmeacat | aisbuf -> file -> skipper`; `statusd <-> queues <-> modemd`; the lock file of the sms tool.
* *loss*: a line is lost when linebusd has no room for it in the buffer of a slow client; nobody resends
  unless a time-out makes him.

What is hard, and hardly reached by the tests in `src/`:

* an answer to somebody else's request, or to an earlier one, arrives in the middle of a sequence of
  register writes (cache, rudderctl, sailctl), of a serial dialogue (com.c) or of one with the modem;
* every request may time out, fail or be lost on its own; a drive faults between any two of them; the
  initialisation starts again from what the cache says, which is not what the drive is;
* initialisation and homing are driven by answers alone: something must wake the process;
* a client of the bus that talks all the time, or does not read, must not starve the others;
* the wall clock is set while time-outs run, messages are dated and queues are sorted by it;
* a daemon crashes between handing on a message and deleting it; two processes find the same stale lock;
* an operator falls silent while the mode in force needs one; the answer of the skipper is already
  under way when the operator takes over;
* the boat sails only with a heading and asks for a heading only when it sails;
* decisions fed by their own outcome (tack or not, spinnaker or wing, storm or not, left or right of a ship) and by
  counters that must start anew on every way in;
* sensors that come and go while averages remember them;
* boundaries: a full buffer, a line as long as the buffer, a ring that wraps, a text that ends with its octet,
  some three hundred literal bit offsets, a heading that crosses north.

## 2. Modules

Each component has a module with its state as variables, one action per operation or handler, and
its properties at the end. Constants carry named assumptions. A definition marked `mutant` is a plausible
wrong version of the definition that follows it: with it in place, the run finds the property violated.

| Module | Models | Built on |
|---|---|---|
| `Timer` | timer.c: `TimerTick`, `TimerReset`, queries, the indices `timer_stats` reads | implements `StopWatch` |
| `StopWatch` | abstract: what a timer promises to callers that alternate starts and stops | |
| `EposCell` | one cell of the cache: what each call does to it; calls in sequence, as one pass of a control program makes them | |
| `EposClient` | eposclient.c: devices, cells, the clock; histories of requests and reports | `EposCell` |
| `EposDrive` | the EPOS with the registers, modes, homing and faults the programs can tell apart (external) | |
| `EposLink` | eposcom_main.c over seq.c over com.c, two wires and drives that are late, refuse or fail | |
| `RudderCtl` | rudderctl_main.c, actuator.c, with eposcom, eposprobe, a lossy bus, the drive and the helmsman's angles | `EposCell`, `EposDrive` |
| `SailCtl` | sailctl_main.c with the same surroundings, the brake and the skew | `EposCell`, `EposDrive` |
| `SkewMon` | skewmon_main.c with a turning motor, a drive on each of two lines that answers and is dated late, lost answers and requests of others | |
| `LineBuffer` | linebuffer.c, character by character | |
| `LineBus` | linebusd_main.c: its loop in four phases, sockets, the clients at their ends | |
| `HelmStates` | abstract: which controller runs after which, in which meta state | |
| `ShipControl` | ship_control.cc with the control flow of the initial and normal controllers and of wind_strength.cc | implements `HelmStates` |
| `FilterBlock` | filter_block.cc, compass_mixer.cc: sensors that come and go, which filter is fed, what is called valid | |
| `Filters` | lib/filter: sliding average, early average, medians, the wrap-around filter around each, on a turning boat | |
| `Helmsman` | helmsman_main.cc: modes, schedule, fail-safe, heading and skipper queries | `HelmStates` |
| `Maneuver` | normal_controller.cc, point_of_sail.cc, maneuver_type.cc, apparent.cc: sectors, tack or jibe, plans, hysteresis, gusts, the heading sailed | |
| `SailTrim` | sail_controller.cc: wing or spinnaker, hysteresis and delay, reversed sail | |
| `TestController` | test_controller.cc: all phases, time-outs and retries | |
| `Skipper` | skipper_main.cc, skipper_internal.cc, planner.cc; target_circle.cc, target_circle_cascade.cc; the boat, wind and ships around it (external) | `VSkipper` |
| `VSkipper` | vskipper.cc, util.cc, polar_diagram.cc: safe bearings, sailable headings | |
| `Aivdm` | aivdm.c: fragments, channels, names; what is decoded | `AisFields` |
| `AisFields` | aivdm.c: where the fields of each type lie, and how long each message is | `AisTypes` |
| `AisTypes` | ais.h: the members each struct has for them | |
| `AisBuf` | aisbuf_main.c: pruning, water marks, garbage, the file | |
| `Mail` | modemd_main.cc, statusd_main.cc, message-queue.cc (files whose names are process and counter, sorted by time), crashes, a full disk, the clock set back | `Modem` |
| `Modem` | modem.cc: the dialogue with the modem, answers that come late, unsolicited lines; the modem (external) | |
| `Sms` | sms.c (and its copy pdu.c), status.cc: PDUs, septets, numbers, the fields of a status | |
| `SmsTool` | sms_main.c, lockfile.c: the processes, one action per system call on the lock | |
| `DriveSts` | drivests_main.c: which drive is told about when, the stamps on the lines, the clock | |
| `BusWatch` | buswatch_main.c: counts, checks, the command, delays, the clock | |
| `MC*` | data, instances and bounds for TLC | the modules they name |
| `EposProofs` | theorems about `EposClient`, `SailCtl` and `SkewMon` | `MCEpos` |
| `RudderCtlProofs`, `LineBusProofs`, `ShipControlProofs` | theorems about `RudderCtl`, `LineBus`, `ShipControl` with `FilterBlock` and `Filters` | these, `MCShipControl` |
| `HelmsmanProofs` | theorems about `Helmsman`, `SailTrim`, `TestController`, `DriveSts`, `BusWatch` | `MCHelmsman` |
| `MailProofs` | theorems about `Mail` and `SmsTool` | `MCMail` |
| `VoyageProofs` | theorems about `LineBuffer`, `Timer`, `Aivdm`, `AisBuf`, `Skipper` | `MCVoyage` |
| `Counting` | lemmas the proofs share: least numbers, counting up, remainders, taking steps through data, rings | |

How state and actions correspond to the code, where it is not one to one:

* **EposClient.** `regs[k]` is `struct Register`: state, value, and its `Timer` as the flag `running` and the
  time `at` of its last tick. `ctl` is the request written and `ret` the value returned by
  the last call. `Clock` moves `now` to any time, also back.
* **EposLink.** The two wires are sequences; a byte on its way up names what the code compares it with. `step` is the place in
  `send`, `recv` or the node-wide dialogue where the program waits; every such wait may end in a time-out, after which what is
  still on the wire stays there. A byte of a value or a checksum (`BytesOf`) may be read as anything, also as the `O` or `F` of an acknowledgement: `mistaken` counts how often
  it was taken for an `O`, and `MaxMistaken` bounds that. `seen` is the history the answers are held against.
* **SkewMon.** A drive takes a value (`Serve`), the dialogue ends and eposcom dates the answer (`Answer`, with `-T`, for the drives in `Dating`), or skewmon does when it reads the line (`ReadLine`);
  between these the clock and the boom go on (`Turn`), for `MaxAge` ticks at most until the value has its date, which stands for what the dialogue and its retries take. `at` and `from` are histories of when and where a value was really taken.
  Each drive has an eposcom of its own, so that their answers overtake each other; one eposcom for both, as on the boat, allows fewer orders. The scripts of the boat always give `-T` (`start_avalon.sh:111`, `etc/init.d/ebus:66`).
  The clock is not set here.
* **RudderCtl, SailCtl.** One step is one pass of the program's loop: the line taken (`processinput`), followed in the same step
  by the init or control function (`React`), because nothing else can touch the process's memory in between. Requests and answers travel
  through `req` and `inbox`. The configuration registers, written in one block, are one register. A pending cell may
  expire only when neither its request nor its answer is under way; an answer that meets an expired cell is covered by EposClient.
  In SailCtl no START is lost and no fault happens: both leave the boom halted with TARGPOS at the target (section 5).
* **LineBus.** The loop of `main` is cut at its phases: `Select`, `Write`, `Read` (with `accept`,
  one line read, all its commands and copies) and `Reap`. Clients run between any two of them. A line is a record.
  `clients` is the linked list in its order, which `Rotate` changes as the code does.
* **ShipControl.** `Run(in)` is `ShipControl::Run` with one set of measurements, reduced to what
  the control flow tests. Angles are those of Maneuver and SailTrim.
* **FilterBlock.** `Filter(in)` is one control step. A CHECK that fails ends the helmsman (`up`); it is started again by its script and remembers nothing (`Restart`).
  `speedless` is the history whether the IMU has been without a speed while the GPS had a position, which is how a NaN gets into the filters.
* **Helmsman.** Absolute deadlines are kept relative to the wall clock (`age`, `due`); `Tick` lets true time and
  clock pass together, `ClockSet` sets the clock alone. `Turn` is one complete pass of the loop. `held` is how long the process has
  not completed one, whether it was not scheduled, or a read brought no complete line (helmsman_main.cc:219).
* **Maneuver, SailTrim, Filters, VSkipper** compute with whole units on a circle (5 degrees, 1 degree, a twelfth of a turn, eight bearings); the
  comparisons are those of the code, with its strict and weak bounds. The boat and the wind are external and turn by a bounded amount per step.
* **Skipper.** One unit of time is a minute, one of length half of what the boat makes in one; other ships keep their courses and their reports
  age. `Wake` is one pass of the main loop with as many lines as there were, which after a hold-up are several; `lag` is how many lines came after the one answered,
  `late` how many came in excess of two a turn and were not made up for.
* **Aivdm.** A fragment carries the message it is of; what the decoder assembles is compared with what was sent. The fields are data:
  `AisFields` are the offsets and widths in the calls of `UBITS`, `SBITS` and `UCHARS`.
* **Mail.** Each operation on a queue and each command to the modem is a step of its own, between any two of which a daemon may crash (it forgets its
  memory and is started again with a new process id, as init does). The modem works on commands in order; an answer later than the time-out stays in line for the next command.
* **Sms.** Texts are sequences of codes, PDUs sequences of octets; the network and telephone pack septets bit by bit as GSM 03.38 says and are the reference.
* **DriveSts.** `ReadLine` is one pass of the loop: the line taken, every timer looked at, the lines printed. A line carries the time eposcom stamped on it;
  `readings` are what the clock read within the last `Lag`, hence the stamps that may still arrive, also from before the clock was set. An answer that is an error
  (`#`) is taken for a status word, as the code does, so any line may set or clear `homed`. The branch for the BMMH cannot be reached (section 5).
* **BusWatch.** `Turn` is one pass of the loop: `pselect` has ended because there is a line or because `wake` has come, any number of the waiting lines is read, then it is time
  to check or not. `seen` are the prefixes whose count is not 0; a line begins with at most one prefix. `CommandEnds` is `wait` and what follows it.

Compositions: RudderCtl and SailCtl compose the cache with the drive and the bus; Mail composes the two daemons, the queues and the modem; Skipper
composes planner, collision avoidance and the main loop with the boat; Helmsman composes the main loop with
the *abstract* state machine, and ShipControl shows that the real one implements it (`ImplementsHelmStates`,
checked and proved), so the results about the main loop hold with the real ship control. Several MC modules hold components that
do not see each other's state; the variable `subject` says which one moves, so that a run explores them side by side and costs
the sum, not the product, of their states. Temporal properties and fairness of one are stated under `subject = ...`.

## 3. Runs, bounds and fairness

Deadlock is checked in `rudderctl`, `rudderctl_fault`, `rudderctl_reached`, `shipcontrol`, `helmsman` and `filterblock_nan`; the other runs
hold components that really come to rest or end (a daemon that takes the bus down, a bounded clock or traffic, a client that is asked nothing more).

| Run | Module | Less than two minutes each; bounds, and why they are enough |
|---|---|---|
| `epos` | `MCEpos` | cache: one register, two values, times 0..6 with time-outs 2 and 4, so that both expire, also one after the other (registers do not interact but through the sum that `bus_expire` returns). Link: three nodes, the middle one absent, one late, refused or failed request, one changed byte, no late byte that reads like an acknowledgement (that is `eposlink_late`). Sail: half a turn is 2, three lines from the helmsman and skewmon, one late expiry. Skew: half a turn is 6, the motor turns one unit a tick forward or back over four positions; five ticks; one drive is dated by eposcom and the other by skewmon, one tick late at most, which with an interval of 3 doubles the error; any answer lost |
| `rudderctl` | `MCRudderCtl` | *safe*: two angles, one beyond the end; one lost line, one error, one fault or failed homing, each anywhere. *live*: two angles, no loss or fault, one expiry of any valid cell at any time |
| `linebus` | `MCLineBus` | *safe*: two clients with three connections, so one returns; two commands of all kinds; buffers and sockets of 2, drop limit 1. *live*: an endless talker, a client that may be precious, hang or leave, and one more |
| `shipcontrol` | `MCShipControl` | waiting times of 1 and 3 steps for the 20 and 60 s, and a give-up limit of 1: shorter, equal and longer phases occur; every combination of the other inputs. Filters of length 2 to 4: they fill and wrap; a turn has 12 units, of which the boat turns 0, 4 or back 6 (half a turn, the most a sample may tell) between two samples, in any order, so that the angle runs beyond the limit on both sides. An average of 4 samples is valid before that; that longer ones are shifted too early is excluded in `FollowsTheTurn`, whose theorem is about any length |
| `helmsman` | `MCHelmsman` | time-out 2 periods, a query every 2, hold-ups up to 2 periods, clock set by 1 in all, one lost line. Manoeuvres on a circle of 72; three wanted headings, where one side of the wind is as good as the other or nearly so. Trim: angles around every switching point, four speeds. Test: time-outs of 2 to 3 steps, all of them pass and are met. Drive status: times 1 and 2, stamps up to 1 late, a line at least every time unit, 6 units, so that every timer runs out and starts again. Bus watch: two prefixes, a check every 3, delay and command of 1, a pipe of 1, 12 units, which is longer than the two rounds of the bound; both with a clock set by 1 |
| `mail` | `MCMail` | two places in the modem, three commands, so that one is stored in a place given back; two tries, **one** disturbance of any kind anywhere (late answer, refusal, crash, full disk, clock set back, ...), commands and disturbances together at most three. Sms tool: three processes, one of them killed. Texts of 0 to 17 characters, so twice round the octets; 864 reports of the boat |
| `voyage` | `MCVoyage` | line buffer of 4 and ten characters: a line that fits, fits exactly, is one longer, twice as long; timer ring of 3, 8 ticks; six AIS messages of at most three fragments on two channels with one lost sentence, every type and size alone; AIS buffer of 2 with a clock set back once; skipper: six voyages on a map of 18 by 21, `SomeScenarios` says in which way each differs; in one the skipper is held up for up to four lines |

The bounds most worth naming: queues of RudderCtl and SailCtl are limited only for lines that *others* add, never
for what the program itself writes, so no request of its own is disabled; and history counters that would grow without
limit are capped one past the value any property tells apart.

Passing runs:

* `epos`: the cache serves what is fresh (`ServesFresh`): a valid cell is the last report, never a set that nobody acknowledged (`ValidWasHeard`), and until the clock
  is set back, what survives `bus_expire` is young enough (`ExpireBoundsAge`). What eposcom answers is a value the register had, or was given, during the
  request, in spite of an answer left over from one before, as long as none of its bytes of value or checksum is taken for an `O` (`AnswersTrue`; for the rest see `eposlink_late`). The boom is moved only by a drive that is configured, has power and its brake off, and by half a turn at most
  (`MovedWithCare`), and it ends at the last angle and skew (`SailFollows`). A skew that is told
  is off the true one by less than the motor can turn between the dates of the two positions and in the time before a value is dated (`SkewIsNear`).
* `rudderctl`: never moved unconfigured (`MovesConfigured`); without faults the rudder ends at the last angle sent (`FollowsWithoutFaults`).
* `linebus`: filters are counted right over every order of subscriptions, kills and departures (`FiltersCounted`), no
  line is echoed, repeated or overtaken (`HeardInOrder`), nobody is starved (`EverybodyIsServed`), a precious client that exits or hangs takes the bus down (`PreciousTakesBusDown`).
* `shipcontrol`: `ImplementsHelmStates`; a stuck boat is given up in time (`StuckIsNoticed`); every start runs all its phases (`InitialTakesItsTime`); in
  fair conditions the boat ends up sailing (`FairWeatherSails`). The wind that a running helmsman calls valid is known, whatever sensors come and go, also after a NaN got into the filters (`ValidWindIsKnown`), and a filter tells the
  average or median of the last headings however often the boat has turned (`FollowsTheTurn`).
* `helmsman`: the fail-safe brakes in time (`SilentOperator`); control steps are not late (`ControlledInTime`); a late answer of the skipper does
  not turn an overridden boat (`OverrideKeepsHeading`); left alone, it ends up steering where the skipper wants
  (`SkipperSteers`). The heading sailed does not jump, as the comment at
  normal_controller.cc:158 asks, but to give way in a gust or when a tack has got far enough (`MustNotJump`), and in steady conditions the boat tacks or jibes once more at most (`Settles`); the sail does not flap between its modes (`NoFlapping`);
  every step of every drive test is done, and with its own set-up, though whether it passed is not told (`EveryDriveTested`). The helmsman is told of every drive neither too seldom nor too
  often, whoever falls silent on a bus is named, and nobody else (`WatchedInTime`).
* `mail`: a status message leaves the outbox only when the network has taken it, or on an old answer that came late or was left by a crash (`MailKept`); a command that arrived is acted on (`CommandsActedOn`), once and never after a
  newer one that was not listed first (`ActedInOrder`), each but for the disturbances their comments name. What is written is read (`ReadAsWritten`). A
  message is deleted from the modem only after it was read, whatever the lock file goes through, but for the race its comment names (`ReadBeforeDelete`).
* `voyage`: no line is lost, doubled, split or joined but those too long (`NothingLostButLongLines`); the ring implements the stop watch (`ImplementsStopWatch`) and its
  statistics are those of exactly the last cycles (`StatsOverLastCycles`); a decoded AIS message was sent like that (`DecodedWasSent`), and its fields agree with their
  widths and with the header (`FieldsFit`); the file holds what is fresh and nothing else (`FileHoldsTheFresh`); the skipper answers the newest input or the one before, and after a hold-up lags by
  what came in excess of two lines a turn until it has made up for it (`NeverLags`); it keeps clear of ships where a safe bearing exists (`KeepsClear`) and arrives (`Arrives`).

Runs that find a disagreement between the code and what it says of itself:

* `eposlink_late`: one answer comes after its time-out, and a byte of its value or checksum reads like an `O`. The next request is taken for acknowledged by it, and
  what is answered is a value the register never had (`com.c:111` against `com.h:42-45`: "waits for the reply ... fills value with the (host ordered) response").
* `rudderctl_fault`: after a fault in the middle of a move the drive is initialised and homed again, but TARGPOS still holds
  the target, so the move is not commanded again and REACHED is reported with the rudder at home (`rudderctl_main.c:300` against 5-6).
* `rudderctl_reached`: an answer to an older request of eposprobe makes STATUS valid with the TARGETREACHED of the move
  before; REACHED is reported at once (`rudderctl_main.c:307` against 264).
* `skipper_noway`: when no bearing is safe the boat does not keep its bearing but turns to 276 degrees, which is -444 normalised (`skipper_internal.cc:130` against 131-132).
* `filterblock_nan`: a speed that is not a number gets into the sliding average for ever, since a weight of 0 does not hide it (`filter_block.cc:224` against 169).

Fairness, and what justifies it:

* rudderctl, sailctl and eposcom block in a read and go on when there is a line: weak fairness of taking it. The drive carries
  out what it was told: weak fairness of `Work`. eposprobe polls twice a second for ever: strong fairness of its
  status request, since the queue may be full in between. *Without* eposprobe, `Follows` is false and the model deadlocks:
  a lost answer leaves nothing that wakes rudderctl.
* the daemon runs on when `pselect` lets it; a client that has not hung reads what it is sent; a talker goes on talking.
* Helmsman: the process is scheduled (`Turn`), time passes (`Tick`), a running skipper answers. `SkipperSteers` and
  `FairWeatherSails` assume that conditions are fair from some time on (`settled`), which the environment chooses, and say nothing otherwise.
* Mail: both daemons run (init restarts them), the modem answers. Skipper: it is woken by what there is to read, and the helmsman goes on telling it where the boat is.

Several fairness conditions are put on the variable only these steps change in that way, which is equivalent here and checked faster.

## 4. Proofs

All theorems hold for every value of the constants under the named assumptions of the modules: any number of registers,
devices, clients, processes, ships, losses, errors, faults and crashes, any buffer size and waiting time. They are about the modules of
which the runs are instances, and where several components run side by side (`MC*`), about the composition (`MCSpec`).
Each is proved in the same way: an inductive invariant, that the initial states satisfy it, one lemma per action that keeps it, and a
last temporal step. Every one of these invariants was checked by TLC on the small instance before it was proved.

**EposProofs**
* The cache: `TypeCorrect`, `AssertsHold`, `PendingIsLastRequest`, `CacheServesReports`, `SurvivorsAreYoung`,
  `ReceiveTellsApart`. Inductive: the timer discipline (`DisciplineInv`: the timer runs iff the cell is pending, which
  is what makes the ages mean anything) and `HistoryInv`, which relates each cell to the last request and report and,
  while the clock was not set back, bounds their times by `now`.
  `AssertsHold` says that the asserts of `eposclient.c` never fire. `CacheServesFresh` joins the two parts of `ServesFresh`.
* The control of the sail: `BoomDrivenWithCare`, `BoomTurnsTheShortWay` and `BoomMovedWithCare`, which joins them. As with the rudder, what sailctl knows of the drive is a
  cache fed by delayed answers, among them answers to questions of eposprobe; but here what is shown is not only that the drive is configured *when it moves*, but that it has power and its brake is off, and
  *by how much* a START moves it. The invariant (`SailInv`) relates the cells, the requests on their way, the answers on their way, and the drive. Every answer on
  its way and every valid cell is true of the drive (`Truthful`, `Holds`); for TARGPOS, and for CONTROL while sailctl initialises, because
  at most one question or answer about it is open and none once the cell has left PENDING (`Single`). While
  sailctl initialises (`Starting`), no START is on its way and the boom rests; once it steers (`Steering`), the drive is ready, and every set point on its way is within half a turn
  of the one the drive has and is followed by its own START. One lemma per call of the cache (`get`, `set`, `invalidate`) shows what it does to these relations, so that the
  proofs about `sail_init` and `sail_control` follow the code from call to call. Nothing is assumed about the number of lines, expiries or requests of others; what the module
  leaves out, a lost START and a fault in the middle of a move, is left out of the theorems too.
* The skew monitor: `SkewOfTheBoom`, the skew told is off by less than the motor can turn between the dates of two positions and in the time before a value is dated: for any `MaxInterval` and `MaxAge`, which
  drives are dated by eposcom, and any order of their answers. Inductive: `MonInv`
  (every value, at its drive, on its line or kept, is of one motor that turns a unit a tick at most, so that two of them are near if the times they were taken are: `Coherent`; what has a date was taken at most `MaxAge` before it, what has none at most that long ago: `Honest`).
  The interpolation is division of integers, and the proof says how much it may round.

**RudderCtlProofs.** `TypeCorrect`, `SetPointsInRange` and `ConfiguredBeforeMoving`. The last is the hard one: a drive that moves
was configured, although what rudderctl knows of it is a cache fed by delayed answers. The invariant (`Prepared`) says that every
request under way is *careful*: START is asked of a configured drive only, the configuration is written only as it should be, set
points are in range; and that a valid CONFIG cell, an acknowledgement of it under way and the control loop each imply
a configured drive. The lemmas `InitIsCareful` and `ControlIsCareful` show that rudder_init and rudder_control ask nothing else.

**LineBusProofs.** `TypeCorrect`, `FiltersAreCounted` (no filter in use is freed, none is left when nobody uses it), `LinesInOrder`. Inductive:
`Counted` relates each count to the number of uses in the options of all listed clients, so that every step that changes a client has to change the counts with it, also in
the middle of a command that replaces a subscription; `Ordered` relates what was heard of a client to what waits in its socket and to what it has sent. Both are kept by
every line of a read, which is a recursion over data taken step by step (`StepByStep` in Counting).

**ShipControlProofs.** `TypeCorrect`, `NoticesStuck`, `Patient` (the boat is given up only for lost drives or after enough slow steps since the last entry),
`StartsSlowly` and `ImplementsStates` (initial states map to initial states, every step to a step
of HelmStates or a stutter). Inductive: `Patience` (the count of the normal controller never runs ahead of the slow steps
there really were, nor behind those in clear wind) and `Account` (the phase of the initial controller against the steps
since it was entered). `ValidWind` is about the filter block, with any sensors coming and going: the wind a running helmsman calls valid has a true direction that is a number, and it runs on with a speed that is a number as long as the IMU has not been speedless
while the GPS had a position (`BlockInv`: until then no NaN gets into the speed and the true wind filters; afterwards one that gets into the wind fails a CHECK in that step; and a wind is valid only in a step that measured it).
That the NaN stays in the speed for ever is what the run of `NeverPoisoned` shows.
`FiltersTell` is about the filters of which the block is made: for every measure of a turn, every length of the averages and all turns of at most half of one, a valid filter tells the average or the
median of the last headings. Inductive: `FilterInv`. The angle to continue from is the course but for whole turns, and the last one, from which the smaller way round is taken, is the course itself or a turn less
(`AroundIs`; `WayIsTurn` and `GoesOn` are the arithmetic: the smaller way round is how far the boat turned, and a jump is of whole turns); the i-th last place of the ring holds the i-th last angle, and the sum is
that of all places (`Filled`, `Tells`); the count of the quick filter says how many it has taken (`Quick`). That the comparisons of `median_n.cc` find *the* median is `MedianOfThree` and `MedianOfFive`, with `OneMiddle`: there is only one.
The sums are recursive functions, taken one step at a time (`StepByStep`).

**HelmsmanProofs**
* The main loop: `TypeCorrect`, `ModesObeyed`, `NobodyLeftIdling`, `OperatorHasTime` (the fail-safe is not early), `InTime`, `NoBurst`, `OperatorKeepsCourse`
  (a late answer of the skipper does not turn an overridden boat). Inductive: `Agreed` (the control mode and
  the meta state of the ship control tell the same), `ClockInv` (how far `age` may be from the true silence, given
  how far the clock was set), `DeadlineInv` and `BurstInv` (the same for `due`, the gap and the burst). The bounds in the properties
  are those of the proofs: period + hold-up + what the clock was set back.
* The test controller: `AllTested` (`TestInv`: the steps before the present one were done in order, each with what was set up for it; not that they passed, see section 5). The sail: `SailIsSteady` (`TrimInv`: the delay was counted from the last change of the mode at the earliest).
* The drive status: `DrivesAreTold`, by `StatusInv`: the timer of a drive and the true time of its last line differ by no more than the delay of a line and what the clock was set.
* The bus watch: `AlarmsTellTheTruth`, by `WatchInv`: whoever's count is 0 was not read since the last check, whoever's is not was, and the next check is due within an interval, as the
  clock tells it, of the last one. `SilenceIsNoticed` joins these two.

**VoyageProofs**
* The line buffer: `StaysInArray`, `EolIsEndOfFirstLine`, `ReturnsTellTheTruth`, and `NothingIsLost`: for a buffer of any size and any chunks, what was taken out and what is
  in the array is what was fed but for lines longer than the array. Inductive: `FedInv`, a decomposition of what was fed into lines, kept by feeding it character by character.
* The timer: `RingIsWatch` (it implements the stop watch) and `StatsAreOfLastCycles`. Inductive: `InTheRing`, the place in the ring of each of the last events, by the arithmetic of remainders.
* AIS: `DecodedAsSent`. Inductive: what is still on the air of a channel is the rest of a message and whole messages, and what a context has collected is either the head of the message
  that goes on, or waits for a sentence that was lost and that no other can be taken for. `FileIsFresh`: the file of aisbuf holds the reports younger than the limit, in order. Inductive:
  the list is what was heard, newest first, without the older report of the same ship and kind, and without what was cut off at the water mark.
* The skipper: `AnswersTheNewest` (what is answered lags by one line and by those in excess of two a turn that were not made up for, hold-ups of any length; the newest line may be the one that is dropped) and `SafeBearingsKeepClear`: a boat that sails the bearing found safe is clear of every ship when the next report comes, for any map and positions.
  Inductive: `Promised` carries the geometric promise of the search from the answer to the moment the boat has sailed there.

**MailProofs**
* The outbox: `OutboxIsKept`: while no answer has come late and modemd has not crashed, what leaves it the network has taken; after that it may leave on an old answer as well (section 5). Inductive: until then question and answer are in step (`InStep`: at most one answer is on its way,
  and it is to the command in hand, so that `rcOld` is never set); in any case what is on its way and is not marked late belongs to the command in hand
  (`AnswersInTime`, `CommandsInTime`), so that a good answer to the text of a message means that the network has *that* message; the file in hand exists; and a process numbers its files in the order
  in which it writes them (`Numbered`), so that the next number is never in use.
* The lock file: `LockKeepsOrder`. Inductive: who is about to remove a lock it did not take has seen its owner gone; as long as nobody was robbed, the owner alone is at the modem, and what it is to delete it has printed.

What the constants are assumed to be, and why the code justifies it: buffers, limits and waiting times are natural numbers, ids belong to a finite set of processes; the commands of a client are those linebusd knows (`CommandsAssumption`);
the angles of the sail are integers and half a turn is at least one
(`SailAssumption`); the shortest time of drivests is not above its longest (`StatusAssumption`; nothing checks `-n` against `-x`, but above it the bounds would be meaningless); the interval of buswatch is not 0 (`WatchAssumption`: with
0 the loop at buswatch_main.c:151-153 would never end); samples that never were taken are dated so far back that no interval can be short, the motor turns a unit a tick at most, and `MaxAge` is any number of ticks (`SkewAssumption`, skewmon_main.c:75-79); a turn is an even number of units, an average has at least two samples, and the boat turns no more than half a turn between two of them (`FilterAssumption`: a filter that is sampled more slowly cannot know which way it turned); at most one AIS sentence is lost (`AisAssumption`: with two in a row the code does glue messages together, section 5); the low
water mark is not above the high one (`BufAssumption`); numbers of messages are counted modulo some number (`MailAssumption`, 2^16); a process id is not the empty lock file (`ToolAssumption`); the plan is one that `Build` accepts, and with other
ships around, the helmsman and the skipper take turns, so that the answer is to where the boat is; without, any number of lines may come in one turn (`SkipperAssumption`).

Checked by TLC only, and why:

* everything under fairness (`SkipperSteers`, `FairWeatherSails`, `SailFollows`, `FollowsWithoutFaults`, `EverybodyIsServed`, `PreciousTakesBusDown`, `CommandsActedOn`, `Arrives`): TLAPS does no ENABLED;
* `ReadAsWritten`: what a recursion (packing septets) computes for every input is an induction over data; `FieldsFit`: a finite table, which TLC checks entry by entry;
* `MustNotJump` and `Settles`: plans of turns are quadratic in their time and true for the proportions of the constants the code has, not for all;
* `AnswersTrue` and `ActedInOrder`: true for one fault and not for two (section 5), so that an invariant would have to count what is left on the wire.

The proofs are checked with `tlapm XProofs.tla`.

## 5. Observations

Met while modelling, and not the subject of a run. A line that says *(excluded)* names what a property leaves out because the code does not provide it.

* timer: a repeated start flips the timer instead of being ignored (`timer.c:33` against `timer.h:34-35`), and with `ignoredups` set, which
  nobody does, the first call after a reset may be dropped; the smallest period is compared with a 0 that memset left (`timer.c:101`).
* eposclient: `bus_expire` clears a value that has just been refreshed by an answer to another process, because it looks at the timer of this process's
  own last request (`eposclient.c:121` against `eposclient.h:29`); a set is withheld when a *get* is pending and the old value is equal (`eposclient.c:189` against `eposclient.h:42-44`).
* serial link: `recv` assigns where it means to compare, so that the checksum of a reply is never judged (`com.c:169` against `com.h:42-43`: "The reply is checked on crc"); a byte changed on the line then violates `RepliesTrue` too (`MaxNoise = 1`).
  Nothing flushes the line after an error (`com.c:106,135`). After *two* late answers a set can be acknowledged with the answer of the set before,
  and a left-over acknowledgement can make writes fail for ever; `delay2` of `epos_waitobject` never grows (`seq.c:76-78`).
* rudderctl: a START that is lost is not sent again, since TARGPOS already holds the target (`rudderctl_main.c:303-304`; `FollowsWithoutFaults` has no loss); a configuration register
  that expires during homing makes rudder_init shut the drive down; `processinput` returns 0 although `bus_expire` changed the cache, so that a timed-out
  request is repeated only with the next line that counts; the tolerance is converted as an angle, not as a difference (line 117), which
  makes the window of the drive about 100 degrees wide; sailctl (line 120) subtracts.
* sailctl: a lost START, a fault or a restart in the middle of a move leaves the boom halted with TARGPOS at the target *(excluded)*; the skew starts as 0 and not as
  "none", so that the wait for the first measurement (`sailctl_main.c:288`) never waits.
* linebusd: a client that writes and exits loses its last lines if it is written to before it is read (`linebusd_main.c:225`); a precious
  client is closed after *more than* 100 dropped lines, the comment says 100.
* linebuffer: a read into a full buffer asks for 0 characters and reports the end of the file (line 38); all callers empty the buffer first.
* helmsman: setting the clock back postpones control steps and fail-safe by as much. The initial controller clears the flag by which the
  skipper is asked, so only normal and idle boats ask. Initial to normal does not look at the rudders (`ship_control.cc:99-104`); they are noticed one step later.
  The normal controller keeps its wind range over an exit (`normal_controller.cc:51` says all state must be set): between 0.35 and 0.65 m/s
  this decides whether a stuck boat is noticed; `StuckIsNoticed` counts steps in clear wind only. After a storm with the sensors lost
  the wind range takes two steps to calm. `normal_controller.cc` calls `NewGammaSail` with five arguments, its header declares three.
* manoeuvres: an Entry with a tick below 30 still counts as a plan that runs, and holds the heading for up to 3 s; the correction for a gust is dropped for one step at
  every change of the sector; the last branch of `GetReferenceValues` is never reached; `Angle::operator<` holds and `operator<=` does not for two equal angles.
* sail trim: `delay_counter_` is not set back when the angle leaves the band; `a > deg(179)` compares modulo a turn (`sail_controller.cc:202` against 195-197).
* filter block: without agreement of the compasses the heading is told as 0, north, while `fil.valid` stays TRUE (`filter_block.cc:152-159`); the compass sensor has weight
  0.5 also when it is stale; filters keep old samples over an outage and are valid at once afterwards (the TODO at line 121). A poisoned speed ends in a failed CHECK once the wind is averaged.
  `WrapAroundFilter::SetOutput` does not clear `initial_`, so that the first Filter starts again from its input.
* quick sliding average *(excluded in `FollowsTheTurn`: `early`)*: `Shift` adds to the places that are still empty as well, and to the sum a whole window of shifts (`sliding_average_filter.cc:30-34`). If the
  wrap-around filter shifts before half of the window is filled, which takes a window of eight or more, the average that is then put into every place (`quick_sliding_average_filter.cc:18-27`) is off, and stays so until the window has been replaced. Only tests use this class.
* test controller: `test_success_` is set to TRUE after the last drive test before anybody looks at it (`test_controller.cc:148` against 472, `test_controller.h:45`), so that a
  failed drive still ends in DONE, as does an aborted wind test; ZERO_2 waits for ever for wind data; Entry does not reset `test_index_` and `test_success_`.
* AIS receiver: the place of type 17 is read without a sign (`UBITS`, `aivdm.c:887-888`) into members that are signed (`int`, `ais.h:575-576`), so that west and south come out wrong: the values fit, hence `FieldsFit` holds, but mean another place.
* AIS receiver *(excluded in `FieldsFit`)*: the radio of types 1-3 is read a bit too long; the fid of type 8 from bit 40, not 50, so that no IMO payload of it is decoded; the dispatch of type 6 reads
  `type8` (`aivdm.c:397-399`); a pressure that is unsigned has 800 subtracted; the stations of an addressed type 22 are read signed; the radio of 26 is never set; case 14 computes a count from an
  uninitialised index; texts of types 12 and 14 take a count of bits for one of characters. The sequence number of sentences is ignored, so that two lost in a row glue two messages together.
* AIS buffer: `lastwritten_ms` is only ever 0, so that "write at most every" (`aisbuf_main.c:38`) does not hold.
* skipper: with a simple plan file the first run of Planner::Init puts the Toulon plan in its place for one answer; a junk line in it resets every run; an emptied file leaves the simple plan in
  force *(excluded)*; the sailable heading may leave the safe bearing; AIS lines without a position become a ship at 0, 0, those of type 19 are rejected; `tc_status` is printed uninitialised after an early return.
* status and SMS: a wind angle known without its speed cuts the status at column 33 (`status.cc:124-140`); a speed of 10 knots or more writes "++" behind "XX", one below -1 takes three places; an empty SMS with a trailing
  octet is refused; a negative offset from GMT is decoded by its sign bit; `c < '0' && c > '9'` and `length < 0 && length >= 254` are never true.
* mail *(excluded in `ActedInOrder`, `MailKept`)*: the modem lists messages by place, so that a command stored in a place that was just given back is acted on before older ones, without any disturbance (`modem.cc:237-279`);
  when several answers are late one after the other, a listing may be so old that its places hold other messages by the time they are deleted, and a command is acted on twice; an SMS that cannot be decoded shifts the places of those after it (`modem.cc:237-279`) and is never deleted; a clock set back reuses a file name
  (`message-queue.cc:131-148`); after a late answer, or a crash that leaves one, modemd takes the old result for that of the message in hand and deletes it though it was never sent (`modem.cc:112-117`, `modemd_main.cc:134-138`); a crash of statusd between deleting and acting loses a command; an unknown text becomes command 0; a second
  acknowledgement within 5 s overwrites the first. The last close of the serial device must drop its input.
* sms tool: `-r N` makes one try more; line 155 of sms_main.c compares without `!`; two processes can take the same stale lock *(excluded in `ReadBeforeDelete`)*; `EncodePDU` makes one octet too many for texts of 8k characters.
* drivests: the keep-alive of the sail is sent after `min_us`, not `max_us` (`drivests_main.c:169`), which `KeepAlive` in DriveSts follows; `B` is missing from its getopt, so that nothing is ever told of the BMMH;
  a keep-alive tells the old angle under the time of another drive's line; an answer that is an error is taken for a status word; the usage says 250 ms where the default is 125.
* buswatch: the arguments of the command are one place short (`buswatch_main.c:76-77`); "not seen for at least %d seconds" (line 132) is not true after a late check or a clock set ahead, which `NoFalseAlarm` allows for; a clock set
  back while the command runs repeats the check at once *(excluded: `again`)*; what comes during a long command waits in the pipe, or is dropped by the bus.
* not modelled, but read: imutime's `cmpint64` overflows an int and `!adjcount % 60` is not what it looks like.

## 6. Not modelled

`PROJECT.json` lists every part with its status and reason. In short:

* *floating point*: control laws (rudder, brake, docking), the boat model, polar tables, vectors and spherical geometry. TLA+ can say nothing useful about rounding; what is modelled of angles is their comparison, difference and normal form.
* *decoders of device protocols* (sensor readers), monitors, logging: data through, no decisions. The AIS decoder is modelled because its fields can be checked against one another and against the header.
* *small parts that decide alone*: plug: two copying processes without interaction.
* *operator interface, web pages, simulators, analysis and collision experiments*, which are not on the boat.
* *formats*: models carry records, except where the format is the matter (SMS, status, AIS).

## 7. Plan

Done, in this order: Timer, EposCell/EposClient, RudderCtl, LineBuffer, LineBus, ShipControl over HelmStates, Helmsman, with the
proofs above; then SailCtl, SkewMon, EposLink, the skipper with its collision avoidance, mail, SMS and the lock file, AIS, manoeuvres, sail trim, test controller, filter block and filters; last, DriveSts and BusWatch, and the proofs about the sail. Next:

1. Proofs: `AnswersTrue` without faults on the wire. Faults of the sail's drive and lost lines in SailCtl: the boom stays halted then, and after a lost START the next one may turn it by more than half a turn.
2. `Follows` of the sail and the rudder as one module over the calls in EposCell, so that one proof serves both.
3. The skipper put in place of the one-answer skipper of Helmsman; the filter block in place of the inputs of ShipControl (`ValidWindIsKnown` is the assumption that ShipControl makes of its inputs).
