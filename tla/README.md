# Verification of the ECE444 motor monitor

TLA+ models of the firmware in this repository, the TLC runs that check them on
small instances, and TLAPS proofs about them. Source paths are relative to the
repository; C line numbers refer to the commit this directory sits beside.

## 1. The system

An ESP32 (the **RTU**, `rtu/main`) drives a brushed motor through an H bridge
and measures its supply with an INA209 power monitor. It serves those values
over Modbus/TCP. A second ESP32 (the **master**, `master/main`) finds the RTU
by mDNS, polls it, writes a power threshold and a ramping duty cycle, and
mirrors every value in register structures of its own. It also serves a Vue
page and a few JSON resources through a REST server, which so far reports a
random number and not the mirrors. Two more programs are stand-alone: the REST
example the master's server was taken from (`rest/`), and an SNTP clock
(`clock/`).

```
  RTU                                                     master
  INA209 --I2C--> readINA --> input_reg_params ---\
                                                   Modbus/TCP --- master_read --> mirrors
  H bridge <-- runMotor <-- holding, coil params -/                 ^
       ^                        |                                   | slave_ip_address_table
       app_main (boot drive)    modbus_server (log)      mDNS --- init_services
                                                         flash -- rest_server --- browser
```

| component | state | operations | talks to |
|---|---|---|---|
| RTU motor control (`MD08A.c`, `setup_reg_data`) | PWM duty, two direction pins, `holding_reg_params`, `coil_reg_params` | `initMotor`, `setSpeedDir`, `stopMotor`, `runMotor`, register stores | Modbus stack through shared memory, no lock |
| RTU power sensing (`sensors.c`, `INA209.c`, `i2c.c`) | register pointer and settings inside the INA209, `input_reg_params` | `initINA`, `readINA` | I2C; Modbus stack through shared memory |
| RTU access reporting (`modbus_server`) | event bits, bounded record queue, one record on the stack | check event, get record, log | Modbus stack by event group and queue |
| Master polling (`modbus_tasks.c`) | CID, status, shared buffer, duty ramp, mirrors | read, write, skip, wrap | RTU by Modbus/TCP; REST server through shared memory |
| Master slave resolution (`modbus.c`, `services.c`) | `slave_addr_list`, `slave_ip_address_table`, retry counter | mDNS query, walk of the parameter table | mDNS; Modbus stack through the table |
| Start-up and shutdown (`main.c`, `services.c`, `filesystem.c`, `esp_rest_main.c`) | which services are up, the NVS partition | a chain of calls that each succeed or restart the chip | everything |
| REST server (`rest_server.c`, in `master/` and `rest/`) | scratch buffer, open file, one request | send a file by chunks, receive JSON, report values | browser; flash |
| Web front ends (`front/web-demo`) | the chart's 38 samples | poll every second | REST server |
| Clock (`clock/main`) | system time and `boot_count`, which deep sleep keeps | set the time, sleep | SNTP server |

### What is hard about it

*Interleaving without locks.* `runMotor`, `app_main` and the Modbus stack's
task touch the same registers and the same bridge. `param_lock` is declared in
`main.c` and taken nowhere. A float register spans two Modbus words that the
stack stores in parts, one by one.

*Errors that are dropped.* The I2C driver ignores every return code, so a
failed transfer yields uninitialised bytes and a failed `pointReg` leaves the
device pointing at another register.

*Messages.* A Modbus request can fail, time out, or time out and still arrive;
an mDNS query returns any subset of what is advertised; the RTU restarts with
zeroed registers and tells nobody.

*Bounded buffers.* The slave's record queue holds 20 entries and its consumer
takes at most one a second; its event bits coalesce; the IP table has four
entries, the last of which must stay NULL.

*Loops that must not die.* `master_read`'s loop guard doubles as its status;
`ESP_ERROR_CHECK` turns a late record or an unresolved slave into a reset.

*Start-ups that depend on each other.* The master looks for the RTU once its
own web server is up, gives up after ten queries and restarts; the RTU restarts
whenever one of its own calls fails. The clock goes through the same calls
every time it has lost the time, waits for an answer that may never come, and
keeps nothing but the RTC over its sleep.

`PROJECT.json` lists each of these at its line, with the property that covers
it or the reason none does.

## 2. Modules

| module | what it is |
|---|---|
| `MotorControl` | the motor side of the RTU: `app_main`, `runMotor` and the Modbus stack over one bridge and one set of registers |
| `MotorDrive` | the abstract drive `MotorControl` implements: an output that is off, the boot demo's, or a clamped demand of the clients |
| `MotorControlProofs`, `MotorDriveProofs` | the inductive invariant of the motor side, its theorems, and the refinement |
| `PowerSensor`, `PowerSensorProofs` | the sensing side of the RTU: I2C transactions that may fail, two tasks, three input registers; proofs |
| `AccessEvents`, `AccessEventsProofs` | `modbus_server` against the stack's event bits and record queue; proofs |
| `MasterPoll` | `master_read`, the requests it makes, and the RTU as it sees it |
| `RemoteRegisters` | what polling promises of each register it writes, without sweeps, requests and timeouts; `MasterPoll` implements it |
| `MasterPollProofs` | the invariant of polling, its theorems, and the refinement |
| `SlaveResolver`, `SlaveResolverProofs` | the mDNS query loop, the walk of the parameter table, the IP table; proofs |
| `StartUp` | `app_main` of the four programs on chips of their own; the master's contains `SlaveResolver` and finds the RTU only if that is up |
| `StartUpProofs` | the invariant of the start-up, its theorems, and that it implements `SlaveResolver` |
| `RestServer`, `RestServerProofs` | the file handler and the body handler of the REST server over their shared buffer; proofs |
| `MCMotorControl`, `MCAccessEvents`, `MCSlaveResolver`, `MCStartUp` | definitions that give the constants of the above values for TLC |

`PROJECT.json` maps every definition to its lines. The correspondence in short:

**MotorControl.** `pc["main"]` and `pc["motor"]` are the program counters of
the two tasks, at the grain of one driver call or one shared load or store.
`pwm`, `in1`, `in2` are what the MCPWM unit and the two GPIOs put out;
`holding` and `coil` are the fields `runMotor` reads. `AcceptWrite` and
`CopyWord` are the Modbus stack storing a float part by part. The stack is not in
the repository, so whether the parts are words or bytes is left open: their number is
the constant `Parts`. `Decode` says which number the parts stand for, `NaN` included,
because both comparisons of the clamp are false for it. `Restart` is a reset or a failed
`ESP_ERROR_CHECK`. `commanded`, `fresh` and `pwmBy` are history variables that
no guard reads.

**PowerSensor.** The value of a register is abstracted to where it came from: a
`Sample` records the device register actually read, its age in passes, whether
both transactions succeeded, and whether the device was programmed. A failed
transaction may still have moved the device's pointer or been stored. The INA209
keeps its settings when the ESP32 restarts.

**AccessEvents.** A record is abstracted to the kind of access it describes.
The stack sets the bit, then queues the record or, if the queue stays full,
drops it. `GetTimeout` is the `ESP_ERROR_CHECK` on a record that did not come;
it needs an empty queue and no record on its way, since the stack's task has
the higher priority and needs far less than the 10 ms.

**MasterPoll.** `step` is the place in `master_read`: before
`mbc_master_get_cid_info`, about to make a request, waiting for its answer, or
in the delay after it. `value` keeps, for each half of the four-byte buffer, the CID
whose data it holds. `late` are writes that timed out at the master and are
still on their way; answers come only when it is empty, because one connection
keeps its order.

**SlaveResolver.** A record is abstracted to whose instance name it carries and
which of the three checks it passes. `table` has one more word than
`slave_ip_address_table`, so that a store beyond the end is seen. The walk
takes one row of the parameter table at a time and keeps `list` and `table`
from one query to the next, as the code does.

**RemoteRegisters.** Three variables per register: what the master wants there,
what the remote unit has, and whether the master knows. A step wants another
value, settles one, lets an unconfirmed register waver, or resets the unit.
`MasterPoll` maps its mirror `holding`, the RTU's registers and the
acknowledged set to them; sweeping, failing reads, delays, and everything about
inputs and coils are stutters, a write that arrives late is `Waver`.

**StartUp.** `at[c]` is the call the `app_main` of chip `c` is in, `up[c]` what its
calls have brought up: the mDNS responder, the network, the file system, the
web server, the Modbus stack. A call returns and the chain goes on, or
`Abort` restarts the chip at its first call with nothing up but what flash and
the RTC keep: `nvs` says whether the partition can be used (the RTU and the
master erase one that cannot, the other two programs restart for ever), and
`timeSet` whether the RTC has the time, which a reset may or may not lose. Failures are
`ESP_ERROR_CHECK` in `app_main`, or further down (`start_mdns_service`,
`initialize_mdns`, `init_fs`); both do the same. The master's query is the code
of `SlaveResolver`, one query or one row of the walk at a time; an answer
that matches the RTU's slave address needs an RTU whose responder and network
are up. `mdns_free` takes the master's own responder down again.

**RestServer.** The buffer's bytes are abstracted to which byte of the current
request's data they are; when a request is accepted, what the buffer holds
becomes `Other`. `read` and `httpd_req_recv` may return any part of what is left.
`ToInt` is the conversion of the request's `size_t` content length to the `int`
`total_len`: from 2^31 on it is negative, such a body passes the test for too long
ones and is not received, and the NUL goes before the buffer (`stray`). The byte may be
one of `base_path`, which makes opening files fail, as `OpenFails` always may, or
belong to something else, whose owner `Crash` stands for; what other damage it does
outside the handlers is not modelled.
There is one handler at a time because the HTTP server has one task.
`rest/main/rest_server.c` is the same text as `master/main/rest_server.c` less an
`#include` of two lines; the map names the copy in `rest/` for the two whole handlers
and the copy in `master/` for their steps.

**MotorDrive.** The abstract drive has three variables: what the bridge puts
out, what clients have commanded since the reset, and whether the boot demo may
still act. The refinement mapping takes the duty while `IN1` is up, and off
otherwise; every interleaving of the two unlocked tasks is one of the abstract
steps or a stutter.

## 3. Runs

| run | question | instance |
|---|---|---|
| `motor_control` | does the bridge only ever do what clients asked for, does it end up doing it, and does the whole implement `MotorDrive`? | two-word registers over three words; three client registers whose mixtures decode to a negative number, one above 100 and a NaN; any number of writes and restarts |
| `power_sensor` | are published readings the right quantity, from a programmed device, coherent, and do they recover? | every transaction may fail, in every way it can; ages up to 2 |
| `access_events` | does `modbus_server` ever abort for want of a record, what does a queue of one change, and is every access followed by a line? | the four kinds of access the master makes, queues of 2 and of 1 |
| `access_lines` | does each log line describe its access? (violated) | as `access_events` |
| `master_poll` | are acknowledged writes in force, mirrors whole, polling endless, the ramp complete, and does the whole implement `RemoteRegisters`? | all 7 parameters, ramp 20, 22, 24, one late write at a time |
| `master_coil_store` | are coils saved inside the parameter structure? (violated) | as `master_poll` |
| `slave_resolver` | is the IP table within bounds, terminated, correct; does start-up end? | the shipped table of 7 rows of slave 1, six kinds of answer, 10 tries |
| `resolver_no_memory` | does a successful start mean the slaves were resolved? (violated) | as `slave_resolver` |
| `start_up` | does anything ever run half started, does the system come up when failures end, does the clock stay offline once it has the time, and always sleep again? | RTU with master, REST example alone, clock alone; NVS partitions usable or not; the parameter table and answers of `slave_resolver`, 10 waits for the time |
| `rest_server` | is what is sent, and parsed of a body whose length an `int` holds, this request's data, whole and in order, are files closed, does every request end? | buffer of 3, files of 0, 4, 7 and 8 bytes, bodies of 0 to 3 and 7 bytes, and of 8 and 15, which are -8 and -1 in an `int` of 16 values |
| `rest_read_error` | is a file reported complete sent whole? (violated) | as `rest_server` |
| `resolver_two_slaves` | do two slaves end up in their slots? (violated) | rows of slaves 1, 1, 2 |

**Why the bounds are enough.** Two parts are the words of a float in Modbus
registers, and the fewest that can tear; the proofs hold for any number. Three client registers suffice to make
every mixture the clamp distinguishes. Ages above 2 are treated alike, and
the strongest statement speaks of age 1. The argument for `NoAbort` counts records
against bits and needs a queue of 2; the shipped queue of 20 only adds slack.
With a queue of 1 the server does abort in the same run (`NoAbort` excepts it),
and `AbortNeedsDrop` says when. The kinds of access only other clients make are
left to the proofs, which hold for every set of them. The ramp has both ends and an
inner value; `MaxLate` is 1 because master and RTU share one connection and the
master has one request outstanding. The mDNS answers have every reason to
reject a record, alone and in front of a good one; the number of tries is the
shipped one. Files that are empty, longer than one buffer, and longer than two
give every end of the chunk loop; bodies reach the length that no longer leaves
room for the NUL, the greatest that is a positive `int`, and both ends of the negative ones. The deployments of `start_up` are the ones the repository
describes; programs that never exchange anything are not interleaved, because that would
only multiply the states. Ten tries and ten waits are the shipped numbers.

Deadlock is checked in every run; none of the programs is meant to stop.

## 4. Fairness

`MotorControl`: `WF_vars(RunMotor)`. The task has priority 1 and never blocks
except in `vTaskDelay`; the tasks above it delay in every cycle. Nothing is
assumed of clients or of the start-up.
`PowerSensor`: `WF_vars(ReadINA)`, for the same reason; I2C calls have a
timeout.
`AccessEvents`: weak fairness of the server and of the stack's send to the
queue, which ends in success or timeout. Clients may stop.
`MasterPoll`: weak fairness of `master_read` (requests time out) and of the
delivery of late writes (the connection delivers or is torn down). Answers are
not assumed to be successful: `Fail` alone satisfies the fairness.
`SlaveResolver`: weak fairness of `init_services`; `mdns_query_ptr` returns
within its timeout.
`RestServer`: weak fairness of the handler; the server's task runs, and its
sends and receives have timeouts. That a receive fails when nothing more comes is
what lets `RequestsEnd` hold; clients need not answer.
`StartUp`: weak fairness of each `app_main`, except in `example_connect`, which
waits for as long as there is no network, and of nothing that fails. No fairness
can promise a start, since a call may fail every time: `SystemComesUp` and
`ClockSleepsAgain` are stated for behaviours in which failures end (`FaultsEnd`:
no more aborts, resets, failed allocations and queries that miss an RTU that
advertises itself, and networks that let every chip in sooner or later). Any number
of failures, in any order, may come before. An SNTP server that never answers is
not among the failures that must end.

## 5. Proofs

Every property the runs check of a state or a step, and both refinements, are
proved for all values of the constants, with four of the nine liveness
properties; for the other five the safety half is proved. What follows says from
which assumptions and how.

### Invariants, steps and refinements

`MotorControlProofs` proves, for every number of parts, set of their contents,
decoding and set of client writes that satisfies the four assumptions of
`MotorControl`:

- `Inductive`: `Spec => []IInv`;
- `TypeCorrect`, `DutyIsCommanded`, `PassIsObedient`, `CommandsSurvive`: the
  type invariant and the three safety invariants of run `motor_control`;
- `PinsFollowDuty`: its action property `EnergisedAtNewDuty`.

The invariants are not inductive on their own. What is missing in
`DutyFromCommands` is what `runMotor` holds in its local `duty` between the
load and the driver call, and that words of `holding` come from commands even
in the middle of a store. For `PassObeysRegisters`, each program counter must
say which part of the demand is already on the bridge while `fresh` holds. For
`CommandNotErased`, a command exists only after the registers were initialised.
`IInv` is the conjunction of these with `TypeOK`. Its preservation has one
lemma per task, one step per action.

`OnlyOpenStoresTear` says when `runMotor` may see a torn register: only while a
store is under way. A duty loaded between two stores is that of the whole last command,
in however many parts a float is copied. More does not hold, because no lock is taken: from
30 to 32 (`0x41F0`, `0x4200`) a stack that copies bytes passes through a number
nobody sent, and one that copies words does not. Which one it is, is not in the
repository. What a torn load can do is bounded by `DutyFromCommands`, and that it does
not last is `BridgeFollowsRegisters`.

`MotorDriveProofs` proves `DriveIsImplemented`, `Spec => ImplementsMotorDrive`,
from the same invariant: initial states map to initial states and each step to
an abstract step or a stutter. The key case is `runMotor` raising a pin: by `IInv`
the duty it exposes is one that a client commanded.

`PowerSensorProofs` proves, for every bound on the ages and every pattern of
failing transactions, `SensorTypeCorrect`, `ReadingsAreOwn`,
`ReadingsAreCalibrated` and `InputsAreCoherent`, from `SensorInductive`. The
strengthening says that the device has one user at a time (`OneUser`):
`app_main` programs it before it creates the task; that a pointer set in this
pass is the one the next read needs (`OwnReading`); which writes are in the
device at each call (`Programmed`); and how old the readings and registers
before and behind the store loop's index are (`PassAges`).

`AccessEventsProofs` proves, for every set of accesses and of queue lengths,
`AccessTypeCorrect`, `AbortsNeedDrops`, `PacedLinesCorrect` and
`ServerNeverAborts`, whose property `NoAbort` is about builds with a queue of
two or more. The last rests on a count: a bit waiting to be served and a server
waiting for a record are claims, each covered by a record queued or on its way
(`RecordsCoverClaims`). With one place in the queue a record can be lost while
two claims are open, which is why `NoAbort` excepts it. `PacedLinesCorrect`
rests on there being at most one access under way between a patient client and
the log (`OneAtATime`).

`MasterPollProofs` proves `PollTypeCorrect`, `AckedWritesHold` and
`MirrorsAreWhole` for every ramp and every number of late writes, from
`PollInductive`. The strengthening says that a request is only out for a
parameter the loop visits, that while a write is out the mirror already holds
it and the register is not counted as acknowledged (`MirroredFirst`), and that no
late write is for an acknowledged register (`LateNotAcked`): that is what keeps a
late write from undoing a confirmed one. `PollImplementsRegisters` proves
`Spec => ImplementsRegisters` from the same invariant, with the fact that a late
write carries a value of its own register (`LateOwnValue`). From the
refinement alone follows `RegistersKeepTheirRanges`: whatever is retried, late,
lost or reset, neither side ever holds anything but zero or a value meant for that
register.

`SlaveResolverProofs` proves, for every parameter table, set of answers and
number of tries, `PeersCorrect` (only eligible records reach the list, the
table and the stack); `TableIsBounded`, under the assumption
`Cardinality(Addresses) < TableSize`, because a slot is only left behind for a
slave new to the list (`IndexCounted`); and `OnlySlaveInItsSlot`, under the
assumption `Addresses = {1}`, which the shipped table meets: a complete walk
leaves slot 0 to slave 1 whatever partial walks came before. The assumptions
mark the limits of the code: with four slaves and a fifth row the bound breaks,
with two slaves `resolver_two_slaves` finds the overwritten slot.
`ResolveTypeCorrect` is its type invariant.

`SlavesFindTheirSlots` says when the table is right for several slaves: if the
rows name slaves 1 to n in order of first use (`InOrder`), memory never runs
out, and no answer names some of the slaves and not others (`AllOrNone`), then
whenever the walks are over slot k - 1 holds slave k. `resolver_two_slaves`
shows that the third assumption is needed. The proof needs a first answer and a
first row that match, hence a least element of a set of numbers (`LeastNat`).
Induction is out of the provers' reach, but the library's `WFMin`, which takes
a relation and not an operator, gives it. `StackFindsTheEnd` says that the NULL
by which the stack finds the end of the table is there if the slaves are fewer
than the slots.

`StartUpProofs` proves, for every set of deployments, table, set of answers and
number of waits, `StartUpImplementsResolver`, `BootSpec => Spec`: the calls
around the query, the other programs, aborts and resets only ever step the
resolver as `SlaveResolver` does or leave it alone, so that its theorems hold
of the started system (`StartedPeersCorrect`, `StartedTableIsBounded` and
`RunningMasterKnowsItsSlaves`, which says that a master that polls has its
slaves in their slots, are such). `StartTypeCorrect`, `WholeOrNothing`
(`NothingHalfStarted`) and `ClockStaysQuiet` (`QuietOnceSet`) follow from
`BootInductive`. The invariant says what each program has brought up when it
makes each call, that a clock with the time is offline only at the two calls
from which it does not connect, and at which calls of the master the resolver
is querying, done or polling (`ResolverInStep`).

`RestServerProofs` proves the type invariant and `SentIsPrefix`,
`CompleteUnlessReadFailed`, `ParsedIsPosted` and `ScratchKeepsBounds` for every
buffer size and width of an `int` and all lengths, and `FilesAreClosed`.
`ParsedIsPosted` excepts bodies whose length is a negative `int`; `BufferIsBounded`
proves with `ScratchKeepsBounds`, which is about the end of the buffer, that a byte
before it is only written where there are such bodies (`StraysAreLong`). `FileProgress` and
`BodyProgress` say what part of the data is in the buffer and what part is sent
at each place in the handlers.

### Liveness

TLAPS treats `ENABLED` as an unknown formula, so the definition of weak fairness is
of no use to it unless the theorem says when the fair action is enabled. Four
liveness properties are proved from their fair specification and that one
hypothesis, which is read off the guards of the action:

| theorem | property | hypothesis | what the fair action waits for |
|---|---|---|---|
| `BridgeFollows` | `BridgeFollowsRegisters` | `MotorReady` | its task to exist |
| `ReadingsDoRecover` | `ReadingsRecover` | `SensorReady` | its task to exist |
| `AccessesAreLogged` | `AccessIsLogged` | `GuardsSuffice` | an event bit; a record, or none on its way; the second action, an access |
| `EveryParameterIsPolled` | `EveryCidPolled` | `NeverStuck` | nothing |

The hypotheses are the one part of these theorems that is not proved. They hold
of the specifications: in each, some disjunct of the action is enabled whenever
the condition holds, and it changes the place its task is at. Given as an
INVARIANT to the runs of section 3, the state formula of each (what stands behind
`[]`) is found to hold by TLC; and TLC checks the four properties there without
any such hypothesis, as it can evaluate `ENABLED`.

Each argument names the places between cause and effect and shows, without
temporal logic, that in the circumstances assumed a step either stays at a
place or goes on to the next, and that a step of the fair action goes on. For
the bridge the places are the calls left until `runMotor` checks the coil again
(`Behind`), those left of a pass that has seen the present registers, with what
it has done so far (`Ahead`), and `Steady`, which no step leaves. For the
sensor they are the steps left of a pass (`Left`), and the clean pass after the
first complete one (`Clean`, `Recovered`). For the log they are the rest of the
present round, and a wait for a record that is still to be queued. For the poll
they are the turns of the loop until the parameter is reached (`Turns`), seven
at most because the table has seven rows, and the four steps of each.

`ServersRun` proves of `SystemComesUp` the part that waits for no other chip:
once calls stop failing, the RTU runs for good, and so does the REST example
if its NVS partition is usable (`ServersComeUp`). It assumes `ServersReady` in the
same way.

The others need as many stages as some constant says, and so an induction over
time that the prover cannot make: `SystemComesUp` for the master,
`ServicesSettle` and `ClockSleepsAgain` (tries and waits), `RampReachesSlave`
(values of the ramp) and `RequestsEnd` (bytes of a file or a body). For these,
and for the four above, the safety half is proved: the work left is a natural
number that every step of the task makes smaller, and that no other step makes
larger, or the stage is kept.

| theorem | for | what runs down |
|---|---|---|
| `BridgeStaysObedient` | `BridgeFollowsRegisters` | the end of an undisturbed pass is steady, and only new registers or a restart end that |
| `SensorRecovers` | `ReadingsRecover` | a pass, which begins clean whatever failed before (`StepsLeft`) |
| `AccessNotForgotten` | `AccessIsLogged` | the steps to the next log of a claimed access (`Due`) |
| `SweepsRunDown` | `EveryCidPolled` | the sweep, which asks for each parameter once (`Left`, `SweepsAreComplete`) |
| `RampKeepsOrder` | `RampReachesSlave` | nothing: failed, late and repeated requests never skip or repeat a value of the ramp |
| `ServicesRunDown` | `ServicesSettle` | the walk, and then the tries (`Remaining`) |
| `ChainsRunDown` | `SystemComesUp`, `ClockSleepsAgain` | the calls of a chain, and inside one its walks or waits (`Nearer`) |
| `RequestsRunDown` | `RequestsEnd` | the bytes and calls left of a request |

That a natural number does not run down forever is then the one step left to
the reader; TLC makes it on the instances. `RampKeepsOrder` assumes
`DutyFrom # 0`, because a ramp that starts at zero cannot be told from a register
never written.

`MotorControl` reads floats through the constant function `Decode`: the proofs
hold for any decoding, the runs for one that has every kind of mixture.

## 6. Disagreements between the code and its documentation

Each is a run that expects a violation; `PROJECT.json` quotes both sides.

1. A log line of the RTU can describe another access than its label names
   (`access_lines`): the HOLDING WRITE branch takes no record.
2. Saving a coil stores four bytes at a one-byte field (`master_coil_store`).
3. An allocation failure counts as having resolved every slave
   (`resolver_no_memory`).
4. With two slaves, a retry after a partial answer loses the first slave's slot
   (`resolver_two_slaves`).
5. A read error in mid-file ends the response as complete (`rest_read_error`).

Others were read in the source and have no run of their own:

- `master_read` goes on after the alarm (its test is commented out), against
  `master/README.md:142`. `EveryCidPolled` shows that it always goes on.
- `light_brightness_post_handler` refuses bodies that do not fit as "content too
  long" (`master/main/rest_server.c:119`), but compares after it has converted the
  length to an `int` (`:113`): from 2^31 on it is negative, nothing is received, the NUL
  is written before the buffer and the parser is given the bytes of an earlier request.
  `ParsedIsPosted` is therefore stated for bodies whose length an `int` holds.
- The shipped table puts its only slave in the second slot as well as the first,
  against `master/README.md:80-82`.
- The master advertises its web page by mDNS and frees the responder right after the
  slaves are resolved (`mdns_free`, `master/main/services.c:138`), so in `StartUp` a
  running master has no `"mdns"` in `up` and the page is not found by its name, as
  `rest/README.md:21` says of the example it was taken from. `netbiosns_set_name`,
  which the example calls, is not called either.
- The REST example and the clock abort on an NVS partition that is full or of another
  version, where the RTU and the master erase it: they restart for ever, which is
  why `SystemComesUp` and `ClockSleepsAgain` ask for a good one there.

## 7. Not modelled

- The scaling of raw INA209 words to volts, amperes and watts, and the
  formatting of log lines and dates.
- `slave_destroy`, `master_destroy`, `master_destroy_slave_list` and both
  `destroy_services`: only reached after loops that never end. That is why the two
  start-up components are "partly" modelled.
- In the clock, `boot_count`, which is only printed, and the code under
  `CONFIG_SNTP_TIME_SYNC_METHOD_SMOOTH` and `..._CUSTOM`, which the shipped
  configuration leaves out.
- The two deployments of `init_fs` the configuration does not choose (semihosting and
  SD card); each succeeds or fails as the chosen one does.
- The two REST handlers that only format a value: they keep no state.
- The web pages. Their one piece of state is the array the chart draws, and the
  order of the samples in it depends on the browser's scheduling of requests, which nothing in
  the repository fixes.
- IP addresses: a record is told from another by whom it names. That an RTU that
  comes back with another address is not found again is listed as a hazard.
- The composition of `MasterPoll` with `MotorControl`. The two meet in the Modbus
  connection and the RTU's registers, and each models the other side in full
  generality: `MotorControl` takes any writes from any client, `MasterPoll`
  an RTU that restarts at any time.
- FreeModbus, ESP-IDF, mDNS and LwIP: modelled only by how the four programs use
  them, and marked external in the map.

## 8. Further work

1. The master's ramp, the connection, the store in parts and `runMotor` composed
   (`MasterPoll` with `MotorControl`), with the ramp reaching the bridge. The refinements
   `RemoteRegisters` and `MotorDrive` are the interfaces to compose at.
2. The chart's window with answers out of order, if a page is ever made to depend on it.
3. The order of shutdown, once some loop can end.
