# Verification of the MTConnect ROS bridge

TLA+ models of `ros_bridge`: a machine tool and a robot that cooperate through
MTConnect agents. TLC checks each model on small instances; TLAPS proves the
main theorems for every value of the constants. Paths below are relative to
`src/`; `BR` stands for `mtconnect/mtconnect_ros_bridge/scripts`, `SM` for
`mtconnect_example/mtconnect_state_machine/src/state_machine.cpp`, `SIM` for
`simulator/src`.

    tlc -config MCRobot.cfg MCRobot.tla      # a run (the list is in section 4)
    tlapm RobotProofs.tla                    # the proofs of a module

## 1. The system

Three tiers talk only through the data items of MTConnect agents. Each request a
peer can make of another (open the door, load material, ...) is a pair of data
items, the requester's and the responder's, whose values READY, NOT_READY, ACTIVE,
COMPLETE, FAIL (and UNAVAILABLE when a side disappears) form a handshake.

    Ruby CNC simulator <-> agent <-> Python ROS bridge <-> C++ robot state machine
       simulator/          (external)  mtconnect/            mtconnect_example/

The CNC asks the robot to load and to unload material; while it carries out such a
request the robot asks the CNC to open and close the door and the chuck. A load
therefore nests two to four handshakes of the other direction inside one:

    CNC: material_load ACTIVE -> robot: ACTIVE -> [open door, close chuck, ...] -> COMPLETE
         -> CNC: NOT_READY, machining cycle, material_unload ACTIVE -> ...

| Part | State it keeps | Operations | Hard behaviour | Correct when |
|---|---|---|---|---|
| **Robot state machine** `SM` | `state_` (51 states), stop request, material flag, last robot status, two action servers, seven action clients | `runOnce`, callbacks for goals, robot status and commands, `errorChecks`, `overrideChecks` | callbacks and checks replace the state between two passes of the loop; devices fail one by one; restart after an abort | the part is always held, the arm moves only along joined paths and behind an open door, every goal is answered once and truthfully |
| **CNC context** `SIM/cnc.rb` | a hierarchical state machine with history, material, door and chuck, the robot's mode, execution, availability | event handlers of the robot's data items, `cycling`, `loading`, `unloading`, `completed`, `failed`, operator's commands | events of the stream, the cycle's thread and the interfaces' timers interleave; entry actions send events; history | one exchange at a time, the exchange it needs is on offer, a cycle runs only behind a closed door |
| **Interface request** `SIM/request.rb` (material load, unload) | its state machine, one timer | `activate`, `deactivate`, `idle`, peer's values, timeout | a late timer, a lost or repeated peer value, failure reported during an exit | a request is concluded, whatever the peer does |
| **Interface response** `SIM/response.rb` (door, chuck) | its state machine, the device | `activate`, `deactivate`, peer's values, device and reset threads | two responses share one device; threads of earlier activations | COMPLETE only if the device is at its destination |
| **Event mutexes** `SIM/mtc_context.rb` | a mutex and an owner per state machine | `process_event` | lazily created, reentrant, taken in both orders | one thread at a time, nobody waits for ever |
| **Bridge action server** `BR/bridge_server.py` | an action server per door and chuck request, one queue and one capture flag for all | `execute_cb`, `xml_callback` | several server threads and the stream's thread share queue and flag | the ROS result says what the machine tool did |
| **Bridge action client** `BR/bridge_client.py` | a data item per material action, a pending handshake | `xml_callback`, `action_client`, done callbacks | chunks are handled one after the other, results arrive out of order | each accepted request is concluded once, with the action's result |
| **Bridge publisher, subscriber** `BR/bridge_publisher.py`, `BR/bridge_subscriber.py` | current values, change list | `xml_callback`, `ros_publisher`, `topic_callback` | publisher's thread against stream's thread | the last value is published |
| **Adapters** `BR/src/mtconnect_adapter.py`, `SIM/adapter.rb`, data items | clients, data items with a changed flag, heartbeats | `gather`, `send_changed`, `sweep`, `heartbeat_client` | a thread per client against the gathering threads, unlocked flags | every change reaches every client, or is repeated on connection |
| **Agent streams** `BR/src/long_pull.py`, `SIM/long_pull.rb`, `SIM/streamer.rb` | the document read so far, header or body, what is wanted | chunk, header, body, callback | the network cuts chunks where it likes; the end comes in the middle of one | parts come whole, once and in order |
| **Scanner** `BR/src/scanner.py` | string, position, two recorded attempts | scan, check, skip, unscan, lines | mixed calls; DOS line ends | the methods agree with each other |
| **First-generation robot machine** `mtconnect_example/mtconnect_cnc_robot_example/src/state_machine/` | transition table, task list, current task | transition actions, task sequences | sequences of tasks with failures | tasks run in order |
| **Task parser** `mtconnect_example/mtconnect_task_parser/` | a parsed document | `fromXml` for each element | none | what is read is what was written |
| **Simulated cell** `BR/robot_sim.py`, `BR/material_load_server.py`, `BR/material_unload_server.py`, `BR/opendoor.py`... | two queues, two capture flags, the exchange seen so far; a topic; a cycle counter | `run_actions`, stream callbacks, `execute_cb` of the servers, the clients' `main` | programs that never speak to each other look at lagging streams and a lagging topic | devices move in the exchange under way, each exchange ends |
| **Other stand-ins** `SIM/robot.rb`, `mac_robot_sim/` | a form | play one peer | none of their own | - |
| **Vendored, generated, data** Karel programs, schemas, launch files, arm navigation configuration | - | - | - | - |

`PROJECT.json` lists every component with its files, and under `hazards` what is
hard to test in each, at its line.

## 2. Modules

| Module | Models | Depends on |
|---|---|---|
| `RobotStateMachine` | `SM`: the loop, its callbacks and checks, the devices it commands | - |
| `RobotModes` | the abstract specification of the robot: eight modes and two goals | - |
| `RobotSafety` | properties of the robot, the refinement mapping to `RobotModes` | `RobotStateMachine` |
| `RobotInduction` | the inductive invariant `HandlingInv` | `RobotSafety` |
| `RobotProofs` | theorems about the robot | `RobotInduction` |
| `MCRobot` | instances for TLC | `RobotSafety` |
| `CncInterfaces` | the tables of `request.rb` and `response.rb` | - |
| `CncContext` | `cnc.rb` with its interfaces, timers and threads | `CncInterfaces` |
| `CncSafety` | properties of the machine tool | `CncContext` |
| `CncProofs` | theorems about the machine tool | `CncSafety` |
| `CncLocks` | `process_event` and the machines an event goes through | - |
| `CncLocksProofs` | theorems about the mutexes | `CncLocks` |
| `MCCncLocks` | instances for TLC | `CncLocks` |
| `BridgeServer` | `bridge_server.py` between the robot and a machine tool | `CncInterfaces` |
| `BridgeServerProofs` | theorems about the server | `BridgeServer` |
| `MaterialClient` | `bridge_client.py` between a machine tool and the robot | `CncInterfaces` |
| `MaterialClientProofs` | theorems about the client | `MaterialClient` |
| `RobotSim` | the cell tried out without a robot: `robot_sim.py`, the material servers, the device clients | `CncInterfaces` |
| `RobotSimProofs` | theorems about the simulated cell | `RobotSim` |
| `DataItems` | events and conditions of `data_item.py` | - |
| `Adapter` | `mtconnect_adapter.py`: gathers, clients, heartbeats | `DataItems` |
| `AdapterPrograms` | the programs that use it: `bridge_subscriber.py`, a server's threads, the example, a reporter | `Adapter` |
| `AdapterProofs` | theorems about the adapter and its programs | `AdapterPrograms` |
| `Scanner` | `scanner.py` as operators | - |
| `ScannerLaws` | what its methods owe each other | `Scanner` |
| `LongPull` | `long_pull.py`, which reads an agent's stream | `Scanner` |
| `Publisher` | `bridge_publisher.py` on top of it | `LongPull`, `ScannerLaws` |
| `PublisherProofs` | theorems about the stream's reader and the publisher | `Publisher` |

Operators whose comment begins with "Fault:" are not part of a specification: they
are plausible slips (a dropped guard, a missing reset) that the mutants put in the
place of the definition after them, to show that the property would notice.

### The robot (`RobotStateMachine`)

One thread repeats `run()` (`SM:182-198`): `runOnce()`, then `spinOnce()`, which
delivers callbacks, then `errorChecks()` and `overrideChecks()`. `pc` says which half
of the loop the thread is in. `runOnce` is one action with a disjunct per kind of
case; the load and unload sequences are data (`After`, `Moves`, `Sends`, `Awaits`),
because their cases differ only in the paths, commands and results they name. In
the spin half, goals, robot status and commands arrive in any number and order;
`Checks` ends it.

Variables and code: `state` is `state_`; `goal[c]` is what the client's `getState()`
answers, with PENDING and ACTIVE as RUNNING and every other end but SUCCEEDED as BAD
(`isActionComplete`, `SM:909-942`, treats them alike; LOST, the answer of a client
that never sent a goal, is one of them). `arm`, `gripper`, `door`, `chuck` are the
devices themselves: they change when their goal succeeds, and the arm is `AWAY`
from the moment its trajectory starts. What is read from a topic is taken as
current: the home check compares the arm's true position. `Jog` is the operator
moving the arm by hand in the states that publish MANUAL.

Peculiarities of the code that the model keeps: a stop request survives an abort;
`isChuckClosed` asks the gripper's client instead of the vise's (`SM:1050`); the two
SET_MAT_ACTIONS_NOT_READY states ignore a failing service; a goal in the wrong state
is accepted to be aborted, which cancels the one in progress (`SM:819`); `errorChecks`'
range test is `state_ <= ABORTING` (`SM:704`); `moveArm`'s ABORTING is overwritten by
the case that called it (`SM:964`).

### The machine tool (`CncInterfaces`, `CncContext`)

The tables give, for each state and event, the next state; `CncContext` adds what
entering and leaving does. An event is processed to its end in one step, with every
event it sends: each operator turns the whole context `c` into the context after it.
This is what `process_event`'s mutex is meant to give, and `CncLocks` is about whether
it does. The robot's stream, the operator, and the threads that sleep (a device on its
way, a failed response's reset, a cycle, a request's time limit) are the actors.

External: the `statemachine` gem, taken as its users rely on it. A transition of a
state to itself runs no entry action. An entry action that sends an event leaves the
machine where that event took it; whether the outer entry then still runs the inner
state's entry action is the constant `FinishesEntries`, and the runs use both values
(`cnc_safety` TRUE, `cnc_liveness` FALSE). An exit action whose event
asks for another transition is overtaken by the exit.

What is abstracted: the cycle thread's `execution = READY` and its event are one
step; `mazak.rb`'s reading of a real controller, and messages, are left out. A value
of a broken stream (`DISCONNECTED`) is not an input: `streamer.rb:90` passes no value and
the handler raises on `nil.downcase` before its case for it.

### Threads of the machine tool (`CncLocks`)

`process_event` (`SIM/mtc_context.rb:26-52`), one step per access to shared state: is
there a mutex, create it (`Thread.exclusive`), forget the owner, compare the owner, lock,
claim, process, give back. An event is the list of machines it enters and leaves: the
CNC visits its interfaces, an interface may report to the CNC, which visits them again.

### The bridge's action server (`BridgeServer`)

A ROS goal from the robot goes through `execute_cb` (`BR/bridge_server.py:195-294`):
check the current value, publish ACTIVE, turn capturing on, take chunks from the queue
and look at their elements, answer COMPLETE with READY, end at READY or FAIL.
`XmlCallback` is the stream's thread, which delivers chunks of any number of changes and
drops them while `capture_xml` is off. All goals share the queue and the flag, as in the
code; nothing ever empties the queue. The machine tool is `CncInterfaces`' response with
a device that is OPEN, CLOSED or UNLATCHED. The adapters and agents are taken as
reliable and in order; the values nobody acts on are left out of the stream (`Heeded`).
`outcome`, `moved` and `missed` are history variables: how the last goal ended, whether the
machine tool completed it since it came, whether its ACTIVE came to a response that was not
ready or its answer was thrown away.

### The bridge's action client (`MaterialClient`)

The stream's thread reads a chunk of any number of changes (`XmlCallback`,
`BR/bridge_client.py:273-306`), looks at the elements tag by tag, and does for each ACTIVE what
`action_client` (:190-265) does, one step per access to what others can see: wait for the server
and check the goal (`WaitForServer`), publish ACTIVE (`SayActive`; it goes out before the goal,
because `active_cb` is called in the argument list), `SendGoal`, `Result`. `at` says where the
thread is, `elements` what is left of the chunk, `goals` is `action_goals`, `item` is `di_dict`.
What the machine tool does meanwhile waits in `stream`. The robot's services
(`robot_state_callback`, :330-344) set the same items from their own thread. The machine tool is
`CncInterfaces`' requests, which it makes, withdraws and times as it likes; the robot's server is
any server that ends a goal well or badly, or loses it. `won` is a history variable: the robot's
successes of which the machine tool has not been told. The READY handshake compares a tag (:261)
with a data item's name (:284), which never match: it is modelled by its effect, none.

### The simulated cell (`RobotSim`)

The programs have no common memory. The simulation (`Connect`, `PollCnc`, `PollRobot`, `Send`,
`SecondDevice`, `SequenceDone`) is `run_actions` of `BR/robot_sim.py`: it takes one chunk from each
queue in turn until both machines have said ACTIVE, then launches the two device clients of the
exchange, without capturing changes during the first. `sim` is where it is, with its local
variables. `LoadServer`, `UnloadServer` are the `execute_cb` loops of the material servers, which
wait until the publisher's topic shows the devices where they should be; the
`LastCycle`-th load is aborted on purpose (the 25th in the code). A client that gets an aborted goal returns as if it
had succeeded. The machine tool, the bridge's three programs and the agents are external here and
much simpler than in the modules of their own: the machine tool has no operator and is never
interrupted.

### The adapter (`DataItems`, `Adapter`, `AdapterPrograms`)

A data item is a record with its changed flag; a condition also has an activation for each code
(new, held, cleared), which `begin`, `add`, `remove`, `complete` and `sweep` move. `Told` is what
an agent makes of a line. In `Adapter`, a gathering thread goes `Begin`, `Change`, `Complete`,
`SendLine` for each line and client, `SendCondition`, `Sweep`; a client's thread sends the initial
values the same way and then waits for heartbeats (`HeartbeatEnds`). What is still to be sent, `out`,
is a sequence of lines, each with the clients it has not gone to: one line goes to all of them,
in whatever order the table has them, before the next does. Only the table of clients has
a lock, so every step is one access. The clients connect, ping, close or fall silent when they like.
`view` is what a client has been told, and `torn` marks, as history, a client whose first values
were written while a gather was under way, and in programs without a lock one that was connected
when gathers overlapped: what it was told may differ from what is.

`AdapterPrograms` picks one of four programs: the subscriber (`BR/bridge_subscriber.py:95-131`, the
loop over its topics; :196-262, a callback per topic under one lock, a gather per member), the
servers' threads (each sets its own item, no lock), the example's single thread with a
`SimpleCondition`, and a program that reports a `Condition` anew in each gather.

### Streams and publisher (`Scanner`, `ScannerLaws`, `LongPull`, `Publisher`)

`Scanner` states `scan`, `check`, `skip`, their `_to` and `_until` forms, `unscan`, `bol`, `eol` and
`skip_lines` as operators on [string, pos, history]; patterns are literals, anchored literals and runs
of a class, what the repository uses. `LongPull` uses it on tokens (boundary, length line, blank line,
body) instead of characters: `ReadChunk` and `ReadAll` take what the network delivers, in pieces
cut anywhere, `Header` and `Body` take the document apart. `Publisher` is the callback of that
stream (`ProcessXml`, `XmlCallback`, `PutXml`) and the threads of the timer, each of which starts the
next before it publishes: one step per access to `di_changed`, `di_current`, `XML_queue`,
`data_hold` and the messages, which they share without a lock. The n-th part gives an item its
n-th value. The exceptions that end a thread (`NotConnected`, `LongPullException`, a `TypeError`) are
places of the reader.

## 3. Assumptions and bounds

Every constant that bounds a model is named in its module; the configurations set:

* `MCRobot`: the arm is the device that may fail (`Fallible`); the other devices fail only
  when cancelled, since `isActionComplete` treats them alike. `ForcedFaults`
  are one state of a sequence and STOPPING, so that a fault strikes in and out of the
  cycle. No state override: an override puts the machine where the operator says, and
  nothing can be promised of it. `QuiescentReset`: the operator resets a cell at rest;
  without it a device may still carry out a command of the cycle before. There is no
  bound on the number of cycles, errors or restarts: the state space is finite.
* Robot liveness: the devices start in one state (`InitWorkshop`), and a new error appears
  only at `ErrorPlaces`: one waiting and one device state of each sequence, the states of
  the abort and the reset. It goes away anywhere, and reappears any number of times; the
  properties are about what happens once it stays away.
* `CncContext`: `MaxThreads` bounds the sleeping threads of each kind (1 is enough for a
  thread of an earlier activation to meet a later one: it may sleep as long as it
  likes), `MaxAsleep` all of them: 2 in `cnc_safety`, 11, which is no bound, in `cnc_liveness`. (With
  no such bound `cnc_safety` has 1.7M states, and its properties hold.) `Asked` is the chuck's
  pair of responses where the robot is impolite, so that the door stays open and each cycle is
  refused; all four where it is polite. The theorems of `CncProofs` hold for any of these.
  `FailNext` is what the simulator may be told to fail: nothing here, the
  responses fail when they are deactivated or the robot fails them.
  `PolitePeer` restricts the robot to what the handshake allows, as `cnc_spec.rb` and the
  features drive it; without it the robot says anything at any time, which covers
  lost, repeated and replayed values.
* `CncLocks`: three threads and two interfaces, enough for a thread inside, one waiting and one
  arriving; machines `cnc` and `load` have processed an event before, `unload` has not.
* `BridgeServer`: the door's two actions, which share a device. `OneAtATime`: the robot's
  sequences wait for each goal before the next of the same device. `MaxAway`, 2, restrains only
  when a new goal comes: not while two changes are still under way. What follows a goal is not
  restrained. `Disables` FALSE: the operator does not disable the machine tool in between. The
  theorems hold for any `MaxAway`.
* `MaterialClient`: `CncAhead`, 2 changes under way while the machine tool still acts of itself:
  a request withdrawn and another made while the client is busy. `RobotAhead`, 1 for the robot's
  services. The goal's material is known or not. After a goal was lost the machine tool does nothing
  of itself.
* `RobotSim`: the cycle that fails is the third, so there is a first round, a round after a round,
  and the end. One response of each exchange may fail. The theorems hold for any cycle and any
  responses that may fail.
* `AdapterPrograms`: one client (a client's own connections come one after the other; what one
  is told does not depend on another), two topics of one member each, three values, a condition of
  two codes. The servers' second action is asked for once. The theorems hold for any number of clients
  and any events, values and (finitely many) codes that include the ones the programs use.
* `Publisher`: two parts, the agent then sends no more; two timer threads, the least that overlap;
  two topics. Three tokens are read ahead of a chunk, less than the chunk. The network
  delivers all it can or half of that. `Length`: the scanner's strings have up to three
  characters (a letter, CR, LF) behind the text of the reader's document, and are of any length in the
  theorem. The theorems about reader and publisher hold for any number of parts and of threads, any
  number of tokens read ahead but none (`LongPullAssumption`), and any pieces.

## 4. What the runs show

| Run | Asks | States |
|---|---|---|
| `robot_safety` | Is handling safe in load and unload cycles with robot errors, a failing arm, forced faults, changing material, failing services, goals in any state; does every goal have an owner; does the machine implement `RobotModes`? Yes. | 3.6M |
| `robot_liveness` | Once errors stop: are goals answered, do aborts end, are stop requests honoured? Yes. | 0.2M |
| `robot_errors` | Does an error abort the cycle while it lasts? **No**: ABORT_GOALS is set back to ABORTING in every pass. | violation |
| `cnc_safety` | With a robot that says anything, faults, and an operator who disables, enables and resets the machine, inside and outside events: are responses truthful and exclusive, is a disabled machine quiet, is each transfer the machine's own, are all running requests timed? Yes. | 0.5M |
| `cnc_liveness` | Whole rounds with a polite robot that is slow or fails and whose status changes at any time: is the exchange the machine needs always on offer, do cycles run behind a closed door, do cycles, transfers and failures end? Yes. | 50k |
| `cnc_locks` | Are a machine's events processed by one thread at a time, does no thread wait for itself? Yes, the second for machines that have their mutex. | 27k |
| `cnc_locks_deadlock` | Do no two threads wait for each other? **No**. | violation |
| `bridge_server` | One request at a time of a door that moves or fails: is "succeeded" true, does READY answer a COMPLETE of this goal, does each goal end? Yes, the last but for the gaps named below. | 0.4M |
| `material_client` | Does the machine tool hear of no completion the robot did not earn, has the robot one goal at a time, does ACTIVE stand for a goal, is each request answered? Yes, the last unless a goal got lost or the material is wrong. | 0.4M |
| `robot_sim` | Does a cycle start behind shut devices, do devices move only in the exchange under way, does each exchange end? Yes. | 3085 |
| `adapter` | Does a connected agent know every value between gathers, do agents that are gone leave the table, is every topic subscribed to? Yes, the first but for the two overlaps that `torn` marks. | 0.4M |
| `publisher` | Is the frame of the stream kept, do topics never go back, do they end with the last value; do the scanner's methods agree? Yes, topics go back only when rounds overlap. | 0.5M |

The two violations are findings, quoted with the code's own words in `PROJECT.json`:

1. `SM:704`. The intended range test of `errorChecks` is always `state_ <= ABORTING`, so a
   lasting error keeps the robot between ABORTING and ABORT_GOALS; running device goals are
   never cancelled. (`AbortCompletes` shows that the abort ends once the error is gone.)
2. `SIM/mtc_context.rb:42`. The CNC takes its interfaces' mutexes under its own
   (`cnc.rb:315`), an interface the CNC's under its own (`request.rb:110`): two threads can wait
   for each other for ever.

### Peculiarities the properties allow for

Met while modelling, and written into a property as the exception it needs, or kept out by a
constant:

* Robot. A second load goal while one is running is refused, but takes the running one with it
  (`SM:819`; `RobotModes` states it as `RefuseLoad`). A trajectory the filter rejects is not sent, yet the
  sequence goes on to its WAIT state and looks at the result of the trajectory before (`SM:964`;
  the runs and the nominal proofs have a filter that answers OK).
* Machine tool. The thread that creates a mutex forgets the owner afterwards
  (`mtc_context.rb:35`), so that a second thread may wait for itself at its next nested event (found by
  TLC when `NoSelfWait` is not limited to `Created`). A status event of the robot during a cycle
  takes the CNC to unloading while execution is still ACTIVE, so the door may open then, and the
  thread of that cycle may end the next one early (`CycleBehindClosedDoor` is about the state
  `cycle_start`, `NothingLasts` says only that cycles end). An operator's reset during a load leaves
  the machine in `loading` with its request withdrawn (`OnOffer` is checked without operator).
* Bridge server. ACTIVE goes out (`BR/bridge_server.py:217`) before capturing is on (:222): an answer
  in between is dropped and the goal waits for ever. A FAIL of an earlier goal that arrives late,
  between the question whether the machine tool is READY (:205) and ACTIVE, makes it ignore
  ACTIVE: the goal waits as well. `GoalsEnd` names both, and shows that nothing else leaves a
  goal waiting. The queue is never emptied (:230): with `Disables` TRUE an answer left over from
  before the machine tool was disabled passes for the answer to a new goal. With goals that run
  together, each takes chunks meant for the other (:234).
* Bridge client. The docstring's "Completes 'READY' handshake" (`BR/bridge_client.py:71`) never
  happens (:261 against :284); requests are answered all the same, for the machine tool
  does not wait for it. A goal that ends neither well nor badly leaves the data item ACTIVE
  (:262): the next ACTIVE is then no change, and is not sent.
* Adapters. A client is in the table before its first values are written
  (`BR/src/mtconnect_adapter.py:59`): a gather meanwhile sends a newer value first. Two gathers at once
  clear each other's changed flags (:181). A client that never sent a PING and falls silent without
  closing stays in the table. A `SimpleCondition` to which a code is added after `unavailable`
  does not send it.
* Subscriber. A constant without a mapping may get the value of the member before it
  (`BR/bridge_subscriber.py:231-240`): the model's members all have their mapping.
* Publisher. The comment at `BR/bridge_publisher.py:273-274` says that the queue ensures that updates
  are captured; what is published is what `di_changed` and `di_current` say at that moment, not what is
  in the queue's entry. A value that vanishes from `di_changed` during a round ends the round.
  `LastIsTold` shows that the rounds that follow make up for it.
* Stream. A size line that comes in two pieces ends the reader with a `TypeError`: `FramesKept` and
  `LastIsTold` make an exception of a reader that has ended.
* Scanner. Its documentation says that one attempt is remembered; two are, and `unscan` gives back
  both (`Reverts`). `skip_lines(0)` has no result (it raises), and is not in the laws.

Deadlock is checked in the runs of the robot, the machine tool and the adapter. It is off in
`cnc_locks` (the circular wait is `cnc_locks_deadlock`'s subject), in `bridge_server` and
`material_client` (the robot or the machine tool need not ask for anything again, and a goal may
wait for ever as above), in `robot_sim` (the cell idles after the cycle that fails) and in
`publisher` (the program ends with the stream).

### Fairness

* Robot (`Fairness` in `RobotStateMachine`): the loop is a `while` around `runOnce` and
  `spinOnce` at a fixed rate, so both halves are weakly fair; each device ends a goal it was
  given, well or badly. Goals, errors and commands are not fair. The properties are
  conditional on `<>[]~robotError`: an error that lasts is finding 1.
* Machine tool (`Fairness` in `CncContext`): threads wake up, and the second event of a
  READY the stream has read is delivered. The robot, the operator and faults are not fair:
  `TransfersEnd` holds though the robot may say nothing.
* Bridge server: the streams' threads deliver, the machine tool's devices and threads move on, and
  a goal's thread runs until it waits for a chunk. The robot need not ask for anything; the wait
  itself has no timeout, and no fairness ends it.
* Bridge client: its threads run, the agents deliver, and the robot ends its goals (`GoalsAnswered`
  is what the robot's own run shows). The machine tool need not do anything.
* Simulated cell: every program runs, the agents deliver and devices arrive. The failures are not fair.
* Adapter: the clients' threads and the subscriber's loop run, each topic has a publisher
  some day. The agents and the gathers are not fair.
* Publisher: the agent sends its parts unless it closes, the reader and the timer's threads run.

## 5. What is proved

TLAPS checks all proofs (850 obligations in `RobotProofs`, 613 in `CncLocksProofs`, 505 in
`MaterialClientProofs`, 1872 in `CncProofs`, 1614 in `BridgeServerProofs`, 3087 in `PublisherProofs`,
2629 in `RobotSimProofs`, 2614 in `AdapterProofs`). They hold for every value of the constants, under the
hypotheses named in each theorem.

**Robot, any inputs.** `TypeCorrect`. `GoalsAreOwned`, `ErrorsStopCommands`, `AbortCancels` and
`RobotImplementsModes` assume `Overrides = {}` only. The first three are
inductive once the variables have their types; the refinement goes action by action (`ModesStep`), with
`GoalOwnership` as the invariant that tells FinishLoad from a step that would drop an
unload goal.

**Robot, nominal.** `HandlingCorrect` proves `HandlingInv` under `Nominal` (home check on, its
default in `m16ib20_demonstration.launch:15`; a filter that answers; quiescent reset; no
override). The safety properties are not inductive: that the part is held in ML_MOVE_CHUCK
depends on what was awaited in ML_WAIT_PICK and on which goal the gripper was
given before. `HandlingInv` says, state by state, where the arm stands or is going
(`ArmInv`), what the gripper was told last and whether it did it (`GripperInv`), and which
door and chuck goals may still be running and what a success of theirs means (`DoorInv`,
`ChuckInv`). Each part is preserved on its own (`ArmStep`, `GripperStep`, `DoorStep`, `ChuckStep`),
all from one lemma on awaiting (`AwaitStep`). `MotionIsContinuous`, `PartIsHeld`,
`DoorIsOpenInside`, `ReportsAreHonest` and `WaitsAtHome` follow.

**Machine tool.** `CncKept` proves `CncInv` for any robot, polite or not, any interruptions, both
readings of the library (`FinishesEntries`) and any number of threads asleep; the five invariants
of `cnc_safety` and the type follow, and with a polite robot `CycleBehindClosedDoor`. An event
turns the context into another by way of contexts in
which the machine is never seen, so the invariant is split: `Sound`, what survives whatever
is done to the exchange (an active response's device is UNLATCHED and its own, what waits
is timed), and the rest of `Good`, which the last operator of an event restores: a
request is made in its leaf or offered while the machine idles (`Exchanges`), a disabled
machine offers no responses (`Offers`), and a cycle has found everything shut (`Shut`): what keeps it
so is that a polite robot moves devices during a transfer, which `Exchanges` places in
another leaf. The proof has a lemma per operator, which says what it
makes of a `Sound` context, and one per action. Two steps do not fit the pattern. The first half of READY
leaves an idle machine with an active request, which `Exchanges` allows only while the second half is
pending. And a timeout uses up the last thread that timed its request: `TimeoutLemma` shows that the
request moves on, without supposing it timed.

`AlwaysOnOffer` adds `Offering` to `CncInv`: where the machine waits, the request of that place is
made, an idle machine offers one, and a machine in its cycle has material, so that the
unloading after it is asked for. It needs a robot that keeps to the handshake, because UNAVAILABLE
takes any request back (`cnc.rb:159-164`), and no operator, because `reset_cnc` of the command line
resets the requests outside an event and leaves the machine where it is; TLC finds the machine
waiting for nothing without either.

**Mutexes.** `LocksTyped` and `EventsAreExclusive` hold for any threads, interfaces and
machines created or not, from `LocksInv`: whoever is inside a machine holds its mutex, and the
owner's name is never that of a thread without it. `NestedEventsPass` adds `SelfInv`: of a machine
that had its mutex from the start, the name is there whenever its thread is inside.

**Bridge client.** `ClientKept` proves `ClientInv` for any material and any bounds, and
`ClientEarnsCompletions`, `ClientHasOneGoal` and `ClientActiveMeansGoal` follow. That `won` never
becomes negative is not inductive: the completions on their way to the machine tool
count against it. `Earned` says that they, counted as the places of `<<q, "complete">>` in the queue,
and a success not yet reported are no more than `won`; three lemmas say what Append and Tail do
to the number of places. `GoalAwaited`, a goal that exists is the one the stream's thread waits for, is
what keeps a second goal from being sent.

**Bridge server.** `BridgeTypes` holds whatever the operator does. `AnswersThisGoal` proves
`ReadyAnswersComplete` even for goals that run together, from `AnswerInv`: a COMPLETE that is in a
goal's chunk, in the queue or in the stream is the last word of its machine tool (`LastWord`), which
stays complete until it hears the one READY that answers it (`OneAnswer`); so what is complete
after a goal's check was completed for that goal (`CompletesThisGoal`). A machine tool that is disabled
in the middle of an exchange takes its word back while it is on its way, and TLC then finds a READY for
nothing: the theorem assumes `~Disables`. `SuccessIsTrue` proves `SucceededMeansMoved` for a
robot that does one thing at a time (`OneAtATime`). Added are: a device is moved by one response
(`DeviceOwned`); a goal that has had its COMPLETE has said READY last, or the machine tool has heard
everything and nothing moves the device (`HeldIsSettled`); and this lasts until the device gets
another goal (`SuccessIsSettled`).

**Simulated cell.** `CyclesStartShut` and `MovesInExchange` follow from `CellInv`, which says for each
phase of an exchange where the simulation can be: not operational, asked, served, concluded,
between load and unload, over after a failed request, or broken. What makes it inductive is what each
program can still learn. An agent's stream and queue hold nothing but quiet changes, or one ACTIVE
of this exchange (`News`): a machine tool asks once, a client answers once, and both stay silent
until the simulation's sequence is done, so nothing is left over that could begin the next one. What
the topic shows the servers is no better than the devices (`Unseen`), so that a server ends its
wait only after the second device arrived. While changes are not captured nothing is lost that was
news, since there is none.

**Publisher.** `FrameIsKept` rests on `FrameInv`: what is in buffer and socket continues, token for token,
where the reader is in the stream (`Holds`), and what it holds is nothing, the next part
untouched, or that part with its header taken (`Holding`). A chunk that is cut anywhere
is read again when more has come, except a size line, whose halves end the thread; that is one of the
places the property allows. `TopicsGoOn` adds to it that values grow towards the last part
(`ValuesInv`), and that with one round at a time the changes are older than a message only while the
next changes are being noted, and only for items a thread has just converted (`RoundInv`). That rounds
do not overlap is the property's own premise.

**Adapter.** `ClientsAreTold` proves `Faithful` for any number of clients, any events, values and
codes. It is about moments at which nothing happens; `IInv` says what a client knows at every other. A
client that can be reached and is not torn either is still given its first values (`Connected`), or
has them and follows the gather that is under way (`Follows`). Of events, what it knows is right or is
put right by a line that is coming (`EventsDue`); the flag of an event that changes keeps it among those
until the line is written (`EventFlags`). A condition is harder, since `begin` unmarks what will be
added again. Until the gather looks at the condition, the client knows the codes of before it, those
that are held or cleared, or has been told UNAVAILABLE (`Before`). Then each code the client is wrong about
has a line of its own on its way, or one line says it all (`ConditionDue`, `CodesDue`), in any order.
And when the condition's flag is not set, `ConditionFlags` shows that no code is new or cleared, so that
nothing need be sent. The claim fails for torn clients and is not made for them: for the others, `Alone`
says that no gather overlaps their first values, nor another gather. The subscriber's lock
gives that (`Kept`), as does the one thread of example and reporter; the servers' threads have no lock,
and only the clients that were there when two gathers overlapped are excepted.

**Types.** The `TypeOK` of `RobotStateMachine`, `CncContext`, `CncLocks`, `MaterialClient`, `BridgeServer`,
`RobotSim`, `Publisher` and `AdapterPrograms` are theorems; the first is also checked by `robot_safety`. The other modules' `TypeOK` document the variables; no
run lists them.

**Scanner.** `MethodsAgree` proves the laws of `ScannerLaws` for the patterns of the run and every
position in every text of its characters, `ScannerAgrees` from it that `ScannerConsistent` holds for any
`Length`. An attempt finds the first place where the pattern's lengths are not empty (`FirstOne`,
`LastOne`: a set of positions has a least, and a bounded one a greatest), and `FoundLaw` keeps the match in
the text; to find the place and then to match there is the same as both at once (`UntilLaw`). `AtEnds`
reads `bol` and `eol` off the line ends. `TextIsSent` says that the reader's document is empty until a
part has been sent, as the property supposes.

**Only model-checked.** The liveness properties: fairness and ENABLED are beyond the prover. Every safety
invariant and action property of the passing runs is a theorem, under the hypotheses named above.

## 6. Plan

What is built is marked; what is left comes in this order.

1. *(built)* The robot: state machine, modes, safety, induction, proofs.
2. *(built)* The machine tool: interfaces, context, safety, proofs; its mutexes with proofs.
3. *(built)* The bridge's action server against a response, with liveness.
4. *(built)* The bridge's action client against a request, with proofs.
5. *(built)* The simulated cell.
6. *(built)* Data items, the Python adapter and the programs that use it.
7. *(built)* The scanner, the stream's reader, the publisher.
8. *(built)* Proofs for machine tool, bridge server, publisher and its scanner, simulated cell, and the
   adapter's gathers and clients.
9. Composition: machine tool, bridge and robot modes with one load and one unload, the nested
   handshakes as a refinement of an abstract exchange of a part.
10. `SIM/long_pull.rb` and `SIM/streamer.rb`: sequence numbers, `current`, `sample`, reconnection.
11. The first-generation machine: its transition table and task sequences.
12. The task parser's maps as pure operators against a reference definition.

## 7. Not modelled

* The Ruby adapter and data items: the same design as the Python ones, with the same two overlaps
  (`SIM/adapter.rb:58`, :175). The Ruby stream's reconnection: `CncContext` takes any values in any
  order instead.
* `SIM/robot.rb`, which plays a robot for demonstrations, and `mac_robot_sim`, a desktop
  simulator: their user is `CncContext`'s robot.
* The first-generation machine, its task parser and task player, superseded in the launch files.
* Goals that run together on one bridge server: the model has them (`OneAtATime` FALSE), and what READY
  answers is proved for them too; of their success the code ensures nothing that could be asserted.
* Motion planning, pose arithmetic, grasping and the sockets of the grippers (numbers and I/O); Karel
  and teach-pendant programs (the controller's, mostly vendored); schemas, styles, launch files,
  robot descriptions (data); the agent itself (external); logging and formatting; the GUI. The
  prototypes under `bridge/` and `examples/` are superseded, but for the adapter's example.

Undefined behaviour of the C++ node was not found to matter: it is single-threaded apart from its
action clients' status, which is read through locked accessors.
