# Verification of the OpenMDM Remote client

TLA+ models, TLC runs and TLAPS proofs for OpenMDM Remote ("Webkey"), an Android
app that lets a browser see the screen of a device and control it. The models are
translated from `src/app/src/main/java/com/openmdmremote` (Java, about 13 000 lines
of own code) and `src/backend/openmdmrenative` (C++, about 1 900). `PROJECT.json`
maps every definition to the lines it models and lists runs, mutants, findings,
hazards and theorems.

## 1. The system

A device runs two programs. The **app** (Java, Netty) keeps a web socket to the
*harbor* server in the cloud, runs a local web server, and serves the visitors
(browsers) that come in over either. The **backend** (C++, a root daemon) captures
the screen and injects touches and keys. They talk over a TCP socket on port 8888 of
the device (WIPC).

| component | state | operations | hard because | promise |
|---|---|---|---|---|
| Harbor link: `MyWebSocketClientNetty`, `ReconnectManager`, `NetConnectionReceiver`, `HarborClient`, `HarborAuthService` | channel in use, its listeners, scheduled retries, receiver, retry counter, logged-in flag | connect, disconnect, connectionLost, delayed retry, broadcast, onOpen, onClose | main thread and one event loop per channel; listeners of dead channels run late and change the counter of retries without a lock; a close is asynchronous; a refused handshake leaves the channel open | at most one connection; a wanted link is always on its way back; a link at rest stays so |
| Message pump: `MessageDispatcher`, `MessageSender` | queue of 20, one sender thread per channel | addMesageToBackend, take, write, write listener | the sender of a dead channel is never stopped and competes for messages | order; at most one message lost per connection |
| Rate control: `JitterControl` | frequency, samples, window, sequence numbers, block | sendt, receivedAck, reset | wrapping numbers, late acknowledgements, reset without a lock | measurements of the right images only; no blocking for ever, short of a reset in the middle of block() |
| Image senders: `ScreencapHandler.ImageSendWorker`, image queue | queue of 2, threads and their `running` flags | start, stop, leave, poll, send | a stop before the thread has begun | a stopped thread ends |
| Backend sessions: `webkeynative.cc`, `screencap.cc`, `webkey_auth.cc` | client socket, halt, `running`, screen_info, streamer threads | accept, authenticate, receive, stream, halt, SIGINT | streamers are not joined, descriptors are reused, one flag for all streamers | whole frames, current settings, next client served |
| Backend process: `Installer`, `Binary`, `BinaryManager`, `updater.cc`, `webkeynative.cc` | binary, update, version files, recorded version, lock, port | install, copy, run, lock, self-update, restart | three kinds of processes work on the same files; the app may be killed | the backend is neither lost nor restarted for ever |
| WIPC connection: `NativeConnection`, `ReconnectOnCloseListener`, `AuthenticationHandler`, `Halt`, `WIPC` | channel future, disconnectRequested, timers, listeners | connect, disconnect, reconnect by timer or close, authenticate, halt | two monitors; stop() of a timer joins its worker; a field read again in a listener; a listener that notifies itself for ever | an attempt that fails is repeated; a halt is sent however it races the authentication; a stopped timer is silent |
| Visitors: `VisitorManager`, `VisitorNotifier`, `WebkeyVisitor`, `VisitorHandler`, `VisitorStore`, `LocalWsConnection`, auth handlers | visitor set, ids, handlers, notification | new, login, left, tear down | visitors come and go on several threads; the map is iterated while it changes | whoever is connected can be found and closed, and the owner of the device is shown that somebody is there |
| Keyboard: `KeyHandler`, `KeyServiceWrapper`, `KeyinjectService`, `KeyInject`, `keyinject.cc` | kept keys, static listener, reference to the input method, the method to restore | onData, enabled, disabled, ENABLE, DISABLE | the input method starts asynchronously, messages to the backend are late or lost | no pile of keys is left behind; the user gets the keyboard back |
| Service: `BackgroundService` | started services, WIPC halt | start, close connections, destroy; stop and log out have no live caller | halts WIPC, then waits a fixed time | (partly) |

*Interaction.* `BackgroundService` installs and runs the backend, starts the local server and connects the
harbor link; `closeConns()` and `onDestroy()` disconnect it, on the main thread. Its `stopWebServices()`, which would
also halt the backend, is reached only from `leftActivity()`, `logOut()` and `FragmentMain.stopService()`, and at this
commit none of them is called (the calls are commented out, and the settings page with the log-out is not shown). A visitor that
comes creates its handlers, and once more when it logs in; its image handler connects
WIPC and the last visitor to leave disconnects it. Handlers send to the backend through the message pump, which survives
reconnections. The images of the backend enter the image queue, from which the sender
threads take them; each image sent and acknowledged passes through `JitterControl`,
which in turn sends a new frequency through the pump to the backend's `set_frequency`.
When WIPC cannot be reached, `BinaryManager` runs the backend again.

The remaining parts (input handlers, frame decoder, accounts, web server, logging,
user interface, generated code) are listed in `PROJECT.json` with the reason they are
left out: they are stateless, single accesses or calls, or generated. More than nine tenths of the lines of
the repository are not its own: `protobuf_static` (protobuf and gtest) and the other libraries
under `src/backend`, and generated protocol code. They are not modelled, so that the share of all
lines the map covers stays small whatever is done for the code described here.

## 2. Modules

| module | models |
|---|---|
| `HarborLink` | the link to the harbor server |
| `MessagePump`, `LossyFifo` | the pump, and what it promises |
| `JitterControl` | rate control of the image stream |
| `ImageStream` | the sender threads of the images |
| `NativeSession` | the sessions of one backend process |
| `BackendProcess` | how backend processes come, update themselves and go |
| `WipcLink` | the app's end of the connection to the backend |
| `Visitors` | who is connected to the device |
| `Keyboard` | how they type; composes `Visitors` with their key handlers |
| `*MC` | the instances TLC checks |
| `*Proofs` | theorems about the component of that name; those about `Visitors` are in `KeyboardProofs` |

Each action is a step that the code carries out without another thread coming in
between; a handler that another thread can interrupt is cut into several actions, with
a program counter (`main`, `loop`, `pc`, `sender`, `resetPC`). Identities of channels,
threads and processes are recycled as soon as nothing refers to them, so that the runs
follow behaviours of any length in a finite state space. Faulty variants of
definitions (`X_Something`) stand in front of the definition they vary; they are used
only to show that a property would notice the fault.

### HarborLink
`st`, `fut` and `closing` are the states of Netty's channels and futures; `tasks[c]` is
the queue of the event loop of channel `c`, into which completed futures put the calls
of their listeners (`lostListeners`, `opListeners`, `closeListeners`). The main thread runs
`HarborConnect`, `HarborDisconnect`, `RunScheduled` (the delayed Runnable) and the
broadcast receiver, cut at `check`, `enable`, `register`, `listen` and their
counterparts of disconnect. `asked` is a history variable: what the application wanted
last, and whether its connect() overlapped the close of an earlier disconnect().

`scheduleReconnection()` runs on the event loop of the channel that was lost, and two of them may run
at once. Its check of `reconnectTimes`, the read and the write of the decrement (`CheckTimes`, `ReadTimes`,
`WriteTimes`, with the value read in `left`), the switch to the long sleep (`Lengthen`) and the second look
(`Recheck`) are therefore actions. Two loops that have both seen one retry left take the counter to -1; a loop
that has read it before `connectionEstablished()` resets it writes the old count back, and the reset is lost, or leaves the
long sleep with retries to spare. A connected channel that has not completed the web socket handshake is
`active`; when the handshake throws, `exceptionCaught` only logs and the channel is `refused`: open for connect(),
of no use, until the peer closes it. The network is not a variable: a broadcast may come at any time, a
connect may fail at any time.

### MessagePump and LossyFifo
Message *n* is the *n*-th one handed to `sendMsg`. `hand[c]` is the message the sender
of channel `c` has taken. A sender left behind by a dead channel is still in `take`.
`LossyFifo` says what a caller may rely on: order, a bounded length, and at most one
lost message per ended connection. The refinement mapping counts a message in the hand
of the live sender as pending and one in the hand of a dead sender as lost.

### JitterControl
The arithmetic of the corrections is translated as it stands, with Java's integer
division. `wire` are the images on their way; the ghost bit `old` marks those sent before the
frequency last changed. `reset()` takes no lock: each of its writes is an action (`resetPC`), and
`receivedAck()` is cut (`ack`) wherever one of them makes a difference: the two looks of `add()` at the queue
(`AckAdd`, `AckRemove`), the size and the copy in `getMedian()` (`AckMedian`), the decision
(`AckDecide`), the two writes of `block()` (`AckMark`, `AckShut`), the limits and the rest. A queue that is found empty
after it was found full makes `remove()` or `get(-1)` throw: the acknowledgement ends there, `sent` is one too high until the
next one, and the caller goes on. `reset()` between the two writes of `block()` leaves the queue blocked with the number -1
(`Jammed`). `backendFreq` and `diff` are what the backend was told last. `numbering` is a history
variable: `overlap` if an image was on its way or an acknowledgement under way during the last `reset()`, `crowded`
if more images were on their way than the numbers can tell apart.

### ImageStream
`Construct`, `Start`, `Stop` and `OnLeftUser` are the handler's operations; a worker is
`Run`, `Loop`, `PollImage`/`PollTimeout`, `HandleImage`. The images are counted, not told apart.

### NativeSession
The main thread's loop `accept_client`, with the receiver it joins; a streamer is
`screencap_binder`, one action per access to shared state: read of the descriptor out of
main's variable, `running = true`, the test of it, the section under the lock, the
screenshot, and each of the writes of a frame. A descriptor is a number that the next
accept may return again. An uninitialised local variable has the value `Garbage`. The
receiver ends at the end of the stream, at a message it cannot parse while the peer stays connected, or at a
command. The peer's view (`rx`, `torn`) follows which part of which streamer's frame comes next.
`clean` says that no streamer was alive at any accept so far: it separates what the code
guarantees from what depends on streamers ending in time (see the findings).

### BackendProcess
`update`, `txt`, `saved`: the unpacked binary, its version file and the recorded version;
`bin`: the file that is run, and `writers`, who has it open (ETXTBSY keeps it from being
executed). The installer may be killed between any two steps. The version file is written through a `PrintWriter`, which
swallows write errors: the text may get lost (`unwritten`) and the installation goes on. A shell is `cp` followed
by the start; a process locks, compares versions, updates (unlink, create, copy),
listens, gives the lock up and restarts. `stopped` and `faulted` are histories.

### WipcLink
A synchronized method is cut where another thread can come in: `pc` of a thread says where it is in
`connect()`, `disconnect()`, `backendHalt()` or `doConnect()`, `conMonitor` and `rocMonitor` who holds
the two monitors (held for one step only, a monitor is not recorded). `roc`, `onClose` and `haltOn`
are the three listeners of a channel: not added, added, added after the future had completed
("late"), run. Each `HashedWheelTimer` has a number, its waiting timeouts and a worker thread.
Channels are dealt out to `NLoops` event loops; a loop is busy while it runs a listener that waits for a
monitor, and for ever once a connected channel has closed (`Spinning`, see section 5).

### Visitors and Keyboard
Each thread has a place (`at`) and a visitor (`cur`). `Loop` handles the messages of the harbor channel;
`Sweeper` is the close listener of the channel before, which may begin or still run `tearDown()` when the new
channel delivers messages (`overlap` remembers that this has happened); since its handler is registered for two types of message,
it calls `tearDown()` twice, which is `TearDown` taken again; every local connection has its
own thread. `Keyboard` conjoins to the steps of `Visitors` what happens to the key handlers: handler
2v - 1 comes with visitor v and 2v with its login, both get every key. `service` are the handlers that
hold a reference to the input method, `listener` the one that will be told of it next. Each open of the harbor builds a
visitor that nobody can reach, whose handler becomes the listener (`HarborOpen`): it gets no keys, and the
listener counts as nobody. `wire` is the queue
to the backend with the losses of `MessagePump`; `ime` and `restoreIme` are Android's setting and the
backend's command. `lost` and `again` are histories.

## 3. Runs

| run | instance | shows |
|---|---|---|
| `link` | 2 channels, 1 short retry, counter down to -1 | `SingleConnection`, `NeverStranded`, `ReceiverArmed`, `LoggedInIsLive`, `RestIsStable`, `Reconnects` |
| `pump` | 3 connections, queue of 2, 6 messages | `BoundedLoss`, `InOrder`, refinement of `LossyFifo` (`FifoSpec`), `Drains` |
| `jitter` | intervals 0, 100, 2000; frequencies 450 to 550; 4 sequence numbers; 2 samples; 3 images on their way, 4 counted | `OnlyFreshSamples`, `Unblocks` |
| `stream` | 2 handlers, 3 workers, queue of 2 | `AtMostOneAfterStop`, `StoppedWorkerEnds` |
| `session` | 2 streamers, 2 descriptors, frames of 3 parts, device 2 x 3 | `CleanFraming`, `CleanSettings`, `CleanStream`, `FitsDevice`, `ServesAgain` |
| `process` | 2 processes, 2 shells, 1 retry | `SavedIsInstalled`, `NeverLost`, `HolderListens`, `Serves` |
| `wipc` | 1 caller and the service thread, 3 attempts, 2 calls, 2 event loops | `ChainKept`, `HaltNotMissed`, `RevivedBy`, `DisconnectReturns`, `Retries` |
| `visitors` | 1 id, 1 local connection, 2 visitors, 3 logins or keys given to a handler, 2 keys kept, queue of 2 | `StoreAgrees`, `ForegroundAgrees`, `AtMostOneLeftBehind`, `KeyboardReturns` |
| `link_start`, `jitter_window`, `stream_leave`, `session_first` | | one disagreement of the code with its comment each, section 5 |

All passing runs also check `TypeOK`. Every property has a mutant: a plausible fault in
one definition under which TLC finds the property violated.

*Why the bounds are enough.* `link`: the code refers to at most two channels, the one in
use and one whose listeners have not run; one short retry gives both the short and the
long sleep, and two event loops can take it below zero by one (`Overshoot` bounds how far the counter is followed:
below zero its value makes no difference). `pump`: three connections give two senders left behind at once; six messages
fill the queue, overflow it and pass through. `jitter`: a fast and a slow interval drive
the frequency to both ends of its range; four numbers make the sequence wrap, and three images on their way are one more than these numbers
can tell apart, so that `clear` and `crowded` both happen; two samples are the least that give a queue that is
neither empty nor full. `stream`: two handlers and a third worker give a restart beside another
handler's thread. `session`: two streamers are an old and a new one; two descriptor numbers
give both a reused and a fresh one; three parts give a first, an inner and a last part;
the two resolutions are one that must be turned and one too wide. The only frequency asked
for is the initial one, so that the run distinguishes set from unset frequencies only;
`SettingsCurrent` is proved for all. `process`: two processes are an old one and its
successor; two shells copy at the same time. `wipc`: three attempts are one that is superseded, the
current one and one that a halt or a late listener makes; two calls are every pair of connect, disconnect
and teardown; two loops give channels that share a loop and channels that do not. (An instance with two
attempts and three calls has been checked as well.) A worker that would need a fourth attempt is
`Exhausted`, and the liveness properties exempt it. `visitors`: two visitors are one that leaves and one
that stays, joins or is overwritten; three keys fill the two places of a handler and overflow them, or there are
a login and a key that reaches two handlers; a visitor logs in once; one message is lost by a dead sender, any
number by the full queue.

*Deadlock* is checked except in `pump` (the number of messages is bounded) and `session`
(the process exits) and `wipc` (calls are bounded, and the threads may really block each other: see
`JoinCycle`).

*Fairness.* `HarborLink`: threads run, timers expire and attempts end (WF); of attempts made
again and again one succeeds (SF): the server is outside, and without this nothing can be promised. Nothing is assumed
about the handshake, or about broadcasts. `Reconnects` assumes that from some time on the link stays wanted and the peer closes no
connection; it promises that the link is up for good or else that the channel in use is one whose handshake was
not completed, which the code never gives up (`HandshakeMissing`).
`MessagePump`: sender threads and event loops run. `JitterControl`: images keep coming
and are acknowledged, steps that were begun go on; the marked image is not always acknowledged with the timestamp 0, which the code ignores
(SF). `Unblocks` is about streams that are not restarted for ever, and excepts `Jammed`. `ImageStream`: threads run; `poll` has a timeout, so that a worker always has a step.
`NativeSession`: the main thread runs and a read returns when the peer has gone; a read that fails for another
reason is possible and never assumed; nothing
is assumed about streamers. `WipcLink`: threads that are not blocked run, timeouts fall due, attempts
end, listeners are called and a queued close is carried out; nobody has to call anything and the backend
owes neither an answer nor a close. With calls and attempts bounded every behaviour has finitely many
steps, so that one WF on the disjunction of these steps says the same as one on each of them.
`Keyboard` states no fairness: its properties are invariants. `BackendProcess`: the app's main thread, shells and processes are
scheduled; nothing is assumed about halts, accept errors or the app being killed.

## 4. Proofs

TLAPS proves the following for all values of the constants under the `ASSUME`s of the modules,
which say no more than that identities differ and that lengths are natural numbers
(not zero where the code has a positive constant). No theorem has a hypothesis besides. The inductive invariants are made of the definitions that end in `Inv`; TLC has checked each of these on
the instance of the component's run.

*HarborLinkProofs.* `TypeCorrect`, `OneConnection`, `ChainUnbroken`, `StaysArmed`, `LoginEnds`,
`RestKept`. `TypeCorrect` says of the counter of retries what is left of its range when event loops check and write
it at once: it never exceeds `RETRIES`, and neither does a value a loop has read; no lower limit holds. The inductive invariant is `TypeOK` with `ChannelInv`: that at most one channel is
open does not follow from itself, since `connect()` looks only at the channel in use; one
needs that no other one is open, that a close is outstanding for none but it, and that its
loss will be noticed. `ChainUnbroken` and `StaysArmed` are inductive together with it. The
lemmas about event loop queues (`AppendTask`, `CloseTasks`, ...) say which listener calls a
step adds or removes.

*MessagePumpProofs.* `PumpTypeCorrect`, `LossBounded`, `OrderKept`, `AllAccounted`, from `PumpInv`:
every lost message belongs to a sender that has stopped, on a closed channel (`LossInv`); a sender
that has handed its message to the event loop is on the live channel (`SenderInv`); the message in
the hand of the live sender lies between those written and those queued (`OrderInv`).
`PumpIsLossyFifo` is the refinement, one case per action of the pump (`FifoStep`): a message is lost for
`LossyFifo` when its sender dies with it in the hand, or when a dead sender takes it from the queue, and not only when the
write fails later. `RoomForLoss` shows that the abstract queue may lose it then: the closed channels are more than the messages
lost so far and those in dead hands, since every dead sender takes one message at most.

*NativeSessionProofs.* `SessionTypeCorrect`, `FramesWhole`, `SettingsCurrent`, `ClientStreamed`,
`NeverTooWide`, `HaltedStaysShut`. The inductive invariant of a clean run has `SessionInv` (the connection
is open from accept to close; only a streamer within a frame has parts behind it) and
`CleanInv`: at most one streamer is alive, none before the session starts its own, it writes to the
connection of the session, and the peer expects just its next part. With at most one streamer
alive the shared flags cannot be taken or lowered by another one. `HaltedStaysShut` rests on
`HaltInv`: in the accept loop after a halt the listening socket is closed.

*BackendProcessProofs.* `ProcessTypeCorrect`, `RecordedIsInstalled`, from `InstallInv` (while an installation
is under way nothing is recorded; between the open of the version file and the record the file is empty, or has its text,
or has lost it), and `ListenerHoldsLock`, from `LockInv` (from the lock
to teardown a process holds it). `BackendNeverLost` needs to know when the file at `bin` cannot be executed, for a process or
shell that starts then is gone. While somebody is at work on the file, that one will finish it and start it (`FileInv`: nobody
writes it who is not in `cp` or `copy`, and nobody executes it then). There is one other way: the process the
old version has left copies an update that the installer has half unpacked. `EarlyInv` says that until the version is recorded this process is alone
and no shell is at work, `BrokenInv` that it is then on its way out and that the shell the app starts afterwards has
still to copy. `HeldInv` rules out a lock that nobody under way holds.

*JitterControlProofs.* `JitterTypeCorrect`: the corrections stay within the limits for all measurements; that the
median is one of the samples needs a lemma on `Ranked`, whose witness is the least sample with enough samples up to it.
`FreshSamples` rests on `FreshInv`: while the numbering is clear, the images on their way are numbered one after the other up to the next number, those
sent before the last change of the frequency come first, and as long as there are any the queue is blocked, or a step before it, and waits for a
number ahead of theirs. A stream that becomes crowded is clear again once no image is on its way. The code does not keep the
stream from getting crowded (see `jitter_window`), with its 256 numbers it takes 255 images on their way; the property and the theorem say
what holds as long as it is not, and nothing about the bound of the model.

*ImageStreamProofs.* `StreamTypeCorrect`, and `OneImageAfterStop` from `StopInv`: a worker stopped in `run()` keeps its flag cleared,
and once it has sent its image it is back at the loop or done, where it finds the flag.

*KeyboardProofs.* `VisitorsAgree` and `NotificationAgrees` are about the people: `ThreadInv` says what each thread may be doing and
with whom, `OwnInv` that a visitor belongs to the harbor or to one local connection, so that no other thread closes it,
and `HarborInv` that without overlap the event loop and the close listener are never busy at once and every visitor has one
entry in the map from the end of its joining to the beginning of its leaving. `KeyboardTypeCorrect` adds the handlers (`TodoInv`:
a key still goes to handlers of its own visitor). `OneKeyLeftBehind` follows from `KeptInv`: a visitor's keys are handled by one
thread, so that only the key under way when the input method arrived can be kept after it. `KeyboardGivenBack` follows
from `MessagesInv` (which input method can come from where) and `PresentInv`: while the last message, or the setting if there is no
message, makes the keyboard ours, somebody is connected.

*WipcLinkProofs.* `WipcTypeCorrect`, together with `ThreadInv`: all of doConnect() and disconnect() runs under the
monitor of the connection, so that no two threads are between an attempt and its requestReconnect(), and there
is never a timer without an attempt. `StoppedIsSilent` proves `TimerInv` (a stopped timer has no timeout and its worker
no task), from which `RevivedByOthers` follows: only requestReconnect() ends a disconnection, it waits for the listener's monitor,
and at that time the current timer is stopped. `HaltSent` needs only the types. `WipcChainUnbroken` rests on `ListenerInv`
(which listeners the current channel has, and that they have run only if the channel is done) and `ChainInv`, which
is about the current channel alone: a witness on an older channel would not be inductive, since that
channel may close without a successor. A thread in doConnect() counts there only until it has added the reconnect
listener, since the attempt may fail, be scheduled and be tried again before the thread adds the close listener.

*Checked by TLC only:* liveness (`Reconnects`, `Drains`, `Unblocks`, `StoppedWorkerEnds`, `ServesAgain`,
`Serves`, `DisconnectReturns`, `Retries`), since the prover does not handle fairness and ENABLED. All invariants,
action properties and the refinement that the passing runs check are proved.

## 5. Findings

* `link_start`: connect() right after disconnect() finds the old channel open, since the close is
  only queued, and returns; nothing reconnects when the close is carried out.
  `NeverStranded` and `Reconnects` therefore speak of requests that do not overlap a close.
* `jitter_window`: `Math.min(0, sent)` where `Math.max` is meant: the window of unacknowledged images
  is not kept.
* `stream_leave`: a visitor that leaves before its sender thread has reached `run()` leaves the thread
  running.
* `session_first`: the streamer of an ended session consumes the flags raised for the next one, whose
  first screenshot is taken with uninitialised sizes.

Further observations from the models. No comment, assertion or test of the repository contradicts them, so
they are not listed as findings:

* `ReconnectOnCloseListener.operationComplete` adds itself to the close future after a success. When the
  channel closes it is called with a successful future, adds itself again, and is called again at once: the event loop
  never does anything else (`Spinning`).
* A channel that closes before its authentication is not followed by another attempt, and connect() is refused as
  long as reconnection is active (last disjuncts of `ChainKept`).
* disconnect() and the halt of an authenticated channel are undone by the anonymous close listener, which
  reconnects without looking at disconnectRequested; timers of superseded attempts are never stopped, and each
  keeps its worker thread (`RevivedBy` lists who can revive the connection).
* `stop()` of the timer joins the worker with both monitors held, and the worker may wait for one of them
  (`JoinCycle`).
* `VisitorStore.put` tells nobody what it overwrites: the old visitor stays in the set for good, the last one to
  leave is never the last, and the keyboard is not given back (`replaced` in `StoreAgrees`).
* A message that is handled while `tearDown()` runs makes the iterator throw, or leaves a visitor in the set.
* The listener of the input method is static: each new handler replaces the one before, which is not told that
  the input method has started and asks for it again with every key. The visitor built at every open of the harbor
  takes the place as well, although nobody can ever send a key through it (`HarborOpen`).
* Two event loops that call `scheduleReconnection()` at once check, decrement and write the counter of retries without
  a lock: it may go below zero, or undo the reset of `connectionEstablished()`. Only the choice of the delay suffers.
* A web socket handshake that throws is logged by `exceptionCaught`, whose `ctx.close()` is commented out. The channel stays open,
  connect() finds a connection that is already open, and nothing follows until the peer closes it (`HandshakeMissing`).
* `JitterControl.reset()` between the two writes of `block()` leaves the queue blocked with no number that
  could open it (`Jammed`). Between a look at the queue's size and the access that follows it lets `remove()` or `get(-1)` throw.
* When the text of the version file is lost (a full disk: `PrintWriter` does not throw), the version is recorded all the
  same. The backend reads an empty file as version 1, finds this different from its own at start and at each
  accept, and replaces and restarts itself each time; the app sees a recorded version and never repairs the file
  (`unwritten`; `SavedIsInstalled` says that there is no other way to a recorded version without its text, and `Serves` excepts faults).
* `KeyHandler.java:33` says of enable and disable "this function should call only once in one time", but inProgress is
  never read: enable() is called for every key until the input method has started. Once our input method is set
  the method to be restored is our own, and DISABLE leaves the user with a keyboard of Android's choice
  (`again` in `KeyboardReturns`).
* `leftVisitor` queues DISABLE and closes the connection to the backend right after it: the message is lost, or waits
  for the next connection.

## 6. What is abstracted

* In `Visitors`, what the user interface is told (`lastVisitor`, the name in the notification) and the
  connect and disconnect of WIPC are left out; the latter are calls of `WipcLink`. `AdminAuthHandler` registers
  a listener for an answer that never comes, because the line of `RemoteAuthService` that would write the request is
  commented out: an ADMINAUTH changes nothing.
* In `Keyboard` a key is counted, not told apart. Android is external: disabling the input method that is
  set makes it choose another ("fallback"), and a disabled one cannot be set.
* Strings, addresses, credentials and image contents. Both ends carry the same constant key, so that
  `read_and_check_auth` fails only when the read fails or the first message is not the key.
* Touch, key and button messages change nothing in `NativeSession`; whether a picture differs from the
  last one is a free choice. A write of a part is atomic: `write_n_bytes` is on a blocking local
  socket (see the hazard about partial writes).
* `version.h` is generated by the build from `version_code.txt`; a binary and its version file are taken
  to agree.
* Sequential consistency of Java fields that are not volatile is assumed.
* In `MessagePump` a message is written once it is flushed to the local socket; whether the backend reads it before the
  connection ends is not part of the promise. `FitsDevice` is about the width, the only side that
  `set_resolution` compares with the device.
* In `JitterControl` one `reset()` runs at a time, and a method of `LinkedList` or a statement of the frequency's
  arithmetic is one step.

## 7. Not modelled, and what could follow

*Not modelled.* The input handlers, the frame decoder and the capture functions translate one message or make one call
and keep no state. Touch injection writes to the uinput device. Accounts and settings are single reads and writes of
SharedPreferences and SQLite, each synchronised by Android, and no step relies on an earlier one; several threads make them: the event loop of the
web socket (credentials, nickname), the callbacks of the HTTP calls and the user interface. The web servers are vendored.
Logging and the user interface have no effect on the rest.
`BackgroundService.stopWebServices` would call, in a thread of its own and without a lock against connect(), operations that are modelled
in `WipcLink` (`backendHalt()`) and `HarborLink` (disconnect()). Since it has no live caller at this commit, the models do not compose them
in such a thread: `HarborDisconnect` runs where its live callers, `closeConns()` and `onDestroy()`, run it, on the main thread, and
`WipcLink` models the teardown as one of the operations `WIPC` offers. `waitForWipcHalt` sleeps two or three times and
goes on in any case, so that there is nothing to promise about it.

*What could follow.* `WipcLink` and `MessagePump` could be composed to bound what a DISABLE that is queued
before disconnect() can become.
