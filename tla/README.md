# A formal model of xmppconn

xmppconn bridges two AllJoyn buses over XMPP. One process (a *connector*) runs
beside each bus; each stands in for the applications of the other side with
`RemoteBusAttachment`s and `RemoteBusObject`s, and relays calls, property
accesses, sessions, advertisements and signals as text messages. This directory
holds TLA+ modules translated from the C++ source, TLC runs of them on small
instances, and theorems about them checked by TLAPS.

Paths below are relative to the source directory (`src/app`, `src/common`,
`src/transport`). `PROJECT.json` names, for every definition, the lines it
translates; for every hazard, the line where it bites and the properties aimed at
it; and for every finding, the run that shows it.

## 1. The system

Two kinds of thread matter. The **main thread** runs
`XMPPConnector::Start` -> `Transport::Run` -> `xmpp_run_once`; libstrophe calls all
XMPP handlers from there, so every `Receive...` function, every presence and
connection event is handled on this thread, one at a time, blocking. **AllJoyn
threads** call the bus callbacks (method and property handlers, session port,
session and bus listeners, the configuration service); they send XMPP messages
directly. AllJoyn makes the callbacks of one attachment one at a time unless a
callback calls `EnableConcurrentCallbacks`, which `AcceptSessionJoiner` does.

| Component | State | Operations | Talks to | What is hard | What makes it correct |
|---|---|---|---|---|---|
| **Relayed calls**: `RemoteBusObject`, `Reply`, `ScopedTransactionLocker`, `Send/Receive{MethodCall,Get,Set,GetAll}...` of `XMPPConnector` | two mutexes, a condition variable and a one-place reply cell per object | method call, Get, Set, GetAllProps; SetReply; the executing side | AllJoyn threads wait, the XMPP thread stores; the other connector executes | replies carry no request id; timeouts; spurious wakeups; NoReply methods | each call is answered with its own reply or a failure; every call returns |
| **Server connection**: `Transport`, `XmppTransport` connection handler | connection state and error under a non-recursive mutex, keepalive counter | Run, RunOnce, Stop, the connection handler | libstrophe; the gateway through GlobalConnectionStateChanged; main and the configuration service call Stop | Stop races with events; a signal handler that takes a mutex | Stop ends Run; Run ends only dead, reported, and with the right error |
| **Sessions**: `RemoteBusListener`, `SessionTracker`, session map of `RemoteBusAttachment`, `Receive{JoinRequest,JoinResponse,SessionJoined,SessionLost}` | per attachment: an answer flag and id, pending joiners, active sessions; per connector: a tracker of answered joins | AcceptSessionJoiner, SessionJoined, SessionLost and the four messages | both AllJoyn daemons, both connectors | concurrent joiners, repeated requests, timeouts, ends of sessions that are lost or too early | a session is paired with its own counterpart, both ends together |
| **Remote attachments**: `m_remoteAttachments`, `m_buses`, `m_listeners` of `XMPPConnector` | maps under one mutex, some reads without it | get or create, delete, NameOwnerChanged, presence offline | all Receive functions | deletion while callbacks run, the lock given up in the middle, iterators, a wait for threads that wait for the waiter | no use after deletion, nothing leaks, one attachment per remote application |
| **Advertisements and announcements**: `AllJoynListener`, `Send/Receive{Advertisement,Announce,...}` | names owned by attachments | FoundAdvertisedName, LostAdvertisedName, Announced, and their messages | asynchronous introspection | a loss overtakes its advertisement; echoes of own names | a name exists remotely if and only if it does locally, in the end |
| **Signals**: `SendSignal`, `RelaySignal` | session map | bus signal, message | sessions | a session that ended meanwhile | a signal goes to the counterpart's session |
| **Presence and roster**: `XmppTransport` handlers | roster entry | presence and roster stanzas | remote attachments | offline while busy | offline removes exactly what belonged to that source |
| **Main loop**: `main.cpp` | connector, bus, inotify descriptor, flags | (re)create, wait for a configuration, restart, SIGINT | all | restart callback against deletion; descriptors | it always comes back to a running or waiting connector |
| **Configuration**: `ConfigParser`, `ConfigDataStore`, `ConfigServiceListenerImpl`, `SrpKeyXListener` | the file | get and set fields, factory reset, passphrase | main loop | rewriting in place, two writers, a crash in between | no update lost, never an unreadable file |
| **Introspection**: `xmppconnutil.cpp`, bus object tree | tree of outstanding requests | the asynchronous walk | advertisements | a request that fails to start | the handler is called exactly once |
| **Codecs**: `xmppconnutil.cpp`, `Escape`, `Compress`, argument text | none | pure functions | all messages | order of unescaping, empty arrays | decoding inverts encoding |
| **Stubs**: `CommonBusListener`, `SimpleBusObject`, `AboutObjApi`; gateway manifest | little or none | | | | |

## 2. Modules

| Module | Role |
|---|---|
| `RequestReply` | abstract: a request is answered once, by its own result or by a failure |
| `ReplyTransaction` | the transaction of one `RemoteBusObject`, and the refinement mapping to `RequestReply` |
| `ReplyTransactionMC` | its instance for TLC |
| `ReplyTransaction_proofs` | theorems |
| `TransportLifecycle`, `TransportLifecycleMC` | the connection to the XMPP server, Run and Stop |
| `TransportLifecycle_proofs` | theorems |
| `SessionJoin`, `SessionJoinMC` | sessions across two connectors |
| `SessionJoin_proofs` | theorems |
| `RemoteAttachments`, `RemoteAttachmentsMC` | the registry of one connector, its deletions and the threads inside |
| `RemoteAttachments_proofs` | theorems |
| `AdvertRelay`, `AdvertRelayMC` | how the applications of one bus appear on the other: two connectors |
| `AdvertRelay_proofs` | theorems |
| `ObjectWalk` | abstract: the receiver of a walk is called once, with every reachable object once |
| `BusObjectTree`, `BusObjectTreeMC` | the asynchronous walk over an application's objects, which implements it |
| `BusObjectTree_proofs` | theorems |
| `ConfigStore` | abstract: fields set one at a time, no setting undone by another field's |
| `ConnectorMain`, `ConnectorMainMC` | main loop, configuration service and file, which implement it |
| `ConnectorMain_proofs` | theorems |
| `Codec` | the texts of messages, as operators |
| `SignalRelay` | signals between two connectors, in sessions and without; texts are parameters |
| `SignalRelayMC` | its instance for TLC, with the texts of `Codec` |
| `SignalRelay_proofs` | theorems |

Modules of the code also hold mutants, each just before the definition it replaces and
marked as such: small plausible bugs that show what a property is worth. Each module has
one type invariant, `TypeOK`. TLC checks those of `ReplyTransaction` and
`TransportLifecycle`; these and the ones of `SessionJoin`, `RemoteAttachments`,
`AdvertRelay` and `ConnectorMain` are proved, and the others document the variables.

The modules share a boundary: `SessionJoin`, `AdvertRelay` and `SignalRelay` each span both
connectors and take from each other only a coarse event (a stand-in that is deleted, a
session that ends); `RemoteAttachments` is the inside of one connector that those events
come from; `TransportLifecycle` is what is inside the one wait `Start` of `ConnectorMain`;
`BusObjectTree` is what is inside the one step from `tree` to a message in `AdvertRelay`.

### 2.1 ReplyTransaction

`pc[c]` is where an AllJoyn thread is in `AllJoynMethodHandler`, `Get`, `Set` or
`GetAllProps`; `transactionMutex`, `replyReceivedMutex`, `replyReceived` and `replyStr`
are the members of `Reply`. The constructor of `ScopedTransactionLocker` is
`LockTransaction` then `LockReply`; its `ReceiveReply` is `TestReply` (the loop's test,
and the wait, which gives up the reply lock), `WakeSpuriously` and `TimeOut`
(`pthread_cond_timedwait` may return for either reason), `Reacquire` and `TakeReply`;
its destructor is `Unlock`. `SetReply` is what the XMPP thread does with any reply for
this object, and it blocks on the same lock. `RemoteHandles` is the other connector: in
order, one reply per request, *also for a NoReply method*. What a reply's text can be is
reduced to what the handlers tell apart: XML, the number 0, another number, no text. The
`id` of requests and replies is a ghost. Two FIFO channels stand for XMPP.

AllJoyn would call the handlers of one object one at a time unless callbacks run
concurrently; the model lets any number of threads in, which includes that.

### 2.2 TransportLifecycle

The main thread goes through `RunOnce`, `Poll` (keepalive and the check for
`disconnected`), one event of libstrophe (`Pump...`, external), the handler for it,
`ReadError` and `ReadState` (the loop's condition). Each access to the state takes
`m_mtx` in a step of its own (`RunLock`), because that is where the signal handler may
interrupt the thread. A `Stop` is `CallStop`, `SetDisconnecting`, `StopImpl`. libstrophe
is five states and a flag: `xmpp_disconnect` does nothing unless it is connecting or
connected.

### 2.3 SessionJoin

The *near* connector hosts an attachment for each joinee; the *far* connector one for
each joiner. `AcceptSessionJoiner` (reset the flag and id, send the request),
`Wake`/`TimeOut`/`Decide` (the wait), `ListenerSessionJoined` and `NearSessionLost` are
the listener's callbacks; `ReceiveJoinRequest` is split where it calls the daemon, as
callbacks may come in between, and each branch of its recovery is an operator:
`AnswerJoined`, `AnswerAsIs`, `AnswerRepeated`, `AnswerDisagreement`, `AnswerActive`,
`AnswerRejoin`, `AnswerUnknown`. The two maps of `SessionTracker` are keyed by the joiner
alone, as in the code; an absent entry is 0. The daemons are the sets of sessions made,
up, and whose loss is still to be called back. The mutex of the listener covers each of
its steps as a whole, so it is not a variable. A daemon answers `JoinSession` for a
session that exists with or without its id; the code handles both.

### 2.4 RemoteAttachments

`registry` is `m_remoteAttachments` of the source (the roster holds one entry, so there is
one source); `remoteName[k] # None` means that the object exists; `bus` is the watching
`BusAttachment` with its listener. The main thread is one record, `main`: where it is, and
with which attachment. A message handler is one step up to the point where something else
may come in, then `RequestName`, `WriteName` (without the mutex, as in the code),
`AdvertiseName`. `DeleteRemoteAttachment` is `Disconnect`, `Join` (which waits for the
threads in relayed calls), `Remove` (under the mutex) and `Delete`; `byRef` remembers that
`ReceiveNameOwnerChanged` passes a reference to the list's own element, which is gone by
`Delete`. Going offline holds the mutex from `GoOffline` to `ClearRegistry` and deletes each
stand-in without any of those steps: `FreeOne` is `~RemoteBusAttachment`, which frees the
objects and the listener whoever is inside, `StopOne` and `JoinOne` the destructor of the
base class after it (external), which disconnects and then waits. Calls inside freed objects
are undefined, so the model promises nothing for them: they may never end. Then
`DeleteBusAttachment` is `StopBus`, `JoinBus`, `DeleteBus`, with the mutex given up for the
wait. Callbacks of the watching attachment are `FoundAdvertisedName`, `LockRegistry`,
`OwnsWellKnownName` and `Introspect`; a name that is being written meanwhile may compare
equal or not, so its answer is a choice.

### 2.5 AdvertRelay

An application's `version` counts its starts and stops; odd while it runs, when it also
stands for its unique name. Every start or stop makes the daemon owe callbacks (`due`) in
either order. `uniqueName` is `m_wellKnownNameMap`, `walks` the introspections under way:
of the root object (`IntrospectCallback` looks at the status), then of the tree, whose
callback sends the message whatever became of the application. An introspection that is not
begun (bus or connection not ready, the session not joined, the call refused) or is answered
with an error ends there; nothing is tried again. `WithStandIn` is `GetRemoteAttachment` with
the name request that follows it, `NoStandIn` that it fails and leaves none, `StandInGivenUp`
that a name the stand-in has already cannot be advertised again, so that what the
announcement made is deleted too. The history `failed` keeps which of an application's two
ways to a stand-in (`Ways`) came to nothing since it started or the watch began. `FarGoes`/`FarReturns` crash
and restart the far connector: it comes back empty, what was on its way is lost, and the
near one learns of it by presence and builds its watch anew, but keeps `m_wellKnownNameMap`.
The messages to the near connector and the names it owns itself are `RemoteAttachments`'.

### 2.6 BusObjectTree

The tree and what each object will answer are chosen in `Init`; the walk is
`GetBusObjectsAsync`, one `IntrospectCallback` per object, `AddChild` per round of its
loop, `CheckTree` and `CallHandler`, which frees the shared context. `state` is the
completion tree (`absent` until `AddChild`). The callback does not look at the status, only at
what the proxy holds (`Held`): for an object that fails, nothing; for the root, which the
listener has introspected already, what it answered then (`first`), even if it fails when it
is asked again. `GetBusObjectsRecursive`, the code's synchronous
twin, says what the result must be.

### 2.7 ConnectorMain

`pc` is the main thread, `svc` the call of the configuration service that runs; both
rewrite the file in two steps, `Truncate` and the end of the write, with `rewrite` what
each has in hand. A value of a field is a number: missing, empty, or a text, a new one for
each setting. `Update` and `Delete` take any field, the passcode included; the two announce
and restart, but only `SetPassCode` tells the key listener. A call may arrive at any time
while the service is registered, and SIGINT at any time. `s_Conn` may dangle between
`DeleteConnector` and `ClearPointer`. An inotify descriptor is one of `MaxDescriptors`, and
stays open when the wait times out. `ended` says why the process ended: normally, an error
the code exits on, or a use of something deleted (`stale`), which the model treats as the end.

Nothing but the five seconds after the file has changed keeps main and a call apart. Three
history variables say when they have met, so that the properties can say exactly what is
lost then and what is not: `met` (since main last read the file a call has been under way
while main was not waiting), `direct` (an update or reset has named the passcode since the
bus was set up) and `rival` (main has made up an `AppId` while it kept the bus, so that
both write). They are written, never read, by the actions.

### 2.8 Codec and SignalRelay

A text is a sequence of fragments: characters that a parser knows, tags, plain pieces.
`VectorToString` and `VectorFromString` are the two directions of the arguments' XML,
with the search for the end tag (`CloseTag`) as the code makes it; `EscapeXml`,
`UnescapeXml` in the code's order; `Compress` keeps only the digit its result begins with,
as the receiver tells texts by their first character. libstrophe is taken to carry a body
as it is given. `SignalRelay` sends signals through these operators, but has them as
parameters (`ToText`, `FromText`, `ToBody`, `FromBody`), to which the configuration gives
those of `Codec`: `Codec` is recursive, and no theorem can be stated above it. All a theorem
needs of them is `TextAssumption`, that a signal's session comes out of the body where it
was put; TLC evaluates it for the texts of `Codec`.

A signal is `AllJoynSignalHandler` (in a session) or `SessionlessSignalHandler`; the other
side is `ReceiveSignal` with `RelaySignal`, `Relayed` and `GetLocalSessionId`. A signal whose
object, interface or member the stand-in does not have (`members`) is dropped, one the bus
refuses is lost (`refused`), and one outside of sessions may be passed on by both handlers.
Ids of sessions of the
two buses are drawn from one set, independently, so that they can cross. Sessions are
joined, paired and ended as in `SessionJoin`, reduced to what a signal can notice.

## 3. Runs

Deadlock checking is off where an instance stops at its bounds or the program may stop;
it is on for `attachments`, which can always go on.

| Run | Instance | States | Shows |
|---|---|---|---|
| `reply_prompt` | 2 threads, 3 requests (method, Get, Set), losses | 55,570 | own reply or failure; every call returns; implements `RequestReply` |
| `reply_late` | 2 threads, 3 requests of every kind, late and lost replies | 1,114,086 | types, exclusion, no lost wakeup, no reply used twice, none stolen from an open call |
| `transport_ends` | 3 Stops (2 threads, signal) at any time, link failures | 11,581 | types; Run ends dead and reported; login failures are told from losses; a connection ended by one Stop or by the other side makes Run return |
| `session_prompt` | 2 joiners, 2 joinees that leave at any time, 3 joins | 1,359,886 | right pairs, fresh sessions, unambiguous search by peer |
| `session_any` | 1 joiner, 2 joinees, 4 joins, late and lossy | 245,367 | a joiner's callback returns through every branch of the recovery |
| `session_ends` | 2 joiners, 1 joinee, 3 joins | 55,414 | the two sessions of a pair end together |
| `attachments` | 2 stand-ins, 2 remote applications, 1 well-known name besides the unique one, 2 callback threads | 59,196 | one stand-in each, none used after a deletion, none leaked, own names known as own, every handler ends |
| `advert_calm` | 1 application, 4 starts and stops, 1 outage of the far connector, any step that may fail failing | 205,783 | in the end the far bus shows what runs and got through, no more, under names that reach it |
| `bus_tree` | all trees of up to 4 objects, all patterns of failures, answers in any order | 33,988 | implements `ObjectWalk`; context not used once freed; receiver called |
| `main` | 2 calls of the configuration service, SIGINT, 2 descriptors | 449,052 | what main and a call can do to each other, at any time; implements `ConfigStore`; SIGINT past Start ends the program |
| `signals` | 2 session ids, 2 sessions, 2 signals, a member the stand-in has or not, arguments of every container, both encodings | 199,480 | signals stay in their session, arguments survive, all arrive that the stand-in has and the bus takes |
| `advert_ghost` | as `advert_calm`, applications may end during their walk | | fails: the finding below |

Each bound is the least that lets the case happen, plus one where the time allows: a stale
reply needs two requests; an answer for someone else needs two joinees or joiners; the
rejoin branch of the recovery needs four joins; a stand-in shared by mistake needs two
messages and two places to put it; a restart of an application across a watch needs three
changes of `version`, and names of different applications do not meet (the safety part of
`advert_calm` also holds with two applications of two versions each); a walk that
completes early needs a branch with a sibling below the root; an update lost between two
writers needs two calls, or one and main; a Stop undone by another needs two; a crossed
session needs two ids.

### Finding

`advert_ghost`: an application that ends while the tree of its objects is walked stays
visible on the far bus. Its loss is sent at once, the walk's callback does not look at the
status it is given, and so the advertisement follows the loss; nothing takes that stand-in
down, though a comment of `NameOwnerChanged` says that the other connectors are told so
that they can.

### What the models show when a constant is changed

Constants switch the environment, not the code. A passing run with one of them off says
what the code guarantees *if* the environment behaves; these say that it is needed. They
are listed as hazards and have no run of their own.

| Change | What fails |
|---|---|
| `LateReplies = TRUE` in `reply_prompt` | `OwnReply`: a late status 0 of a Set stays in the cell, and the next Get returns `ER_OK` without a value |
| the kind `"noreply"` in `reply_prompt` | `OwnReply`: the other connector answers every method call, and the answer is left for the next one |
| the kind `"action"` | a successful method without output arguments ends in `ER_FAIL`: its empty reply is neither XML nor a number |
| `RunReturns` without its exceptions | two Stops on other threads, on a healthy link: the second sets the state back to `disconnecting` after the first has ended the stream and before the loop has read `disconnected`, and its own `xmpp_disconnect` finds nothing to end; a Stop just after a loss overwrites that in the same way, and a login after a Stop overwrites the Stop: Run does not return; SIGINT while the thread holds `m_mtx` blocks on its own mutex |
| `HandlersReturn` without its exception | a source that goes offline while a call is inside its stand-in: the objects are freed first, and whether the thread ever comes out is undefined |
| `NothingMissing` without `failed` | an introspection, a join or a stand-in that fails is not tried again: the application stays unseen |
| `Overlap = TRUE` in `session_prompt` | `SessionsPaired`, `PeersAreUnambiguous`: of two joiners waiting at one attachment each may take the other's id. (`JoinReturns` still holds: 2 joiners, 1 joinee, 3 joins, late and lossy) |
| `LateAnswers = TRUE` in `session_prompt` | `SessionsPaired`, `EverySessionIsFresh`: the answer to a join that was given up is taken for the answer to the next; with one joiner, one joinee and 4 joins also `PeersAreUnambiguous` |
| `Lossy = TRUE` in `session_prompt` | `PeersAreUnambiguous`, `EverySessionIsFresh`: a session left without telling is still in the tracker and is handed to the next join |
| `FarEndReachesNear` for every session | a joinee that leaves before the pair is recorded leaves the joiner in a session without a counterpart |
| `NodeIntact = FALSE` | `OneStandIn`, `NothingLeaks`: the attachment read back through the reference to an erased element is not the one to delete |
| `Hasty = TRUE` in `advert_calm` | `NothingLeft`: the far connector is back before it was missed, and walks begun for the old one report to the new |
| `Unseen = TRUE` | `ReachesApp`: `m_wellKnownNameMap` outlives the watch and holds an owner that has gone |
| `AnnouncedBy = "unique"` | `NothingMissing`: the announcement makes a stand-in under the unique name, and the advertisement does not rename it |
| `Concurrent = TRUE` in `bus_tree` | `NoUseAfterDelete`, `WalkSpec`: two callbacks may both find the tree complete |
| `StartFails = TRUE` | `HandlerCalled`: a node that was never asked is never complete, and the advertisement is not sent |
| `FileIsWhole` in every round | in a round that kept the bus, main reads the file a call has truncated: the program ends |
| `NoUseAfterDelete` without `met` | `onRestart` reads `s_Conn`, main deletes the connector, `onRestart` stops it; a call announces while `cleanup` deletes `aboutObj` |
| `NoUseAfterDelete` without `pc = "clear"` | SIGINT between `delete s_Conn` and `s_Conn = 0` |
| `InEffect` without `~met` | a restart asked for between main's reading of the file and Start finds no connector, or one that does not run yet, and is lost |
| `PasscodeKept` without `~direct` | an update of `AllJoynPasscode` reaches the file but not the key listener, until the bus is set up anew |
| `PasscodeKept`, `StoreSpec` without `rival` | main, which makes up an `AppId` in a round that keeps the bus, writes back what it read before a call set another field |
| `SigIntEnds` from anywhere | SIGINT before Start is running: its Stop ends nothing |
| `Prompt = FALSE` in `signals` | `StaysInSession`: a signal of a session not known yet, or no longer, is emitted as a sessionless one |
| `ArgLists <- OddArgLists` | `ArgumentsSurvive`: text with markup or entities, and empty arrays of numbers, do not come out as they went in |

### Fairness

Only liveness uses it. `WF` on the steps of a thread that can run: the operating system
schedules it. `WF`/`SF` on the XMPP thread: its loop always comes back to `xmpp_run_once`.
`SF` on a timeout: the deadline of `pthread_cond_timedwait` is absolute, so spurious
wakeups do not postpone it. `SF` on taking a lock that is free again and again
(`ReplyTransaction`, `TransportLifecycle`, `RemoteAttachments`). `SF` on the end of a
connection whose stream Stop has ended: libstrophe sets a two-second timer. `WF` on the
answers of the bus to an introspection, which it times out itself, and on the return of
the far connector (`AdvertRelay`), without which nothing can be promised. In
`ConnectorMain` both threads go on, but nothing makes `Start` return, not even a Stop,
which may be overwritten (see `RunReturns` above): `SigIntEnds` begins past it. In
`RemoteAttachments` a call inside a stand-in whose objects have been freed need not end.
No fairness on new requests, on what applications and users do, or on the link.

## 4. Proofs

All theorems hold for every value of the constants allowed by the modules'
`ConstantsAssumption` (and `TextAssumption` of `SignalRelay`), which TLC evaluates in every run.

Some theorems assume a value of a constant that switches the environment. Each such
assumption is the one under which TLC checks the property, the table above says what
fails without it, and the theorem says what the code does guarantee with it.

**ReplyTransaction_proofs.** `TypeCorrect`. `TransactionsExclusive` and `WakeupsNotLost`
rest on `LockInv`: who is past `LockTransaction` holds the transaction mutex, who runs
between `LockReply` and the wait holds the reply mutex, and a blocked caller means an
empty cell. `OneTransaction` alone is not inductive because it does not say that the
mutex is what excludes. `RepliesUsedOnce` and `RepliesNotStolen` hold for any replies, in
time, late or lost, and rest on `IdInv`: an id is in at most one place (a request, a
reply, the cell), in none once it is in an answer, and only if its call has sent it. That
the cell is emptied under the reply mutex is what makes it inductive.

`RepliesMatchRequests` assumes that replies come in time and that no method is NoReply
(`Prompt`; both are needed) and rests on `PromptInv`: at any time at most one thing is
under way for the object (a request, a reply, or a full cell) and it belongs to the call of
the one caller inside the transaction; when nobody is inside, channels and cell are empty.
`RequestsAreReplied` follows from it: each step is a step of `RequestReply` or none. Its
fairness is left to TLC.

**TransportLifecycle_proofs.** All four safety properties follow from one invariant
`IInv`: once a disconnection or an error is recorded anywhere (the event being handled,
the state, the error, the local variable of Run), libstrophe's connection is closed for
good and the listener no longer believes in it, or is about to be told. The properties
themselves say nothing before Run has returned, so they are not inductive.

**RemoteAttachments_proofs.** `TypeCorrect`, `NothingUsedAfterDelete` and
`OwnNamesStayKnown` assume nothing and follow from `RegistryInv` (the last with
`LeakInv`). It ties the place of the main thread to what it has in hand: the attachment is
registered until `Remove`, exists until `Delete`, has no name while one is requested, is
not connected once `Disconnect` is past, and has no thread waiting in it once `Join` is
past; a stand-in that the offline path has freed is out of the daemon's reach once
`StopOne` is past, and of its threads' once `JoinOne` is; and the watching bus has
callbacks only while it exists. None of it is in the properties, which speak of what is
deleted and not of who may still get there. `OwnNamesStayKnown` is about the answer of
`OwnsWellKnownName`, which may be wrong for the name in hand: whoever owns and advertises
a name has it in `wellKnownName` already, and is registered, since `Disconnect` comes
before `Remove` and `AdvertiseName` after `WriteName`. `OneStandInEach` and
`NothingIsForgotten` need `LeakInv` besides (whatever exists is registered or in hand) and
assume `NodeIntact`: that the erased element of the list that `ReceiveNameOwnerChanged`
still refers to reads as before.

**BusObjectTree_proofs.** Both theorems assume callbacks one at a time (`~Concurrent`),
which is what AllJoyn does unless a callback allows others. `ContextOutlivesCallbacks`
rests on `CallbackInv`: the callback that reports finds all others done, so none is left
to use the context. `WalkCollectsAll` is the whole refinement of `ObjectWalk`, for any
tree and any answers, a root that fails when it is asked again included: `WalkInv` says
that what was asked is a part of the tree closed under parents, that what is still to ask
are the children of the node in hand, and `CollectedInv` that the list is what has
answered in full. `ObjectWalk`'s set of reachable objects is the least closed set, not a
recursion, so that it can be reasoned about.

**ConnectorMain_proofs.** The theorems assume nothing: calls and SIGINT come at any time,
and the histories `met`, `direct` and `rival` in the properties say when main and a call
have got in each other's way. `PlaceInv` ties the bus, `s_Conn` and the flags to where
main is; `WriteInv` says who may have truncated the file; `RivalInv` that, unless main has
made up an `AppId` in a round that keeps the bus, one thread writes at a time, one field
or the factory's all; `QuietInv` that, until a call and main have met, a call finds main
in a wait and what it changes makes the connector stop; `PasscodeInv` relates the file,
the content in hand and the passcode. `FileStaysWhole` comes from `WriteInv` (who tears
down the bus has waited for its calls), `NothingUsedAfterDelete` and `UpdatesTakeEffect`
from `QuietInv`, `PasscodeIsTheFiles` from `PasscodeInv`. `FileIsAStore` is the refinement
of `ConfigStore` up to `rival`: while the file is truncated the settings are what it is
about to hold, so that it is the truncation that sets the field, and the end of the write
changes nothing.

**SessionJoin_proofs.** `TypeCorrect` holds for all switches. It is not immediate: that ids
stay in `Ids` is a count of sessions, of requests under way and of callbacks inside, none of
which may together exceed the joins asked for (`CountInv`). `SessionsArePaired`,
`SessionsAreFresh` and `PeersAreClear` assume what `session_prompt` assumes: the joiners of
one attachment wait one at a time (`~Overlap`), the answer comes within the ten seconds
(`~LateAnswers`) and the link loses no end of a session (`~Lossy`). Joinees and joiners leave
at any time. They follow from one invariant, `PairInv`, about both connectors, both mailboxes
and both daemons:

- `AskInv`: for a joinee at most one of a request, the daemon's answer, or a response is under
  way, and its joiner is the one that waits;
- `FreshInv`: no far session is in two pairings, and one on its way to a pairing is in none;
- `HostedInv`, `JoinedInv`: what an attachment records has been paired, once for each peer, and
  either the other side still records it or the news of its end is on its way;
- `RecordInv`, `OrderInv`: the link is first in, first out, so the record of a pair travels
  ahead of the news of its end, and that ahead of the next request and record of the same two;
- `EndingInv`: when a far end is reported, the far connector has forgotten the session;
- `LiveInv`: every far session that is up is known to someone, so a request finds none left of
  an earlier join, and the daemon never says that there is one already.

The properties alone are far from inductive: that a pair is right depends on the messages
that carried its halves, and that a record is unambiguous on the order of the messages
before it. In particular the branches of the recovery other than `AnswerJoined` and
`AnswerAsIs` are never taken under these assumptions; what they do is for `session_any`.

**AdvertRelay_proofs.** `TypeCorrect` holds whatever the switches. The three promises speak
of a moment when nothing is under way, so their invariants say what is under way instead.
They share `LinkInv` (with `~Hasty`: the near connector's watch, the far connector and the
presence between them go through a fixed cycle, and unless both are there nothing is on its
way to the far one and it keeps nothing) and `NameInv` (with announcements by well-known
name: every stand-in carries it). With `Hasty` `LinkInv` fails:
the far connector is back while walks begun for the old one are still to report.

- `StandInsAreThere` rests on `MissingInv`: of an application that runs, the stand-in, its
  report, its introspection or the callback that begins one is there for each of its two
  ways that has not failed, and nothing that would undo it comes later in either queue. It
  holds even if walks outlive applications (`Outlives`) and if restarts go unseen
  (`Unseen`).
- `NoGhosts` rests on `LeftInv`: of an application that has gone, every stand-in and every
  report on its way is followed by the loss of its name. It needs `WalkInv`, that a walk over
  the tree is of the application that runs, which is `~Outlives`; without it the violation is
  the finding of `advert_ghost`.
- `NamesReach` is about an entry of `m_wellKnownNameMap` that is behind. `OwnerInv` orders
  the callbacks about owners: the last is of the present owner, and any other is followed by
  that owner's going. `UniqueInv`: an entry is empty, right, about to be corrected, or from
  before the watch and replaced before anything is looked at. `ReachInv`: a stand-in or report
  that has kept an earlier owner is followed by what removes it. It needs `~Unseen` because
  the map outlives the watch; with it TLC finds `ReachesApp` violated.

**SignalRelay_proofs.** `SignalsKeepTheirSession` assumes `Prompt`, as the run does, and
`TextAssumption`. The property speaks of what was emitted; the invariant, `StreamInv`, of
what is still on its way: a signal carries the text of the one sent under its number, and
while there is a stand-in its session has a pair. `GetLocalSessionId` then finds it.

**Model-checked only.** Liveness (`CallReturns`, `RunReturns`, `JoinReturns`,
`NearEndReachesFar`, `FarEndReachesNear`, `HandlersReturn`, `Settles`, `HandlerCalled`,
`SigIntEnds`, `SignalsArrive`, and the liveness part of the refinement of `RequestReply`),
which is out of the prover's reach; and `ArgumentsSurvive`: what `Codec` computes, by
recursion over texts, cannot be reasoned about without induction over data.

## 5. Plan

The modules above are built, and every safety property the passing runs check but
`ArgumentsSurvive` is proved. What would come next: the composition of two connectors whose
XMPP threads execute calls that need each other.

## 6. Not modelled

- Logging, formatting and the text of messages except where a property depends on it; the
  formats of numbers and white space between tags.
- `ImplementInterfaces` and the building of interface descriptions; session ports.
- `AddToRoster` and `XmppRosterHandler`, which only send stanzas.
- `SetPort` of the configuration parser, whose second stream works on the bytes of a
  buffer; a crash between the truncation of the file and the write, after which the file
  stays empty.
- Several remote sources: the roster has one entry. Sessions joined in both directions at
  once between the same two connectors.
- A call that the XMPP thread executes while the local application needs a remote answer
  to make it: both connectors' transactions would have to be composed. The timeout of ten
  seconds bounds it.
- The manifest of the gateway build (file output); stub classes (`CommonBusListener`,
  `SimpleBusObject`, `AboutObjApi`), which have no control of their own.
- TLS, authentication and stream negotiation inside libstrophe; the internals of AllJoyn.

`PROJECT.json` lists every component with its status, every hazard at its line, and for
every definition the lines it translates.
