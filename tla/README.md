# Verification of enet-js

enet-js binds ENet, a C library for reliable UDP, to JavaScript through Koffi.
Most of its functions are one native call. What is left, and what these modules
are about, is the part that has state of its own on the JS side of the border
and must keep it in step with C: errors that callbacks throw, events that must
survive them, and Maps keyed by pointers that `malloc` hands out again.

Paths below are relative to `src/` of the repository (`host.ts` is
`src/host.ts`).

## The system

JS is single-threaded, and every native call is synchronous. Concurrency comes
from re-entrance: inside a native call ENet runs callbacks (checksum,
intercept, packet free callback, the four functions of a compressor, noMemory),
whose handlers are JS functions that can make native calls themselves. The
program, the call it made, the callback in that call, the call of its handler,
and so on, form one stack. Everything hard about this code is an interleaving
on that stack, an exception that crosses it, or a pointer reused in it.

| Component | State in JS | Operations | Hard to get right |
|---|---|---|---|
| Callback errors, `callbacks.ts` | the array `callbackErrors`, shared by all calls | `guardCallback`, `guardVoidCallback`, `throwCallbackError`, `afterCallbacks` | nested calls share the array; an error must reach JS once, and never a later, unrelated call |
| Hosts and events, `host.ts` | the Map `pendingEvents` | `create`, `destroy`, `service`, `checkEvents`, `connect`, `flush`, `broadcast`, limits | the event is out of ENet's queue when a callback error makes `service` throw; host pointers are reused; `destroy` has several steps that can fail |
| Checksum and intercept, `host-handle.ts` | the Maps `checksums` and `intercepts`, Koffi's slots | the two setters and getters, `forgetHost` | two Maps, a C field and a pool of slots must agree, though registering a slot can fail and pointers and slots are reused |
| Free callbacks, `packet.ts` | the Map `freeCallbacks` | `create`, `destroy`, `resize`, the setter of `freeCallback` | packets are freed inside any call; handlers free other packets; memory is reused at once |
| Compressors, `compressor.ts` | the Map `compressors`, the counter `contexts.last` | `compress`, `compressWithRangeCoder`, the callbacks | ENet calls `destroy` of the old compressor while it installs the new one; compressors are shared between hosts |
| Peer handles, `peer.ts` | the Map of Maps `hostPeers` | `peerOf`, `forgetPeers`, and calls without state | identity of peers across two kinds of reused pointers, also for handles made while the host is destroyed; `receive` takes packets past events that wait in `pendingEvents` |
| Initialisation, `global.ts` | none (a slot of Koffi's) | `initialize`, `initializeWithCallbacks`, `deinitialize` | the slot of noMemory outlives everything, unless ENet refuses it |
| Times and versions, `macros.ts`, `time.ts` | none (ENet's clock) | the macros, `get`, `set` | arithmetic that wraps at 32 bits, in a language where it does not and `%` is signed |
| Addresses, `address.ts`, `util.ts` | none | conversions, `setHost`, `setHostIp`, `getHost`, `getHostIp` | byte order; out-parameters that C fills in only sometimes |
| Sockets, `socket.ts`, `socketset.ts` | none (the system's sockets) | all socket calls, `select` | two layouts of fd_set, one of which keeps stale entries; the sender of a datagram only if there was one |
| Range coder, `range-coder.ts` | none | `create`, `destroy`, `compress`, `decompress` | `create` can throw after ENet has made the range coder, as with hosts |
| Fields of handles, `host-handle.ts`, `peer.ts`, `packet.ts`, `buffers.ts`, over the layouts of `native/structs.ts` | none (C's memory) | the getters and setters of fields, `elementPointer` | each accessor names the C type of its field by itself; layouts differ between platforms |
| Declarations, `structs.ts`, `constants.ts`, `enums.ts`, `index.ts`, the rest of `native/*` | none | types, C signatures | nothing that a state machine shows |

### How they interact

- Every call in which ENet can run a callback is wrapped in `afterCallbacks`
  (or ends in `throwKeepingEvent`, which rethrows the same way). So the errors
  of a checksum, a free callback or a compressor all go through the one array
  of `callbacks.ts`.
- `host.destroy` clears the state of three files: `pendingEvents` of its own,
  `forgetHost` (checksum and intercept) and `forgetPeers`, after the native
  call and before any error is rethrown. Compressors and packets are forgotten
  by ENet's own calls of `destroy` and of the free callback.
- `service` and `checkEvents` turn a native event into handles, through
  `peerOf` and `wrapPacket`.
- Checksums and noMemory take slots of one pool; all intercepts share one slot,
  so do all free callbacks, and compressors share one for each function.

### What makes each component correct

- *Callback errors*: an error that a callback throws is thrown to JS code by a
  native call, or dropped because an older one was; once; and not by a call
  made after the outermost one has returned.
- *Hosts and events*: each event that ENet hands over is in exactly one place;
  events are returned in order, and `receive` overtakes at most one; a program
  that polls gets them; and it has a handle for every host and range coder.
- *Checksum, intercept*: they behave as fields of the host, to the program and
  to ENet; only what is in use holds a slot.
- *Free callbacks*: a packet's memory goes back to `malloc` after the callback
  assigned last has run; no entry outlives its packet.
- *Compressors*: ENet finds the compressor a host was given last; each is
  destroyed once per host; the Map holds what ENet can still pass back.
- *Peers*: one object per peer, and of this host, not of an earlier one.
- *Fields of handles*: every accessor reads and writes exactly its own field.
- *Macros*: times compare as the moments they were taken at, across the wrap.
- *Addresses and sockets*: what a call returns can be passed to another call;
  `select` tells exactly which sockets are ready.

## The modules

Arrows of composition: `Callbacks` is extended by every module in which ENet
runs callbacks; the `Proofs` modules extend the component they are about; the
`MC` modules add symmetry sets and constants for TLC, and nothing else, but for
`MCNumbers`, which joins two modules that share no state into one run.

| Module | Models | Built on |
|---|---|---|
| `Callbacks` | the call stack and `callbackErrors`: no specification of its own, but the steps that others conjoin | |
| `CallbackErrors` | `callbacks.ts` alone, with the history of errors | `Callbacks` |
| `CallContract` | abstract: what `structs.ts` promises of a call whose callbacks throw | |
| `CallbackErrorsProofs` | theorems | `CallbackErrors` |
| `HostEvents`, `HostEventsProofs` | hosts: `create`, `destroy`, `service`, `checkEvents`, `pendingEvents`; `enet.peer.receive`; `create` and `destroy` of range coders; theorems | `Callbacks` |
| `HostFields` | abstract: checksum and intercept are fields | |
| `HostCallbacks`, `HostCallbacksProofs` | checksum, intercept, `forgetHost`, the slots, noMemory; theorems | `HostFields`, twice |
| `PacketFree`, `PacketFreeProofs` | packets and their free callbacks; theorems | `Callbacks` |
| `Compressors`, `CompressorsProofs` | compressors and their contexts; theorems | `Callbacks` |
| `PeerHandles`, `PeerHandlesProofs` | `hostPeers`; theorems | |
| `Layouts` | the structs of C, on each platform: operators only | |
| `HandleFields` | the accessors of handles over the bytes of C's memory | `Layouts` |
| `Macros` | the macros over a clock | |
| `NumbersProofs` | theorems of both, over `MCNumbers` | `Macros`, `HandleFields` |
| `Addresses` | addresses, their numbers, out-parameters: operators only | |
| `SocketSet` | the layouts of fd_set and what the system does to them: operators only | |
| `Sockets`, `SocketsProofs` | socket calls and `select` over the system; theorems | `Addresses`, `SocketSet` |

### The call stack (`Callbacks`)

Native calls and callbacks alternate, so the stack is two variables: `calls`,
how many native calls are in progress, and `running`, which side of the border
is on top. `BeginCall` is JS code calling C. `BeginCallback` is C calling a
handler. `EndCallback`, `FailCallback` and `PropagateError` are the three ways
out of a handler: it returns; it throws, or returns something that is not the
number ENet expects; or it lets an exception of its own native call escape. The
last two push on `callbackErrors`. `CatchError` is JS code that handles an
exception. `EndCall` is the return of a call wrapped in `afterCallbacks`:
`throwCallbackError` takes all errors out of the array and throws the first.

What a call does in C is the environment's choice: any number of callbacks, in
any order. Components keep what they need per level in `frame` (`HostEvents`,
`Compressors`) or `freeing` (`PacketFree`).

`NestAfterError` says whether a handler makes a native call while an error of
an earlier callback of an enclosing call waits. The handler cannot know, and
nothing in the code prevents it. Where a property holds only without it, the
run says so and the hazard is listed.

### Hosts and their events (`HostEvents`)

`dispatchEvent` is split where JS and C alternate: `DispatchPending` returns
the kept event without calling ENet; `BeginDispatch` calls ENet, which may
`TakeEvent` and run callbacks before and after; `EndDispatch` is the return,
`formatEvent` and `throwKeepingEvent`. `destroy` is `BeginDestroy` (the kept
event is taken out of the Map and, if it carries a packet, its packet is
destroyed first), `EndDestroyPacket`, and `EndDestroyHost`. `create` is
`BeginCreate`, `Allocate` (any pointer not in use, so pointers are reused) and
`EndCreate`, which throws when an error waits. A noMemory callback in `create`
makes ENet give up (`refused`). Every event is a member of `Event` that ENet
hands over once; `Receive` are those with a packet. ENet's own queues are not
modelled: an event enters the model when ENet hands it over.

`ReceiveFromPeer` is `enet.peer.receive`, from any handler or from the program:
it hands over a packet and returns it in one step, since it runs no callback,
although an older event can be in `pendingEvents` or in a poll on the stack.
`taken` and `log` are, per host, the events that its polls took from ENet and
those that they returned to the program, until the host is destroyed;
`ReturnedInOrder` says that one is the other with at most a kept and a held
event in between. `overtaken` has, for each
packet that `receive` returned, the events of the host that were on their way
then; `OvertakesAtMostOne` bounds them. Range coders are objects that
are created and lost like hosts, in the same actions (`BeginCreateCoder`,
`Allocate`, `EndCreate`), and destroyed in one step that runs no callback.

With `Reentrant`, a callback can poll the host that is being polled. Then both
calls can throw, and `pendingEvents` has one entry for two events. A callback can
also poll, and call `receive` for, a host that is being destroyed (`Dying`): its
memory is there until `EndDestroyHost`. `destroy` has taken the kept event out of
the Map by then, so an event that such a poll keeps stays there when the host is
gone. `nested` holds the events of polls of both kinds: they are the only ones
that can be lost or left behind (`Places` counts an event as kept only while the
host it was taken from exists), and the hosts without any (`PolledApart`) are
those whose order is promised. A new host at the pointer of an earlier one
returns, before its own, at most one event that was left behind.

### Checksum, intercept and noMemory (`HostCallbacks`)

The setters of `host-handle.ts` run no callback and are one step each.
`SetChecksum` registers the new handler in a slot that is free while the old
one is still registered, then frees the old one; `FailChecksum` is the throw of
`koffi.register`, after `checksums.delete` and before everything else.
`Initialize` and `FailInitialize` are `initializeWithCallbacks`. `Host`
pointers and slots are reused. `enet_host_destroy` runs callbacks, in which the
setters of the dying host can still run, so it is `BeginDestroy` and
`EndDestroy`.

`HostFields` is instantiated twice, with two refinement mappings of the same
state: `Getters`, what the program reads through the getters, and `Native`,
what ENet would run: the function in the slot that the C field points to. Both
must behave like fields. The second one is the statement that ENet never calls
a freed slot or a handler of another host.

### Packets, compressors, peers

`PacketFree` has the packets of all hosts together: who may free a packet is
C's business, so any call can free any packet that is not being freed.
`BeginFree` is `freeCallbackAddress` up to the handler, with the deletion of
the entry before the handler runs; `EndFree` gives the memory back.

`Compressors` follows ENet's order: `enet_host_compress` calls the old
compressor's `destroy` (`RunDestroy`) before it copies the new one
(`EndReplace`); `enet_host_destroy` resets peers, which frees packets, then
calls `destroy`. `BeginCompress` is `compress` up to the native call, with the
fresh context already in the Map. With `UseInDestroy`, the callbacks of a
compressor use the host whose compressor is being replaced or destroyed: they
can give it another one. `disturbed` holds the contexts that were given while
the host's `destroy` was running. ENet overwrites such a context without
calling its `destroy`, or calls it like any other, so it is destroyed at most
once and its entry may stay; for all other contexts nothing changes, and the
compressor that a host ends up with is found even so.

`PeerHandles` has host pointers and pointers to arrays of peers, both reused,
in any combination. `birth` numbers hosts in the order of creation: it tells a
new host from an old one at the same pointer, which the code cannot.

### Layouts and the fields of handles

`Layouts` computes where C puts each member of ENet's structs, by the rules of
`koffi.struct`: alignment, padding, sizes of pointers and of `ENetSocket`, and
the order of the members of `ENetBuffer`, which Windows swaps. Members that JS
does not access have no name there. `HandleFields` has what the accessors use
next to it: `c` is where C keeps each field and `js` where its accessor reads
and writes it, with the type that the accessor passes to Koffi (`hostPrototype`,
`peerPrototype`, `packetPrototype`, `fromNativeBuffers`) and, for peers and
buffers, which are in arrays, the pointer of `elementPointer`. The accessors are sets of a path of
members with the type that is passed for it. `memory` is bytes, and `stored` what C or the program last stored in each field. C stores
any field (`CStores`), the program those with a setter (`writeNumber`).
`FieldsReadBack` says that every accessor still reads what was stored in its
own field, so that none is too wide, too narrow, or in the wrong place.

### Macros, addresses, sockets

`Macros` translates `%` of JS as it is (the sign of the left operand), so that
the second `%` in `timeSubtract` has its reason. The state machine around it is
a clock that ticks, wraps and can be set, and a program that remembers times.

`Sockets` is the system as an environment (numbers reused, datagrams lost or
delivered, calls refused) with the wrappers as the steps. Each step that answers
puts the answer in `answer` next to `truth`, the address that C filled in, and
`empty`, whether it is the sender of a datagram without bytes, of which `receive`
tells nothing (`structs.ts:181-184`). `Addresses` has the base of an octet as a parameter, and `SocketSet`
the bits of a byte and the sizes of both fd_sets. A POSIX byte is what `encode`
adds up (`Added`, with `Power` for `BIT_BASE **`), not a set of bits, so that a
bit added twice or in the wrong place would show. What `select` does to an
fd_set in C (`Keep`) clears bits, or compacts Winsock's array and leaves its tail.

Where the code counts or adds up, the modules have recursive functions (`Power`,
`Added`, `Largest`, `Rest`, `Highest`), which the proofs can reason about.

## The runs

All runs together take two to three minutes, most of it in `events`. "States" are distinct states.

| Run | Configuration, bounds | States | What it shows |
|---|---|---|---|
| `contract` | `CallbackErrorsContract.cfg`: 3 calls deep, 4 errors, no call begun while an error waits | 1586 | `KeepsContract`: the error path implements `CallContract`: each call throws the first error of its own callbacks |
| `nested` | `CallbackErrorsNested.cfg`: the same, calls begun at any time, with fairness | 4490 | errors reach JS once, in order, none outlives the outermost call, and each that waits is eventually drained |
| `foreign_error` | `CallbackErrorsForeign.cfg`: 2 calls deep | | a finding, see below |
| `events` | `HostEvents.cfg`: 2 host pointers, 3 events (2 with a packet), 3 calls deep, 1 waiting error, callbacks that poll the host being polled or destroyed | 4052629 | `EventsConserved`, `ReturnedInOrder`, `OvertakesAtMostOne` |
| `events_live` | `HostEventsLive.cfg`: 1 host pointer, 1 range coder pointer, 2 events, 2 calls deep, 2 waiting errors, no call begun while an error waits, with fairness | 8020 | `NoHostLeaked`, `TakenEventsSurface` |
| `host_callbacks` | `HostCallbacks.cfg`: 2 host pointers, 3 slots, 2 handlers | 11698 | both refinements of `HostFields`, `GettersTellWhatRuns`, `OnlyFailuresLeak`, `NoMemoryKept` |
| `slots_leak` | `HostCallbacksLeak.cfg`: 2 host pointers, 2 slots | | a finding, see below |
| `packet_free` | `PacketFree.cfg`: 3 packet pointers, 2 handlers, 3 calls deep, 2 waiting errors | 2566 | `GetterTellsWhatRuns`, `NoStaleEntry`, `FreedAfterItsCallback` |
| `compressors` | `Compressors.cfg`: 2 hosts, 2 compressors, 3 contexts, 3 calls deep, 1 waiting error, callbacks that use the host whose compressor is replaced | 83480 | `GivenIsFound`, `DestroyedOnce`, `MapHoldsWhatEnetHolds` |
| `peer_handles` | `PeerHandles.cfg`: 2 host pointers, 2 array pointers of 2 peers, 3 hosts created, 4 objects made | 4457 | `OneObjectPerPeer`, `FoundObjectIsOfThisHost` |
| `sockets` | `Sockets.cfg`: 3 sockets (2, 3, 4), 2 local addresses, queues of 1, octets of 1 bit, 2 bytes of 2 bits, 3 sockets in a Winsock set | 266684 | `AnswersCanBeUsed`, `KeepsReadySockets` |
| `numbers` | `Numbers.cfg`: a clock of 8 values, window 3, 10 ticks; every field on four platforms, bytes of 2 values, arrays of 2, 1 store | 33488 | `ComparesMoments`, `DifferenceIsElapsed`, `FieldsReadBack` |

Each type invariant is checked in a run of its module; `HandleFields` has none,
because nothing but `FieldsReadBack` could be said of its bytes.

### Why the bounds are enough

- *Depth.* Three calls are the least at which a call is nested both inside and
  around another one, so that an error can be older than the middle call and
  one can be younger. The theorems about `CallbackErrors` hold at any depth.
- *Errors.* Components other than `CallbackErrors` do not tell errors apart:
  one error value is enough. `PacketFree` and `events_live` have two of them
  waiting, to distinguish "some" from "one"; `events` and `Compressors` need
  only "some".
- *Pointers.* Two host pointers give interference and reuse. Hosts are created
  without a bound in all but `PeerHandles`, so reuse happens any number of
  times. There three creations on two pointers force reuse, with the same array
  of peers or another one; the theorems drop the bounds. A packet needs three
  pointers: one being freed, one freed by its handler, and one that is
  allocated in between.
- *Slots.* Three slots and two hosts: a host can swap its checksum while the
  other has one, and a noMemory or a leaked slot can make Koffi run out.
- *Events.* Two events of a host show order; the third tells those with a
  packet from those without. `events` enumerates each event once, so a run ends
  with all handed over but the program goes on polling. Three are also the
  least at which `receive` could overtake two: one kept, one held by a poll.
- *Range coders.* They share nothing with each other; one is enough.
- *Contexts.* Three: one shared out twice and one to replace it.
- *Sockets.* With two bytes of two bits, 2 and 3 are the two bits of the second
  byte, so that `encode` adds one bit to another, and 4 does not fit in the
  fd_set, so that `select` throws (`SelectThrows`). The two addresses differ in
  octets that byte order would confuse. Both properties are proved for all sizes.
- *Stores.* Memory starts with all bits off or all on. One store then shows
  whether an accessor reads or writes a byte of another field, since that byte
  would have the other value; a longer sequence adds no case, because what a
  store touches does not depend on the values. Bytes of two values are enough
  for the same reason, and two elements for the pointer arithmetic. The theorem
  drops all of these bounds.
- *The clock.* 10 ticks pass the end of a clock of 8 values from every starting
  point; the window is less than half of it, as with 86400000 and 2^32.

Hosts, slots, handlers, packets, compressors and peers are symmetric where the
run has no liveness property: the runs `events`, `host_callbacks`,
`packet_free`, `compressors` and `peer_handles` use symmetry sets. Deadlock is
checked everywhere but in `peer_handles` and `numbers`, where the bounds on hosts
and objects, on ticks and on stores stop the model.

### Fairness

Only `nested` and `events_live` have liveness properties.

- A handler ends and a native call ends: ENet's calls return, and each is
  finite. A handler can make calls, and a call can run callbacks, any number of
  times before it ends, so the step that ends it is enabled again and again but
  not continuously: this needs strong fairness. `HostEvents` states it per
  level, since the ends of two different levels are two different promises. A
  native call that waits (`service` with a timeout) ends when it times out.
- JS code that is thrown an exception catches it or lets it escape; both are
  steps that nothing disables, so weak fairness is enough. An exception that
  nobody catches ends the process, which is not modelled.
- `TakenEventsSurface` also assumes that a program polls each host it has,
  again and again (strong fairness of `Poll` from the main program), as ENet
  asks of every program that uses it. The code of enet-js cannot provide it.

Nothing is assumed of the program's other calls, and no callback need ever run.

### Findings

- `foreign_error` violates `ThrownByItsOwnCall`. `callbacks.ts:36` says that
  `throwCallbackError` "Rethrows the first error a callback threw during the
  native call that just returned". The array is shared by all calls on the
  stack. When a handler makes a native call after an earlier callback of the
  enclosing call threw, the inner call rethrows that error, although it ran no
  callback at all. The handler can catch it, and then the enclosing call throws
  nothing. `nested` shows what remains true: no error is lost except behind an
  older one. `contract` shows that the promise holds if no handler makes calls
  while an error waits.
- `slots_leak` violates `NoSlotLeaked`. `callback-lifetimes.test.ts:100` says
  checksum callbacks "hold one callback slot per host until replaced, cleared
  or destroyed". The setter deletes the entry of `checksums` first
  (`host-handle.ts:154`). If `koffi.register` then throws because all slots are
  taken, the host still runs its old checksum while the getter says null, and
  nothing will ever unregister the slot. `OnlyFailuresLeak` shows that this is
  the only way to lose one.

### Excluded as misuse

`CONTRIBUTING.md:18` says: "Do not validate arguments or guard against misuse.
A call that is invalid in C is invalid here too". So the runs leave out what a
C program must not do either:

- A free callback that assigns `freeCallback` of the packet being freed. With
  `SetInHandler` (`PacketFree`) set to TRUE, `NoStaleEntry` fails: the entry it
  leaves would run for the next packet at that pointer.
- Destroying a host in a callback of a call that works on it, as `destroy` of
  `HostEvents` and of `Compressors` exclude in their guards.

Other uses are as doubtful, but the runs do not leave them out: `Reentrant` and
`UseInDestroy` are TRUE in `events` and `compressors`, and the properties name
what is lost (`nested`, `disturbed`) and say that nothing else is. `events_live`
has `Reentrant` FALSE, because an event that such a poll lost never surfaces.

One such use contradicts a comment. `host.ts:135` says that `destroy` also
destroys "the packet of a receive event the host was keeping for its next
`service` or `checkEvents`". When a callback in `destroy` polls the dying host
and that poll throws after taking an event, `throwKeepingEvent` (`host.ts:85`)
keeps it after `takePendingEvent` (`host.ts:143`) has run; its packet is not
destroyed, and the next host at that pointer returns it. `EventsConserved` makes
an exception for this, that of `nested`, and so does `ReturnedInOrder`, with
`left`; without them both fail in `events`. As they stand they say that no event
is left behind in any other way.

Two more constants stand for what the repository does not decide.
`StoresBeforeFailing` (`HostCallbacks`) is whether a call to
`enet_initialize_with_callbacks` that fails has stored noMemory already; it is
FALSE, and with TRUE `NoMemoryKept` fails. `NestAfterError` is explained above;
with TRUE, `KeepsContract` fails (the finding), and so does `NoHostLeaked`,
because `create` throws another call's error in place of returning its host.

## The proofs

TLAPS checks every theorem below, for all values of the constants that meet the
named assumptions (`CallbacksAssumption`, `ErrorsAreNumbered`,
`HostEventsAssumption`, `HostCallbacksAssumption`, `PacketFreeAssumption`,
`CompressorsAssumption`, `PeerHandlesAssumption`, `MacrosAssumption`,
`HandleFieldsAssumption`, `AddressesAssumption`, `SocketSetAssumption`,
`SocketsAssumption`). TLC evaluates these on the runs. Every invariant and every
action property of the runs is stated by a theorem.

Proofs about data (sequences, sums, bytes) need induction, and the library's
theorem of it has an operator as its parameter, which the provers cannot
instantiate. The lemmas `Induction` and `Recursion` of `NumbersProofs` and
`SocketsProofs` get around that: induction is over a set of numbers, from
`WFMin` (a set of naturals that is not empty has a least member), and recursion is
by a function of the index and the value before, whose graph up to each number
exists by that induction.

### `CallbackErrorsProofs`: any depth, any number of errors

`Typing`, `DrainedTheorem`, `DroppedTheorem`, `CaughtTheorem`, `ContractTheorem`.

None of the three safety properties is inductive. `DroppedOnlyBehindOlder`
needs to know that the error a call throws is older than those it drops, so
that `callbackErrors` is `Sorted`. A new error keeps it sorted because it is
younger than all that were raised (`Known`). A propagated error is an old one,
and can be pushed only because the array is empty while an exception unwinds
(`Unwinding`): the call that threw it drained the array, and JS code makes no
call while it unwinds. The same fact gives `CaughtStaysCaught`, together with
`CaughtInRaised`, which keeps a new error apart from the caught ones. The
invariant `IInv` is the conjunction; `BeginStep`, `FailStep`, `PropagateStep`,
`CatchStep` and `EndStep` prove that each action preserves it, and `QuietStep`
serves those that change neither errors nor exception.

`ContractTheorem` is the refinement of `CallContract`, with
`NestAfterError = FALSE`: only the call on top of the stack can owe an error,
because the others began with none waiting and none has thrown since; so the
one array implements an error per call, and every step maps to the abstract
step of the same name.

### `HostEventsProofs`: any number of hosts, range coders and events, any depth

`Typing`, `ConservedTheorem`, `LeakTheorem`, `OrderedTheorem`,
`OvertakesTheorem`. An event is in exactly one place:
that it is in no two (`OnePlace`) and that it is in one (`SomePlace`) are two
invariants, for they fail in different ways. A kept event is overwritten only
if the poll that ends in an exception finds the entry taken; so the invariant
must say that whatever is kept while the host is polled, and whatever a poll
inside a poll or inside the destroy of the same host holds, is in `nested`
(`NestedInPolls`): a poll begins only with nothing kept, and what is kept since
then came from a poll inside. `PollsOK` says that a host without a handle is
polled only above the call that destroys it.
`Reentrant` can be TRUE or FALSE in this theorem, and so can `NestAfterError`.

`LeakTheorem` assumes `NestAfterError = FALSE`. `FramesOK` then says that a
`create` in progress has no error waiting, because its only callback is noMemory,
after which ENet gives up; so `create` does not throw once there is an object.
`OwnedOnce` says that an object without a handle belongs to one call.

`ConservedTheorem`, `OrderedTheorem` and `OvertakesTheorem` have a second
invariant, `OInv`, on top of the first. The order (`InOrder`) is kept by a poll
only because a host that keeps an event is not asked for another one, or what it
then holds is in `nested`, by `NestedInPolls`. What is kept for a pointer without
a handle is in `nested` (`PendingOfHandles`), and what is kept and was not taken
from the host at its pointer is too, and keeps that host from being polled
(`KeptTaken`); so an event outside `nested` is kept for an existing host that it
was taken from, and a host at a reused pointer, which has taken nothing yet
(`Fresh`), starts with one of the `Leftovers`: nothing, or one event in `nested`.
For `receive`,
the order says too little when a poll in a poll has disturbed it: `Waiting` says
of each other event that a poll took that it was returned, or is kept, or held
by a call, and there is one place of the host for an event that is not in
`nested`; hence no packet overtakes two. A dying host has at most the one it had
when its destroy began (`DyingOne`), since what it takes from then on is in
`nested`.

### `HostCallbacksProofs`: any number of hosts, slots and handlers

`Typing`, `GettersTheorem`, `OnlyFailuresTheorem`, `NoMemoryTheorem`, and both
refinements of `HostFields`, `NativeTheorem` and `GettersRefine`; all assume
`StoresBeforeFailing = FALSE`. The heart of it is `FieldsOwnSlots`: the slot that
a live host's field points to is registered, no other host's field points to it,
and noMemory does not own it (`OwnSlot`), whether or not the Map still knows it;
if it does, Map and slot have the same handler (`InMap`). `NativeAreFields` alone
is not inductive: freeing a slot leaves other hosts alone only because no two
share one. `MapsOfLive` is why a host at a reused pointer starts with nothing.

### `PacketFreeProofs`: any number of packets and handlers, any depth

`Typing`, `GetterTheorem`, `NoStaleTheorem`, `FreedTheorem`, all with
`SetInHandler = FALSE`. The Map and the field agree with what was assigned as
long as no call frees the packet (`EntriesAreAssigned`); from then on the call
that frees it has the handler (`RunsAssigned`), and there is one such call
(`FreedByOneCall`), which is why the entry can go before the handler runs.
`FreedTheorem` is the action property: the step that gives memory back follows
the run of the callback assigned last.

### `CompressorsProofs`: any number of hosts, compressors and contexts, any depth

`Typing`, `MapTheorem`, `DestroyedTheorem`, `GivenTheorem`, with `UseInDestroy`
TRUE or FALSE. A context is that of one call or of one host (`ContextsApart`), so
that the destroy of one leaves all others alone. The difficult state is a host
whose `destroy` runs: ENet still has the old context, whose entry is gone.
`DestroyRuns` names it, `InUse` leaves it out of what the Map must hold, and
`DisturbedOnly` says that what is given in it is disturbed until the call that
runs it has ended, by when ENet has overwritten it. `FramesOK` has that the
call which destroys a host is below all others on it: a callback in it can
use the host, but no call on the host encloses it.

### `PeerHandlesProofs`: any number of pointers, hosts and objects

`Typing`, `OneObject`, `OfThisHost`. That no two objects are made for one peer
follows from the Map only if the Map misses none of them (`MadeIsFound`) as long
as their host exists; that a host at a reused pointer does not take over
another's objects needs that existing hosts have different births
(`BirthsDiffer`) and that objects were made for hosts created so far
(`MadeForHosts`). The lemma `EndDestroyInv` uses that forgetting comes with the
end of `enet_host_destroy`, after the callbacks that can still make objects.

### `SocketsProofs`: octets of any size, fd_sets of any length, any sockets and addresses

`Typing`, `AnswersTheorem`, `SelectTheorem`, and what they rest on: `IpRoundTrip`, `PosixRoundTrip`, `WindowsRoundTrip`. `ipFromLong` undoes
`ipToLong`, by uniqueness of quotient and remainder, one octet at a time. Every
address in the system, of a socket or waiting in a queue, is one that JS can
write (`SocketsKnown`: a member of `Known`), because each came from JS; with
`AddressRoundTrip`, every answer can be used. The inductive invariant is
`SocketsKnown`, the type of `answer` and what the two properties say of it.

`SelectTheorem` is about arithmetic. Of the bits that `encode` adds to a byte, in
the order of the sockets, those before a socket add up to less than its own bit
(`SumsBelow`) and those after it to a multiple of the next (`AddedBit`), since
`Power(i + k)` is `Power(i) * Power(k)`; so the quotient by the socket's bit is
odd exactly if it was added, and the sum stays below `Power(BitsPerByte)`, which is
why `writeUInt8` never throws for the value of a byte. What is left of an fd_set
by `select` is the fd_set of what is left (`PosixKeeps`). For Winsock, the array
has every socket of the Set once (`SequenceOf`), and compacting it, by induction
on the index, leaves in front those that are ready (`WindowsKeeps`).

### `NumbersProofs`: any width of clock, window and version component

`Typing`, `Compares`, `Difference`, `VersionRoundTrip`. `SubtractWraps` shows
that `timeSubtract`, with the signed `%` of JS, is subtraction modulo the range.
`WrapsOnce` and `Distance` turn that into the distance of two moments less than
a window apart; comparing then follows from `UINT32_RANGE >= 2 * Overflow`, which
2^32 and 86400000 meet.

### `NumbersProofs`: bytes of any size, arrays and sequences of stores of any length

`FieldsApart` and `FieldsReadBackTheorem`. The first is about the layouts: on
every platform the accessors look where C has the fields, and no two fields
overlap, in all elements of the arrays. That `Struct` keeps its members apart and
inside the struct is proved for any members (`StructIsLaid`: each ends before the
next begins, by induction on the list), so what is left per struct is which
members it declares (`HostLaid`, `PeerLaid`, ...). `AccessorsPlaces` then needs only
that each accessor names the declared type of its member (`HostAccessors`, ...),
which is what no compiler checks of the code.

The second is the state machine. A value that fits leaves nothing when as many
bytes are taken off it (`NothingLeft`), and joining those bytes gives the value
back (`ReadsBack`), by induction on their number. The invariant `FieldInv` says
that memory has the bytes of what was stored last in each field (`Kept`); a store
keeps the others because no two fields overlap (`StoreKeeps`). `Values` matters to
it only in that each fits.

### Only model-checked

- Liveness: `EventuallyDrained`, `TakenEventsSurface`. TLAPS has no support for
  ENABLED here, so nothing that rests on fairness is proved.
- The two findings, which are counterexamples.
- The bounds. Theorems that assume `NestAfterError`, `SetInHandler` or
  `StoresBeforeFailing` to be FALSE say so above; with TRUE, TLC finds that the
  properties fail.

No module of this project has a RECURSIVE operator.

## Not modelled

- `native/*` other than `native/structs.ts`, and `structs.ts`, `constants.ts`,
  `enums.ts`, `index.ts`: declarations of signatures and types, with no control
  flow; `native.test.ts` and `native.coverage.test.ts` compare them with the C
  library. In `native/structs.ts`, the structs that Koffi converts whole
  (`ENetChannel`, `ENetEvent`, `ENetCallbacks`); that the others are declared
  as in `enet.h` is what `native.layout.test.ts` checks.
- In `range-coder.ts`, `compress` and `decompress`: each is one native call on
  Buffers, with no callback and no state.
- The text of an address in `getHost` and `getHostIp`, and the bytes of packets.
- ENet itself, except as the environment: which callbacks it runs, which events
  it reports and in which order, is left open as far as the code does not
  depend on it. Two orders inside ENet do matter and are modelled from how the
  code relies on them: `destroy` of the old compressor comes before the new one
  is stored, and the free callback comes before the memory is freed.
- In `socket.ts`: bytes of datagrams, options, `shutdown`. In
  `socketset.ts`: the same Set in both places, and a `maxSocket` that is too
  low.
- The end of the process by an exception that nobody catches.

## Plan

Done, in this order: `Callbacks`, `CallbackErrors` with `CallContract` and
proofs; `HostEvents`; `HostCallbacks` with `HostFields`; `PacketFree`;
`Compressors`; `PeerHandles` with proofs; `Macros` with proofs; `Addresses`,
`SocketSet` and `Sockets` with proofs; noMemory in `HostCallbacks`; range coders,
`enet.peer.receive` and nested polls in `HostEvents`; `Layouts` and
`HandleFields`; proofs of `HostCallbacks`, `PacketFree`, `HostEvents` and
`Compressors`; proofs of the order of events, of the layouts and the accessors,
and of `select`.

To model next:

1. A module that composes the end of `host.destroy` over `HostEvents`,
   `HostCallbacks` and `PeerHandles`: handlers that run while the host is
   destroyed, against all three Maps at once, where each module now has its own
   `BeginDestroy` and `EndDestroy`.
2. Packets kept in `pendingEvents` and their free callbacks: `HostEvents` over
   `PacketFree`, so that destroying the kept packet runs its callback.
3. The handles of packets: `userData` lives in the handle, and the free callback
   gets back the one it was assigned through, while every call that wraps a
   packet makes a new one.

To prove next, in the order of what matters most:

1. That the composed module of the plan implements `HostEvents`, `HostCallbacks`
   and `PeerHandles`, so that their theorems hold of it.
2. An abstract specification of a host's events, a queue that polls take from in
   order, which `HostEvents` implements with `Reentrant = FALSE`:
   `EventsConserved` and `ReturnedInOrder` as one refinement.
