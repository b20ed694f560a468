# Formal models of KindleBT

This directory holds TLA+ models of the C library in `src/`, the configurations
that model-check them with TLC, and theorems about them that TLAPS checks. It is
organised for somebody who has the repository at hand: every definition that
models code is listed in `PROJECT.json` under `map` with the lines it stands for.

## The system

KindleBT makes the asynchronous calls of Amazon's closed `ace_bt` library
synchronous. A public call sends a request to `ace_bt` (on firmware 5.17 and
later through `ace_bt`'s own functions, before it through AIPC messages to
`btmanagerd` that KindleBT serialises itself), then waits up to ten seconds on a
condition variable for a flag that a callback sets. The callbacks run on a
thread of `ace_bt`. The two threads share `callback_vars` (one mutex, one
condition variable) and `devices_context`, a growing array of
`device_context_t`, each with a mutex and a condition variable of its own. The
array itself has no lock.

| component | state | operations | hard behaviour | what makes it correct |
|---|---|---|---|---|
| Timed wait (`kindlebt_utils.c` 224-249) | a flag, a mutex, a condition variable, the deadline | `waitForCondition`, `setCallbackVariable` | lost and spurious wake-ups, the deadline racing with the callback, several flags on one condition variable | OK only when the flag is set, TIMEOUT only after the deadline, the wait ends, no update is missed, the mutex is always released |
| Device array (`kindlebt_utils.c` 251-304) | a block of contexts, count, capacity | `dca_add_new`, `dca_find_by_*`, `dca_remove` | `realloc` and shifting under a pointer, first match of several | the contexts are those that were added and not removed, in order |
| Connections (`kindlebt.c` 138-178, `kindlebt_callbacks.c` 80-112) | the contexts, their flags and handles | `bleConnect`, `bleDisconnect`, `bleConnStateChangedCallback` | callbacks between any two steps of a call, refusals, failed and lost links, late answers, retries | one context per connection, callbacks hit the right context, handles are those of live links, every call returns |
| GATT database (`kindlebt.c` 95-126, `kindlebt_callbacks.c` 114-155) | two flags and the out pointers of a context | `bleDiscoverAllServices`, `bleGetDatabase`, two callbacks | stale flags, late answers through old pointers, a clone that fails | OK means that the answer came; writes stay in the scope of the caller's variables |
| Session and registration (`kindlebt.c` 40-77, `kindlebt_callbacks.c` 25-78) | `ble_registered` | `openSession`, `bleRegister`, `bleDeregister`, ... | late callbacks, the flag of a closed session | registered means registered |
| GATT client before 5.17 (`compat_ace_implementations.c` 23-130, `compat_ace_handler.c`) | client data and event handler in `ace_bt` | register, deregister, dispatch of events | partial failure of three steps | all or nothing; a callback only while registered |
| GATT requests before 5.17 (`compat_ace_implementations.c` 132-331) | request buffers | read, write, descriptor, notification | failure between allocation and release | every buffer is released once |
| API selection (`compat_ace_shims.c`, `compat_ace.c`, `compat_acealloc.c`) | lazily resolved pointers and their flags | `shim_*`, `getSessionFromHandler`, `acebt_abi_version`, `shadow_aceAlloc_free` | first use on two threads without a lock | every call goes to the firmware's API, but for a race on the first one |
| Conversions and blobs (`kindlebt_utils.c` 18-222) | none, or one blob | address and UUID conversions, `utilsFindCharRec`, `setGattBlobFromBytes` | lengths in 8 bits, failed allocations | inverse of each other; nothing is accepted but an address; one owner per blob |
| Logging and server dump (`kindlebt_log.c`, `kindlebt_utils.c` 103-170) | a buffer, its size and offset | `append_to_buffer`, `utilsDumpServer` | lines that are cut off, growth, the terminating zero | the dump is whole, nothing is written behind the buffer |
| Example (`examples/basic_usage.c`) | two flags, a value, the place in `main` | `main`, three callbacks | answers that race with a bounded wait, rounds over the same flags and value | each wait sees its own answer, the value that is sent is that of the round, main ends |
| Debug dumps (`compat_ace_utils.c`) | none | `dump_*` | none | not modelled |

`PROJECT.json` lists the same components with what is modelled of each, and
under `hazards` the places where this code is hard to test.

## Modules

| module | models | kind |
|---|---|---|
| `TimedFlag` | the contract of a timed wait | abstract specification |
| `TimedWait` | `waitForCondition`, `setCallbackVariable` | detailed specification, implements `TimedFlag` |
| `TimedWaitProofs` | theorems about `TimedWait` | proofs |
| `DeviceArray` | the `dca_*` functions | operators |
| `DeviceLinks` | the contract of `bleConnect` and `bleDisconnect` | abstract specification |
| `Connection` | `bleConnect`, `bleDisconnect`, `bleConnStateChangedCallback`, on `DeviceArray` | detailed specification, implements `DeviceLinks` |
| `ConnectionProofs` | theorems about `Connection` and the `dca_*` functions | proofs |
| `GattDb` | `bleDiscoverAllServices`, `bleGetDatabase` and their callbacks | specification |
| `Registration` | sessions, `bleRegister`, the registration of a GATT client before 5.17, the handler of its events | specification |
| `RegistrationProofs` | theorems about `Registration` | proofs |
| `GattRequests` | read, write, descriptor and notification requests before 5.17, on top of `Registration` | composition |
| `GattRequestsProofs` | theorems about `GattRequests` | proofs |
| `GattDbProofs` | theorems about `GattDb` | proofs |
| `BasicUsage` | the example application, on top of `GattRequests`; the blob of a value | composition |
| `BasicUsageProofs` | theorems about `BasicUsage` | proofs |
| `Shims` | the choice between the two APIs | specification |
| `ShimsProofs` | theorems about `Shims` | proofs |
| `Conversions` | addresses, bytes, the search for a characteristic | operators on sequences |
| `LogBuffer` | `append_to_buffer`, `utilsDumpServer` | operators on a buffer |
| `HelperProofs` | theorems about `Conversions` and `LogBuffer` | proofs |
| `MCTimedWait`, `MCConnection`, `MCGattDb`, `MCRegistration` | small instances | for TLC |
| `MCClient` | applications: `BasicUsage`, `Shims`, `Conversions` and `LogBuffer` | for TLC |

Operators whose comment begins with *Broken* are variants of the definition that
follows them with a plausible slip; no specification uses them. `PROJECT.json`
lists under `mutants` which property notices which of them.

### TimedWait

A step is what a thread does between two points at which the mutex can change
hands. `Call` computes the deadline, `Enter` locks, `Test` is the condition of
the `while`: it leaves the loop or, in one step, releases the mutex and blocks,
as `pthread_cond_timedwait` does. `WakeSpuriously` and `Signal` wake a thread,
`Expire` is the return with `ETIMEDOUT`, `Reacquire` takes the mutex back.
`Signal` may wake more than one thread, as POSIX allows. Time is the set `late` of threads whose
deadline has passed; a deadline may pass at any moment of a call.

### Connection

There is one application thread, as in the example program; the library takes no
lock around the array and cannot serve more. `pc` is its place inside
`bleConnect` or `bleDisconnect`, `ctx` the index that its context pointer names.
Waits are those of `TimedFlag`, with the context's mutex free. The callback
thread delivers one event after the other: it searches the array (`CbFind`),
locks the context it found (`CbLock`), writes and unlocks (`CbUpdate`). A
pointer is the index of a slot, so it names another context after `dca_remove`
has shifted the slots; `dangling` says that `realloc` has moved the block. The
mutex is a field of the context (`held`) and is copied with it, as in the code.
`memcpy` of the address is part of `AddContext`, and a `dca_*` function is one
step: its own loops do not interleave with the callback.

`ace_bt` is external: it accepts a request to connect a device that is not connected,
brings the link up with a handle that no other link has, and reports what
happens in order. `Faults` says what else it may do. `HandlesOf` says whether
handles may be given to another device after they were in use. The application
disconnects with a handle that it got from `bleConnect`, connects to a device
that it has no handle for, and gives a handle up when `bleDisconnect` reports an
error other than TIMEOUT.

### GattDb

One connection of one device at a time. `Reconnect` is a `bleDisconnect` that
succeeds and the beginning of the next `bleConnect`, which clears the context's
slot, `Connected` its end. The callback thread handles one event after the
other, so `bleDisconnect` returns when it has come to the disconnection, and
`bleConnect` when it has come to the new connection: answers to the old
connection's calls are out of the way, unless ace_bt delivers one after the
disconnection (the fault `stray`). Then the callback may have its pointer to the
slot while it is cleared. `alive` are the variables of the application that are
in scope; with `Keeps` it keeps the one it gave last until it gives another or
disconnects. `filled` says whether an answer has been written to the variable
since it was given, `known` whether ace_bt has discovered the services of this
connection. The application's own
callbacks, which the wrappers call after the library's, may make the same calls
(`CallBack`): the callback thread then waits for an answer that only it could
bring, and gives up at its deadline. A request for discovery may go astray and
still be reported as sent (`DiscoveryLost`), because
`pre5170_bleDiscoverAllServices` returns `out_status` and not the status of the
AIPC call.

### Registration

One application thread and the callback thread again. `roles[s]` is what the
calls have told the application that session `s` is. `ble` is ace_bt's side of
`bleRegister`, `clientData` and `handler` are the two entries that
`pre5170_bleRegisterGattClient` stores in ace_bt, `server` is what btmanagerd
has been asked to send. Each of its three steps, and each of the two of its
roll-back, is an action, because events are dispatched in between. An event
reaches the application by `CbDispatch` (session, client data, wrapper, test of
the application's pointer) and `CbCall`, which reads that pointer again. In
between, `RegisterGattClient` may replace the application's struct of callbacks,
or the application may set it without a call (`SetCallbacks`): it is a global of
`kindlebt_application.c`. The structs it brings (`AppCallbacks`) never
lack a callback of the one before, unless `shrink` is among the faults; with it
the second read finds NULL, and `NoNullCall` fails. The
kinds `discovered` and `database` are those of `GattDb`. ace_bt and btmanagerd
are external; a request that returns an error has had no effect on them.

The application has one session open at a time, does not register a session as
GATT client twice, and closes a session that it believes deregistered.

### GattRequests

Extends `Registration` by the requests of a client. `forward` and `cccd` are the
two effects of `bleSetNotification`, in btmanagerd and in the device, `told` is
what the calls have told the application. `buffers` are the allocations that
have not been freed; a failed write and every notification leave one behind, as
in the code. `Forget` is btmanagerd's part in a deregistration. The descriptors
that the application itself writes are others than the CCCD.

### BasicUsage

`line` is the call of `main` that is next or under way, `After` what follows it.
The calls on the session and the requests are the actions of `GattRequests`
(`SessionCall`, `RequestCall`), begun by `Call` and ended by `Returned`, which
looks at the status as `main` does; connecting, discovering, getting the
database and disconnecting only succeed or fail (`Step`): `Connection` and
`GattDb` look into them. `ReadAnswered`, `Fill` and `WriteAnswered` are the body
of the loop, `AwaitTimeout` the end of its bounded waits. The callbacks set
`flags` on ace_bt's thread; `owed` are the answers that btmanagerd still has to
send. `value` is the blob of the characteristic: `data` says whether the pointer
is null, good or to freed memory. The two helpers that change it are the
library's; the example has a copy of each that is the same.

`line = "any"` stands for every other application that keeps to the rules of
`GattRequests`, so that one run checks both.

### Shims

All shims have static pointers and, but for the differences that `Resolved` and
`Unresolved` list, one form: test the flag, resolve, set the flag, choose by
the pointer. `bleWriteDescriptor` never sets its flag (`Flags`). The statics are
plain variables that several threads write without a lock, which C leaves
undefined; the model takes the outcomes of a build whose stores are whole and
arrive at the other threads one by one in any order (`sees`, `Reach`).

### Conversions and LogBuffer

Functions without state of their own are operators. A string is a sequence of
characters, a UUID a sequence of bytes, a line of the log is its length. The
variables `input` and `dump` hold one bounded input, chosen in the initial
state; each property relates what the operator returns for it to a definition of
its own. A loop is a fold of the community modules, so that its result can be
reasoned about. Lengths are those of the code: 8 bits for the digits of
`utilsConvertHexStrToByteArray`, 512 bytes for a line of the log.
`BytesAreTheDigits` reads the bytes back as digits (`DigitsOf`) and compares them
with those that the string was written from, in capitals or not.

## Runs

| run | instance | what it shows |
|---|---|---|
| `wait` | 1 waiter, 2 setters, 2 flags | type and mutex invariants, no missed update, refinement of `TimedFlag`, every wait ends |
| `conn_reliable` | 3 devices, 3 handles that may be reused, first capacity 1, no faults | one context per connection, callbacks hit their context, every answer reaches its caller, every call succeeds, refinement of `DeviceLinks` |
| `conn_refused` | 2 devices, refusals and failures, up to 5 contexts | contexts left behind do not spoil handles, locks or what calls report; no link drops and no answer is late here |
| `conn_faults` | 1 device, all faults, up to 4 contexts in an array of capacity 4 | every call returns, no mutex stays locked, callbacks hit their context |
| `gatt_once` | 2 connections' handles, 2 variables, refusals, failures, lost requests, failing clones, late answers, each call once per connection | OK means that this call's answer is in the variable, and that the services of this connection have been discovered |
| `gatt_late` | 2 handles, 2 variables that the application keeps, repeated calls, late, stray, lost and missing answers, calls from the application's callbacks | every call returns, the mutex is released, writes stay in scope but for the one case that `WritesInScope` names |
| `client` | one thread, firmware before 5.17: 2 sessions, two structs of callbacks of which the second has more, 2 events under way, every step may fail (no report on a registration is lost); any careful application, or the example with 2 rounds | calls tell the truth about registration and notifications, an event finds its callback, the example's waits, value and end, every call returns |
| | two threads, either firmware, 3 shims of different form | a wrong choice needs a race on the first call, and does not last |
| | one call of a helper: 3 072 addresses, strings that are almost addresses, 0 to 20, 250 to 260 and 510 to 514 digits in either letters, databases of up to 3 services, servers of up to 2 characteristics, 3 appended lines | conversions and dumps agree with their reference definitions |
| `conn_retry` | 1 device, refusals | **violated** `AnswerReachesCaller`: after a refused `bleConnect` the next one times out although the device is connected |
| `conn_shift` | 2 devices, lost links | **violated** `NoOrphanedLock`: `dca_remove` copies a locked mutex |
| `gatt_again` | no faults, repeated calls | **violated** `DatabaseDelivered`: the second `bleGetDatabase` returns OK at once, with nothing written |
| `gatt_clone` | a clone that fails | **violated** `CallsReturn`: `bleGetDatabase` hangs past its deadline |
| `reg_late` | late answers | **violated** `NoFalseRegistration`: `bleRegister` returns OK for a session that is not registered |

The violations are disagreements between the code and its own comments and
documentation; `PROJECT.json` quotes them under `findings`.

### Bounds

The capacity of the first allocation is 1 in `conn_reliable` and `conn_refused`,
so that the array grows with the second and the third context; it is the code's
4 elsewhere. `MaxCtx` bounds the contexts that an application that fails again
and again leaves behind: 3 suffices without faults, where there is at most one
per device; 4 and 5 allow several stale contexts of one device in front of and
behind a live one. `MaxEvents` bounds what `ace_bt` has under way: a link
causes at most one event per change of state, so 3 lets each device have one and
the callback thread fall behind; with 2, `client` has an event under way while
another is handled. In `GattDb` it bounds requests and answers
together: 2 are those of a call and one that was made before it, or of a call
and a stray one. Two sessions let what the first leaves behind meet the second. `Rounds` is 2 where
`main` has 20: the state after a round is that after the first but for `i % 2`,
and a late answer of one round can only meet the next. `Functions` has one shim
of each form: with a flag, without, and with nothing to fall back to; the shims
share no state. The characters and digits of `Conversions` go past the limits at
12, 17 and 256; the lengths of `LogBuffer` lie on both sides of 512 and of the
buffer's end. In `TimedWait` and `GattDb` everything else is
finite by itself. `CHECK_DEADLOCK FALSE` stands where the bound on contexts stops
the application (`conn_refused`, `conn_faults`, `conn_shift`) and where a mutex
that is never released stops everybody (`gatt_once`, `gatt_clone`).

### Fairness

A thread inside a call and the callback thread keep running, and a thread that
finds its mutex free again and again gets it (strong fairness on the steps that
take a mutex). Deadlines pass. A waiter whose deadline has passed is noticed in
spite of spurious wake-ups: it waits again with the same absolute time, with
which `pthread_cond_timedwait` returns `ETIMEDOUT`. `ace_bt` finishes a request
one way or another. Nobody has to make a call, and no fault has to happen.

`main` keeps running, in its own code (the loops of ten `sleep(1)` end) or in the
library's; that btmanagerd answers a read or a write is not assumed, so that
`MainEnds` relies on the bounded waits. In `Shims` threads go on and stores reach
the other threads some time; `ChoicesSettle` needs both.

## Proofs

`TimedWaitProofs` proves for any sets of waiters, setters and flags, assuming
only that threads are distinct and that `NoThread` is none of them:

* `TypeCorrect`, `MutualExclusion`: types, and that the owner of the mutex is
  the thread between its lock and its unlock;
* `Refinement`: `TimedWait` implements `TimedFlag`;
* `OneWaiterNeverMisses`: with at most one waiter, `NoLostWakeup`. The
  assumption is needed: with two waiters on one condition variable
  `pthread_cond_signal` may wake the one whose flag is not set.

The inductive invariant `IInv` adds two facts to type and ownership: a waiter at
`success` still finds its flag set (it has held the mutex since its test, and
writers hold it too), and a waiter that gives up is late. The refinement needs
both at `Return`. Each proof of a step has one case per action.

`ConnectionProofs` begins with the `dca_*` functions: which context a search
finds, what `dca_add_new` adds and keeps, what `dca_remove` shifts. `TypeCorrect`
holds whatever fails; its invariant `Typed` adds that the array is in bounds
and that the indices in use name contexts. The rest needs an assumption each,
because the code is right only under one:

* `Prompt`: links do not drop and answers are not late; requests may be refused,
  connections may fail, and handles may be used twice. Then
  `HandlesFindTheirDevices` and `DeviceLinksImplemented`, the refinement, hold
  for any devices, handles and numbers of contexts. (The callback then runs only
  while the application waits, never next to `dca_add_new` or `dca_remove`;
  so nothing is stated about its pointer and its lock here.) At most one event is under
  way, and only during a call. `PromptInv` says for each place of the call what
  link, event, flags and handle are (`CallInOrder`), and that only the first
  context of a device ever gets a handle, that of the link (`HandlesInOrder`):
  a context that a failed `bleConnect` leaves behind may take the answer to a
  later one, which then times out, but no call hands out a wrong handle for it.
  With links that drop the refinement does not hold: a link may be gone when
  `bleConnect` returns its handle.
* `Reliable`: no faults. Then `OneContextPerConnection`, `AnswersReachCallers`
  and `NoCallFails`. `ReliableInv` adds to `PromptInv` that a device has one
  context at most (`OneEach`), with the handle that the application uses
  (`OwnHandles`), that a link without a handle is one that `bleConnect` waits for
  (`NoStrayLink`), and that the answer it waits for is on its way (`AnswerUnderWay`).
  `conn_retry` shows the need: one refusal, and an answer misses its caller.
* `Sheltered`: one device, and no more contexts than the first block has room
  for. Then `CallbackHitsContextOfOneDevice` and `NoOrphanedLockOfOneDevice` hold
  under all faults. `ShelteredInv` says that the callback works on the first
  context only (`AtTheFirst`), that a handle is known only while there is no
  other one (`CallerAlone`), and that this context is removed after it has heard
  the last event of its link (`LifeOfFirst`). With two devices `conn_shift`
  refutes `NoOrphanedLock`; a block that grows may be moved while the callback
  has a pointer into it.

`RegistrationProofs` proves for any sessions, kinds of events, callbacks and faults:

* `TypeCorrect`;
* `EventsAreHeard`: `ServerIsHeard`. The inductive invariant adds what a
  registration under way has stored at each of its steps (`Underway`), and that
  btmanagerd's clients are those of which the calls have said so (`Known`):
  without it, a roll-back might take the entries of a client;
* `NoNullCallOfGrowingStructs`: `NoNullCall`, if no struct of the application's
  lacks a callback of the one before. A wrapper about to call has seen the
  callback, and no exchange takes it away. The assumption is needed: with
  `shrink` the wrapper's second read may find NULL;
* `RolesAgreeWhenPrompt`: `RolesAgree`, if reports are not late. `PromptInv`
  adds that one session is open, that `ble_registered` agrees with what the
  calls have told (`FlagAgrees`), and that there is a report only while
  `bleRegister` waits for it (`ReportAwaited`). `reg_late` shows the need.

`GattRequestsProofs` proves `KeepsRegistration`, that the composition implements
`Registration` (so the theorems above hold of it), and `OnMeansOn` and
`OffMeansOff`, the two properties of notifications, from `ToldIsSo`: what was
told is so unless a `bleSetNotification` is between its two effects, and then
btmanagerd is as that call wants it.

It also proves `BufferFreed`: a descriptor's buffer exists only while
`bleWriteDescriptor` is at work (`BufferInHand`).

`GattDbProofs` proves `TypeCorrect` and, from it, `LockReleased`:
`NoOrphanedLock` whenever `aceBT_bleCloneGattService` does not fail. The run
`gatt_clone` shows that the assumption is needed.

The other three admit late answers, calls from callbacks, refusals, failures and
lost requests, and each needs an assumption:

* `DatabaseWrittenInScope`: `WritesInScope`, if the application keeps its variable
  (`Keeps`). The context's pointer is null or that of the last call's variable,
  which is in scope until the application disconnects (`PointersInScope`). Calls
  may be repeated and answers may be stray. A local variable that
  goes out of scope after a TIMEOUT is what the assumption excludes.
* `FreshDatabase`: `DatabaseDelivered`, if a connection makes each call once and
  no answer is stray. Until that call asks, no database is asked for, queued or
  in the callback's hands (`NoDatabase`), and `gattdb_retrieved` is clear; from
  then on the flag is set together with a write to the call's variable
  (`FreshInv`). `gatt_again` shows what happens to a second call.
* `DiscoveryComplete`: `DiscoveryFinished`, if no answer is stray; the call may be
  repeated. Every good answer in the queue, in the callback's hands or in
  `gattc_discovered` is one of this connection (`DiscoveryInv`), because
  `bleDisconnect` lets none through to the next.

`ShimsProofs` proves `TypeCorrect` and `RaceOnly` (`WrongOnlyInRace`) for any
threads and shims. The inductive invariant adds that a flag that is set tells of a thread
that has the pointer (`FlagMeansPointer`), and that a thread chooses because it
has the pointer or sees the flag (`ChoosesWithReason`).

`BasicUsageProofs` proves `MainIsCareful`, that every step of the example is one
of `GattRequests` or leaves its variables alone, so that what is proved there
holds for the example; and `ValueStaysSound`, because the value is freed, with
its pointer cleared, on every way to where it is filled (`ValueInOrder`).
`MainTypeCorrect` needs the lines at which a round may still begin
(`RoundInRange`). `AnswersComeInTurn` counts where the answer to a request can
be: with btmanagerd, among the events, in the callback's hands or in its flag,
in one of them at a time (`OnePlace`) and only at the line of its request
(`InTurn`). `MainKnowsItsRoles` carries `RolesAgreeWhenPrompt` over to the
example by `MainIsCareful` and `KeepsRegistration`.

`HelperProofs` states for inputs of any length what TLC checks on short ones:

* `EveryDumpIsWhole`: `DumpIsWhole` for any server and any lines;
* `BytesAreAnyDigits`: `BytesAreTheDigits` for any number of digits, and either
  letters;
* `SearchFindsFirst`: `FindsFirst` for any database;
* `AddressesOnly`: `AddressesAndNothingElse` for any six bytes and any string.

The folds of the community modules are defined by a recursive function that is
chosen (`CHOOSE`), and induction theorems that take an operator cannot be used
here. `FoldExists` therefore shows that this function exists, and
`FoldInduction` that a set which has the base and is closed under the step has
the result; both argue about a least counterexample, which exists because the
strict subsets of finite sets are well-founded. What remains is one step of each
loop: the buffer stays sound and whole (`Sound`, `Whole`), the search has found
the first match so far (`Right`), and `remove_all_chars` has kept the digits in
order (`Left`).

What TLC alone checks: liveness (`WaitReturns`, `CallsReturn`, `MainEnds`,
`ChoicesSettle`), which depends on fairness, which the prover does not treat.
Every other property of a passing run is stated by a theorem, for all values of
the constants that its assumption admits. What the runs show and no theorem
covers are `CallbackHitsContext` and `NoOrphanedLock` on the instances of
`conn_reliable` and `conn_refused`.

## Not modelled

* `compat_ace_utils.c`: `dump_*` print the structures of requests and change
  nothing; the same goes for the log lines and the prints of the example.
* `compat_ace_internals.h` declares the structures that are sent to btmanagerd.
  The models say who allocates, sends and frees a request, not how it is laid
  out; the clamping of lengths to 16 bits in the handler is left out with it.
* `enableRadio`, `disableRadio`, `getRadioState`, `isBLESupported` and
  `getSupportedSession` pass a call on to ace_bt. `adapterStateCallback` and
  `bleMtuUpdatedCallback` set flags that nothing waits for.
* `dca_free` has no caller. A `realloc` that fails in `dca_add_new` ends the
  program at its next access; `LogBuffer` has the one in `append_to_buffer`.
* Cleaning up a database (`bleCleanupGattService`) frees lists of ace_bt's; which
  of its owners frees what is decided there.

## Plan

1. Done: all components but the debug dumps, and the proofs above.
2. Open, models: a session that is registered twice as GATT client, and whose
   second registration fails; a report on a registration that is lost; what
   failed calls leave behind, as properties of their own.
3. Open, proofs: contexts of several devices while links drop, with the
   weakest condition on what the application does meanwhile; the `Prompt`
   theorems with late answers to `bleDisconnect` only.
