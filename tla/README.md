# TLA+ models of multi-input

multi-input is a native library, with a C API and a C# bridge for Unity, that
reports several keyboards, mice and gamepads separately. A *context* owns
*sources* (one per platform API), sources add *devices* to the context, a
device has *virtual axes*, and once per frame the client calls
`rb_minput_drain_events`, which lets every source read what its platform has
queued and then commits the next value of every axis.

The code is single-threaded. What makes it hard is that it runs against
concurrent partners, the kernel, udevd, the X server, the Windows message
queue, the macOS run loop, that act between any two of its system calls, and
that nearly every call may throw half-way.

Paths below are relative to `src/src/rb-minput/` unless they say otherwise.

## 1. Inventory

| Component | State | Operations | Talks to | What is hard | What makes it correct |
|---|---|---|---|---|---|
| evdev source `linux/evdev/evdev_source.*`, `evdev_handle`, `linux/poller`, `linux/udev_info`, `linux/fs`, `linux/file_descriptor` | four maps name/id/fd, poll list, `m_pending`, two inotify descriptors | enumerate, drain (inotify, udev notice, device input), add and remove a device | context; kernel, inotify, udevd | udevd tags a node after it appears; names and descriptors are reused; any look-up may find the pad gone; exceptions in the middle of a list | the maps agree; departures are never lost; arrivals are registered once udev has settled; ids are told once |
| evdev device `linux/evdev/evdev_device.*` | axes, `m_last_effect` | update, post_update, commit, vibrate | libevdev, device | kernel buffer overflow, garbage packets, half-done effect changes | no stuck buttons; the frame window moves once per frame; effects are not leaked |
| context `context.*`, `source.hpp` | sources, devices, next id, options | add source, drain, reset, add, remove, notify, find_first | all sources, client callbacks | a throwing source; re-entrant callbacks | the client's view is `m_devices`; one source's failure stays its own |
| device, axes `device.*`, `virtual_axis.hpp`, `axis_utils.*` | usable flag, three values per axis | set, add, commit, reset, derive | context | derived axes against their sources; window shifted twice | `previous` is the last frame's `current`; derived axes tell the same story |
| enumeration `enumeration.*` | a vector of device pointers | next, reset | context | pointers outlive devices | what `next` returns is a device of the context |
| C API `api.*` | none | argument checks, `with_guard` | context | an exception ends a call half-way | every call returns; bad arguments change nothing |
| xi2 source and device `linux/xi2/*` | map of X11 numbers to ids; axes | hierarchy events, raw events, enumerate | X server, context | numbers are reused; the device named by an event is queried later | as the evdev source; motion adds up |
| raw input `windows/raw_input/*` | map of handles to ids; axes | arrival, removal, input from the window procedure | Windows, context | runs outside of drain_events | as above; motion adds up |
| xinput `windows/xinput/*` | four slots, packet number, rumble timer | poll, vibrate, expire | Windows, context | disconnected pads, failing expiry | usable tells the truth; rumble stops |
| HIDManager `osx/hidm/*` | map of handles to ids, effect | matching, removal, input, vibrate | run loop, context | callbacks repeat enumeration; effect steps fail | no device twice, none for an address used again; effects are not leaked |
| Unity bridge `../unity-bridge/*` | dictionary of devices, ready flag | create, device callback, FindFirst | C API | events before it is ready | `Devices` is the context's list |
| options, logging, platform helpers, HID dumps, `../test`, `../osx-hid-report.cpp`, `vendor/` | options only | output, wrappers | | | not modelled, see section 13 |

Interaction: `context` constructs each source, calls `enum_devices` and keeps
the source only if neither threw (`context.hpp:95`). Sources call back into
`context` to take ids, add and remove devices, which calls the client's device
callback synchronously. The context calls `drain_events` of every source, then
`commit` of every device. The sources share nothing but the context; devices
share nothing but their source's platform handle. On Windows and macOS devices
come and go, and input arrives, from callbacks that the client's own message
loop or run loop makes between two drains.

The hazards of the code, each at its line and with the properties that watch
it, are listed in `PROJECT.json`. Where the code does go wrong, and a property
holds only because it leaves that case out, the hazard names no property and its
note says what is left out.

## 2. Modules

| Module | Models | Uses | Proofs |
|---|---|---|---|
| `DeviceLifecycle` | the abstract promise of every hot-plug source to the client | | |
| `Maps` | `std::unordered_map` as the sources and the context use it | | |
| `EvdevSource` | Linux gamepads: hot plug, device map, poller, drains | refines `DeviceLifecycle` | `EvdevSource_proofs` |
| `PadPipeline` | a Linux gamepad's input, from the kernel to the client | | `PadPipeline_proofs` |
| `XInputSource` | Windows gamepads | | `XInputSource_proofs` |
| `UnityMirror` | the dictionary of the Unity bridge, a client of the next three | `Maps` | |
| `Xi2Source` | Linux keyboards and mice: the source | `UnityMirror`, refines `DeviceLifecycle` | `Xi2Source_proofs` |
| `RawInputSource` | Windows keyboards and mice: the source, SetupAPI | `UnityMirror`, refines `DeviceLifecycle` | `RawInputSource_proofs` |
| `HidmSource` | macOS: the source | `UnityMirror`, refines `DeviceLifecycle` | `HidmSource_proofs` |
| `KeyMousePipeline` | input of a keyboard or mouse of the three platforms, and of a macOS gamepad, to the axes | | `KeyMousePipeline_proofs` |
| `ForceFeedback` | rumble effects on Linux and macOS | | `ForceFeedback_proofs` |

`MC<module>` instantiates each for TLC; the `.cfg` files give the constants.
Two things are left of the plan: `LinuxContext`, both Linux sources in one
context, and a client that drains in the middle of an enumeration.

Modules are parameterised by CONSTANTS with a named assumption, have one action
per call or per stretch of code between two moments at which the environment may
act, use no RECURSIVE operator, and keep proofs in a module `<name>_proofs`.
Each run answers questions that need the same constants: a composition with the
client is checked in the run of the source. An operator named after a mistake
(`NextIdStuck`, `AlreadyNever`) is no part of a model: it is what a definition
is replaced by to see that a property notices.

## 3. Hot plug on Linux: `EvdevSource` and `DeviceLifecycle`

`DeviceLifecycle` is the abstract specification: `told` maps an id to the last
of `created` and `removed` the client's device callback received for it. A step
may announce new ids, each above every id heard of before, and may take an
announced device away, for good.

`EvdevSource` is the source, the poller, the part of the context it drives and
the partners it races with.

| In the model | In the code |
|---|---|
| `nameToId`, `idToName`, `fdToId`, `idToFd` | the four maps of `evdev_device_map`; `Emplace` keeps an existing key, as `unordered_map::emplace` does |
| `polled[fd]` | how many entries of `m_poller.m_fds` hold `fd` |
| `pending` | `m_pending` |
| `inotify`, `settled` | the event queue of `m_inotify` on /dev/input; that `m_inotify_udev` on /run/udev is readable |
| `devices`, `nextId`, `told` | `m_devices` (id to handle), `m_next_unique_id`, the device callbacks |
| `uncommitted`, `unread` | ids with input no commit has shown; descriptors with input not read. What the input is, is the business of the pad pipeline |
| `source` | inside `context::add_source`; in `m_sources`; destroyed because it threw |
| `outcome` | how the last enumeration or drain ended: `ok` or an errno |
| `pc`, `adding`, `handle`, `ready`, `readyUdev` | where the call in progress is, and its locals |
| `present`, `gen`, `udevQueue`, `udevDb`, `access` | the kernel's nodes, how often a name was plugged in, udevd's queue, the ID_INPUT_JOYSTICK tags in /run/udev/data, node permissions |

The program counter stops before each system call that looks at something the
environment may change: the listing of /sys/class/input, `realpath`, the udev
database, `open`, `libevdev_new_from_fd`, `poll`, every read of inotify, every
`libevdev_next_event`. Everything between two of them is one action: making a
device, for instance, removes the former device of the name, takes an id, adds
the device to the context, maps it and polls it (`RegisterDevice`). The order
of the ready device descriptors is left open, which covers every order; the two
inotify descriptors come first, as the constructor adds them first.

`Throw(errno)` is what an exception does: during enumeration the source is
destroyed and its devices stay in the context; during a drain the rest of the
drain and the commit are skipped and the API call returns 0.

The environment acts at any step: `Plug`, `Unplug`, `UdevProcess(n)` (udevd
works off the uevents of a name, tags it, opens its node to the user and, when
nothing is queued, deletes /run/udev/queue), `UdevForget(n)` (only its removal
so far), `UdevOther` (a settling caused by other devices), `Press`. The constant
`Upsets` names the awkward moments at which it may act, so that a run can say
which of them a property survives:

| Upset | Without it |
|---|---|
| `early` | udevd has handled every pad that is plugged in when the source starts |
| `overlap` | nothing is plugged in between udev's notice and the end of the loop over `m_pending`, or during enumeration |
| `replug` | a name is not used again before udevd saw its removal |
| `flicker` | a pad is not unplugged while the source is still adding it |
| `yank` | a pad is not unplugged with unread input |

### Runs

| Run | Question | Result |
|---|---|---|
| `evdev_upset` | with every upset, do maps, context, poller and client agree, is a departure ever lost, is each served, does a drain return, is the life cycle refined | holds |
| `evdev_calm` | without upsets, is every pad registered when all is quiet, and its input committed | holds |
| `evdev_overlap` | a pad that arrives while a settling is acted upon | it is skipped as untagged, or queued too late, and forgotten (`evdev_source.cpp:238`) |

What else the code does in states the model reaches, without a run of its own:

* A pad pulled out with unread input makes the drain throw (`evdev_source.cpp:253`),
  and no device of any source is committed in that frame; the next drain goes on,
  which is why `DeparturesServed` holds all the same.
* A joystick the user may not open makes the constructor of the handle throw,
  before the branch that skips such devices (`evdev_source.cpp:85`); the source is dropped.
* A source that throws during enumeration leaves the devices it had added in
  the context for ever, where nothing updates them (`context.hpp:99`).
* A name that is gone when udev settles makes `canonical` throw
  (`evdev_source.cpp:70`): it stays in `m_pending`, and the names behind it wait
  for the next settling.

Bounds: two names and three descriptors, so that a replacement opens its
descriptor while the old one is still open and a number is reused.
`evdev_calm` has three arrivals: a name is plugged in, out and in again while
the other name is in any stage. `evdev_upset` has two, one replacement or two
pads at once, at any moment. The invariants of both are also proved for every
constant (section 12). The liveness properties rule out symmetry. One press and, in
`evdev_calm`, one foreign settling set a flag each and may happen at any step.
Deadlock is checked: the client can always drain.

Fairness: `FairSpec` has weak fairness of the library as a whole, because the
client calls `drain_events` every frame (`src/src/test/main.cpp:178`,
`InputState.cs` `DoUpdate`) and a thread in a call runs on, and of
`UdevProcess(n)`, because udevd works through its queue. Nothing is assumed of
plugging, unplugging, pressing and foreign settlings. That a drain ends rests on
input being bounded: a device that delivers events faster than they are read
keeps the loop of `process_device` busy.

## 4. The way of a pad's input: `PadPipeline`

One pad of the evdev source, from the kernel to the client.

| In the model | In the code |
|---|---|
| `physical` | what the pad's buttons and sticks are |
| `buffer` | the kernel's event buffer of this reader; when it is full it is emptied and holds SYN_DROPPED and the latest event |
| `queue`, `resync` | events libevdev has read and not returned; that it has reported SYN_DROPPED |
| `next`, `current`, `previous` | `m_next`, `m_current`, `m_previous` of every `virtual_axis` |
| `pc` | where `drain_events` is: between drains, in the loop of `process_device`, before `post_update`, before the commit |
| `Change` | a new input, at any step, in the middle of a drain too |
| `ReadEvent`, `ReadDropped`, `ReadNothing` | a round of the loop of `process_device`: an event, `LIBEVDEV_READ_STATUS_SYNC`, nothing left |
| `PostUpdate`, `Reset` | the count of held buttons and `device::reset` |
| `AnotherFails` | an exception of another device of the source: neither `post_update` nor the commit runs |
| `Commit`, `Derived`, `Shift` | `evdev_device::commit`: derived axes, then the window |
| `SetValue`, `AddValue`, `CommitValue`, `ResetDevice` | the API calls, between two drains |

`poll` finds the pad ready, or another descriptor only (then `post_update` runs
all the same), or none (then it does not). Values are integers in units of
`1 / Full`, so that the two sides of a stick whose raw range is not symmetric
divide without rounding. `shown`, `wiped` and `trusted` are history: what the
client saw before this drain, whether `post_update` reset the device in it, and
which inputs were last written by an event. evdev pads are always usable. The
triggers, mapped like a stick axis with one side, and the vertical d-pad axis,
made like the horizontal one, are left out. An event is one change of one input:
the SYN_REPORT that ends a packet changes nothing in `update`.

| Run | Question | Result |
|---|---|---|
| `pad_safety` | with dropped events, garbage, failing drains, inputs held at the start and writes by the client: do derived axes agree with their sources in both frames, is an input lost that the kernel kept, does the window move once and does the client see every button edge | holds |
| `pad_garbage` | with dropped events and garbage: is garbage ever shown, is a value out of range, is an input that stays shown | holds |

`WindowMovesOnce` and `InSync` leave out two things the code does. When
`post_update` finds garbage while a button is held, `reset` commits and then the
drain commits: previous and current are both zero, and the release is an edge in
no frame (`evdev_device.cpp:278`). And when the kernel drops events,
libevdev's synchronisation is never asked for: an input that changed back among
the dropped events keeps its value until it changes again
(`evdev_source.cpp:249`).

`GarbageNeverShown` has limits the code sets. `post_update` looks only at what
is held when it runs, in a drain in which something was ready and no device
threw: with `"failure"` in `Upsets` the garbage read in a drain that fails is
committed by the next one, and a client that writes values can make any frame
look like garbage. The count itself has `pad_x` twice and `pad_y` not at all
(`evdev_device.cpp:246`), so the property counts the buttons the code looks at,
each once.

Bounds: four buttons, two of them the d-pad and the two that are counted
differently among them, and one reversed stick; the limit of six held buttons is
a constant and is three here, so that the double count and the limit can be
reached with four buttons and three changes; a buffer of two events, so that
it overflows. In `pad_garbage`, raw ranges of three values on one side and two
on the other have a dead zone, its edge, an inner value and the negated minimum.
One API call or failure at any point of the run.

Fairness: weak fairness of `DrainEvents`, for the reasons given above.
`ReadEvent` is not starved by a pad that keeps changing only because changes are
bounded.

## 5. XInput: `XInputSource`

| In the model | In the code |
|---|---|
| `connected`, `physical`, `packet` | the pad of a slot, its state, and `dwPacketNumber`, which the driver raises with every change |
| `motor`, `elapsed` | whether its motors run; whether the clock has passed the end of the last effect |
| `usable`, `state`, `playing` | `m_is_usable`, `m_state`, `m_last_effect_playing` |
| `next`, `current` | the axes. All are written together, so one value stands for them |
| `known` | what the created, usable and unusable events have told the client |
| `prevPacket`, `slot`, `pc` | the local of `update`; the loop of `enum_devices` or `drain_events` |
| `CreateDevice` | the constructor, which updates the device, and `add_device` |
| `ReadState` | `update` up to the call that stops a rumble, or to its end when there is none to stop |
| `StopMotors`, `StopFails` | `do_vibrate(0, 0)` and the rest of `update`; the same when `XInputSetState` reports an error and an exception ends the drain |
| `Vibrate`, `ResetDevice` | the API calls |
| `Plug`, `Unplug`, `Change`, `Elapse` | the pads and the clock, at any step |

`XInputGetState` is taken to leave the structure alone when the slot is empty.
`Upsets` says whether `XInputSetState` may fail with a pad in the slot
(`"failure"`), and whether a pad that is plugged in may report the very packet
number last read from its slot (`"reuse"`); then its state is not read until it
changes, which is why `InSync` excludes it. `trusted` is history: slots whose
axes were last written by a packet.

| Run | Question | Result |
|---|---|---|
| `xinput` | is a motor that runs always known to be playing, does every rumble end, is the client's view of usability the device's and does it follow the pad, is a packet that was read on the axes, is a state that stays shown | holds |

A failure to stop a rumble in the drain that reads a new packet leaves the packet
stored and the axes unwritten, and the next drain takes it for one it has seen
(`xinput_device.cpp:116`): the axes of that slot are not `trusted` any more, and
`InSync` and `InputShown` leave it out. The run has no reuse of packet numbers;
the proofs allow it.

Bounds: two slots, so that an exception in the first skips the second; two
packet numbers, one call and one failure. Fairness: of the library, as above,
and of the clock. `RumbleStops` holds because calls and failures are bounded: a
client that vibrates in every frame keeps the motors running, and a slot whose
motors cannot be stopped for good fails every drain.

## 6. The Unity client: `UnityMirror`

`InputState.cs` keeps a dictionary of devices of its own. It ignores device
callbacks until it has listed the devices once (`_ready`), drops an entry on
"removed", and makes one on any other event about an id it does not have.

| In the model | In the code |
|---|---|
| `mirrorReady`, `mirror` | `_ready`; `_devices`, id to "named" or "nameless" |
| `ListDevices` | `CreateContext`, after the native context exists: the enumeration, walked to its end |
| `Removed`, `Notified` | `DeviceCallbackImpl` |
| `GetDevice` | the entry, made now where there is none; `NativeDevice` reads the metadata in its constructor and never again, so an id the library does not know yet stays nameless |
| `Found` | `FindFirst`: the callback and `Run` after it |

It is no specification of its own: the three sources below extend it, and each
of their actions that makes the context notify the client changes the dictionary
in the same step, as the callback is synchronous. `OneList` of each of them says
that the context's devices, the events the client was told, its dictionary and
the map of a live source are the same devices, each once.

## 7. Keyboards and mice on Linux: `Xi2Source`

| In the model | In the code |
|---|---|
| `attached`, `enabled`, `gen` | the server's slave devices; how often a number was given out |
| `node` | numbers whose event node is still in /sys/class/input: the kernel removes it before the server forgets the device |
| `namesUse` | whether the server fills in the use of a device it has removed. If it does not, `is_slave_device` takes the device for a master and its removal is not noticed |
| `events` | the X connection: hierarchy events, which list every device with flags, raw input, and events nobody asked for |
| `devices`, `nextId`, `told`, `uncommitted` | as in `EvdevSource` |
| `source`, `map` | the source's life in `context::add_source`; `m_device_map` |
| `pc`, `todo`, `current` | the call in progress; the infos still to be processed; the device handed to `add_device` |
| `Connect`, `ConnectFails`, `EnumDevices`, `EnumDone` | the constructor and `enum_devices` |
| `AddDevice`, `AddThrows`, `SkipUninteresting` | `add_device`, which removes the device of the same number, takes an id, and constructs a device that may throw as its node cannot be resolved |
| `DeviceEvent`, `SkipOther`, `HierarchyEvent`, `FinishDrain` | a round of `drain_events`, and its end with the commit |
| `RemoveDevice`, `QueryDevice`, `SetUsable`, `SkipInfo` | `on_hierarchy_event`; the device it names is queried now, when it may be gone or another one |
| `FindFirst` | `context::find_first`, which skips unusable devices |

The server acts between any two requests of the library: `Plug`, `Yank` (the
node goes), `Detach` (the server notices), `Toggle`, `Press`, `Remap`.

| Run | Question | Result |
|---|---|---|
| `xi2` | do context, client, events and map hold one list; when all is read, are the devices those of the server in their present incarnations, and usable as they are enabled; does input never go to an older device of the same number; is the life cycle refined; is input that was read shown in the end | holds |
| `xi2_nameless` | does the client know the name of each usable device | no: the constructor calls `set_usable(false)` for a device that is disabled (`xi2_device.cpp:113`), before the context knows the id; the client makes an entry without metadata and keeps it |

`SettledAgrees` looks at states in which no event waits and no device hangs
between kernel and server. A device whose removal carried no use stays in the
map there, unusable; with `namesUse` there is none. `RoutedForward` has
`namesUse` as a premise, because without it a number may be used again before
the library has heard of the removal.

The Xlib default error handler, which ends the process on BadDevice when a
device goes in the middle of a request, and a server whose slaves have no nodes
at all (Xwayland, Xvnc), for which every enumeration throws, are left out.

Bounds: a keyboard and a mouse, the server's XTEST device, three arrivals, so
that a number is used again while the library has not heard of the removal or
of the first arrival, one switch of the enabled flag, one press, up to three
events waiting (one action may send two). Deadlock is checked.

Fairness: of the library, and of the client's listing of the devices at the
start, after which it drains in every frame.

## 8. Keyboards and mice on Windows: `RawInputSource`

Arrivals, removals and input are messages of a hidden window. The client's own
message loop dispatches them, between the calls of the library; `drain_events`
does nothing, and the context commits.

| In the model | In the code |
|---|---|
| `present`, `used`, `listed` | attached devices; handles given out; the devices SetupAPI lists, which with `"lag"` in `Upsets` lags behind Raw Input; with `"throw"` a call of it may fail |
| `messages` | the window's queue. When it is registered, Windows may announce the devices that are there already |
| `setup` | `found_devices`: the SetupAPI list, one for all devices of the enumeration, one for each arrival |
| `todo`, `pc` | devices still to be added, and where the call is |
| `Connect`, `ConnectFails`, `ListRawDevices`, `ListFails`, `EnumDone` | the constructor and `enum_devices`, which throws when the number of devices changes between its two queries |
| `EnumerateDevices`, `EnumerateFails` | `enumerate_devices` of `setupdi.cpp`: it returns a list, or throws because SetupAPI fails for the list or for any device of it |
| `SkipKnown`, `AddThrows`, `SkipUnlisted`, `SkipOther`, `AddDevice` | the ways through `add_device` |
| `Arrival`, `Removal`, `Input` | the window procedure |
| `missed` | history: devices whose last look-up came before SetupAPI listed them, or was ended by an exception |

| Run | Question | Result |
|---|---|---|
| `raw_input` | with devices that come and go before, during and after the enumeration: is there one list; with no message left, are the devices those attached; is the life cycle refined | holds, but for `missed` devices |

A device that SetupAPI lists too late is skipped for good, unless it is announced
again. So is one for whose arrival `enumerate_devices` throws
(`raw_input_source.cpp:167`), be it because of another device that goes in the
middle of the loop: the message is done with and nothing looks again.
`SettledAgrees` excludes exactly these; what it says is that no other device is
missing or left over, and that an announcement behind a failed look-up makes up
for it. That none is missing where SetupAPI neither lags nor fails is proved
(`AllRegisteredCorrect`, section 12); TLC finds a device that stays away with
either of the two. An exception of `enumerate_devices` in the first enumeration
drops the source.

The loop of `enumerate_devices` does not advance behind a device without a name
(`setupdi.cpp:242`) and never ends; `Enumerates` is the guard that keeps the
model from going on then, and the run has no such device. Further weaknesses
without a property: a device that goes between listing and adding drops the whole
source during enumeration; an exception of the window procedure passes through
`DispatchMessage`; the list of devices to ignore (remote desktop) is compared
with the name instead of the instance id (`setupdi.cpp:105`); a constructor that
throws behind `CreateWindowEx` leaves the window with a dangling pointer.

Bounds: a keyboard, a mouse and a device of another type, each of which may be
there from the start, come and go; up to five messages waiting, so that the
announcements of the registration wait together with a removal and input; two
inputs. Handles are not reused by Windows. Deadlock is checked.

## 9. macOS: `HidmSource`

The manager calls back from the client's run loop: for devices that match, once
more for each device that was enumerated, for removals and for input.

| In the model | In the code |
|---|---|
| `present`, `used` | the kernel's devices; one that is attached again is a new one |
| `managed` | the objects of the manager, address to device |
| `repeats`, `values` | what the manager still has to call back for: matches it repeats, and input |
| `callback` | the input callback of each object, with the device it was registered for |
| `Retained` | addresses the library keeps from being used again: each `hidm_device` retains its handle |
| `Connect`, `Fails`, `EnumDevices`, `AddEnumerated`, `Schedule` | the constructor and `enum_devices`; opening the manager may fail, for instance without the permission to monitor input, which drops the source |
| `AddDevice`, `Create`, `RemoveDevice` | the same and their constructors and destructors; a device without a name is skipped |
| `Repeat`, `DeviceMatches`, `DeviceRemoved`, `Input` | the callbacks |
| `DrainEvents`, `Destroy` | the commit; the end of the context, devices before sources |

| Run | Question | Result |
|---|---|---|
| `hidm` | is there one list, input callbacks included; when nothing is left to call back for, are the devices those attached with a name, usable when they have axes; is the life cycle refined | holds |

Bounds: four devices and three addresses, so that an address is used again; one
device without a name and one without axes; two inputs. Deadlock is not checked,
because the client may destroy the context.

## 10. Input of keyboards, mice and macOS gamepads: `KeyMousePipeline`

One device of any of the three sources. On Linux its events wait in the X
connection and a drain reads them until there are none; on Windows and macOS
they wait for the client's loop, and a drain only commits.

| In the model | In the code |
|---|---|
| `dev` | platform, sort, number of buttons, whether it reports positions |
| `held`, `position`, `numLock`, `layout` | the user's fingers, a stick, the locks and the layout the key codes depend on |
| `MapKeyCode`, `Fixup`, `MapToInputCode`, `RawCode`, `AxisMap` | the key tables, cut down to the keys they treat differently: keys that share an axis, depend on NumLock, the extended flag or the layout, or have none |
| `AddKeyClass`, `AddButtonClass`, `AddValuatorClasses`, `RawAxes`, `HidmAxes` | the axes the constructors make |
| `RawValue` | the n-th value of a packed raw event, which holds only the valuators whose bit is set |
| `UpdateMotion`, `UpdateMouse`, `UpdateKeyboard`, `OnInput` | the updates of the three devices |
| `Derived`, `PostCommit`, `Commit` | the halves of each axis, the reversed vertical motion, motion set back to zero |
| `DrainFails` | another device or source throws: nothing is committed in this frame |
| `moved`, `shown`, `lost`, `torn` | history: motion made, committed, overwritten; key axes that a layout change may tear from their keys |

| Run | Question | Result |
|---|---|---|
| `keymouse` | does no key stick; is all motion shown or waiting, once; are gamepad values in range and axes where the constructor made them; is all motion shown in the end | holds, with the exceptions named |

The exceptions are what the code does:

* `torn`: a layout change while a letter is held maps the release to another axis
  on Linux and Windows, and the first one stays pressed.
* `lost`: on macOS the second motion report of a frame takes the place of the first
  (`hidm_device.cpp:756`), where Linux and Windows add. `Conserved` says that this
  is all that is lost.
* A pointer that reports positions: the movement is computed against the raw
  position of the same packet, as the former one is never stored
  (`raw_input_device.cpp:249`). `Conserved` leaves these axes out.
* Keys that share an axis (Home and Begin, the two commas) release it together.

Bounds: every device of `MCDevices`, with two, three and four buttons around the
limits of the button tables; three acts of the user, enough for a key to be
pressed, something to change, and the key released, two events waiting, one
failing drain. Reports of one or two valuators, with a different amount for each,
so that no sum hides a mix-up. A client that never drains is excluded by weak
fairness of the drain; the client's loop has strong fairness, because it runs
between drains, when it is enabled again and again.

## 11. Rumble effects: `ForceFeedback`

`vibrate` of `evdev_device` and of `hidm_device`: remove the former effect, make
the next, start it. Each step may fail, and the pad may be pulled out, or another
program use its memory, between any two.

| In the model | In the code |
|---|---|
| `owner`, `playing` | the effects in the memory of the pad, and whose they are |
| `last` | `m_last_effect` |
| `Vibrate`, `Valid`, `CanVibrate` | the checks of `rb_minput_vibrate` and of the device |
| `RemoveLast`, `CreateEffect`, `Start`, and `...Fails` | the steps of `vibrate` and the exceptions they may end with |
| `DestroyDevice` | the destructors, and the kernel freeing the effects of a closed descriptor |

The run `effects` shows that the effect the device remembers is the only one it
has in the pad, that nothing else of it plays, and that a device that is gone
has none. Three places, so that other programs can fill the memory, or leave one;
four calls, so that a call follows each way the former one can fail. Deadlock is
not checked: the pad may be gone for good.

Without a property: on Linux `play.value = 3` plays the effect three times, so it
lasts three times the duration that `IDevice.cs:167` documents; the left motor's
strength is scaled by 16384 and the right one's by 65535. On macOS the former
effect object is unloaded and not released, which leaks the object, not the
pad's memory.

## 12. What is proved

Each proof holds for every value of the constants that the named assumption of
the module admits, and uses nothing else.

`EvdevSource_proofs` (`ConstantsAssumption`):

* `TypeCorrect`. The inductive invariant is `TypeOK /\ Control`; `Control` says
  that a call that has a name or a handle in hand really has, and that the
  descriptor of a handle not yet registered belongs to no device (needed for
  `Emplace` to take effect).
* `MapsAlwaysAgree`: the four maps, `m_devices` and the poller tell one story
  while the source lives. The environment touches none of the variables, and of
  the library's actions only registering, deleting and throwing do. The lemmas
  `RemoveAgrees` and `AddAgrees` carry it: taking a name out and putting a fresh
  id, name and descriptor in preserve agreement, and `RegisterDevice` is their
  composition. The assertions of `evdev_source.cpp:117` and `:169` follow.
* `DeparturesNeverLost`: a registered device whose node is gone has its DELETE
  queued. Uses `MapsAgree` (a name has at most one device, so handling a DELETE
  removes the stale one) and that a handle is registered only while alive.
* `ClientAlwaysAgrees` and `ImplementsLifecycle`: the client's view is
  `m_devices`, and every step maps to an announcement of `DeviceLifecycle` or a
  stutter.
* `NeverLost`: when all is quiet, every pad is registered. Its hypothesis `Calm`
  excludes the upsets `early`, `overlap` and `flicker` and pads the user may not
  open; with any one of the four admitted TLC finds a pad that is forgotten.
  `replug` and `yank` are admitted. The invariant `Served` has four parts: where
  the library is and what it has in hand (`Places`), that udevd is done with the
  names not in its queue (`UdevDone`), that a settling is to come for whatever
  waits in `inotify` or `m_pending` (`Triggered`), and that each pad is registered
  or waits to be added, with no DELETE of it left to be read but before a CREATE
  (`Remembered`). The last is why a quick replug loses nothing: inotify keeps the
  order of the two, and the DELETE takes the name from the map first.

`PadPipeline_proofs` (`PadAssumption`):

* `TypeCorrect`. It needs that `Deliver` respects the buffer's size, which takes
  at least two places, and that `Derived` and `MapInput` give integers.
* `DerivedCorrect`: the invariant is that `current` and `previous` each tell one
  story. Only `Shift` of a derived frame or of zeros changes them, and the lemma
  `DerivedFits` says that deriving makes a story of any frame.
* `WindowCorrect`: `shown` is `current` from `StartDrain` to the commit, unless
  `wiped`. An action property, from an invariant over `pc`.
* `GarbageCorrect`: assumes that nothing fails and the client writes no values.
  Between drains the next values are no garbage either, so a drain that skips
  `post_update` commits none; between `post_update` and the commit nothing is
  read. `CommitValue` of single axes is covered, because deriving changes no button.
* `RangeCorrect`: from `ApplyDeadzoneBounds`, which is where the clamp is needed,
  and nonlinear, so it rests on two lemmas about products.
* `SyncCorrect`: what is on its way is *truthful*: as long as nothing is dropped
  from it, the last event of an input is what the input is (`TruthfulTail`,
  `TruthfulAppend`). A trusted input with no event on its way is matched by its
  axis (`MapInputFits`), and `resync` leaves no input trusted.

`XInputSource_proofs` (`XInputAssumption`):

* `TypeCorrect` and `UsableCorrect`, each inductive by itself.
* `MotorCorrect`: strengthened by "a motor that runs has a pad", since the flag
  is cleared when the pad is found gone.
* `SyncCorrect`: the packet numbers read never exceed the pad's, equal numbers
  are equal states, and a trusted slot's axes hold the packet last read or are
  about to be written.

The next three each begin with lemmas on the maps and on the client's dictionary:
what `Put` and `Drop` do to a map's type and domain, and what each callback does.

`Xi2Source_proofs` (`ConstantsAssumption`):

* `TypeCorrect`, `OneListCorrect` and `ImplementsLifecycle`, from one invariant:
  the types, `OneList` with the condition on the map of a dropped source weakened
  to what its empty map gives, and `Control`, where a call may be and what it has
  in hand. `AddKeeps` and `AddThrowsKeeps` are the heart: a device of the same
  number goes in the step in which its successor takes an id.
* `RoutedCorrect`: input never goes to an older device of its number. The
  invariant `Routes` says that what the library has, or is about to add, is
  either present in the server or has its removal on the way, and that input of a
  later incarnation waits behind that removal. It needs that one hierarchy event
  does not both add and remove (`Single`), since `on_hierarchy_event` works off
  its infos in no fixed order.
* `SettledCorrect`: with no event left to read, the map has the devices attached,
  each with the flag the server has for it; others are there only where the server
  no longer names the use of a removed device, and are not usable. `Shapes` is
  what an event looks like. `Flags`: a flag that is wrong, in an event that waits,
  in the map or in hand, is set right by an event behind it. `Registered`: a
  device that is attached is in the map, in hand, or added by an event that waits,
  and behind whatever is about an earlier device of its number it is added again.
  An event that adds is not relied on for flags, because the exception for a
  device that is gone gives up the rest of its infos.

`RawInputSource_proofs` (`RawAssumption`): `TypeCorrect`, `OneListCorrect` and
`ImplementsLifecycle`, from the types, `Announced` (what add and remove keep),
`Mapped` (of a live source) and `Dropped` (nothing is done for a dropped one).
`SettledCorrect`: with no message left, the map has the devices attached, but for
those whose last look-up failed. A device of the map is attached or its removal waits
(`Leaving`), a handle whose removal waits is not attached again (`Retired`), and a
device that is attached and neither in the map nor looked up in vain is in hand or
its arrival waits (`Coming`, `InHand`). `Retired` rests on Windows not reusing a
handle, as the model has it. `AllRegisteredCorrect` assumes that `Upsets` is empty
and has every keyboard and mouse attached in the map: then SetupAPI lists what is
attached, and only devices that are gone are looked up in vain (`KeepsUp`).

`HidmSource_proofs` (`HidmAssumption`):

* `TypeCorrect`, `OneListCorrect`, `ImplementsLifecycle`, from the types, the lists,
  `Control`, and that the map's addresses are the manager's.
* `SettledCorrect`: no address of a former device is taken for a new one. The
  strengthening says that a device of the map is what its address stands for now
  (`Faithful`), and that once the source runs, each object of the manager that is
  attached, has a name, and is owed no callback is in the map (`Served`).

`ForceFeedback_proofs` (`SlotAssumption`): `TypeCorrect`, and `NothingForgotten`,
whose property with the types is inductive.

`KeyMousePipeline_proofs` (`PipelineAssumption`), for any set of devices of the
three platforms and any reports they send, from `TypeOK`, `Frames`, `Balanced`
and `Follows`:

* `TypeCorrect`, among it the range of a macOS gamepad's axes.
* `ConservedCorrect`: motion is shown, waits or is recorded as overwritten, once.
  `Balanced` has running totals over the queue of events, which need no recursion:
  `AddsConcat` and `AddsTail` extend and shorten them, and an update moves the
  first event's part from the queue to the next frame. `PackedValues` shows that
  the n-th value of a packed raw event belongs to the n-th valuator of its mask.
* `FollowsCorrect`: with all events read, no axis of the next frame is pressed whose
  keys are all released, a held key that has its axis alone presses it, and a
  gamepad's stick is where its axis says. `Follows` says what an axis comes to when
  the queue has been read: what the last event that writes it says, or else what
  it is (`ComesConcat`, `ComesLast`, `ComesTail`). `UpdatedRenewed` says of
  each of the three updates which axes it writes and that it leaves the others.

Two corrections of the model came from the attempt: the guards of a CASE in `Keys`
overlapped, which leaves the choice open in TLA+, and a report without valuators
was admitted, with which a keyboard of the model would have sent mouse packets.

Model-checked only: properties under fairness (`DeparturesServed`,
`ArrivalsServed`, `InputServed`, `InputShown`, `RumbleStops`, `PresenceTold`,
`MotionShown`), since liveness and ENABLED are out of the prover's reach. Every
other property of a run that is expected to hold is proved. The types of
`RawInputSource`, `HidmSource` and `ForceFeedback` are proved only.

## 13. Not modelled

* Options, logging, formatting, tracing: no property is about them. Error
  formatting, CoreFoundation conversions and WinAPI wrappers are stateless.
* HID dumps, the HID report tool and the input code names: output and lists.
* The test program, beyond its drain loop, the Unity bridge beyond its device
  list and button edges, and vendored Boost.
* The enumeration's vector of device pointers: a client that drains before it has
  walked to the end reads freed memory, which no state of a model follows. Both
  clients in the repository walk it at once.
* Two sources in one context. They share the counter of ids, the device map and
  the drain, whose exception skips the other source and the commit; the pipelines
  have that exception as an action (`AnotherFails`, `DrainFails`).
* In `EvdevSource`: inotify queue overflow, running out of descriptors, failing
  reads of inotify itself, allocation failure.
* In `PadPipeline`: reads that fail (see `EvdevSource`), and several pads, which
  share nothing but the drain.
* In `XInputSource`: the 2^32 packets after which numbers start again, the mapping
  and derivation of axes (`PadPipeline` has their like), the strength of a rumble,
  the ids of the slots, and calls a client makes from inside its device callback.
* In `Xi2Source`: errors of the connection. In `HidmSource`: that a client runs
  the run loop from inside of a device callback.
