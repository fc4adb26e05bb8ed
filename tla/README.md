# Verification of the V4L2 / DMA-BUF / Wayland pipeline

The repository holds a *publisher*, which captures camera frames with V4L2, and a
*subscriber*, which shows them in a Wayland window. Frames are never copied: the
publisher sends DMA-BUF descriptors of all capture buffers once, and then one
buffer index per frame. The pipeline exists twice, in C++ (`src/`, `include/`) and
in Rust (`rust/`), call for call alike and interoperable; the Rust workspace adds
`publisher_dma`, which imports buffers from a DMA heap.

This directory holds TLA+ models of it, the TLC runs that check them on small
instances, and theorems that TLAPS checks for every value of the constants. Paths
below are relative to the repository.

## 1. Inventory

| component | code | state | operations | what makes it correct |
|---|---|---|---|---|
| publisher loop | `src/publisher.cpp`, `rust/publisher/src/main.rs`, `publisher_dma.rs` | `g_running`, the dequeued index | dequeue, send index, wait for ack, requeue, three breaks, shutdown | a buffer goes back to the camera only after the subscriber is done; no buffer is lost; the wait for the ack ends |
| subscriber loop | `src/subscriber.cpp`, `rust/subscriber/src/main.rs` | `g_running`, `session_fds`, the imported image | receive, import, draw, swap, destroy, ack, dispatch | the image is gone before the ack; frames appear in order; every way out lets the publisher go on |
| frame protocol | `src/socket_utils.cpp`, `rust/common/src/socket.rs` | bytes under way on a stream socket | index, ack, end of stream | index and ack pair up though nothing numbers them; never both in `recv` |
| connection and handshake | same | socket path, listen queue, descriptors under way | unlink, bind, listen, accept, connect, one message with all descriptors | a listening publisher stays reachable unless another one takes its path; one subscriber is served; descriptors all arrive or the subscriber gives up |
| launch scripts | `run.sh`, `rust/run.sh` | pid of the publisher, EXIT trap | launch, sleep, run, kill, wait, rm | nothing is left behind; Ctrl+C ends everything |
| capture device | `src/v4l2_utils.cpp`, `rust/common/src/v4l2.rs` | device, `buffers_`, `streaming_`; in the driver: granted buffers, their memory, the queue | open, configure, start, dequeue, requeue, stop | any failing call leaves nothing open; index *i* means the same memory on both sides; at least two buffers |
| DMA heap | `rust/common/src/v4l2.rs` (`alloc_dma_heap`) | the heap, descriptors got so far | open, allocate | a failure in the middle closes what was got |
| Wayland window | `src/wayland_utils.cpp`, `rust/subscriber/src/wayland.rs` | connection, globals, surfaces, `configured_`, `should_close_`; events read and answers not yet flushed | create, configure, ping, close, dispatch, destroy | no frame before the first configure is acked; pings are answered; a close and a dead compositor are noticed; partial creation is undone in order |
| EGL context and renderer | `src/egl_utils.cpp`, `rust/subscriber/src/egl.rs` | display, context, surface, program, texture | init, import, draw, swap, destroy | per frame: nothing outlives the ack; set-up: whichever of its calls fails, what was made is released, in order |
| format translation | `v4l2_to_drm_fourcc`, `import_dmabuf`, `QuadRenderer::init` | none | fourcc, plane offsets, texture target | planes are where the driver wrote them; YUV is sampled as YUV |
| shaders, build probes, command line, frame-rate log, `test_dma.sh` | | none that matters to the rest | | not modelled, see section 8 |

Interactions. The publisher and the driver share buffers through
`VIDIOC_QBUF`/`DQBUF`; the publisher and the subscriber share a stream socket and,
by descriptor, the same pages; the subscriber, the GPU and the compositor share
the imported image and the Wayland connection; the script, the terminal and both
programs interact through signals, exit and the socket path.

What is hard here: two processes, a camera, a GPU and a compositor run
concurrently and **nothing locks a buffer**: only the order `DQBUF`, send, import,
draw, swap, destroy, ack, `QBUF` keeps camera and renderer apart, on the error paths
too. Both programs block in `recv()` without a timeout, signal handlers only clear a
flag and system calls are restarted (`std::signal` and `libc::signal` install handlers
with `SA_RESTART`), so stopping relies on the peer. Set-up has many calls that can fail half-way. The full list,
each hazard at its line with the properties that cover it, is `hazards` in
`PROJECT.json`.

## 2. Modules

| module | models | extends / uses |
|---|---|---|
| `Handoff` | the abstract ownership contract of a frame buffer | |
| `Device` | the interface between the set-up of the capture device and the publisher's loop: the buffers the driver has, from `STREAMON` to `STREAMOFF` | |
| `Window` | the interface between the Wayland window and the subscriber's loop: how far a close can have come at each step | |
| `Session` | both loops, the socket, the driver, the GPU, the compositor, signals and crashes, from the handshake to the exit of both processes | implements `Handoff`, `Device` (from `Running` on) and `Window` through `INSTANCE` |
| `Startup` | the socket path, listen queues, handshake, `run.sh`, Ctrl+C, crashes, further publishers and subscribers on the same path | takes "the loop ends when told to or with its peer" from `Session` |
| `Capture` | the life of the capture device and of its descriptors | implements `Device`, and so establishes the initial state and the `N` of `Session` |
| `Handshake` | the message with all descriptors and the geometry; pixel formats, plane offsets, texture target | details the step `PubHandshake`/`SubHandshake` of `Startup` and the set-up before `Session` |
| `Display` | set-up, loop and teardown of window, EGL context and renderer, call by call, and the Wayland connection with its buffers, in both languages | details `SubSetup`, `SubSwap`, `SubDispatch` and `SubTeardown` of `Session`; implements `Window` |
| `HandoffProofs`, `SessionProofs`, `WindingProofs`, `StartupProofs`, `CaptureProofs`, `HandshakeProofs`, `DisplayProofs` | the theorems | |
| `MC*` | the bounds and symmetry for TLC | |

Operators whose bodies are variations of an action (`PubSendAhead`, `SubAckTwice`,
`CloseFdsNot`, ...) stand just before it. No specification uses them: each is a
plausible bug, and substituting it for the action must make one property fail
(`mutants` in `PROJECT.json`), which shows that the property depends on that code.

Where the C++ and the Rust program have the same code, `map` in `PROJECT.json` cites the Rust lines.

### How `Session` corresponds to the code

`pub` and `sub` are program counters; a step is one system or library call with what
follows up to the next. `queued`, `filling` and `done` are the driver's two queues
and the buffer under DMA. `held` is the local `idx` of the publisher, `cur` that of
the subscriber. `toSub` and `toPub` are the two directions of the socket; a stream
socket delivers in order, and `send` of a few bytes is all or nothing here, since
at most one index or ack is under way (`OneFrameInFlight`). `image` is the imported
EGLImage; `gpu` the buffers that jobs handed to the GPU still read. `closing` follows
the window's close event: on the wire, read by `eglSwapBuffers` into the queue,
dispatched by `dispatch_pending`. `SubSetup` is the whole set-up of the window and what is made on it: its wait for the first
configure dispatches whatever has come, so that a close may be handled before the loop begins. `undrawn` is a history variable.

`PubDequeueFails` stands for the timeout, the interrupted `select()` and an error of
`select()` or `VIDIOC_DQBUF`: all of them end the loop with nothing dequeued. `PubKill`
and `SubKill` are crashes at any step; the kernel closes the descriptors.

`SwapWaitsForGpu` and `MayHide` are constants because the code does not decide them:
the first depends on the EGL implementation, the second on the user.

### How `Startup` corresponds to the code

`Bg` is the publisher that the script starts, `Fg` its subscriber; `Rivals` and `Extra` are further
publishers and subscribers that a user starts on the same path. `path` is the file-system entry: absent,
a file nobody is bound to, or the publisher whose socket it names. `queue[p]` is the listen queue of `p`;
`connect()` on a Unix socket blocks once it holds `Backlog + 1` connections (`listen(s, 1)`). A listening
socket keeps its queue and its client when its name is removed, but nobody new finds it.

Every publisher unlinks the path twice without looking whose it is: before `bind()` and at its end; the
script does so a third time. `robbed` is a history variable: the publishers whose name was removed by
somebody who did not start them. It is what makes `Reachable` a statement about the code and not about
the user: as long as nobody else works on the path a listening publisher can be reached.

`PubCamera` is the whole of `Capture` up to the loop, `serve` the whole of `Session`, which justifies
`PubServeEnds` and `SubServeEnds`: `StopEndsSession` and `OneExitEndsBoth` there. (The former needs a visible
window, so the liveness results of `Startup` do as well.)

`cleanup` of the scripts is four steps: *check* (`kill -0`), *kill*, *wait*, *rm*. It is the trap of SIGINT and of EXIT, so after Ctrl+C it runs
twice, and a Ctrl+C inside it runs it inside itself; `resume` is where the script goes on after the next *rm*. `set -e` holds in traps too: if
the publisher ends between *check* and *kill*, `kill` fails (`Errexit`), and what follows in that trap is skipped, *rm* included; the script
then goes on with the EXIT trap, or ends as *failed* if it was in that. (A `kill` that comes before bash has noticed the exit succeeds.) Ctrl+C
during the sleep ends it and, with `set -e`, the script, or comes just before or after it, and the script goes on with the subscriber. While a
foreground subscriber runs, bash keeps the signal until that has ended. Ctrl+C can be pressed once, at any step from the
publisher's launch to the end of the script; before there is nothing to stop.

A publisher is at *start* until its signal handlers are installed: SIGTERM ends it there, and Ctrl+C passes it by, since bash lets background commands
ignore SIGINT. In Rust a signal can also be lost just after, because `RUNNING` is set to true only then (`rust/publisher/src/main.rs:53`); both
programs' outcomes are in `ScriptKill` and `Signalled`.
`CtrlCStopsSession` says
`client[Bg] = Fg` and no less: if a rival took the path between the two programs' starts, the
script's subscriber waits in the rival's queue, in a `recvmsg()` that Ctrl+C does not end.

### How `Display` corresponds to the code

`step` is the subscriber's program counter, one step for each call that can fail or block. `live` is the set of
handles that exist, named after the members that hold them; `built` says which of the values `EglContext` and
`QuadRenderer` a Rust constructor has finished; `todo` is what the destructors have still to release. An early
return, a break and the loop's end are the same thing, `Leave`: what exists is handed to the destructors, as far
as somebody owns it (`Owned`). `Rank` is the order of the destructors: locals in reverse, members as `destroy()` or
the order of the fields says. `Supports` says what each handle is made from.

Both languages are started (`lang`), because they differ in exactly this:

* C++ objects hold a handle from the call that made it, so every failure releases everything, in order.
* A Rust value is dropped only if its constructor finished. An `EglContext::init` that fails leaves behind
  what it has made so far (`Abandoned`); `compile_shader` of the second shader leaves the first shader to the
  context. The proxies of the window go with its connection.
* `WaylandWindow` in Rust declares `conn` before `egl_surface`, and so drops the connection first. It
  is not used in between.

`ReleasedInOrder` and `AllReleased` name these exceptions and hold for the rest.

An event goes through the stages *sent*, *read* (into the client's queue), *handled* (its listener has run and, for a ping
and a configure, written an answer into the client's buffer) and *answered* (the buffer was flushed). Reads happen in
`wl_display_dispatch` of the configure loop, possibly inside `eglInitialize` (Mesa binds globals of its own, in a roundtrip), and inside `eglSwapBuffers` (`SwapReads`), flushes there, in every swap,
and at the start of `dispatch_pending`, which is before the listeners run. `commit` follows the first commit, `shown` is the
arrival of the first frame. `conn` is the state of the connection, `err` whether the library has noticed.

External facts, modelled as the code uses them: a flush to a dead compositor reports nothing that the next read would not; a dead
connection fails every later dispatch; a swap that waits for its frame callback reads events for all queues, a swap that finds the
callback already read does not; GL objects go with their context. `wl_display_dispatch_pending` returns -1 on a connection
known to be broken and the C++ program leaves; `EventQueue::dispatch_pending` of the Rust crate (wayland-client 0.31.14, pinned in
`rust/Cargo.lock`) dispatches nothing then, drops the error and returns `Ok`, and the program drops the error of its flush
(`rust/subscriber/src/wayland.rs:184`). So `Dispatch` leaves on `err` only for C++. The calls that wait, `roundtrip` and
`blocking_dispatch`, do report it in both. The crate is not part of the repository; what its calls do is taken as given.

### How the parts fit together

`Capture` has every call up to the loop and after it, and sketches the loop; `Session` has the loop and starts where the device
streams. Both implement `Device`. `HandsOver` says that the states in which the loop of the one runs satisfy `Running`, the first state
of the other: all buffers queued, one at least. From there on a buffer is out only alone, and whatever fails the camera is
stopped once and for all, while its descriptors are still held.

`Display` has the window call by call and takes any stream of frames; `Session` has the stream and knows of the window only
how far the close event has come. Both implement `Window`, which allows a close to be read in the set-up and in a swap, to be handled in the
set-up and in a dispatch, and to be acted on at the loop's next check at the latest. An interface is an upper bound for both sides: it
excludes, say, that `Display` handles a close where `Session` has no action for it. `deaf` in it is a connection known to be broken, which
dispatches no close any more; the compositor of `Session` does not die (`deaf <- FALSE`), that of `Display` may.

### How `Capture` corresponds to the code

`memory` selects the exporting programs (`publisher`, C++ and Rust) or the importing one
(`publisher_dma`). A descriptor is identified by the memory it stands for. `local` is the
`Vec<OwnedFd>` that `alloc_dma_heap` returns and `start` consumes; `buffers` is
`buffers_`. `Fail` is an early return together with the destructors it runs. Configure has
two failing outcomes since C++ leaves the device to the destructor and Rust's `?` drops it.
The retry of an ioctl after `EINTR` has no state and is part of the ioctl.

### How `Handshake` corresponds to the code

`cam` is what the driver left after `S_FMT` and `REQBUFS`: the code takes every field of it as
the driver adjusted it, so `fmt` ranges over all formats the translation knows and one it does
not. A descriptor is the number of its buffer; `table` holds the ones open in the subscriber,
`fds` is what `recv_handshake` returned. `SubRecv` is `recvmsg` with all that follows: it opens
`k` descriptors, limited by the receive buffer (`RecvMax`) and by the process's own table (any
smaller `k`); a list cut short is discarded by both programs, C++ through `MSG_CTRUNC` and Rust because
`cmsgs()` reports an error, after which the count does not match. `SendMax` is the kernel's limit on a
message. Publisher and subscriber may end at any step. `image` keeps the attributes of an import that
depend on the geometry; `IntMod` is the range of `uint32_t`, and `EGLint` its conversion to signed.
`V4l2Bytes` and `DrmBytes` are external: what the kernel's headers say of the formats.
`ChromaWhereWritten` assumes that a semi-planar frame has its second plane right after
`stride * height` bytes, as V4L2 defines the single-planar NV12 and NV21.

## 3. Runs

| run | question | result |
|---|---|---|
| `session_safety` | do both loops, with all breaks, signals and crashes, keep buffers apart, conserve them, pair indices with acks, never wait for each other, and draw in order? once one is told to stop, does every step bring the end of both nearer? do the loops keep to the interfaces of device and window? | yes |
| `session_live` | do a signal, the window's close, or either exit end both programs? does the wait for an ack end? do the programs implement the ownership contract? is the camera kept away from the GPU if `eglSwapBuffers` waits for it? | yes, while the window is visible |
| `session_gpu_async` | is it kept away if `eglSwapBuffers` does not wait? | **no**: finding 1 |
| `session_hidden` | does a signal end both programs when the window is hidden? | **no**: finding 2 |
| `startup` | with a rival publisher and another subscriber on the path: does a listener stay reachable unless robbed, is only one subscriber served, does the script leave no program and no socket behind, and a file only where a named race does? does Ctrl+C end a session, are queued subscribers released when the publisher they wait for is to end? | yes |
| `startup_ctrl_c` | does Ctrl+C end everything at any time? | **no**: finding 3 |
| `capture_safety` | is every descriptor owned and closed once, are index and memory in agreement, does the camera start once, with all buffers queued, and stop for good, whatever fails? | yes |
| `capture_one` | does the check for two buffers hold for `publisher_dma`? | **no**: finding 4 |
| `handshake_safety` | does the subscriber go on only with all descriptors? does it find the planes, and show the formats as written? | yes, for all formats but three |
| `display` | is the configure acked before the first frame, is everything released in order from wherever the program leaves, are pings answered, do a signal, a close and a dead compositor end the program (the last, in Rust, not), is a close read and handled only where the loop expects it? | yes, with the exceptions of the Rust program named in the properties |
| `display_dead_compositor` | does a dead compositor end either program? | **no**: finding 6 |
| `handshake_formats` | ... of `handshake_safety`: is it so for all formats that get a DRM code? | **no**: finding 5 |

### Bounds, and why they are enough

* `Session`: `N = 3` buffers for safety: one lent, one filling and one waiting, so every
  part of the driver is occupied at once. `N = 2`, the least the code means to accept,
  for liveness and for the contract, which `ImplementsContract` proves for every `N`. No
  other bound: all state is finite by itself.
* `Startup`: the script's two programs, one rival publisher and one more subscriber, backlog 0. Both can be bound in turn, each
  can rob the other, and a queue can be full (one subscriber waits in it while the other blocks in `connect`).
  `startup_ctrl_c` needs neither rival nor extra subscriber.
* `Display`: one ping, two configures, a close: an event of each kind can be at any stage while another is at a different one, and
  the second configure may come while the loop runs. Each call fails or not; nothing else is bounded.
* `Capture`: 4 asked for, as in the programs, and anything from 0 to 5 granted: none, too
  few, fewer, as many, more. `capture_one` asks for one.
* `Handshake`: the limits 32 and 253 are scaled to `RecvMax = 2` and `SendMax = 3`, with 1 to
  4 buffers: fits, is cut short, does not fit a message. 2^32 is scaled to `IntMod = 64`; widths
  and heights to 6, odd ones included, with and without padding, give frames on both sides of
  `IntMod \div 2`, where `EGLint` turns negative.

The theorems of section 5 remove the bounds for every safety property but `GpuDoneBeforeRequeue`. The inductive invariants (`IInv`) were checked by
TLC on the same instances before they were proved; since a theorem states each of them no run repeats that.

Deadlock is checked in all runs. A final state stutters explicitly (`Terminated`, `AtRest`,
`Done`). `AtRest` names the second state in which `Startup` may stop: a script that waits
for a publisher that waits for a subscriber, finding 3.

## 4. Fairness

* Session: weak fairness of the publisher, of the subscriber and of the GPU: the scheduler
  runs a process that can run, and jobs end. Strong fairness of `SubSwapReads`: a swap that
  waits for its frame callback reads the Wayland connection, and what the compositor sent
  earlier comes first; a single swap may find the callback read already, an endless
  sequence of them cannot.
* Startup: weak fairness of the script, of each publisher and of each subscriber.
* Display: weak fairness of the program, whose `Recv` also stands for "a frame comes or the stream ends"
  (`OneExitEndsBoth` in `Session`, and the camera's timeout); strong fairness of `SwapReads` as above, for a visible window
  (`session_hidden` shows what happens otherwise). Nothing is assumed of the compositor, so `create` may wait for the first configure
  forever; a signal does not end that wait, since `poll()` is restarted by the library. `EndsWhenAsked` names this as an exception
  (`NeverConfigured`), and the Rust loop behind a dead compositor as the other.
* Nothing is assumed of the camera (it may stall: the two-second timeout is what ends the
  publisher's wait), of signals, of accidents, or of the user.

## 5. Theorems

All are checked by TLAPS for arbitrary constants under the named assumptions
(`NAssumption`: at least one buffer; `CountAssumption`, `BacklogAssumption`: natural
numbers; `NameAssumption`, `EventAssumption`: names differ, and there is a configure; `GeometryAssumption`: limits and geometries are natural numbers, no
height is zero; `IntAssumption`: the integer range is even).

**Contract** (`HandoffProofs`). The contract by itself has no run: TLC checks that the session implements it (`Contract` in `session_live`),
and what it promises is proved, provided that `None` is no buffer. `Exclusive` is inductive together with `TypeOK`, because `Return` ends the
read, `StartFill` needs a buffer of the camera, and `Stop` ends the writing. That the programs keep to the contract is what takes work
(`ImplementsContract`).

**Session** (`SessionProofs`). `IInv` = `TypeOK`, `Conservation`, `OneFrameInFlight`,
`StepsAgree`, `InOrder`. `ImportedNotCaptured` is not inductive: it depends on the publisher
being in its wait for the ack while an image exists, which depends on the ack being the
answer to the index sent (`OneFrameInFlight`), which in turn needs to know which steps of the
subscriber come with an index or an ack under way (`StepsAgree`). `InOrder` adds, for
`FramesShownInOrder`, that the frames captured and not drawn are the buffer between the two loops
followed by the driver's full queue. From it follow `NoCaptureUnderImage`,
`BuffersConserved`, `FramesAgree`, `NeverBothWaiting`, `DrawnInOrder`, and
`ImplementsContract`: each action maps to a step of `Handoff` or a stutter, so the contract's
theorems hold for the programs.

**Winding down** (`WindingProofs`). `StopEndsSession`, `CloseEndsSession` and `OneExitEndsBoth` say that a session ends; what can
be proved of that without fairness is that nothing can keep it going. `Told` is the state after a signal, a handled close (or one that is
read and will be handled before the next check), or a break. `Left` is a bound on what the programs still do: the steps
to the exit of a program that is told, `PubToExit` and `SubToExit`, weighted so that each of them pays for the peer's way to its next wait
(`PubToWait`, `SubToWait`; an index under way, `Waiting`, is worth a round). `WindingDown` proves that `Told` lasts, that no step of anybody raises
`Left`, and that every step of a program lowers it; `EndingBounded` that it starts at 89 or less and is 0 exactly when both have exited.
The invariant is needed: that an ack and an index are never under way together, and which steps go with them, decides which weights apply.
The lemmas follow one program each (`PublisherWinds`, `SubscriberWinds`) and then the environment, whose steps may change *which* case of
`Left` applies (`SigintWinds`, `KillWinds`, `OthersWind`). `OneCanGoOn` adds that the programs are never both at a step that waits
for the other one. What remains for fairness is that a program that can run does run, the camera's timeout expires, and
the compositor presents.

**Interfaces.** `UsesTheDevice` rests on a consequence of `Conservation`: all the driver lacks is the buffer the publisher holds
(`DriverHasTheRest`); so a `DQBUF` finds the driver with all buffers, and `QBUF` completes it. `ProvidesTheDevice` needs of `Capture`'s invariant
what is queued at each step (`QueuedSoFar`). `HandsOver` needs one more invariant for imported buffers, `AllImported`: descriptors move from the
heap's vector to `buffers_` and none is left on the way, so that the loop starts with as many as were asked for. `UsesTheWindow` is by cases on
the step. `ProvidesTheWindow` goes through the stages of the close event: what each call makes of it is `CloseMoves`, per phase of the program
`SetUpMoves`, `LoopMoves` and `OtherMoves`; `CloseStage` is the invariant they need, that before the first configure a close is handled as soon as it is read.

**Startup** (`StartupProofs`). `IInv` adds `StepsAgree` (where script, publisher and file can
be together), `PublisherState` (the name and the client that go with each step of a publisher, and that only one that has bound
can be robbed) and `SubscriberState` (a connection is to one publisher). `Reachable` needs the former: a bound name is lost only by
an unlink, and each unlink either is the owner's own, who stops listening, or is recorded in `robbed`.
`AloneReachable` is the statement without the history variable: with no rivals nothing takes the path from a listening publisher,
the script's own `rm` included. `CleanExit` rests on `wait` preceding `rm`, and on `ResumeState` and `SessionEnd`, which say what a nested run of `cleanup` goes
back to and that the EXIT trap after a Ctrl+C finds no publisher: this is why a `kill` that fails cannot leave the file behind then, while without Ctrl+C, or with
one inside the trap, it can.
`CtrlCWinds` and `CtrlCBounded` are the part of `CtrlCStopsSession` that needs no fairness, for any number of rivals and of further subscribers: `Left` is
what script, publisher and subscriber have still to do, the steps of two runs of `cleanup`, one inside the other, included; each step of one of them lowers it and nobody else's touches it (`OneMoves`), and as long as it
is not 0 one of the three is at a step that waits for nobody. The invariant behind it, `CtrlCSeen`, says that Ctrl+C has reached the script's
subscriber or that the publisher was gone before that began (the publisher may have missed it, but ends with its client or by `cleanup`); `InSession` that after the accept neither can be at a step before it.

**Capture** (`CaptureProofs`). `IInv` = `TypeOK`, `Numbered`, `QueuedSoFar`, `StepsAgree`.
Descriptors are numbered in the order they are got, across the heap's vector and `buffers_`;
this makes "each descriptor has one owner" and "index *i* is memory *i*" inductive.

**Handshake** (`HandshakeProofs`). `IInv` = `TypeOK`, `CompleteOrRejected`, `StepsAgree`.
`TypeOK` says more than the name: what is open is a prefix of the publisher's list, no longer than
there is room for, and what was returned is nothing or all of that; `StepsAgree` adds
that the subscriber works with the geometry of this publisher, and that no untranslated format
gets past `PubFourcc`. `ChromaFound` rests on two lemmas: a line is no longer than the luma plane
(`LumaBounds`), and numbers below half the range survive both conversions (`SmallIsExact`).
`FormatsShownRight` goes through the formats.

**Display** (`DisplayProofs`). `IInv` adds to the properties what stands at each step (`Standing`), that a configure has been handled
once the wait for it is over (`SeenConfigure`), and that during the release the destructors hold what still exists and must go (`Held`).
`AckedFirst` follows because a swap flushes before it commits, and by then a handled configure exists. For
`OrderedRelease` the proof of `Release` compares the rank of a handle with the ranks of what it is made from (`RankTable`, `SupportsTable`).
`EverythingReleased` is `Held` with nothing left to do.
`GoesOneWay` is the part of `EndsWhenAsked` that needs no fairness: `Asked` is a signal, a handled close or, in the C++ program, an error that the library has
noticed; `Ahead` counts the calls from there to the exit. Every step but those of the wait for the first configure lowers it, so a program that is
asked to end during its set-up finishes that, one in a round shows one frame more, and none goes round again; the destructors take
each handle once. It and `ProvidesTheWindow` need `ErrRight`: only the connection's death is reported as an error, and that stays.

**Only model-checked.** `GpuDoneBeforeRequeue`, which rests on an assumption the code does not justify (finding 1). The liveness properties (`StopEndsSession`, `CloseEndsSession`,
`OneExitEndsBoth`, `AckWaitEnds`, `CtrlCStopsSession`, `QueuedReleased`, `PingAnswered`, `EndsWhenAsked`): they need fairness
and `ENABLED`, which are out of this prover's reach. For the session, for the script's Ctrl+C and for the window the part without fairness is proved (`WindingDown`, `CtrlCWinds`, `GoesOneWay`): what fairness adds is that a program which can run does. These measures were
checked with TLC on the instances of the runs before they were proved.

## 6. Findings

1. `README.md:46-47` says that destroying the image before the ack ensures that `QBUF` cannot
   race the GPU. It orders calls, not GPU work: unless `eglSwapBuffers` happens to wait, a
   queued job may still sample the buffer when the camera gets it (`session_gpu_async`).
2. `README.md:162` says that Ctrl+C stops both. With a hidden or minimised window
   `eglSwapBuffers` waits for a frame callback, the subscriber never looks at `g_running`
   again, and the publisher waits for its ack (`session_hidden`).
3. The same sentence fails between the launch of the publisher and the first connection:
   `accept4` is restarted after the signal, and the trap of `run.sh` waits for the publisher
   forever (`startup_ctrl_c`). Ctrl+C may come during the sleep, or after it when the script's subscriber came too early and gave up.
4. `V4l2CaptureDma::start` demands two buffers of the driver (`rust/common/src/v4l2.rs:458`) but
   then uses as many as it was given: `publisher_dma --bufs 1` streams with one buffer
   (`capture_one`). `Session` admits `N = 1` for this reason; it is safe, only slow.
5. Three formats are given a DRM code but not shown as the driver wrote them (`handshake_formats`).
   `QuadRenderer::init` takes UYVY for RGB (`src/egl_utils.cpp:274`). `V4L2_PIX_FMT_RGB24` and
   `DRM_FORMAT_RGB888` name opposite orders of the bytes, and so do the `BGR` pair; they are translated
   into each other in both languages (`src/v4l2_utils.cpp:210-211`). The command line asks for YUYV or NV12
   only, so this needs a driver that settles on another format, which the code allows for
   (`v4l2_utils.cpp:66`).

6. `rust/subscriber/src/wayland.rs:179` says that `dispatch_pending` returns false after a fatal error. With a dead compositor
   it does not: both errors are dropped, and the Rust subscriber goes on drawing frames nobody sees (`display_dead_compositor`), where
   the C++ one ends (`EndsWhenAsked`).

One more disagreement has no run: `include/socket_utils.hpp:66-67` says that the caller owns the received
descriptors. After a truncation nobody does, since `recv_handshake` returns without looking at the list
(`src/socket_utils.cpp:123`); in `Handshake` it is the state with `fds` empty and `table` not. The
program ends soon after, which closes them.

Three more observations need no run of their own, since properties name them as exceptions: in the Rust program a failed
`EglContext::init` leaves the EGL display, context and surface to the end of the process
(`rust/subscriber/src/egl.rs:265-297`, `Abandoned`), and the window's connection is dropped before its `wl_egl_window`
(`rust/subscriber/src/wayland.rs:114-120`). And a publisher's clean-up unlinks whatever has the path by then
(`robbed`), so that a rival that is still listening cannot be reached any more. A publisher that ends between the
`kill -0` and the `kill` of `run.sh:16-17` makes `set -e` skip `rm -f`; `NothingLeftBehind` names what is left, a file without a
socket, which the next publisher removes.

## 7. Plan

Done: `Handoff`, `Session`, `Startup`, `Capture`, `Handshake`, `Display` and their theorems; `Capture` and `Display` composed with
`Session` through `Device` and `Window`; the measures of how session, script and window end.

What could follow: `Startup` over `Session` and `Handshake` as a refinement of an abstract "serve" that ends when told to (today they
agree by the properties named in section 2), and a measure for `PingAnswered`, which goes round the loop.

## 8. Not modelled

* Shaders, vertex data, `test_dma.sh`, the build probes, the command line and the frame-rate log:
  no state that another part depends on, but for the number of buffers and the socket path,
  which are constants here.
* The pixels, and the time a frame takes.
* A compositor that breaks the protocol. (One that never sends the first configure is modelled, the program waits for it: section 4.)
* A `STREAMOFF` that fails because the device is gone: the programs ignore the result, and so does `StreamOff`.
* A second Ctrl+C, and one before the publisher is launched.
* The title, the size and the state of the window; the globals' versions; the removal of a global, which the listeners ignore.
* A handshake in several pieces: 24 bytes on an empty Unix stream socket are written and read whole; the
  checks for a short message are unreachable with this publisher.
