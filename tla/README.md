# A verification of webrtc-ros in TLA+

The program streams a V4L2 camera to browsers: a capture thread reads frames,
libx264 encodes them, libdatachannel sends them, and a small HTTP server
(WHEP) negotiates one peer per client. These modules model its concurrent and
numeric core, TLC checks them on small instances, and TLAPS proves for every
instance the safety properties, the refinements of two abstract modules, and
the measures from which termination follows.

Source paths below are relative to `src/src/`.

## 1. The system

| part | state it keeps | operations | runs on |
|---|---|---|---|
| `RtcPeer` (`rtc/`) | `is_connected_`, `is_complete_`, `modified_desc_`, `on_local_sdp_fn_`, two `std::thread` members, `peer_connection_` | `SetPeer`, `SetRemoteSdp`, `RestartIce`, `Terminate`, the library's callbacks, the timer, the delayed sender | io, cleaner, libdatachannel's thread, `peer_timeout_`, `sent_sdp_timeout_` |
| `HttpService`, `HttpSession` (`signaling/`) | `peer_map_`, one session per connection | POST, PATCH, DELETE, OPTIONS, `RefreshPeerMap` every 60 s | io, `cleaner_` |
| `V4L2Capturer` (`capturer/`) | the mapped buffers, `format_`, `capture_stop_` | `Create`, `CaptureImage`, the destructor | main, `capture_thread_` |
| `V4L2Util` (`common/v4l2_utils`) | none; the driver's | ioctls, `mmap` | its caller's |
| `Subject`, `Observable` (`common/interface`) | the vector of `weak_ptr`, one lambda each | `Next`, `AsObservable`, `Subscribe` | capture thread (`Next`), io (the others) |
| `V4L2FrameBuffer`, `I420Buffer` (`common/`) | one picture | `Create`, `ToI420`, `ByteSize` | capture thread |
| `LibAvEncoder` (`encoder/`) | codec context, one packet, `video_start_ts_` | `EncodeBuffer`, `encode` | capture thread |
| `V4L2Webrtc`, `main`, `Parser` | configuration | start-up, `CreatePeerConnection` | main, io |
| logging | none | wording and output | any |

How they interact:

    camera -> V4L2Capturer --Subject--> LibAvEncoder --Subject--> RtcPeer -> client
                 (capture thread, all the way to the track's send)
    client -> HttpSession -> HttpService.peer_map_ -> RtcPeer     (io thread)
    libdatachannel -> RtcPeer's callbacks -> HttpSession's response
    cleaner_ -> peer_map_ -> ~RtcPeer

Nothing in the program takes a lock. What keeps it together are the joins in
`RtcPeer::Terminate` and `~V4L2Capturer`, the blocking `close()` of the
library, `shared_ptr` ownership, and the atomics. The hard behaviours are
therefore

* teardown: five threads hold a raw `this` of a peer, two of them may destroy
  it, and `Terminate` joins, then clears, then closes;
* the answer to a POST, which is written two callbacks and one sleeping thread
  after the handler returned;
* the subjects, whose vector is iterated, extended and pruned by different
  threads;
* buffers that go round between the driver, the capture thread and the
  observers that read them in place;
* `peer_map_`, which the io thread and the cleaner share without a lock, while
  handlers hold peers the cleaner has erased;
* the lifetimes along the pipeline: pictures that libav holds back, a packet
  that is blank again after `Next`, times that use zero for unset;
* arithmetic on picture sizes that three pieces of code (`Create`,
  `ByteSize`, libav) do differently.

`PROJECT.json` lists each of these as a hazard, at its line, with the property
that would catch it.

## 2. The modules

| module | models | proofs |
|---|---|---|
| `PeerLifecycle` | abstract: what a peer promises the service that owns it | implemented by `RtcPeer` and by `Signaling`'s peers |
| `Broadcast` | abstract: what `Next` promises its caller and the observers | implemented by `Subject`, and by what `LibAvEncoder` keeps of `Next` |
| `RtcPeer`, `MCRtcPeer` | one peer from the POST that makes it to its destructor, with the handlers, the cleaner and the library's callbacks that reach it | `RtcPeer_proofs`, `RtcPeerAnswer_proofs`, `RtcPeerLifecycle_proofs` |
| `Signaling` | the HTTP service with several sessions and peers, and the cleaner | `Signaling_proofs` |
| `LibAvEncoder` | a frame's way from the capturer through libav to the peers' tracks, during start-up too | `LibAvEncoder_proofs` |
| `V4L2Capturer` | `Create`, the capture loop, the destructor, the driver | `V4L2Capturer_proofs` |
| `Subject` | `Next` statement by statement, and the owners of the observers | `Subject_proofs` |
| `FrameLayout`, `MCFrameLayout` | a picture from `S_FMT` to the `AVFrame` | `FrameLayout_proofs` |
| `Options` | the command line, from `main` to the first peer | none |

How they fit together. A peer is modelled twice, at two grains. `RtcPeer` has
one peer with every step of its five threads; `Signaling` has several, each
with `Terminate` in three steps and with whatever a peer does on its own in
three actions. `PeerLifecycle` is what lies between them: `RtcPeer` shows that
a real peer does no more than it says (`KeepsLifecycle`), `Signaling` that the
service and the environment it gives its peers do no more either
(`PeersKeepLifecycle`). In the same way `V4L2Capturer` takes its observers as
one step, `LibAvEncoder` is what they do in it, and `Subject` is the list they
are called from. `Broadcast` lies between the last two: `Subject` shows that
`Next`, with its iterator, its erasing and what other threads append, does no
more than `Broadcast` says, `LibAvEncoder` that the peers it calls with a
packet are called in no other way either (`IsBroadcast` in both). Peers may
join and leave in the middle of a `Next` in all three; of the races on the
vector itself `LibAvEncoder` keeps only the one at start-up.

### RtcPeer

`pc[t]` is the label of the next statement of thread `t`. A step is what lies
between two accesses to shared state: `Terminate` is eight steps (two stores,
two joins, the callbacks, `close`, `release`, and the destruction of the
members), the timer three, `send_sdp` three. A `std::thread` member is one
Boolean, joinable or not; a `std::function` is empty or not; a description is
its type and its set of candidates. `refs` is who owns the `shared_ptr`
(`peer_map_` and the handler in progress); when it becomes empty, the thread
that let go runs `~RtcPeer`.

What ends the process, or is undefined, sets `dead` to its cause and stops
every thread:

| cause | where |
|---|---|
| `uncaught` | an exception of libdatachannel outside a `try` (`rtc_peer.cpp:112`, `:227`, or a description that does not parse) |
| `timer_reassigned` | a joinable `peer_timeout_` is assigned (`rtc_peer.cpp:131`) |
| `joinable_destroyed` | a joinable thread is destroyed with the peer |
| `empty_fn`, `null_desc` | `send_sdp` calls an empty function, or reads a description that `Terminate` released |
| `fn_race`, `desc_race` | unsynchronised access to `on_local_sdp_fn_`; to the description a sender prints, which a candidate extends or, after a restart, another replaces (`rtc_peer.cpp:162`, `:174`) |
| `map_race` | the cleaner erases through an iterator that a DELETE invalidated |

The other modules do the same, with these causes: `exit` (the capturer gives
up), `uncaught`, `vector_race` (an observer is added while `Next` iterates),
`routes` (`routes[0]` or `routes[1]` of a list that is too short), `iterator`
(the cleaner uses its iterator when its element is erased, or when a rehash
invalidated it), `map_race`, and in `FrameLayout` "overflow" (a `memcpy` past
the end of the buffer).

A race, a stale iterator and an overflow have both outcomes: each may do no
harm, and then the step is the plain one, or it may end the process.

**The environment.** libdatachannel is not in the repository. It is modelled
from how `RtcPeer` uses it, on the assumptions that the binding of a raw
`this` at `rtc_peer.cpp:98` rests on: the callbacks of a connection run one at
a time and in order; `close()` waits for the one in progress, reports `Closed`
in the closing thread, and nothing is called after it. A candidate is found
after a local description is set, and a description that the library hands
over carries every candidate found so far. ICE and DTLS complete only with a
client that received the answer.

**Not in it.** Sleeps have no duration: a sleeping thread may wake at any
time, so every order of the one-second sender, the ten-second timer and the
sixty-second cleaner is covered, the unlikely ones too. `SetRemoteIce` changes
nothing the peer keeps. `on_local_ice_fn_` is never set and `CreateOffer`
never called in the repository.

### PeerLifecycle

Six variables: the stage of a peer ("absent", "open", "closed", "gone"),
whether anybody holds it, how often it answered, `isConnected()`, whether it
is over, and whether the process runs. A peer is made once, answers at most
once, reports a connection only after that and while it is open, never
reopens, and goes when nobody holds it, closed. `FairSpec` adds that what is
over closes, and that what nobody holds goes. `RtcPeer` maps `refs`,
`responses`, `is_connected_`, `is_complete_` and the library's state to them.

### Broadcast

The members, those that left, the message in hand, who is still due to be
called with it, whether `Next` runs, the last message each was given, and
whether the process runs. A message is due to everyone who is a member when
`Next` begins, to who joins meanwhile perhaps, to who leaves no more (but for
the call it is in), and `Next` returns when nobody is due. Messages are
numbers that increase. There is no fairness in it: that `Next` returns is a
property of the modules that implement it.

### Signaling

`session[s]` is how far connection `s` is, `res_[s]` what was handed to
`WriteResponse`; a slot is free again when the session's last `shared_ptr` is
gone. A handler is a sequence of labels of `pc["io"]`, cut where the cleaner
or a peer can come between; `handled` is its local `shared_ptr`. A target is
how many routes it has, whether the first is "resource", and what the second
names: all that the guards tell apart. The guards are as they are written, `&&`
for `||` included, so `routes[1]` is read of a list with one element: the
outcome is some string nobody has as an id, or the end of the process.

The cleaner's iteration order is arbitrary (`todo` is a set). Erasing looks up
the next element first and destroys the peer then, which takes a whole
`Terminate` inside `erase`; the iterator is held all that time. An insertion
that rehashes the map invalidates every iterator (`rehashed`): what is ahead is
then any subset of the others, and to use the iterator, or to return from
`erase` with it, ends the process or does no harm. For `MapRace` the cleaner is
in the map until `erase` has returned. Whoever inserts, finds or erases
meanwhile on the io thread may end the process (`map_race`) by that alone.

### LibAvEncoder

A frame is its timestamp, a packet its pts. libav is a queue that may hold any
number of frames back and keeps their order (the encoder is opened with
`tune=zerolatency`: no B-frames). `holders` are the frames whose picture a
`releaseBuffer` has yet to release, `pkt` is what the only `AVPacket` holds,
`sent[p]` the pts and time of each `sendFrame`. The lambda of
`SubscribeEncoder` is two steps, as the library's thread may shut the track
between `isOpen` and `sendFrame`. `pending` are the peers that `Next` has yet
to call; a peer that subscribes meanwhile may be one of them, one that goes
(`Leave`, from `~RtcPeer`, which has shut the track by then) is not. The
histories `passed` and `given` are the last packet of `Next` and of each
lambda, by the time of the frame. The main thread's three start-up steps run
next to the capture thread that the first one starts.

### Options

A value is what the program distinguishes of it. The statements of `main` and
then of the first POST are one label each; each may end the process with an
exit code or an uncaught exception.

### V4L2Capturer

`where[i]` is who has buffer `i`, `content[i]` the number of the frame in it.
The driver fills queued buffers, drops frames when it has none, hands filled
buffers out in order, and may fail any ioctl. `StreamOn`'s result is ignored
by the code, so the capture thread may run on a device that does not stream.
Observers run inside `NextBuffer`, on the capture thread; an exception there
ends the process (`LibAvEncoder`). `Create` is one step per call: which of
them throw, exit, or only log is in their definitions.

### Subject

`observers_` is the vector, `it` the iterator. An observer stands for the
`Observable` and for the peer that owns it: `AsObservable`, `Subscribe`, the
reset in `~RtcPeer`, and the moment the peer's memory goes are four steps,
since the `weak_ptr` guards only the third of them. The code takes no lock, so
a `push_back` during `Next` and a call through a freed peer are behaviours of
the program; the model keeps them, as causes of `dead`, and the properties say
what holds nevertheless and what has to happen before one of them can.

### FrameLayout

Memory is offsets in the `I420Buffer`; pixels are left out. What is kept is
where each plane begins for the writer and for the reader, how many bytes a
copy writes, and whether the encoder finds the camera's picture.

The driver answers `S_FMT` as it likes, may pad its lines (`Pads`), which the
code could read in `bytesperline` and does not, and gives each frame any
`bytesused`: `Surplus` is by how much it differs from the picture's own bytes.
A negative one stands for every damaged frame, the JPEG that cannot be decoded
or only in part included: the buffer is then left as it is, uninitialised, or
garbled. Assumed is only that the source of the copy can be read, that is, that
`bytesused` is within the length that was mapped. A copy that runs over the end
of its destination is a behaviour of the model, and `CopyFits` says what it
takes.

## 3. The runs

| run | asks | instance | states |
|---|---|---|---|
| `rtc_peer_safety` | every interleaving of a peer's life, answer after a second; can threads wait for each other in a circle, can the process go on by itself for ever | two candidates (symmetric), one ICE restart | 277 000 |
| `rtc_peer_immediate` | the other branch of `OnLocalDescription`, `send_sdp` inside the callback: can it end the process in other ways | one candidate, one restart | 37 000 |
| `rtc_peer_liveness` | do the joins return, is every peer destroyed, every POST answered; is a peer a `PeerLifecycle` | one candidate, one restart | 92 000 |
| `early_reap` | does a peer get its connection timeout? No | one candidate, no restart | violation |
| `signaling` | one response per request, nothing after a DELETE, the iterator, who answers a session that waits, the peers' lifecycles, does every POST settle | two sessions, two peers | 909 000 |
| `only_resources` | is a DELETE outside of /resource refused? No | two sessions, one peer | violation |
| `capturer` | are frames read from the right memory, in order, is a buffer lost, can DQBUF wait; does the destructor return, is a filled buffer taken | three buffers, five frames, two failures | 44 000 |
| `encoder` | do times increase, is what is read still there, do the packets reach the peers as a `Broadcast`, does the capture thread come back | two peers, times up to five | 423 000 |
| `subject` | who is skipped, served twice, left behind; is `Next` a `Broadcast`; does it return | three observers, three messages | 940 000 |
| `frame_layout` | do the planes fit, does libav read what was written, when does a copy leave the buffer, what arrives | five widths, five heights, three paddings, short, whole and long frames, all formats | 227 000 |
| `input_formats` | does every format of the option give a picture? No | 64 x 4, no padding, whole frames | violation |
| `peer_timeout` | does a peer wait as long as the option says? No | two values | violation |

Why the bounds are enough. A peer that is answered can be restarted once to
meet each thing a restart meets (an armed timer, a sleeping sender, a reaped
map entry); a second restart repeats it on the same two handles. Two
candidates are needed so that one is in the description the library hands over
and one arrives behind it. Three buffers allow one with the observers, one
filled and one queued at once; five frames wrap around all of them; two
failures hit two different ioctls of a round. Three observers allow one to
leave, the next to take its place in the vector, and a third to be skipped;
three messages let somebody miss the one in the middle. Two sessions let one
request come between the steps of another's answer; two peers let the cleaner
destroy one while its iterator is at the other, which a DELETE or POST then
changes. Frames up to time five give an encoder room to hold four back and a
peer room to be sent the first packet and two later ones, with a gap; two
peers let one be there from the start and the other come late. The sizes are
those below, at and above the alignment, with odd and even heights and the
empty ones; the paddings take a width of 1 to the alignment, 63 one byte short
of it or to it, and 64 over it; a frame is a byte short, whole, or has a block
of 64 bytes too many, more than `Create`'s rounding up leaves room for.
Everything the proofs cover does not depend on a bound at all.

**Fairness.** Each thread of the process is weakly fair: a thread that can
take its next step takes it. That is what an operating system's scheduler
gives; no thread waits for a lock that another might take first, so strong
fairness is never needed. That the cleaner comes round again
(`CleanerReturns`, `http_service.cpp:24-35`) is the hypothesis of
`NoForgottenPeer` alone: the timeout and the answer must come without it. In
`V4L2Capturer` both threads
are fair, but destroying the capturer is the owner's choice; in `Subject`
only the capture thread is, and so in `LibAvEncoder`. In `Signaling` the io
thread and the cleaner are fair, and the cleaner comes round again. Nothing is
assumed of the progress of the client, the network, the camera, the driver, or
libav.

### The properties

`RtcPeer`
* `NoNullConnection`: nobody calls through `peer_connection_` after
  `Terminate` reset it, though the timer tests it and uses it two lines later.
* `ClosedIsFinal`: a closed peer is never connected again, so that
  `RefreshPeerMap` finds it.
* `NoUseAfterDestroy`: when `~RtcPeer` returns, no thread or callback that
  holds its `this` is left.
* `OrderlyTeardown`: the teardown of a peer that is posted, answered and
  deleted neither reassigns nor destroys a running thread, nor takes the
  callback or the description from `send_sdp`. Each way to do so that the model
  finds has an ICE restart or the cleaner's reaping before it; the property
  names which.
* `NoCandidateLost`: a candidate is in the description or on its way there.
* `SingleAnswer`: a POST is answered at most once.
* `NoCircularWait`: whoever is waited for in a join or a `close()` runs, and
  of any group of threads there is one that waits for none of the group.
* `WindsDown`: every step of the process itself, the cleaner's beginning apart,
  takes from the work that is left (`Work`: what each thread, and each queued
  callback, may still set off). Callbacks start threads, and threads close
  connections; nothing polls, and nothing starts itself again.
* `TerminateCompletes`, `NoForgottenPeer`, `TimeoutCloses`, `Answered`: the
  joins and `close()` return; a peer that does not connect is destroyed; a
  timer ends with a connected or closed peer; a POST is answered unless its
  connection closes first. Each of them excepts the process having ended.
* `KeepsLifecycle`: the refinement of `PeerLifecycle`, its liveness included.

`Signaling`
* `OneResponse`: a request gets one response at most, from whichever thread.
* `DeletedIsFinal`: a peer that a DELETE removed is not found again, and stays
  closed, though the cleaner may be at it.
* `IteratorKept`: two things invalidate the cleaner's iterator, and both are
  the io thread's: a DELETE of the element it is at, and a POST whose insertion
  rehashes the map. Those are the races the code has; the cleaner's own erasing
  and the destruction of a peer are none.
* `WaitingHasPeer`: a session that waits for its answer is kept by the lambda
  of one peer, which the cleaner can find, or whose lambda a thread is about
  to clear.
* `PeersKeepLifecycle`: each peer's steps are `PeerLifecycle`'s; in particular
  nobody destroys a peer that somebody holds, and no peer answers twice.
* `PostSettles`: a session that waits for its peer is answered, or goes.

`LibAvEncoder`
* `TimesIncrease`: the times a peer sends increase, but for the peer that was
  sent the program's first packet: pts 0 leaves `start_ts_` unset, and its
  second frame has time 0 again.
* `DataKept`: the picture of every frame libav holds back is alive, the packet
  is not blank while an observer may read it, and no holder outlives its frame.
* `IsBroadcast`: the packets are given to the peers as a `Broadcast`'s
  messages, in the order of the frames, whoever joins or leaves.
* `EncodeAdvances`: each step of the capture thread has less ahead of it
  (`Ahead`, in the frames that libav holds), or fewer peers to call with the
  packet in hand, or returns from one; and peers can add to the latter only.
* `EncodeReturns`: the capture thread comes back from the observers.

`V4L2Capturer`
* `ReadsOwnFrame`, `BuffersConserved`, `FramesInOrder`: observers read the
  frame that was dequeued, from memory that is mapped and the program's; only
  a failed QBUF loses a buffer; frames are seen in the camera's order.
* `DequeueReady`: the buffer that `select` saw is there when DQBUF runs. The
  device is opened without `O_NONBLOCK` (`v4l2_utils.cpp:38`), so the ioctl
  would wait without it, and the destructor's join with it.
* `StopAdvances`: once `capture_stop_` is set it stays set, and every step of
  the two threads brings the end closer, whatever the driver does or fails.
* `StopCompletes`, `FrameDelivered`: the destructor returns; a filled buffer
  is taken.

`Subject`
* `NoneSkipped`, `Gapless`, `Pruned`, `OnlyLateCalls`: nobody who stays is
  left out or served twice, what had expired is erased, and only a call in
  which a peer is destroyed reaches a freed one.
* `IsBroadcast`: `Next` implements `Broadcast`. `Due` is what the vector and
  the iterator mean for the observers: the entries from the iterator on that
  can be called, and the one that is locked though its owner just left.
* `NextAdvances`: each statement of `Next` brings its end closer; only a new
  entry moves it away.
* `NextReturns`: it does return.

`FrameLayout`
* `PlanesFit`, `EncoderReadsPlanes`: the planes lie one behind the other in the
  allocation, and libav looks for each where it was written.
* `CopyFits`: the `memcpy` of a raw frame runs over the end of the buffer only
  if the driver pads its lines beyond the buffer's own, counts more bytes than
  the picture has, or sends another format or more rows after `S_FMT` failed.
  The code checks for none of the three.
* `PictureKept`: the encoder gets the camera's picture for every JPEG that
  arrives whole, and for every whole I420 frame whose lines are as long as the
  buffer's. Damaged frames and other line lengths may be lost.

Each property is stated in words above its definition. Each that a run checks
has a mutant, a changed definition of the same module, that breaks it. Some
are proved for every instance and have no run: the type invariant `TypeOK` of
each module with proofs, `NoneSkipped`, which `IsBroadcast` implies, and
`NextAdvances` and `StopAdvances`, of whose liveness counterparts there are
runs.

### Four disagreements

* `early_reap`: the option's help promises a connection timeout after a remote
  offer (`parser.cpp:45`); `RefreshPeerMap` destroys any peer that is not
  connected when it looks (`http_service.cpp:82`), however fresh.
* `input_formats`: the help offers `i420`, `yuyv`, `mjpeg` and `h264`
  (`parser.cpp:36`); `ToI420` decodes YUYV as a JPEG, which fails and is
  logged, and leaves the buffer of an H264 frame uninitialised
  (`v4l2_frame_buffer.cpp:99-109`). Both are encoded and sent.
* `only_resources`: "The resource is not appplicable." answers a DELETE only
  when the target has fewer than two routes *and* the first is not "resource"
  (`http_service.cpp:243`), so a DELETE of any path whose second route is an
  id terminates that peer.
* `peer_timeout`: nothing reads `args.peer_timeout`; a POST makes its own
  `PeerConfig` with 10 seconds (`http_service.cpp:160`, `rtc_peer.h:14`).

## 4. The proofs

TLAPS checks every proof, with Z3 and Zenon, and LS4 for the temporal steps.
Each `*_proofs` module has the same shape: an inductive invariant `IInv` of
named parts, `InitInv`, one lemma per action or group of actions, the step
lemma, `THEOREM Invariance == Spec => []IInv`, and one theorem per property
that `IInv` implies.

* `RtcPeer_proofs` assumes `ConstantsAssumption` only: any set of candidates,
  any number of restarts, either value of `has_candidates_in_sdp_`. Beyond the
  types, `IInv` says who owns the peer in each stage of its life and that only
  one thread runs `~RtcPeer` (`Ownership`), that a closed connection has
  delivered its last callback (`Closed`), that without a connection none is
  running or pending (`Reset`), that a running thread is held by its
  `std::thread` and a joinable one was started (`Handles`), and what the
  earlier statements of `Terminate` have established at each later one
  (`Joined`). The safety properties are not
  inductive alone: that the timer may dereference the pointer follows from the
  join before the reset, and that the join really waits for the timer from
  `Handles`; that no timer reaches `close()` behind the join is because
  `Terminate` stored `is_complete_` first. `NoCircularWait` is the order in
  which threads may wait: `Terminate` for the timer, the sender and the
  library, the timer for the library, the library for the sender, the sender
  for nobody; that nobody waits for a thread that never started is `Handles`.
  For `WindsDown` each label has a rank, each queued callback nine units, and
  the lemmas `MoveWork`, `CalmWork` and `CallbackWork` reduce a step to the
  rank of the thread that moves; the hard case is a DELETE, whose `Terminate`
  leads to a second one in the destructor (`TwiceToGo`). Theorems:
  `TypeCorrect`, `ConnectionCorrect`, `ClosedCorrect`, `DestroyCorrect`,
  `NoCircularWaitCorrect`, `WindsDownCorrect`.
* `RtcPeerAnswer_proofs` adds that `send_sdp` runs on one thread only, which
  one depending on the option, and that between the call of
  `on_local_sdp_fn_` and its reset nobody else can call it: `AnswerCorrect`.
  For `CandidatesCorrect` the invariant looks into the queue of callbacks: a
  description on its way has a candidate already or has it behind
  (`Behind`), and none comes before the first description (`Described`,
  `Gathering`), where `OnIceCandidate` would drop it.
* `RtcPeerLifecycle_proofs`: `LifecycleCorrect`, `Spec => Lifecycle!Spec`, one
  lemma per group of actions under the two invariants above. It needs them
  for three steps: that an answer is the first (`SingleAnswer`), that a peer
  connects only when its answer was sent, which is an invariant of its own
  there, and that it goes only with a closed connection. `TeardownCorrect`
  needs the history of each cause: that a peer without a restart is offered
  once and starts one timer (`OneTimer`), that one description is on its way
  to the response and nobody resets what `send_sdp` needs until it is there
  (`OneSend`), and that only an answered client deletes, after which the
  second `Terminate` joins with no callback left (`Deleted`).
* `Signaling_proofs`: any number of sessions and peers, on `NullAssumption`
  only. Beyond the types, `IInv` says that what lies behind the cleaner's
  iterator is in the map (`Round`), that a session has a response only when it
  is writing it, and a lambda a session that nobody else has answered or will
  (`Responses`), what is known of a peer from its stage (`Staged`), where the
  io thread holds one (`Handling`), and that a peer is terminated on one
  thread, by its destructor only when nobody holds it (`Terminating`).
  `OneResponse` and the lifecycles rest on each other: that the lambda's
  session is still unanswered needs `Terminate` to have cleared every lambda
  of a peer that goes. A second invariant on top, `AInv`, is for
  `WaitingHasPeer`: the lambda that the io thread's own peer still has belongs
  to the POST that made it, whose session waits only when its handler returns
  (`Handler`), so that the erasing of any other peer and the answer of any
  other POST leave a waiting session what it waits for (`Attended`).
  `IteratorCorrect` adds to `IInv` that the cleaner has an element whenever it
  looks or erases (`AtPeer`) and why it could end there (`Cause`).
  Theorems: `TypeCorrect`, `ResponseCorrect`, `DeleteCorrect`,
  `IteratorCorrect`, `PeersCorrect`, `WaitingCorrect`.
* `LibAvEncoder_proofs`: any peers, any bound on time. The invariant orders
  the codec's queue behind the packet in hand and behind everything that was
  sent, and says for each peer what `start_ts_` is in terms of the first frame
  it was sent; the exception of `TimesIncrease` comes out of the case where
  that is zero. For `BroadcastCorrect`, `Spec => IsBroadcast`, it adds that
  the packet passed is the one in hand and older than all that the codec holds
  (`Passing`, so that the next message is a later one), and that a peer was
  sent nothing before it subscribed (`Unsent`), so that one that joins in the
  middle of a `Next` may still be given the packet in hand.
  `EncodeAdvancesCorrect` goes action by action, the peers' included.
  Theorems: `TypeCorrect`, `TimesCorrect`, `DataCorrect`, `BroadcastCorrect`,
  `EncodeAdvancesCorrect`.
* `V4L2Capturer_proofs`: any number of buffers, frames and failures.
  `Ordered` says that the frames in filled buffers are distinct and later than
  the last one dequeued; from it `FramesInOrder`, an action property. That no
  buffer leaves between `select` and DQBUF holds because only the capture
  thread dequeues, the driver drops frames and not filled buffers, and
  `StreamOff` comes behind the join. `StopAdvances` needs that the destructor
  is running whenever `capture_stop_` is set (`Stopped`). Theorems:
  `TypeCorrect`, `ReadsCorrect`, `ConservedCorrect`, `OrderCorrect`,
  `DequeueCorrect`, `StopAdvancesCorrect`.
* `Subject_proofs`: any observers, any number of messages. The heart is
  `Served`, what the entries before and behind the iterator have been given,
  and the lemma `RemoveAtFacts` about erasing from a sequence. In
  `BroadcastCorrect`, `Spec => IsBroadcast`, one lemma per action says what it
  does to `Due`; that an entry occurs once in the vector makes the call of one
  observer a `Deliver` of it alone. Theorems: `TypeCorrect`,
  `NoneSkippedCorrect`, `GaplessCorrect`, `PrunedCorrect`, `LateCallsCorrect`,
  `BroadcastCorrect`, `NextAdvancesCorrect`.
* `FrameLayout_proofs`: every width, height, padding and `bytesused`, on
  `SizesAssumption` (their types). Lemmas on rounding up, on products and on
  strides; `PictureFits`, that an I420 picture whose lines are no longer than
  the stride fits into what `Create` allocates, carries `CopyCorrect`, and
  `CopyAligned`, that equal lines put every row in its place, `PictureCorrect`.
  Theorems: `TypeCorrect`, `PlanesCorrect`, `PointersCorrect`, `CopyCorrect`,
  `PictureCorrect`.

**How far the proofs of termination go.** `WindsDownCorrect`,
`NextAdvancesCorrect`, `EncodeAdvancesCorrect` and `StopAdvancesCorrect` also
prove that their measure is a natural number. That the threads come to rest
follows if each that can go on does, and `NoCircularWait` says that some thread
can. An action property does not see a step that changes nothing at all, so a
loop that spins in place is left to the liveness properties: a mutant that
makes `Again` one breaks `EncodeReturns` and not `EncodeAdvances`.

**Proved only.** `TypeOK` of six modules, `NoneSkipped`, `NextAdvances` and
`StopAdvances`: TLC found no counterexample to them before they were proved,
and the runs are left to the properties that say more.

**Model-checked only.** Liveness itself, for which the prover would need
ENABLED and the rules of fairness: `TerminateCompletes`, `NoForgottenPeer`,
`TimeoutCloses`, `Answered`, the liveness of `PeerLifecycle`, `PostSettles`,
`StopCompletes`, `FrameDelivered`, `EncodeReturns`, `NextReturns`. Every safety
property that a passing run checks, and every action property, has its theorem.

## 5. What is not modelled

* `~HttpService` and the destructors of the encoder and of `V4L2Webrtc`: they
  follow `ioc.run()` in `main`, which does not return while the acceptor is
  open, and `exit` and an uncaught exception do not unwind to them.
  `~V4L2Capturer` is modelled all the same, as it joins a thread.
* What undefined behaviour does beyond "no harm" and "the process ends".
* The codec's options and the packetizer's, but for a codec that cannot be
  opened (`libav_encoder.cpp:15-54`, `rtc_peer.cpp:36-46`). One of them
  multiplies `bitrate` by 1000 in an `int` (`:33`).
* What `ParseCandidates` finds: no state of the program depends on it.
* The options that are handed on as they are: fps, rotation, bitrate, port.
* Branches without a caller: DMABUF and multi-planar buffers,
  `SubscribeEvent`, `GetDeviceSupportedFormats`, `CopyBufferData`,
  `RemoveNullObservers`, `CreateOffer`, the state getters.
* Logging; the codecs and libyuv themselves; real time; overflow of
  `int` products in `Create`, which the code checks as `size_t`.

## 6. Plan

1. Done: `RtcPeer`, `V4L2Capturer`, `Subject`, `FrameLayout`, their proofs.
2. Done: `PeerLifecycle`, and `RtcPeer` shown to implement it; `Signaling`,
   `LibAvEncoder`, `Options`; the proofs of the first two.
3. Done: every safety property of a passing run proved.
4. Done: `Broadcast`, and both modules that implement it; the safety half of
   termination: no circular waits, and measures that fall.
5. Left: nothing of the core. What section 5 lists stays out for the reasons
   given there.
