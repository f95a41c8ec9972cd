# OpenCamera: TLA+ models and proofs

OpenCamera is an IP camera program: it takes pictures from a V4L2 device and
sound from an ALSA device, encodes them (OpenH264, FDK-AAC) and serves them over
RTSP, with an ONVIF endpoint beside it for discovery and PTZ.  This directory
holds TLA+ modules translated from its source, the TLC runs that check them on
small instances, and theorems checked by TLAPS.

`base/` (task runners, threads, mutexes), `common/` (Looper, Message, Handler,
MetaData) and the RTSP, ONVIF, codec and ALSA libraries are git submodules or
system libraries.  They are modelled only by what the code in `src/` uses of
them, and are marked *external* in `PROJECT.json`.

## 1. Inventory

### How the program runs

`main` makes a `Conductor`, calls `Init`, `Start` once, and waits.  Five kinds
of threads then only talk by posting messages and tasks:

```
 conductor looper --Start, RequestXSink--------> RTSP looper
 RTSP looper ------notify_ (sink added, client)> conductor looper
 conductor looper --AddX, RequesteKeyFrame-----> media looper
 media looper ------tasks----------------------> worker runner
 worker runner -----tasks----------------------> encoder and transport runners
 V4L2 thread -------frames---------------------> capturer -> encoder runner
 ALSA threads ------10 ms of sound-------------> AudioFlinger -> encoder runner
 encoder runners ---images, packets------------> RTSP queues -> RTSP looper
```

### Components

| Component | State | Operations | Interacts with | What is hard | What makes it correct |
|---|---|---|---|---|---|
| Conductor (`app/`) | looper queue, stream ids, capturers | Start, Rtsp/Onvif notifications, AddVideoSource | posts to RtspServer and MediaService, hears from RtspServer | a source and its sink travel by different routes; one notice per sink | sink after source; a key frame for every client; streams come up and keep flowing |
| RtspServer (`rtsp/`) | looper queue, `started_`, two element queues, session | Start, Stop, RequestXSink, pulls, client callbacks | notifies its owner; encoders push into its queues | each pull posts the next one; queues are popped and pushed by different threads without a lock | pulls neither multiply nor stop |
| MediaService (`media/`) | looper queue, `audio_sinks_` | AddX, RemoveX, RequesteKeyFrame | hands to the worker | objects are looked up by name in messages; a wrong name ends the process | legal calls pass its checks; order is kept |
| HybirdWorker, video half | sources, send streams, senders, sinks | Add/Remove source and sink, key frame | VideoSendStream, MediaTransport, encoder | raw pointers between lists; tasks posted while an earlier one removes their target | lists in step, no dangling sender, a removed source or sink delivers nothing more |
| HybirdWorker, audio half; AudioSendStream; AudioStreamSender; AudioFlinger | send streams by codec, senders, current format | Add/Remove audio sink, SendFrame, UpdateSender | ALSA capture thread, encoder runner | format read under a lock and used after it; a stream dropped while its encoder task is queued | sound reaches the sinks in the format the encoder expects |
| VideoStreamEncoder, OpenH264Encoder | configuration, pending flags, next frame types | ConfigureEncoder, OnFrame, SendKeyFrame | source's thread, encoder runner, send stream | lazy (re)creation on the next frame, failure half way | a key frame request survives; never encodes uninitialised |
| AudioDeviceLinuxALSA | PCM handles, buffers, flags, two threads | Init/Start/Stop of recording and playout, availability probes | DefaultAudioDevice, AudioDeviceBuffer, mixer | checks before a lock, unlocked callbacks, fallback modes, half-failed stops | no use of a closed handle, no self-deadlock, probes restore what they found |
| AudioMixerManagerLinuxALSA | mixer handles and elements | Open/Close, volume, mute | ALSA mixer | failure between open and element lookup | no handle leaked, element belongs to the open handle |
| DefaultAudioDevice, AudioDeviceBuffer | `initialized_`, playing/recording flags, format | the audio device interface | ALSA device, AudioFlinger | buffer marked before the device starts | buffer flags agree with the device |
| V4L2VideoSource, VideoCapturer, broadcaster | mapped buffers, sinks, capture task | AddOrUpdateSink, read, SetVideoSource | kernel driver, encoders | a buffer that is not queued again is gone | buffers are conserved; every frame goes to every sink |
| OnvifServer and its device, media and PTZ services | looper, SOAP thread, service context | Start, Stop, some sixty requests | gSOAP, the shell, the head's motors | one thread for all clients; move, sleep, stop on a shared head; commands that fail; tokens that travel through the client | the head comes to rest; a token once given is honoured; every client is served |
| Configuration | none after start | the ini file read, `convertConfig` | OnvifServer, Conductor | keys missing, values refused | what the services then answer fits together |
| Pure algorithms | none | pixel format preference, device enumeration, symbol loading | the devices above | boundaries | equal to a plain definition |
| Buffers, configuration, plumbing | value types | accessors | | | no behaviour of their own |

The `components` of `PROJECT.json` list every part with its status, and
`hazards` every hazard with the line where it bites and the properties that
would catch it.

## 2. Plan

In order of what the program depends on most; all of it is done, and "proved" says
what TLAPS has checked beyond TLC's runs.

1. **HybirdWorkerVideo** implementing **VideoRouting** (proved).
2. **RtspServer** (proved) and **MediaService** alone with an arbitrary owner, and
   **Conductor**, which composes both with VideoRouting and implements **Streaming**
   (proved).
3. **AudioCapture**: the recording side of the audio device, one control thread
   against capture threads; **AudioPlayout** with **AudioMixer** and
   **AudioDeviceList**, the playout side (proved).
4. **VideoStreamEncoder** with OpenH264Encoder under it (proved).
5. **AudioSending**: AudioFlinger, AudioSendStream and the audio half of the worker
   as one composition (proved).
6. **V4L2VideoSource** and **VideoCapturer** (proved).
7. **OnvifServer** over **OnvifServices** and **AppConfig** (proved).

What could follow: an AudioRouting of VideoRouting's shape that AudioSending
implements, an abstract "recorder" of three states over AudioCapture's control
side, and a composition of Conductor with AudioSending in place of `audio_route`.

## 3. Modules

### VideoRouting, HybirdWorkerVideo

`VideoRouting` is the promise: which streams have a source, which sinks are
attached to which stream; every command takes effect at once.

`HybirdWorkerVideo` is `media/hybird_worker.cc` (video half) with
`media/media_transport.cc`, `media/video/video_stream_sender.cc` and
`media/video/video_send_stream.cc`.  `tasks` is the queue of the worker's task
runner, filled in posting order and run one task at a time; each `Run...` action
is the whole lambda of one operation, with the tasks it posts.  Lists of the
source are sequences, a `VideoStreamSender*` is an address that may outlive what
it points to, and `source_sinks` is what an encoder leaves registered with its
source.  A key frame request runs on the encoder's runner and is recorded in
`key_requests`.

`MediaTransport::RemoveVideoSink` asks every sender to remove the sink, and
`VideoSourceBase::RemoveSink` fails an `AVE_DCHECK` in each sender that has not got it:
the removal then ends the process or goes on without it. The tasks of a destroyed stream
do the same (`crashed`). So the code does not keep to its assertion: with two streams,
taking a sink off one of them fails it in the other's sender. What is said of delivery
and of `VideoRouting` is said of a process that runs.

The `FIXME` at `media_transport.cc:107`, that the sink asked for is "not the real sink
in audio_stream_sender" and that video is the same, is right about video:
`MediaService::AddVideoSink` wraps the sink anew for each call and keeps no wrapper
(`media_service.cc:100`), so that no later call could name it. But the worker's removal,
which is what this module is about, is called by nobody yet; it takes the wrapper that
its caller passes, and whoever keeps that can remove it. The sinks of this module are
those wrappers.

### RtspServer, RtspServerOwner

`RtspServer` is `rtsp/rtsp_server.cc`.  `rtsp_looper` is the looper's queue;
`rtsp_delayed` counts pulls posted with a delay, which may become due in any
order.  Handlers are one action each.  The element queues are lengths, since no
handler looks at an element before it passes it on.  Pushes come from the
encoders' threads and nothing orders them with a pop: a push that overlaps the
pull at the head of the looper may be lost.  A corrupted `std::queue`, which the
same race permits, is not modelled.  `RtspServerOwner` adds an owner that starts,
stops and requests sinks in any order.

### MediaService, MediaServiceOwner

`MediaService` is `media/media_service.cc`.  An operation runs on the caller's
thread and posts; a handler hands the request to the worker.  `check_failed` is
the end of the process by a failing `AVE_CHECK`.  `key` of an audio message is
the name under which it carries its sink.  `MediaServiceOwner` calls every
operation and keeps to the contract of audio sinks.

### Streaming, Conductor

`Streaming` is the promise of the whole program: the server listens, the camera's
stream gets its source and then its sink, the sound's stream its sink, each once and
for ever, and a key frame is requested for every client and for nobody else.  It has no
threads or messages.

A key frame is requested of the streams that exist: a request that reaches the worker
before any does asks nobody (`unasked`), and the stream that comes later begins with a key
frame by itself.

`Conductor` is `app/conductor.cc` composed, by `INSTANCE`, with `RtspServer`
(whose `notify` is the conductor's looper), `MediaService` and `VideoRouting`
(the worker, which `HybirdWorkerVideo` implements) fed by the worker's queue.  It
starts as `main` does.  The two ids, the codecs and the two sinks are those the
program uses.  `OnStart` is a step for each of its three parts (`starting`): it posts
Start, then the request for the sound's sink, both to the RTSP looper, then it opens the
camera and posts the message that adds it to its own looper.  The RTSP looper runs in
between, so that the sound's sink and clients' notices may come before the camera's
message.  `OnAddVideoSource` posts to the media looper and then to the RTSP looper in one
step: the conductor's looper is in it all the while, so that a step of the RTSP looper
between the two posts only adds messages that the conductor takes later, and is as well
taken before the first post; one of the media looper or of the worker, as well after the
second, since all that they pass on to the RTSP server is images of a stream whose sink has
not been requested yet.  Under `Promise` its own variables are those of
Streaming: the safety part is `StreamingSpec`, the fairness part `StreamingProgress`.

### AudioCapture

`AudioCapture` is the recording half of
`modules/audio_device/linux/audio_device_alsa_linux.cc` with
`api/audio/default_audio_device.cc` above it and `audio_device_buffer.cc` beside
it.  One control thread calls the operations; each `StartRecording` makes a
capture thread, which runs `RecThreadProcess` until it reads `_recording` false.
`base::Thread` is external and nothing waits for its end: the source resets the
pointer with "TODO wait for thread exit".  A thread may therefore outlive the
recording it was made for.  What runs under `mutex_` is one step, what runs
outside it is a step of its own, so `StartRecording` is four actions.

`dev` holds the device's members and what libasound has open; `machine` is the
hardware: the channel counts it takes and the calls that may fail.  `crashed`
names the first undefined operation.  Some divergences are part of the model and
have no run of their own, since nothing in the repository states otherwise: a
capture thread that passed the unlocked check of `_recording` may use a handle
that was just closed; `RecordingIsAvailable` ends a recording that is going on;
a callback may be exchanged under a thread that is delivering to it;
`initialized_` is not set by the constructor (a free choice in `Init`).  A read
that returns fewer frames than the device said it had fails an `AVE_DCHECK` (`short read`).

### AudioDeviceList, AudioMixer, AudioPlayout

`AudioPlayout` is the playout half of the same files, with one control thread and
play threads that nothing waits for, in the same steps as AudioCapture: what runs
under `mutex_` is one step.  A play thread leaves `mutex_` to ask
`AudioDeviceBuffer` for sound and takes it again to copy what it got to the block
that is there by then (`request`, `relock`).  What an operation may do to the
device is an operator from a state to the set of states it can end in, so that the
availability questions, which initialize, stop and probe on their way, use the
definitions of the operations that they call.

`AudioMixer` is `audio_mixer_manager_alsa_linux.cc`: a mixer is a handle, an
element and what the hardware's element holds; an operation maps it to the set of
mixers and answers it can end with.  libasound is external: which elements there
are, which of them have a volume and a switch, and which calls may fail is the
hardware's.  `AudioDeviceList` is `GetDevicesInfo`: the indices that devices get,
as a function over the cards' hints, against the reference that `EveryDeviceChoosable`
states.  `FirstIndex` gives `enumCount` at a card by what has been counted before: one
for each card so far ("default" for the first), one for each hint shown of the cards
before.  The list of devices does not change while the program runs (no hot-plug).

A short write fails an `AVE_DCHECK` (`short write`); `LoneThreadPlays` leaves that one out.
A question about the volume leaves open a mixer in which it found no element, and the next
one then answers that there is a volume control, against its comment
(`audio_device_alsa_linux.cc:238`); the mute question asks the manager again and holds
(`MuteAnswered`).

No operation of the program calls the playout side today: AudioFlinger only
records.  The control thread of the model calls the public operations of
`DefaultAudioDevice` in any order, as another program of the same library could.

### VideoStreamEncoder

`VideoStreamEncoder` is `media/video/video_stream_encoder.cc` with
`openh264_encoder.cc` under it and the constructor of `VideoSendStream` above.
`runner` is the encoder's task queue; `vse` holds the encoder's members.
`SetSource` comes before `ConfigureEncoder` in the constructor, so frames may be
queued first (`built`).  libopenh264 is external: its calls fail as `faults`
permits.  It keeps the mark of a requested key frame while it codes nothing, and
its first picture is not assumed to be a key frame by itself.  `owed` records
that no key frame was delivered since the last request.

A frame that comes before the configuration is set up for with the default one, whose
bitrates are 0, and fails an `AVE_DCHECK` (`video_stream_helper.cc:92`): the process ends
there (`crashed`), or goes on and encodes.  The code does not keep to its assertion here;
`OnlyEarlyFramesFail` says that this is the only way, so that a stream whose
configuration came before its first frame never meets it.

### V4L2VideoSource, VideoCapturer

`V4L2VideoSource` is `media/video/v4l2_video_source.cc` with
`video_source_base.h`: cameras, each with a runner.  The constructor does all of
its work before anyone else knows the camera, so that it is the initial state,
with every step that may fail (`Constructed`).  After that only the runner
touches the device; `read` is one step.  The driver is external, keeps the
format it was asked for, and fails as the machine's `faults` say.  `stop`,
`pause` and a second `start` have no caller and are left out.

`VideoCapturer` extends it with `media/video/video_capturer.cc`: one runner to
which the callers and the cameras post, and which posts to the cameras when the
source is exchanged.  `called` is what a caller expects after its calls.
Processors are external and hand a frame back at once, as the one of
`media/test/video_capturer_unittest.cc`, or keep it.  The frame and drop counters
are left out: nothing reads them.

`SetProcessor` gives the processor the capturer as a `VideoSinkInterface`, whose
method is `OnFrame`, so that a processed frame comes back as a new one
(`HandsBack`) and never by `OnProcessedFrame`, as the comment in
`video_capturer.cc:69` has it.  `FramesKeepComing` and `LeftSourceFallsSilent` say
where they suppose that there is no processor.

### AudioSending

`AudioSending` is the way of the sound: `media/audio/audio_flinger.cc`,
`audio_send_stream.cc` and `audio_stream_sender.cc`, the audio half of
`hybird_worker.cc` and `media_transport.cc`, and what `fdkaac_encoder.cc` answers.
A sink's call and the worker's task for it are one step, as only the tasks, in
the order of the calls, change anything; `UpdateSender` is a step of its own,
because it takes `sender_lock_` and the capture thread may be between its two
sections (`DataIsRecorded`, `SendFrame`).  Each stream has a runner, and its encoder's
packets come back to that runner before they go to the sender and so to the transport
runner.

A removal of a sink asks every sender, and those that have not got it only warn.  The
`FIXME` at `media_transport.cc:107` says that the sink asked for is not the one the sender
has: for sound it is, since `MediaService` keeps the wrapper it posts to add a sink and
posts the same one to remove it (`media_service.cc:126-131` and `145-154`); wrappers are
what `Sinks` stands for.  (For video see HybirdWorkerVideo.)  No removal comes that far
today, as `MCMediaServiceChecks` shows.

Streams and senders end while tasks for them are queued: what such a task does is
undefined, and `crashed` says that it ended the process; the model goes on, too,
as if nothing had happened.  Members that no constructor sets (`sample_rate_hz_`
of the flinger, `pending_reconfigure_encoder_`) are free choices.  A frame that
was captured before the flinger knew any stream may have no format at all; a
stream that gets it adopts that format, its encoder refuses it and nobody looks at
the answer.  An update that happens then keeps the flinger at no format; only
another one makes it send again.  `KeepsSounding` therefore asks that the flinger ends
up sending in the configured format.  That the frames themselves are remixed or
resampled is no part of it: `RemixAndResample` is empty.

### AppConfig, OnvifServices, OnvifServer

`AppConfig` is what an ini file makes of the configuration (`app/app_config.h`) and
`convertConfig` of the ONVIF context (`onvif/onvif_server.cc`).  A file is whether it
parses, and its values by section and key.  A file that does not parse fails an
`AVE_DCHECK`; where that is passed over the configuration is what its members are made
with (`Unread`).  `convertConfig` returns early when an interface is refused, with what it
has set by then; a member of the profile, the profile or a command of the head that is refused
is left out without an error.
Two things that the code
does are in the model as they are: `hardware_id` is read into `manufacturer`
(`app_config.h:84`), and the head's commands and `ptz_enable` are read from section
`ptz`, while `data/open_camera.ini` has them in `[onvif]`, so that the shipped file
leaves PTZ off.

`OnvifServices` is what the device, media and PTZ services answer.  They keep no
state: an answer is a function of the context, reduced to whether it is a fault and
which tokens, addresses or facts it gives.  Handlers that answer nothing
(`SOAP_EMPTY_HANDLER`) are sets of names.  A PTZ answer is also the list of commands
that it has the shell run, with the stop that ends a relative move.  Sleeps are not
modelled; the moment between two commands is.

`OnvifServer` is the rest of `onvif_server.cc`: `Init`, the looper's Start and Stop, the
SOAP thread (accept, receive, try the services in turn, reply), its clients, which
may leave before their answer, and the camera's head, which a command moves or
stops unless it fails.  A reboot request ends the process three seconds later, while
other requests go on.  A second Start, or the destructor, replaces or destroys a
joinable `std::thread` and so ends the process (`ended`).  `ServiceContext`, gSOAP and
the ini reader are external.  Whether a profile's source and encoder configurations have tokens
of their own is `ServiceContext`'s (`third_party/onvif_srvd`, a submodule): the
constant `OwnTokens`.  The media service compares an encoder's token with the tokens
of sources (`onvif_media_binding_service.cc:670`), which is right as long as they
are one token; run and theorem are for that case (`OwnTokens = FALSE`).  The program
makes one profile.

## 4. Runs

| Run | Shows | Bounds and why they are enough |
|---|---|---|
| `MCHybirdWorkerVideo` | sources and streams in step; no dangling sender; an image reaches the sinks routed to its stream, and none that its clients took off it; implements VideoRouting while the process runs; a key frame request reaches every stream | two streams and sources and one sink give every pair of orders of add and remove and sharing of a sink; the queue bound lets a removal wait behind the tasks that concern its stream |
| `MCHybirdWorkerVideoErase` | *violated*: an erased stream's encoder stays registered with its source | same |
| `MCRtspServer` | pulls never multiply; they end after a last Stop; they never break while the server runs | one sink of each kind, three switches (start, stop, start again), one client: a chain can survive a stop, die in it, and meet a restart |
| `MCMediaServiceChecks` | *violated*: removing an audio sink ends the process | four calls: add, remove, add again and one other, over two sinks |
| `MCConductor` | implements Streaming, with what must come about, in every order of the three parts of the start and the server's answers; no check fails; every client's key frame request is on its way, made, or found no stream yet; one chain of pulls for each queue, for ever; queues drain | two clients that come and go, queues of two: the loopers' queues hold everything the program ever posts, so the rest needs no bound |
| `MCAudioCapture` | a recording device has its handle open, a block of the right size and the buffer marked; handles are neither leaked nor closed twice; capture ends after a last stop; the stereo probe puts back what it found | two threads: an old one beside a new one, which is where a restart can go wrong; blocks of two frames: a block may be complete or not; a machine on which everything may fail and a mono one on which nothing does |
| `MCAudioCaptureStuck` | *violated*: a stereo probe can wait for a lock it holds | same |
| `MCAudioPlayout` | a device that plays is initialized, open and of one block size; handles and mixers are neither leaked nor closed twice; every listed device can be chosen; who is told of a mute control can use it and finds the mixer as it was; a play thread that is alone comes to no harm but for a short write | one of three machines: a PCM on which everything may fail, in mono and in stereo; mixers on which every call may fail, behind two cards; sound mixers and a card that cannot be asked.  Two threads: an old one beside a new one.  Hints of every kind that the list tells apart |
| `MCVideoStreamEncoder` | only an initialised native encoder is used; an encoder made for other frames has a reconfiguration pending; a key frame follows every request; only a frame before the configuration fails its check; encoding starts, also after such a frame | two kinds of frames (a change, and a change back), a codec that works, one the encoder refuses and one that is unknown, no fault or all of them, four tasks |
| `MCVideoCapturer` | buffers are conserved; a usable format is chosen; the capturer is a sink of its source only, and never removed twice; frames keep coming; a source that was left falls silent | two cameras, so that a source can be exchanged for another, itself or none; one call and one frame of each camera on the runner at a time, with the cameras' own queues beside it: a frame in flight meets every change |
| `MCAudioSending` | the lists of worker, transport and flinger in step with the sinks attached; senders end up with those sinks, also at a reused address; an attached sink keeps getting packets | two sinks on one codec or on two, one of which has no encoder; two addresses, so that one is reused; two sink tasks waiting on the transport runner, one frame and one packet of a stream on its way: a removal meets each of them |
| `MCOnvifServer` | between requests the head moves only for a continuous move or a failed stop; a token once given is known to every question; every client is served | two clients in six scenarios: moves whose stop or move may fail; no stop command; the shipped file, from profiles to addresses and from configurations to options; a stream that is refused; a file that does not parse.  One Start or Stop waits at the looper at a time: two, one after the other, are what ends the process |

Fairness is weak fairness of one turn of each looper, runner and thread, and of
each delayed message becoming due: they run as long as the process does and
their loops take every message.  In AudioCapture it is one step of the control
thread while it is inside an operation (`Continues`) and one of each capture
thread (`Thread`): mutexes are released, since every critical section ends, except
the one that waits for itself.  In VideoStreamEncoder the constructor goes on and
the runner takes its tasks; in VideoCapturer, besides, each camera's repeating
task comes back and a driver with queued buffers fills them; in AudioSending the worker
ends its task and the capture thread goes on.  AudioPlayout states none and has
no liveness property.  In OnvifServer the SOAP thread goes on with what it has
accepted (`Serves`, weak): every shell command ends, and gSOAP gives up on a client
that sends nothing after the three seconds that the code sets; and a connection
that waits is not refused for ever (`Accepts`, strong): the code tries again
after each failed `accept`, and nothing says that a try fails when the one before
did.  Nothing is assumed
of clients, of the owner, of the callers, of the source of an encoder's frames or
of processors; where frames are needed, the property says so.  The types of
most modules are proved (section 5) rather than run.  A run with
`CHECK_DEADLOCK FALSE` is one whose environment may stop calling, or whose process may
end.

`AVE_DCHECK` is a macro of `base/`, a submodule, and on or off by the build.  A check of
this kind that fails either ends the process or is passed over, and the model has both:
after the one nothing happens any more (`crashed`, `ended`), after the other the code goes
on as written.  Where what follows is a call through a null pointer, both builds end
(an absent encoder in AudioSending).  The same holds of undefined
operations for which going on is a plausible outcome, as the use of a destroyed object.
A failing `AVE_CHECK` always ends the process.  "Served", of a client, is that
its connection does not wait for ever; it may be closed without an answer when gSOAP fails.

## 5. Proofs

`HybirdWorkerVideoProofs` proves, for any sets of sources, streams and sinks,
any number of addresses and any bound on the queue: the types (`TypeCorrect`), the invariant
`ListsInvariant`, and from it `SourcesMatchStreams`, `SendersLive`,
`SendersUnique`, `DeliveredAsAsked` and, while the process runs, the refinement of
`VideoRouting`.
The properties are not inductive by themselves: that a stream finds *its*
sender needs the sender to exist since the stream was made, that there is only one per
id, and that addresses of live senders differ; that a removal erases the matching
stream needs the source and stream lists to hold the same ids once each; that a sink its
clients took off gets nothing more needs that a removal waits behind every addition that does
(`RemovalsFollow`).
`IInv` is the conjunction of these.

`VideoStreamEncoderProofs` proves, for any kinds of frames, configurations and
faults: the types, `EncodesOnlyInitialized`, `MismatchIsPending`, `OnlyEarlyFramesFail`
and the action
property `KeyFrameNext`.  The last needs to know where the request is kept
while no picture is coded: in the encoder's own request, in the native encoder's
mark, or in a pending (re)creation, which starts with one.  That creation is
pending only before the first initialization, and that `ConfigureEncoder` is on the
runner at most once, is what makes the invariant inductive.

`VideoCapturerProofs` proves, for any cameras, machines, processors and encoders
and any number of buffers: the types, `SourceFollows`, `CameraKnowsSink`,
`BuffersConserved` and `ConvertibleIfPossible`.  The tasks a camera still has to
execute alternate between removing and adding the capturer (`Alternates`), the
first one according to whether it is a sink now, the last one according to
`video_source_`; an exchange adds at one end of the queue and the camera takes from
the other, and neither needs to know how long it is.  A camera's part (`Sane`)
follows the buffers through construction, filling and reading.

`AudioSendingProofs` proves, for any codecs, sinks, addresses and bounds: the types,
`ListsInStep` and `SinksFollow`.  `SinksFollow` is about live
senders, and is not inductive: a sender may be made at the address of a dead one, with
tasks for that address still queued.  `SinksAgree` says of every address, live or
not, that the last task waiting about a sink (or, without one, the sender's own
list) agrees with what is attached there, which for a dead address is nothing.
Besides, a sink is attached to one codec at most (`AttachedOnce`, the caller's
contract), and a stream with tasks is one the flinger sends to (`RunnersLive`).

`RtspServerProofs` proves, for any owner, number of requests, starts and stops: the
types, `NoExtraPulls` and `RunningKeepsPulls`.  `NoExtraPulls` is not inductive: a
request that still waits will start a pull, so that what is bounded by the requests
is `Coming`, the pulls in flight and the requests that wait.  Every handler
exchanges a request for a pull or a pull for at most one delayed pull (`TurnPaid`),
and a running server's exchanges a pull for exactly one.  Its first lemmas count
messages as they are posted at the end of a queue and taken at its front;
`ConductorProofs` uses them too, through an instance.

`ConductorProofs` proves, for any number of clients and any bound on the element
queues: the types, `ChecksHold`, `KeyFramesConserved`, `SourceBeforeSink`,
`ChainsConserved` and the refinement of `Streaming`.  No
check fails because there is one request for an audio sink: it is not made yet, or
waits in the RTSP looper, or its answer waits in the conductor's, or the media service
has the sink (`AudioSinkOnce`), and because the media looper only holds the messages
this program sends (`ProgramMedia`).  `SourceBeforeSink` needs an order in two queues
and a place in two others (`OrderInv`): a sink in the worker's queue comes after its
source or the source is active; a sink in the media looper comes after its source
there or the source is further on; and a request or notice about a sink, in the RTSP or the
conductor's looper, is about a source that is in one of those places already.
`ChainsConserved` is why the queues are drained for ever: each
queue of the server is pulled by exactly one chain, from the request for its sink on.
Where `NoExtraPulls` bounds the chains from above for any owner, this owner keeps them
from dying too: a chain ends at a pull that finds the server not started, so the proof
carries that Start is the server's first message and that nobody stops it (`ChainInv`).
That every step is one of Streaming's or changes none of its variables
(`ImplementsStreaming`) needs, besides these, that nothing is wired twice or to the
other stream: the camera's source, its sink and the sound's sink are each in exactly one
place, counted over the queues on its way and what is wired already, and the messages
about each carry the id of its own stream (`WiringInv`).  None of the queues alone says
so: each handler takes the one message from a queue and posts it to the next.

`OnvifServerProofs` proves, for any clients, requests, configurations and failing
commands: the types, `HeadStillOrDriven` and `TokensHonoured`.  The commands that are
left of a request end with a stop, unless they are a preset or a continuous move's
(`StopComes`); so a head that moves for no continuous move, without a failed stop, is in
the middle of a request whose stop is still to come (`DriveInv`).  Every token
that was told is one of the context's (`TokenInv`), and the context does not change
while the SOAP thread runs; that each question knows those is a lemma per service.  It
assumes `~OwnTokens`.

`AudioDeviceProofs` is about both sides of the audio device: AudioPlayout, which it
extends, and AudioCapture, its instance `Capture`.  Each theorem is about one side, for
any machines, bounds and number of threads.

- Recording: the types, `RecordingReady`, `HandlesAccounted` and the action property
  `StereoProbeRestores`.  What every operation keeps of a device is `RecorderInv`: an
  initialized device is open and the hardware takes mono or stereo, so that trying the
  other after a refusal ends well; a block exists only while it records.  That the block
  has the size of the channels needs that `StartRecording` is the only one between
  marking and making it (`CaptureInv`).  `StereoProbeRestores` follows the operation
  through its five calls of others from that state.
- Playout: the types, `PlayoutReady`, `HandlesAccounted`, `MuteAnswered` and
  `LoneThreadPlays`.  The last needs most: a device that plays has its buffer marked, one
  of its threads is `Fresh` (it has not been through a stop: if it is about to copy, the
  buffer has asked for what its block holds), and the one that is alone must be that one.
  The mixers add `MixerOK`: an element is one of its hardware, and a handle that nothing
  lost is counted once.  The availability questions, which initialize, stop and probe on
  their way, keep `WorkOK` at every operation they call.
- `EveryDeviceChoosable`, for any cards and hints: the ranges of indices of two cards do
  not meet (`RangesApart`), since `FirstIndex` grows past one for each hint shown, so that
  an index determines card and place (`DeviceHasIndex`).

The proofs made two hypotheses explicit that the small instances meet: a machine's
list gives the name of "default" before its mixers are all accounted for (`AllNamed`), and
a `uint16_t` can count the indices (`EveryDeviceChoosable`): with 65536 or more,
`PlayoutDeviceName` would take the count modulo 65536.

The only assumptions are those named in the modules, which TLC evaluates in the
runs.  The proofs have one lemma or step per action and below it one per part of
the invariant that the action can disturb.

Liveness (`KeyFrameReachesStreams`, `StoppedPullsEnd`, `StreamingProgress`,
`QueuesDrained`, `CaptureEnds`, `EncodingStarts`,
`FramesKeepComing`, `LeftSourceFallsSilent`, `KeepsSounding`, `EveryClientServed`) is
checked by TLC only: the provers do not handle fairness.  Every other property of a passing
run is a theorem.

## 6. What is not modelled

`components` says of each part that is left out why: remixing and resampling have
empty bodies; the motion detector and the fake encoder factory are made by nobody;
`H264FileSource` is made by the conductor and never read; the camera information tool
is a program of its own with an earlier copy of V4L2VideoSource; frames and buffers are
values.

Pixel and sample processing, parsing of SOAP and of the ini file's syntax, the
camera information pages, logging and file layout are computation without state
or interaction.  Time is not modelled: a delay ends, sooner or later.  Devices that come
and go while the program runs are not modelled; nothing in the source listens for them.

`Conductor::WaitingFinished` waits on a condition variable without a predicate,
so that a spurious wake-up ends the program; there is no state in the source that
a property of this could be about.  `conductor.cc:141` reads the
stream id inside an `AVE_DCHECK`; the model reads it, as a build does in which the
macro evaluates its argument: with another the id that is posted would be whatever the memory held.
