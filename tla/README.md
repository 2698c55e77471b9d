# TLA+ models of waveshare-usb-lora-node

This directory is the verification project of the Meshtastic node in this
repository: models in TLA+ of the parts whose correctness depends on the order
of things, instances of them for TLC, and theorems checked by TLAPS.

The program drives a USB LoRa dongle. `ws-node` sends and receives Meshtastic
packets through it, forwards the packets of other nodes and talks to the rest of
the world over NATS; `ws-ntfy` is a bridge from NATS to ntfy.

## 1. The system

| component | source | state | operations |
|---|---|---|---|
| serial framing | `pkg/client/serial_client.go` | the port; nothing is kept between frames | `SendMessage`, `ReceiveMessage`, escaping, CRC16 |
| request layer | `pkg/client/api_client.go` | channels `Send` and `Recv` (one place each), a sending and a receiving goroutine, a context | `Open`, `SendMessage`, `SendRequest`, `ReceiveMessage`, `Close` |
| message formats | `pkg/client/messages.go` | none | (de)serialisation of each message |
| LoRa device | not in the repository | mode of the radio, what it has on the air | answers, packet events, RSSI, log messages |
| radio client | `pkg/meshtastic/meshtastic.go` | five channels of ten places, `seenPackets`, the counter of retries, one loop and any number of retry goroutines | `Open`, `Close`, `handleRadioMessage`, `transmitPacket`, `switchToRx` |
| event loop | `pkg/event_loop/event_loop.go` | a linked list under a mutex, the channel `wake`, a context | `Post`, `Put`, `Quit`, `Run` |
| node | `pkg/meshtastic/node.go` | three reader goroutines, an event loop, the applications | `Start`, `Stop`, `SendApplicationMessage`, `retransmitPacket` |
| applications | `pkg/meshtastic/app_*.go` | an event loop each (but text messages), NATS subscriptions | `Start`, `Stop`, `HandleIncomingPacket` |
| channel codec | `pkg/meshtastic/channel.go` | none | `EncodePacket`, `DecodePacket` |
| packet identifiers | `pkg/types/packet_id.go` | a ring of the last identifiers | `GetNext` |
| `ws-node` | `cmd/ws-node/main.go` | the process and its signal handler | start, signal, stop |
| `ws-ntfy` | `cmd/ws-ntfy/main.go` | a map of node names under a lock and its file, a stream per channel | start, `set`, `save`, `postIncoming`, `streamReplies`, end |
| configuration, basic types | `pkg/meshtastic/*_configuration.go`, `pkg/types` | none | parsing |

How they interact:

```
 applications --SendApplicationMessage--> OutgoingPackets -->+
 node's event loop --repeats, forwards--> OutgoingPackets -->|  radio client
 node's readers <-- IncomingPackets, Rssi, Errors, Warnings -|     (loop)
                                                             |   SendRequest
                                      Recv <-- receiver <----+---> request layer
                                                   |                  |
                                                serial framing  (escaped frames)
                                                   |                  |
                                                     LoRa device

 NATS --names, texts--> ws-ntfy --posts--> ntfy server --streams--> ws-ntfy --> NATS
                           |
                      file of names, replaced as a whole
```

The hard behaviours:

* One goroutine (the radio client's loop) does everything on the radio. It blocks
  in exchanges with the device, during which it throws away whatever is not the
  answer, and in pushes onto bounded channels. Its input and its outputs are
  served by goroutines that push onto its input as well.
* A refused packet wanders from the loop to a goroutine, a timer and back onto
  the queue; a counter changed by both sides decides when to give up.
* An answer is matched by the type of the message only; lost answers, timeouts and
  late answers are possible. Reads have a timeout, writes have none.
* What was heard is remembered for 30 s, and that decides what is delivered; the
  node repeats its own packets and neighbours repeat them too.
* The event loop walks a linked list while posters and the walk itself append to
  a new one that uses the same `next` fields, and sleeps on a timer that a
  one-place wake-up channel cuts short. The clock advances between its reads.
* Shutdown goes through four kinds of goroutines in order, and each may be
  blocked on another.
* Bytes are lost on the serial line, in a format that has no length in front of
  the escape sequences and ends the reader on some errors but not on others.
* The first request to the device is made up to thirty times, and any of its
  answers may come late; the loop that starts afterwards knows nothing of that.
* Applications, each on a goroutine of its own, share a ring of packet identifiers
  without a lock, and each posts its next publication at the end of the last one.
* Nodes pass packets on to each other. Only the records of what was heard and a
  hop limit in the header keep a packet from going round for ever, and neither
  may keep it from a node within reach.
* `ws-ntfy` may end at any point of a save, and its file must be whole and as good as
  before. What it posts to a topic comes back to it on the stream of the same topic,
  and the stream breaks and is opened again.

What makes each component correct is stated as the properties of section 4; the
hazards they aim at are listed in `PROJECT.json`, each at its line.

## 2. The modules

| module | models | refines / uses |
|---|---|---|
| `LoraDevice` | the device and the line of whole frames (external) | |
| `ApiClient` | `ApiClient`: its goroutines and operations | extends `LoraDevice` |
| `ApiCaller` | any caller of `ApiClient` | `InOrder`: implements `OrderedChannel` |
| `OrderedChannel` | promise: frames arrive in order, once each, without gaps but for those nobody knows, until the channel breaks | |
| `MeshtasticClient` | the radio client over `ApiClient` and the device | `ImplementsRadioLoop` |
| `RadioInit` | `Open` and `initRadio`, in front of the client | extends `MeshtasticClient` |
| `RadioLoop` | promise: what the node sees of the radio client | |
| `EventLoop` | the event loop, down to its pointers | `ImplementsDelayedTasks` |
| `DelayedTasks` | promise: run once, never early, none lost | |
| `Node` | node, event loop, applications and process around `RadioLoop` | `Radio == INSTANCE RadioLoop` |
| `Applications` | what the applications send, with the generator of packet identifiers | |
| `Mesh` | several nodes: header flags, channels, records, forwarding | |
| `SerialClient` | frames at byte level, noise, timeouts | |
| `NodeDirectory` | the names of nodes in `ws-ntfy`, in memory and on file | |
| `ReplyBridge` | its streams of replies, and the ntfy server (external) | |
| `NtfyService` | the process `ws-ntfy` | extends both |
| `MC*` | instances for TLC | |
| `*Proofs` | theorems about the module in their name; those about `RadioInit` are in `MeshtasticClientProofs`, those about `ApiCaller` in `ApiClientProofs` | extend it and `TLAPS` |

From the bottom: frames of bytes (`SerialClient`) carry the messages of
`ApiClient`, on which `RadioInit` and `MeshtasticClient` run. `MeshtasticClient`
implements `RadioLoop`, around which `Node` is built; `EventLoop` implements
`DelayedTasks`, what `Node` takes an event loop for. `Applications` looks into what
is one action in `Node` (`Publish`), and `Mesh` takes each node for what `Node` and
`MeshtasticClient` promise of it.

### Correspondence with the code

Names are those of the code where TLA+ allows it. A step of a model is a stretch
of code between two points where its goroutine may block or another may see what
it has done.

* **ApiClient**: `recv` and `send` are the channels `Recv` and `Send`; `receiver`,
  `held` and `sender` are the goroutines started by `Open`. The sender takes a message
  (`SenderTake`) before it writes it (`SenderForward`, `SenderFail`). A write waits for
  room on the line; it may fail, and never has to. `SendRequest` writes
  (the action of that name) and then takes messages from `recv`:
  `SendRequestReturn`, `SendRequestDiscard` and `SendRequestTimeout` are the three
  things that can come next, and `call` is the request awaited. It times out
  whenever it likes if answers may be `Late`, and else only when no answer can come
  any more (`AnswerDue`). A known message whose payload cannot be deserialized is
  dropped like an unknown one (`ReceiverDrop`). The caller's
  module conjoins what it does with the result, so that each is one action of
  the caller (`Transmitted`, `TransmitBusy`, `TransmitTimeout`, ... are
  `transmitPacket` and the switch on its result).
* **MeshtasticClient**: `pc` is where the loop is: `select`; `send`, `switch` and `deinit`
  at the write of a request, `transmit`, `rx` and `standby` at the wait for its
  answer; `incoming`, `rssi`, `errors`, `warnings` at a push onto the channel of that name. `hand` is the packet in the
  local variable: it is out of `OutgoingPackets` before it is written (`TakePacket`,
  `TransmitPacket`). `sleeping`, `pushing` and `returned` are the retry goroutines at
  their timer, at their push and between the push and the count down.
  `seen` and `age` are `seenPackets`; records are dropped when a packet is looked
  up, as in `forgetOldSeenPackets`. `sent` and `heard` are ghosts; `sent` is set when the
  device accepts a packet, not when the loop learns of it.
* **RadioInit**: `step` is the request that `initRadio` is making, `tries` its attempts at
  the first one. What was on the line before, whatever mode the radio is in and the
  answers that come late are in `toHost`, `mode` and `recv`. The power is looked up
  between the second exchange and the third, as in the code. `applied` is a ghost.
* **EventLoop**: the list is `eventQueue`, `eventQueueTail` and `next`; the mutex is
  held within one action. `pc` is at the select, at the start of a pass (`drain`),
  at the first clock read of an event (`check`), in its callback (`run`) or at the
  second read (`postpone`).
* **Node**: `main` follows the main goroutine and the signal handler through `Start`
  and `Stop`. The event loops are taken for what `DelayedTasks` promises: `tasks` is
  a set and any of them may be due. The rest of the node's view of the radio
  is `RadioLoop`.
* **SerialClient**: `line` is a FIFO of bytes. The reader has read the bytes
  `frame` since `START`; the length field is interpreted from them as
  `ReceiveMessage` does. The checksum is the real one, with the exclusive or and the
  shifts of `crc16` written as arithmetic and tables (`xorTable`, `spread`); `crc16` and
  `escape` are recursive functions over the bytes of a message. The reader's checksum
  goes on with each byte of the payload, where the code takes the payload at once:
  nothing can come in between, and `CrcOfAppend` says that it is the same.
* **Applications**: `at` is where an application is: waiting for its period or for a
  text, in `GetNext` (`scan`, `load`, `store`, `reload`, `advance` are its reads and
  writes of `prev` and `index`), pushing the packet, or about to post itself again.
  A scan sees each place as it was at some moment of the scan: `stable` holds the
  places nobody has written to since it began. Without a lock the build may read
  the index once or twice (`Reload`). `recent` and `alone` are ghosts. `channelOf` is the
  channel in the configuration of each application, `ChannelUsed` the one it sends on,
  which for the position is that of `node_info`. After an error of `proto.Marshal` an
  application returns without posting itself again (`MarshalFails`) and is `ended`; after
  an error of `SendApplicationMessage` it goes on.
* **Mesh**: a node is `toSend`, the copies it has still to send, `seen`, its
  `seenPackets`, and `given`, what its applications got. A record may expire at any
  time, whatever is still to be sent (`Forget`). Sending a copy and hearing it
  is one action; who hears it is chosen, so that collisions may lose it anywhere.
  `flags` is the byte of the header, with the arithmetic of `EncodePacket`,
  `DecodePacket` and `retransmitPacket`; `relays` is a ghost. A channel is a hash
  and a key: with the wrong key the bytes may or may not look like a message.
* **NtfyService**: `names` is the map, `file` and `tmp` the file and the one beside it,
  `saving` the step of `save` that comes next (open and empty, write and close,
  rename; the process may end before each). `set` runs on the one goroutine of its
  NATS subscription, so that a name waits for the save of the one before it.
  `stream` is where `runReplyBridge` is for a channel, `conn` what it has not read,
  `posting` the text in `postIncoming`. The server gives a post to those connected at
  that moment. `typed` and `handled` are ghosts.

Definitions whose name ends in `Slip`, and `TransmitRefusedSilently`,
`RetryTimerWaits`, `PostponeCut` and `RetransmitPacketEarly`, are deliberate mistakes:
variants of the operator that follows them, changed as a bug in that code might
change it. No specification uses them. Put in the place of the operator, each
makes TLC find the property violated that `PROJECT.json` names under "mutants", so
no property holds vacuously.

### The device

`LoraDevice` is what the Go code assumes of the firmware, which is not in the
repository:

1. it answers requests in order, with a message of the type of the request;
2. it refuses a `Transmit` (`Busy`) while transmitting or receiving, never in standby;
3. after a `SwitchToRx` it is not in standby; after a `Standby` it is;
4. after a received packet, a transmitted one or a timeout it may fall back to
   receiving or to standby;
5. what has been transmitted may be received again any number of times
   (neighbours repeat it), and so may packets of other nodes (`Foreign`);
6. RSSI is reported while receiving, and log messages (a type the client does
   not know) come at any time;
7. a request of configuration is answered with what the radio is set to now, and a
   frequency it cannot tune to is not applied (`RadioInit`);
8. in its bootloader it takes requests without answering (a lost request).

## 3. Bounds

| constant | in the code | in the runs | why that is enough |
|---|---|---|---|
| `ChanCap` | 10 | 1 | Full and empty are one step apart, so blocking happens more often than with ten places; nothing in the code depends on the number. |
| `RecvCap`, `SendCap` | 1 | 1 | |
| `Jobs` | any | 1 or 2 | Two packets meet in the queue, the hand, at the timer and at the push. In `client`, the run with two, they are a packet and its repeat, which have one key; nothing tells them apart, hence its symmetry. |
| `RetryLimit` | 2 | 0 | The limit is reached with one packet pending and exceeded by the second. |
| `Window` | 30 s | 2 ticks, 1 in `client` and `open` | With 2 a record can be young, old and expired; a tick is half a window. At most one tick falls into an exchange (an exchange takes 5 s). |
| `LineCap` | driver's buffers | 1, 2 in `open` | With `Recv` and the receiver's hand three frames are under way, more than an exchange has, and a line whose device takes nothing is full after one request (in `open` after two, so that a second attempt meets the first). |
| `Faults`, `Garbled`, `Late` | | three ways | `Faults` loses requests and frames, leaves payloads unreadable and fails the writes of `SendRequest` (those of the sending goroutine may fail in every run). `Garbled` lets a frame arrive that ends the receiver. `Late` lets `SendRequest` give up while its answer is on the way; without it `SendRequest` gives up only when the request or its answer was lost. A receiver that has ended leaves answers on the line, so `Garbled` comes with `Late`. |
| `Attempts` | 30 | 2 | The first attempt, one that may be answered by the answer to it, and no more. |
| `Powers` | configuration | 0, 14 | One that is supported and one that is not. |
| `Events`, `Horizon`, `DefaultSleep` | any, none, 100 ms | 3, 2, 1 | Three events make a list with a middle; two ticks make one due, one not, and one come due in between. |
| `DueTimes` | any | {0, 1}, {1}, {1} | One event may be due at once; the others are put back while the clock is at 0. |
| `Ids`, `Own`, `Repeats`, `Hops` of `Node` | any | 1, 1, 1, {0,1} | A forwarded and a published packet with a repeat compete for one place. Each is received and published once: what comes twice is `MeshtasticClient`'s business. |
| `Texts` of `Node` | | {} | A text message is pushed from a NATS callback like any other publication, only nobody waits for it on `Stop`; the runs have the harder case, an application that is waited for. |
| `Nodes`, `Near` of `Mesh` | any | ring of 4 | Two ways between opposite nodes, over nodes that do not have the channel, and a way back to the sender. |
| `HopStart` of `Mesh` | 7 | 2 | A packet comes to the opposite node with one hop left and is forwarded once more, then with none. No node is further than the limit on any way: with longer ways round, one that is heard first may use up the hops that a shorter one would have kept. |
| `Repeats`, `Published` of `Mesh` | any | 1, 1 | A repeat comes when the records of the first copy may have expired. |
| `Configured` | any | three pairs | Two event loops or an event loop and a NATS callback meet in `GetNext`, with the position with and without `node_info`. |
| `Assignments`, `Channels`, `GoodKeys` | any | two, {0, 1}, {0} | Channel 1 has a key that AES refuses, channel 2 does not exist. Telemetry uses the bad key and a good channel, `node_info` and with it the position a missing channel and a good one; the position's own channel is never the one it uses. |
| `Unmarshallable` | | all that publish | A name that is not UTF-8, say; the text messages log the error and nothing follows from it. |
| `Size`, `Numbers` | 16, 2^32 | 2, 3 | The ring wraps, and there is one number more than places, so that a number is drawn again as soon as it may be. |
| `JitterMs`, `Millisecond`, `Word` | any, 10^6, 2^32 | {0, 1, 16}, 6, 32 | A jitter of nothing, one that fits, and one whose product is 0 in a word (as 2^26 ms is in 32 bits). |
| `MaxSent`, `MaxNoise` | none | 3, 2 | Two disturbed frames and one to get in step on. The messages are the shortest and one with both bytes that are escaped. |
| `Channels`, `Topics`, `Texts`, `Replies` of `NtfyService` | any | 3, 2, 2, 2 | One text on a channel with a topic, one on a channel without. Both replies are typed on one topic, so that their order matters, and the other channel must stay quiet. |
| `Nodes`, `Names` of `NtfyService` | any | 2, 1 | Two nodes make two saves that differ. |
| `WriteFails`, `ReadFails` | | TRUE, FALSE | Any of the three steps of a save may fail. A file that is there but cannot be read is overwritten by the code, so `NamesKept` is about files that can be. |
| `BackoffLimit` | 30 s | 2 | The pause is doubled once and then no more. |
| `MaxStarts` | none | 2 | A crash, and a start from what it left. |

## 4. The runs

| run | module, cfg | checks |
|---|---|---|
| `client` | `MCMeshtasticClient`, `MC_client.cfg` | `OnePlace`, `RetryAccounting`, `AnswerIsOurs`, `NoSilentDrop`, `SentOnce`, `OutcomeIsTrue`, with a packet and its repeat, on a line that loses requests and answers and fails writes, but brings no answer after its timeout |
| `faults` | `MCMeshtasticClient`, `MC_faults.cfg` | `NoDuplicate`, `ImplementsRadioLoop`, `LoopReturns`, with one packet, on a line that also garbles frames and delays answers, and a device that may stop taking what is written |
| `live` | `MCMeshtasticClient`, `MC_live.cfg` | `NotDeaf`, `NoEcho`, `CloseReturns`, `PacketLeaves`, with one packet and a device that reports RSSI, on a line that loses nothing |
| `open` | `MCRadioInit`, `MC_open.cfg` | `OpenMeansReady`, `OpenReturns`, on a line that loses frames, delays answers and breaks, and a device that may stop taking what is written |
| `api` | `MCApiCaller`, `MC_api.cfg` | `InOrder`, `CloseTerminates` |
| `loop` | `MCEventLoop`, `MC_loop.cfg` | `NoCrossLinks`, `NoLostWakeup`, `SleepsUntilDue`, `ImplementsDelayedTasks`, `EventsRun`, `QuitStops` |
| `node` | `Node`, `MC_node.cfg` | `ForwardsAreRight`, `HandedOnce`, `PacketsGetOut`, `StopReturns` |
| `apps` | `MCApplications`, `MC_apps.cfg` | `RecentIdsDiffer`, `KeepsPublishing` |
| `mesh` | `MCMesh`, `MC_mesh.cfg` | `HeadersTrue`, `DiesOut`, `Reaches` |
| `serial` | `MCSerialClient`, `MC_serial.cfg` | `NothingInvented`, `NothingLost`, `ReceivedAsSent`, `Settles` |
| `ntfy` | `MCNtfyService`, `MC_ntfy.cfg` | `RepliesGoHome`, `NamesKept`, `CommitIsCurrent`, `KeepsListening` |
| `node_stop` | `Node`, `MC_node_stop.cfg` | finding: `RadioTurnedOff` is violated |

Deadlock is not checked: after `Close` (or `Quit`, or when the bounds of the inputs
are used up) the program really stops; the liveness properties say where it must
not.

What they show:

* As long as no answer comes after its timeout, the radio client loses no packet in
  silence, sends none twice and is right about what became of each that it got an
  answer for, in any interleaving of its loop, its retry goroutines and the node, and
  whatever requests, answers and writes fail. An exchange that was given up
  leaves nothing behind that the next could take for its answer. With late answers
  `AnswerIsOurs`, `OutcomeIsTrue`, `NoSilentDrop` and `SentOnce` are false: the late
  answer to one packet is taken for the answer to the next, because only the types are
  compared. A transmission is given up after five seconds (`meshtastic.go:343`), a change of
  mode after one or three, so this takes a device that is slower than that.
* Dropping packets and events inside exchanges does not leave the radio deaf, because
  the request the loop is waiting on is itself followed by a receiving mode. When
  `SwitchToRx` itself is lost the radio stays in standby until the next packet: `NotDeaf`
  is for a line that loses nothing.
* So is `NoEcho`: a packet that was sent but whose answer was lost is on the air
  without a record, and its echo is handed to the node as a new packet. On a line
  that loses nothing no packet that is sent once comes back within the window
  after the device sent it; one that is repeated may (see the findings). `NoDuplicate` and the
  accounting do not depend on the line.
* On any line the loop comes back to its select and `Open` returns, with one exception that
  both properties name: a write that the device never takes. The port is opened with a
  read timeout (`serial_client.go:78`) and none for writes, so such a write
  blocks for good, and `Close`, which waits for the loop, with it. Neither property
  has a write fail because nothing else can happen.
  When `Open` returns without an error the radio has been configured, although answers are
  matched by type only: the one request that is made more than once is the
  first, which says the same every time, and by the time the second is answered
  the line in front of its answer has been read.
* With a device that answers and a line that loses nothing, `Close` returns with the
  radio in standby unless the loop is blocked on a full channel that nobody reads. At the
  level of `Node`, where no write blocks, that is the only way `Stop` can hang, and
  `node_stop` shows that it can.
* The pointers of the event loop never lead from one list into the other.
  `NoLostWakeup` and `SleepsUntilDue` say when it sleeps too long: only for an event
  that comes due between the two clock reads of its pass, by up to 100 ms
  (the ghost `crossed`).
* The ring of identifiers does its work between calls that do not overlap, even
  after calls that did: an overlap may lose a place or set the index back, but
  the last identifiers are in the ring all the same. Two calls that overlap may draw
  the same number, in a range of 2^32.
* A missing channel and a key that AES refuses do not end a publication: the
  application tries again after its period, and gets as far as the radio whenever the
  channel it uses can be used. What ends it are an error of `proto.Marshal`, after which it
  never posts itself again (`app_node_info.go:141`, `app_telemetry.go:159`,
  `app_position.go:136`) and nobody is told but the log, and a panic. There is
  no panic but in the two configurations that `Unsound` names: a position without
  `node_info`, and repeats with a jitter that comes out as zero.
* A packet dies out although records expire, because of the hop limit alone, and
  reaches every node it is meant for, over nodes that cannot decode it, if no
  transmission is lost. The header is right after any number of relays, and nothing
  in its byte but the hop limit is touched.
* What an undisturbed line brings is the next message sent, byte for byte. Noise of
  up to two bytes makes no message up, loses no message it has not touched once the reader is in step, and the reader gets in step, or has ended:
  a byte lost inside an escape sequence, a checksum or a type makes
  `ReceiveMessage` return an error that is not a timeout, which ends the
  receiving goroutine of the request layer for good.
* `ws-ntfy` keeps every name that has been on file over crashes and failed writes,
  because a save writes a file beside the real one and no two saves overlap. A text
  of the mesh is never sent to the mesh again, because of its tag; replies come
  in order, or not at all when their stream was broken.

### Findings

`node_stop`: `Stop` ends the readers before it closes the client, whose loop may
then block on a full channel for good; "Make sure we turn the radio off"
(`main.go:88`) is not kept. With a channel of ten RSSI readings this takes ten
reports between the end of the reader and the end of the loop, so mostly a
radio with continuous RSSI and an exchange that times out.

Three more places where the code does not do what is written about it, without a run:

* `publishNodePosition` sends on `app.config.NodeInfo.Channel`
  (`app_position.go:148`) where `Start` announces `app.config.Position.Channel`
  (line 59), so that the position goes to the readers of another channel
  (`PublishNodePosition`); without a `node_info` section the null pointer ends the
  process at the first position (`PublishNodePositionPanics`, and `Unsound` in
  `KeepsPublishing`).
* `SendRequest` takes every message from `Recv` while it waits and drops those of
  another type (`api_client.go:195`), so a packet received during an exchange is
  neither delivered nor forwarded, though `README.md:138` says of `forward`
  "Whether to forward received packets". Every transmission and every packet
  event opens such a window.
* Sending a packet that is on record does not renew the record
  (`meshtastic.go:365`), so a repeat sent late in the window is received back from a
  neighbour as a new packet, though the comment at line 357 says that the record is there
  "to avoid receiving the retransmissions". `NoEcho` is about packets sent once; TLC
  finds it violated within a minute by `Spec` with the constants of `MC_live.cfg`, but
  two jobs, `MCRepeated` and no `Chatter`: the packet is sent, the record is a tick old when
  the repeat is sent, and the echo comes when the record has expired but less than the
  window after that.

### Fairness

* A goroutine that can take a step takes it (weak fairness): the Go scheduler is
  preemptive.
* A `select` with several ready cases picks one at random, and a channel serves
  blocked senders in the order they came: an action that is one of several cases or
  senders gets strong fairness. It is not assumed that a sender finds room
  while the reader is blocked.
* The device answers requests (strong fairness, as it may be kept from it by
  a full line); it need not report, receive or lose anything. `PacketLeaves` assumes
  `GoodRadio`, that it does not refuse a packet forever: the code has no limit on
  the retries of one packet.
* `LoopReturns` and `OpenReturns` are checked with no fairness of the device at
  all. The timeout of `SendRequest` brings them back from a wait for an answer, and the
  messages it drops do not keep it from looking at the time. A write has no timeout
  (`serial_client.go:115`): it goes through when there is room on the line, no
  fairness makes it fail, and a write that finds no room for good is the exception the
  properties state (`LoopBlocked`, `OpenBlocked`).
* `LoopReturns`, `CloseReturns` and `PacketLeaves` are checked with one packet. With two,
  TLC does not get through the temporal properties in reasonable time; that two packets and their
  retries compete for the queue without loss or doubling is checked in `client`, where
  no fairness is needed, and that every packet of a node gets through the
  queue in `node`.
* `Node` takes from `RadioLoop` that an exchange ends and `Stop` may wait for it, which
  is `LoopReturns` with its exception left out: a device that takes nothing more for good
  blocks `Stop` as well.
* `Applications` assumes that timers expire and event loops run; a NATS callback need
  not even finish a text it has begun to send. `Mesh` assumes that as long as somebody
  has something to send somebody sends, in whatever order, which is less than what `PacketsGetOut` and `PacketLeaves` say of
  each node; that it is heard is not assumed, and
  `Reaches` speaks of behaviours in which nothing was lost.
* `KeepsListening` assumes that the ntfy server accepts a connection now and then
  (strong fairness of `Connect`, which competes with its own failure) and that a
  goroutine wakes from its pause. That a request never ends, though the code sets no
  timeout for it, is left out.
* Nothing makes the user, the applications or the network act.

## 5. The proofs

| theorem | says | argument |
|---|---|---|
| `ApiClientProofs!ApiTypeCorrect` | `ApiTypeOK` under any caller | `ApiStep`, below |
| `ApiClientProofs!FramesInOrder` | `InOrder`: the request layer implements `OrderedChannel` | the three queues on the way to the reader are one (`Arriving`); `HeadTaken`, `NextTaken`, `FrameDropped`, `FrameSent` and `FramesMove` say which frame a step takes away from it or puts behind it |
| `MeshtasticClientProofs!TypeCorrect` | `TypeOK` | every step of the client is an `ApiStep` on the variables below it (`StepsBelow`); `ApiTypes` and `DeviceTypes` are proved once for both callers |
| `MeshtasticClientProofs!PacketsHaveOnePlace` | `OnePlace` | inductive with `TypeOK`; `QueueFacts` says what `Append` and `Tail` do to the elements of a queue without repetition |
| `MeshtasticClientProofs!RetriesAreCounted` | `RetryAccounting` | `RetryInv` adds that the sets are finite and the counter is natural; needs `OnePlace`, since a job that slept twice would count once |
| `MeshtasticClientProofs!NodeSeesNoDuplicates` | `NoDuplicate` | not inductive: `RecordInv` says that what was delivered within the window is on record and the record no older than the delivery |
| `MeshtasticClientProofs!ClientIsRadioLoop` | the client implements `RadioLoop` | `LoopSteps`: every step is one of `RadioLoop` or changes nothing it sees; needs `OnePlace` for the packet a retry goroutine gives back |
| `MeshtasticClientProofs!AnswersAreOurs` | `AnswerIsOurs`, if `~Late` | `HandInv` and `CallInv` say what the loop is doing from its place; `ExchangeInv`: while it waits there is at most one of the request on the line and an answer to it, and otherwise neither. A timeout needs that nothing is due (`NothingDue`), so that what it leaves is a clean line. `AnswersLeft` and `AnswersGained` say what a step does to the places of the answers among the frames |
| `MeshtasticClientProofs!OutcomesAreTrue`, `PacketsAreSentOnce`, `NothingDroppedSilently` | `OutcomeIsTrue`, `SentOnce`, `NoSilentDrop`, if `~Late` | `SentInv`: a packet the device has taken is nowhere in the client but in the hand of the loop that waits for the answer or reports that none came, and an answer under way says busy if and only if its packet has not been taken. All four follow from `GoodInv`, the conjunction with `TypeOK` and `OnePlace` |
| `MeshtasticClientProofs!RadioIsNotDeaf` | `NotDeaf`, if `~Late` and `~Faults` | `DeafInv`: in standby the loop is before a request for RX (or ends), or a request is under way, or an event is that will make it ask (`EventLeft`); an event that is dropped inside an exchange is dropped before its answer |
| `MeshtasticClientProofs!NodeHearsNoEcho` | `NoEcho`, if `~Late`, `~Faults` and `OwnKeys` | `EchoInv`: what has been on the air is foreign or has been accepted, no own packet is on record before it has, and what was sent within the window is on record, no older than the sending, or in the exchange whose answer will put it there before its echo is handled |
| `MeshtasticClientProofs!OpenLeavesReady` | `OpenMeansReady`, on any line | `OpenInv`: the request being made, unless it is the first, was written last and is answered last; what else is under way are attempts at the first and their answers, and until the first has been answered what an earlier process has left in front of them (`LineInv`). An answer tells the truth about what the device has applied (`Truthful`). `OpenReturned` draws the conclusion for one answer, `OpenStep` goes over the steps |
| `EventLoopProofs!TypeCorrect` | `TypeOK` | inductive |
| `EventLoopProofs!WakeupsAreKept` | `NoLostWakeup` | inductive with `TypeOK` |
| `EventLoopProofs!PassStaysOffTheList` | `NoCrossLinks` | `PassInv`: the list and the pass under way are two chains without a cycle and without a common event, and the tail is the end of the list. A chain is the least set that is closed under `next`, so that nothing is counted along it (`ChainFacts`, `ListInv`) |
| `EventLoopProofs!LoopRunsDelayedTasks` | the loop implements `DelayedTasks` | from `PassInv`, action by action; that no event is run twice needs that what is linked was posted and has not run |
| `EventLoopProofs!SleepIsShortEnough` | `SleepsUntilDue` | `SleepInv`: the pause planned so far suits every event put back in this pass, by the clock as it was read at its beginning |
| `NtfyServiceProofs!TypeCorrect` | `TypeOK` | every step of the process is one of the directory and one of the streams (`StepsBelow`) |
| `NtfyServiceProofs!CommitsAreCurrent` | `CommitIsCurrent` | `FileInv`: the file is whole, and while a save is under way what it writes is the map and, before the rename, what is in the other file |
| `NtfyServiceProofs!NamesStay` | `NamesKept`, if files can be read (`~ReadFails`) | `FileInv` adds that no name is on file that the map of a running process has not |
| `NtfyServiceProofs!RepliesStayHome` | `RepliesGoHome` | not inductive: `RepliesInv` adds that what waits in a stream without a tag was typed on its topic, in that order, and after all that was published from it (`TypedLast`, `ReadStream`, `Published`, `TaggedPost` are the facts about sequences) |
| `SerialClientProofs!SerialTypeCorrect` | `TypeOK` of `SerialClient`, for any noise | `Recursion`: a function defined from the value before exists on `0 .. N`; with it what `crc16` and `escape` compute is a checksum of 16 bits (`CrcType`) and bytes (`EscapeType`) |
| `SerialClientProofs!NothingIsLost` | `NothingLost`, if `PayloadsFit` | `LineInv`: on a line that is not disturbed the reader is between frames and the line is the frames of the expected messages (`Hunting`), or it has read a part of the first of them, with the checksum of that part, and the rest lies in front of it (`Reading`); a disturbed line owes nothing. `EncodedFirst` and `EncodedAppend` take a frame off the line and put one on it, `NextByte` says what the reader meets, `FrameRead` when it has read all |
| `SerialClientProofs!ReceivedExactly` | `ReceivedAsSent`, if `PayloadsFit` | `LineStep`, the step of the same invariant: at the last byte of a frame the checksum that was read is the one that was computed, and `Decode` gives the message back |
| `SerialClientProofs!NothingInventedInQuiet` | while `noise = 0`, `NothingInvented`, and what was sent is what was received followed by what is expected, if `PayloadsFit` | `Quiet`, inductive with `LineInv` |
| `SerialClientProofs!OneByteShows` | `crc16` of a message changes when one byte of it does, at any length | `CrcStepInjective`: a step of the checksum forgets neither the byte nor the checksum before it, because the low byte of a spread byte determines the byte (`SpreadInjective`, bit by bit) and the exclusive or cancels (`XorCancels`). From the changed byte on the two checksums stay apart |
| `NodeProofs!TypeCorrect` | `TypeOK` | `RadioTypes`: inductive with what the loop has in its hand at each push (`HandOK`) |
| `NodeProofs!ForwardsHaveOneHopLess` | `ForwardsAreRight` | not inductive: `ForwardsInv` says the same of the packet at every place it comes through, from the queue of received packets and the task that forwards it to what has been handed over |
| `NodeProofs!PacketsAreHandedOnce` | `HandedOnce` | `OnceInv`: of a packet that waits or is to be forwarded there is nothing else yet, and it waits once; `PublishInv`: before the repeats are posted there is only the first copy; `HandedInv`: what is due has not been handed over. The radio only passes packets around (`RadioKeeps`, `RadioTakesOver`, `RadioHears`, `RadioGives`); steps that make nothing are dealt with at once (`QuietSteps`) |
| `MeshProofs!HeadersAreTrue` | `HeadersTrue` | `MeshInv`: the byte of flags is eight times the flags of the packet (`Rest`) plus the hops to start with less the relays; `CopyFields` reads the fields off that by division, `RelayedCopy` says that a relay keeps it |
| `ApplicationsProofs!TypeCorrect` | `TypeOK` of `Applications`: no index leaves the ring, however calls overlap | inductive; `PlacesNext` and `RecentNext` are the facts about the ring and its ghost |
| `ApplicationsProofs!IdentifiersDiffer` | `RecentIdsDiffer` | `SettledInv`: the ring still holds the `i`-th last identifier of a call that is over and was alone, at a place that neither the index nor a call has come closer to than the calls since allow (`Ahead`, a distance round the ring); calls that have stored and not yet advanced have used up one step each, which takes the cardinality of their set. `AloneInv`: a call that is alone has seen the ring as it is |

They hold for any finite or infinite sets of packets, keys, nodes, applications and
messages of bytes, any network, any capacity, window, limit and number of repeats, and with losses or
without unless the table says otherwise (`ClientAssumption`, `ApiAssumption`,
`DeviceAssumption`, `RadioInitAssumption`, `EventLoopAssumption`, `NodeAssumption`,
`MeshAssumption`, `ApplicationsAssumption`, `DirectoryAssumption`, `BridgeAssumption`,
`ServiceAssumption`, `SerialAssumption` say what is assumed of the constants; that `None` is no request
and no packet is part of them). The events of a loop are finitely many, and the
applications that share a ring of identifiers are the four there are.

* `~Late` says that an answer comes before `SendRequest` gives up, or not at all. Requests
  and answers may be lost, payloads be unreadable and writes fail, and then an
  exchange is given up; it excludes frames that end the receiver (`ApiAssumption`), since
  such a receiver leaves an answer on the line for ever. Without it the four properties
  are false, as section 4 says.
* `~Faults` says that nothing is lost and no write fails. `NotDeaf` and `NoEcho` are false
  without it: a `SwitchToRx` that is lost leaves the radio in standby, and a packet whose
  answer is lost is on the air without a record.
* `OwnKeys` says that packets of the node differ from each other and from packets of
  other nodes, in what the records compare. Without it `NoEcho` is false, as section 4
  says of repeats.
* `PayloadsFit` says that the length of a payload fits the two bytes it is written in.
  `SendMessage` truncates a longer one (`serial_client.go:180`) and nothing in the code
  keeps one from being handed to it; what radio and device carry is far shorter.

Induction over the bytes of a message is done without the library's induction theorems,
which take an operator: `SetInduction` says that a set that has 0 and with each number
the next has every number, and follows from the least element of what it lacks; it is
used with the set of the lengths at which a claim holds.

Only model-checked: everything about liveness, which is out of the prover's reach, and
with it what holds under fairness only; and `NothingInvented`
under noise. That is false for some messages, since a checksum of 16 bits cannot
tell all frames apart: the run shows it for payloads with the start and escape bytes and
two bytes of noise, and `OneByteShows` says what the checksum gives for every message.

## 6. Not modelled

* The opening and closing of the serial port, and the errors of its driver but for
  writes that fail or block.
* Encryption, protobuf, the byte layout of messages, the parsing of configuration
  files, the command line, log output, and what applications put into their packets.
* The incoming side of the applications beyond the channel and the distance they
  are told. The readers of the node run before the applications have their
  connection, so that what comes in between is not published.
* Delays and jitter as times: a task of `Node` may be due at any moment. The jitter
  is in `Applications` as far as it may make the process panic; the same call for a
  packet that is forwarded (`node.go:154`) is not.
* Headers of other firmware whose hop limit is above the hop start, for which the
  distance wraps; packets shorter than a header, on which `meshtastic.go:271` panics.
* A power failure under `ws-ntfy`, which may lose what the file system has not written
  yet (`save` does not sync before it renames), and a `ws-ntfy` without a
  `directory_path`, which keeps no file. The contents of its requests.
* Basic types, generated code, packaging and the probe scripts.

## 7. Plan

*Done*: device, request layer, radio client with its opening, `RadioLoop`; event loop
and `DelayedTasks`; node, applications and identifiers; several nodes; serial
framing; `ws-ntfy`; the theorems above. Left, in this order:

1. The incoming side of the applications with their NATS subjects, and what the readers
   do with a packet before the applications have their connection.
2. What of the client's guarantees is left when answers come after their timeout, with
   a bound on how late.
3. Which two changed bytes the checksum detects, and from that what noise may do to a
   frame of any length.
