# Verification of myRtspClient

myRtspClient is a C++ library with which an application fetches audio and video
from an RTSP server.  This directory holds TLA+ models of its core, the TLC
configurations that check them, and TLAPS proofs.  The library's own code is
`src/myRtspClient/`; `src/third_party` (JRTPLIB, base64, MD5) and
`src/gtest/gtest-1.7.0` are vendored.

## 1. Inventory

| Part | State | Operations | Talks to |
|---|---|---|---|
| **Command engine**, class `RtspClient` (`rtspClient.cpp`) | URI, credentials, `Realm`/`Nonce`, `RtspCSeq`, `RtspSockfd`, `RtspOverHttpDataSockfd`, last `RtspResponse`, `SDPStr`, `MediaSessionMap` | `DoOPTIONS`, `DoDESCRIBE`, `DoSETUP`, `DoPLAY`, `DoPAUSE`, `DoGET_PARAMETER`, `DoTEARDOWN` (one session or all), `DoRtspOverHttpGet/Post`, `ParseSDP`, `SetURI`, `SetUsername` | server over one or two TCP connections; media sessions |
| **Port search** (`SetAvailableRTPPort`) | two probe sockets, a `uint16_t` | probe, announce | other processes of the host, JRTPLIB |
| **Media session** (`MediaSession.cpp`) | `SessionID`, `Timeout`, `TimeRate`, ports, `RTPInterface` | `RTP_SetUp`, `RTP_Teardown`, `GetMediaData`, socket lock | RTP session |
| **RTP over UDP** (`myRtpUdpSession.cpp`) | JRTPLIB session, callback, destinations | set-up, poll, `OnNewSource`, `OnBYEPacket`, `OnRemoveSource` | JRTPLIB, application (callbacks) |
| **RTP over TCP** (`myRtpTcpSession.cpp`) | JRTPLIB session, tunnelling socket, `SocketMutex`, callbacks | set-up, poll with a lock and a time-out, BYE callbacks | transmitter, command engine (same socket) |
| **Interleaved transmitter** (`myTCPTransmitter.cpp`) | per socket: header and payload read so far | `PollSocket` splits `$`-frames from RTSP text | socket shared with `RecvRTSP` |
| **SDP parser** (`sdp_data.cpp`) | media map that accumulates; while it runs, the section it is in | `parse` | command engine (`ParseSDP`) |
| **Frame types** (`nalu_types*.cpp`, `mpeg*.cpp`, `pcmu_types.cpp`) | flags of the last packet, "parameter sets still to come" | `ParsePacket`, `CopyData`, `PrefixParameterOnce` | `GetMediaData`, through the client's `VideoBuffer` |
| **JRTPLIB** (third-party) | table of sources, packet queues, destinations | `Poll` and its callbacks | RTP sessions |
| **I/O helpers** (`utils.cpp`), regex wrapper (`myRegex.cpp`) | none | `ReadLine`, `Readn`, `Writen`; `Regex` | sockets |

What is hard here:

* **One blocking thread per command, but a live environment.** Between the send
  and the answer the server may challenge, close, or answer late; other threads
  open and close descriptors whose numbers are reused.
* **Error paths** close the connection in the wrappers `SendRTSP`/`RecvRTSP` and
  again in some callers; `Close` resets one of the two members it closes.
* **Cached state**: a descriptor that is positive is taken to be alive; answers
  are matched to requests by order alone.
* **Ports** are probed, released, announced and bound again later.
* **A socket shared** by RTSP text and RTP frames, under a try-lock, between the
  application's media thread and its command thread.
* **No time-out** anywhere on the command path.
* **An unreliable network**: lost, late and repeated RTP packets, time-outs in the
  middle of a fragmented unit, BYE and time-out of the same source.
* **Sessions that come and go**: callbacks registered before there is anything to
  hold them, a second SETUP, a second DESCRIBE on top of the first.

Correctness, per part: the command engine never leaks or confuses connections,
pairs every answer with its request, removes the session it was asked to remove
and returns; the port search announces an even/odd pair that is bound by one
session only and ends; the shared socket loses and duplicates no frame; media
data comes out unit by unit, of its own media, and damage stays where it
happened; an RTP session sends to its members and tells the application once when
they leave; the parser attributes every SDP line to the media it belongs to.  `PROJECT.json` lists the hazards with
their lines.

## 2. Modules

| Module | Models |
|---|---|
| `RtspClient` | command engine, session map, authentication, both connections, server, descriptor table of the process |
| `MCRtspClient` | constants for TLC |
| `RtspClientProofs` | theorems about `RtspClient` |
| `RtpPorts` | port search, `RTP_SetUp`, `RTP_Teardown`, other processes (its runs need no MC module) |
| `RtpPortsProofs` | theorems about `RtpPorts` |
| `TunnelStream` | `PollSocket`, `GetMyRTPData`, `GetMyRTPPacket`, the socket mutex, the response callback and `RecvRTSP` on one shared connection |
| `FrameChannel` | abstract: what the connection promises to the RTP session; `TunnelStream` implements it |
| `MCTunnelStream` | frames for TLC |
| `TunnelStreamProofs` | theorem about the socket mutex |
| `TunnelFramesProofs` | `TunnelStream` implements `FrameChannel`; its callbacks and types |
| `MediaData` | `GetMediaData` with the H.264, H.265, MPEG audio and PCMU frame types, packets and network |
| `MCMediaData` | units, frame types and threads for TLC |
| `MediaDataProofs` | theorems about `MediaData` |
| `MediaDamageProofs` | theorem about the spread of damage in `MediaData` |
| `RtpSources` | life of the RTP sessions, JRTPLIB's table of sources and destinations, callbacks |
| `MCRtpSources` | sources and ports for TLC |
| `RtpSourcesProofs` | theorems about `RtpSources` |
| `SdpSessions` | `SDPData::parse` line by line, `ParseSDP`, `MediaInfoCheck` |
| `MCSdpSessions` | lines for TLC |
| `SdpSessionsProofs` | theorems about `SdpSessions` |

The modules meet in the state they share with the code: `SdpSessions` makes the
sessions whose set-up `RtspClient` models as one step of a command and
`RtpSources` in detail; `RtpPorts` binds their ports; `MediaData` takes packets from
the queue that `TunnelStream` (over TCP) or JRTPLIB (over UDP) fills.

### RtspClient

Variables named like members of the class are those members.  Strings are
reduced to what the code distinguishes: `RtspURI` is empty, usable, or still
holds `user:pwd` (`SetURI` parses the credentials out but stores the original,
which `GetIP` cannot use); `Username`, `Realm`, `Nonce` are "empty or not";
`SDPStr` and `mediaInfoMap` are sets of media types; `TimeRate` is 0 or not.
`live`/`session` are keys and values of `MediaSessionMap`.

`pc`, `call`, `todo`, `Err` are the command under way: its parameters and local
variables, the media types it has still to serve (one, or all for `DoX()`), and
`ErrAll`.  A command is cut into actions at the points where something else may
happen:

| Action | Code |
|---|---|
| `DoPlain`, `DoOne`, `DoAll`, `DoHttp` | entry of the commands |
| `NoMediaSession`, `ReuseConnection`, `OpenConnection`, `ConnectFails` | look-up of the session, `CreateTcpSockfd` |
| `NoPortAvailable` | `SetAvailableRTPPort` returned 0 |
| `SendRequest`, `SendFails` | building and writing the request |
| `Accept`, `AcceptTeardown` | answer read, `CheckAuth` satisfied, what the command does with it |
| `Retry`, `RetryFails`, `Refused` | `CheckAuth`'s second exchange |
| `RecvFails` | end of file or error in `RecvRTSP` |
| `Reclose` | the second `Close(Sockfd)` on an error path |

The server (`ServerReplies`, `ServerCloses`) and the rest of the process
(`OtherOpens`, `OtherCloses`) are external.  `fds` says who owns which
descriptor number; `socket()` takes the lowest free one, as POSIX demands, so
reuse happens at once.  Details that matter:

* `CheckAuth` leaves `err` uninitialised for a status that matches none of its
  patterns (`"other"`): the model lets such an answer be taken for a 401 or not.
* A request with Basic credentials lacks its final empty line (`ended`); bytes
  written later are swallowed by it (`Deliver`).
* A read or write of a descriptor number that nobody owns fails.  In a tunnel
  `RecvRTSP` may also read a descriptor that is somebody else's: the standard input
  for the initial 0 of `RtspOverHttpDataSockfd`, or whatever got the number that
  `Close` left in it.  Such a read may block for ever (`Blocked`; the select() with
  its time-out is commented out in `CheckSockReadable`), end or fail
  (`Unreadable`), or deliver text that the command takes for its answer
  (`ForeignReplies`, with `Foreign` for the CSeq it does not have).
* `RecvSDP` consumes the body of an answer to DESCRIBE.  The server is assumed to
  send a `Content-Length` below `RECV_BUF_SIZE` with it: at the early returns of
  `rtspClient.cpp:1556-1566` the body would stay on the stream and be read as the
  next answer.

Left out: `SetPort`, `SetPassword`, the destructor, a second server host, unread bodies of answers
other than DESCRIBE's, RTP frames on the RTSP connection (see `TunnelStream`), `SIGPIPE`
(assumed ignored; by default it ends the process).  In a tunnel the server
closes both connections at once.

### RtpPorts

One action per system call of `SetAvailableRTPPort`; `mine` are the ports the
probe sockets hold, `busy` those of other processes, `bound` those JRTPLIB holds
for a session.  `RTPPort + 2` is computed modulo `PortCount` (65536 in the
code).  `bind` to port 0 always succeeds; ports below `LowPort` need a
privilege.  `RTP_SetUp` may fail because the pair was taken in the meantime; the
code ignores that.

### TunnelStream

Two threads of the application read one connection: the one that fetches media
(`rtp`, one value per step of `PollSocket` and of the `Get...` function around
it) and the one that issues commands (`cmd`).  `stream` are the bytes nobody
read yet, `arrived` how many of them `FIONREAD` reports; bytes arrive one by one
at any time, so a poll may end anywhere in a frame or a response.  The `m_...`
variables, `RecvRtspCmd` and `SocketMutex` are the members of those names.
`sent`, `FramesSent` and `answers` are the history of what the server sent: all
units, the frames of channels 0 and 1 among them, the number of responses.

| Action | Code |
|---|---|
| `Fetch`, `TryLockSocket`, `Take` | entry, lock and packet hand-over of `GetMyRTPData` / `GetMyRTPPacket` |
| `PollRound`, `PollEnds` | the loop of `PollSocket` and its end, with `UnlockSocket` |
| `Peek`, `Drop`, `ReadHeader` | state `RECV_LEN` |
| `ReadRTSP`, `ReadTextByte`, `ReadTextEnd`, `CallBack`, `ClearCallback` | a response in the stream |
| `ReadPayload`, `PollFails` | state `RECV_DATA`; no memory |
| `SetRtspCmdClbk`, `Command` | the application |
| `LockSocket`, `RecvRTSPByte`, `RecvRTSPFails` | `RecvRTSP` |

A short `recv()` (end of the connection) leaves the rest of the buffer as it
was: old header bytes, uninitialised heap (`Garbage`), or `Unknown` bytes of a
payload.  A `recv()` that fails after `FIONREAD` reported bytes is impossible for
a single reader and left out.  JRTPLIB hands RTP packets on in order and consumes
RTCP; responses fit the 8192-byte buffer; the mutex is that of the single session
on the socket, and the socket is a tunnel's (with `rtp_over_tcp`, `RecvRTSP` takes
no lock).  The text of a response holds neither `$` nor `R` behind its `RTSP`:
without a callback `PollSocket` skips it byte by byte and would resynchronise on
such a byte (`Text`; what `Distinct` says of foreign frames, section 4).  Responses
have no body; that of DESCRIBE is read by `RecvSDP` after the mutex is released, a
race with the media thread that is not modelled.  `FramesWholeOnceInOrder` and `FramesArrive` are stated for
commands that do not wait (`http_tunnel_no_response`, as the example program
uses it): a waiting command reads frames as text, and the media thread may read
its response first, after which it waits forever holding the mutex, since no
read has a time-out.  `OneReader` and `CommandGetsSocket` are what holds then.

### MediaData

A unit (NAL unit, audio frame) is its number and its shape: payload structure,
number of packets, bytes per packet.  What the application gets is a sequence of
items: header and data of numbered packets, so a unit that comes out in one piece
can be recognised.  One call of `GetMediaData` is cut where another thread can
step in: fetch into `VideoBuffer`, `ParsePacket`, `CopyData`.

| Action | Code |
|---|---|
| `GetMediaData` | entry, `PrefixParameterOnce` |
| `FetchFits`, `FetchTruncated`, `NoData` | `MediaSession::GetMediaData` and the test against `max_size`; time-out |
| `FetchEmpty`, `FetchTooLarge` | an empty payload; one larger than `VideoBuffer`, which is copied before it is measured |
| `ParsePacket`, `ParsePacketError` | look-up of the payload structure, S and E bits |
| `CopyData`, `CopyDataRunsOff` | `CopyData`, loop or return; a size that wraps around |
| `Arrive`, `Lose`, `Delay`, `Duplicate`, `ArriveLate` | server and network (external); JRTPLIB's queue, which is ordered by sequence number and drops a packet that is in it |

`faults` counts what the network, the sizes and the time-outs did to a media, in
units they may cost.  Packets have any size.  `VideoBufferSize` is `VideoBuffer.Size`
(`MEDIA_BUFSIZ`, 8192): a larger packet is written past it by the `memcpy` of
`GetMyRTPData` before the test that returns NULL.  `SizeT` is the range of `size_t`:
H.264 and H.265 subtract the header they skip from the size without a test, and a
shorter packet makes `CopyData` copy almost that much (MPEG audio has the test).
Such a copy kills the process (`dead`; the too large packet may or may not).  What a
process computes after its memory was overwritten is outside the model.

### RtpSources

`live`, `RTPInterface`, `created` are the life of a session; `DestroiedClbk` is the
pointer its RTP session calls, which the constructor of `MyRTPTCPSession` does not
initialise.  `sources`, `rtpKnown`, `receivedbye` are JRTPLIB's table, reduced to
what the overridden callbacks read; `destinations` are the addresses the session
sends RTCP to.  An address is a port, since all sources of a session come from
server ports; RTCP comes from the port above RTP's, which `OnNewSource` takes for
granted and does not check (`PortsAssumption`).

| Action | Code |
|---|---|
| `ParseSDP`, `DoSETUP`, `DoTEARDOWN` | the session appears, is set up (first time, again, failing), is deleted |
| `SetByeFromServerClbk`, `SetDestroiedClbk` | registration |
| `ProcessRTPPacket`, `ProcessRTCP`, `ProcessBYE` | JRTPLIB's processing with `OnNewSource` and `OnBYEPacket` |
| `Timeout`, `BYETimeout` | `MultipleTimeouts` with `OnRemoveSource` |

Left out: contributing sources, colliding SSRCs, a `TEARDOWN` from within a
callback or from another thread during `Poll()` (it frees the session that is
being polled).

### SdpSessions

A line is its key and the fields the code takes from it; a line no pattern matches
is "other".  `section` stands for the three flags, `current` for `currentMediaInfo`.
`PT2TimeRateMap[i]` behind the end of the table is any number.  `lines` and
`origin` are history: the properties compare the parser's state with a definition
over the whole text (`Within`, `ListedBy`, `Described`).

## 3. Runs

| Run | Instance | Shows |
|---|---|---|
| `client_core` | 1 media, 2 descriptors, 4 requests, all answers and challenges | `OneConnection`, `ErrorClosesConnection`, `AnswersOwnRequest` |
| `client_tunnel` | HTTP tunnel, fairness, 3 descriptors, 3 requests | the last two with two connections, the stale tunnel descriptor and reads of descriptors of others; `ClosesOwnDescriptors`, `CommandReturns` |
| `client_teardown` | 2 medias, 2 SessionIDs, 7 requests | `TeardownUniqueSession`, `TeardownAllSessions` |
| `ports` | 2 sessions, fairness, a small port range that wraps and has one port taken for good | seven safety properties of the ports, `SearchEndsIfPairFree` |
| `tunnel_frames` | 3 units of 3 kinds of frames and 2 responses, 2 callbacks, failing allocations, no lock | `TypeOK`, `FramesWholeOnceInOrder` (implements `FrameChannel`), `CallbackOncePerResponse` |
| `tunnel_threads` | fairness, 2 commands that wait or not against `GetMyRTPData`, an empty frame | `OneReader`, `CommandGetsSocket`, `FramesArrive` |
| `media_units` | one thread; video: 3 units (empty, as large as `VideoBuffer`, larger, two fragments, a fragment shorter than its header, a structure the codec does not know) with a network fault and any number of time-outs; audio: 1 frame; H.264 with MPA or H.265 with PCMU | `DamageContained`, `ExactWithoutFaults`, `OwnMedia`, `ParametersOnce`, `OverrunBounded`, `KilledBySizeOnly` |
| `rtp_sources` | fairness; audio and video sessions over UDP or TCP, sources that share an address or not | `NoStaleDestination`, `MembersServed`, `NotifiedOncePerDeparture`, `UninitialisedNeverCalled`, `ServedAgain` |
| `sdp` | every sequence of up to 6 of 12 lines, in one or more SDPs, with teardowns | `ParsedAsWritten`, `SessionAsDescribed` |

Runs that are expected to find a violation, because the code disagrees with its
documentation, comments or tests (details under "findings" in `PROJECT.json`):

| Run | Result |
|---|---|
| `teardown_named` | `DoTEARDOWN("video")` deletes the audio session when both have one SessionID |
| `callback_lost` | a callback registered during the handling of a response is dropped unused |
| `shared_buffer` | with a thread per media, as in `recv_video_and_audio_example.cpp`, audio data is returned as video |

Disagreements without a run of their own:

* `DoTEARDOWN()` serves "audio" and "video" only, not "all of the media sessions"
  (`rtspClient.h:201`): `TeardownAllSessions` fails with `"application"` in
  `MediaTypes`.
* The answer of a command that did not wait is read by the next command that does,
  unless media is fetched in between (`rtspClient.h:145`): `AnswersOwnRequest`
  fails with `NoResp = TRUE`.
* Media is not "blocked" without a callback (`rtspClient.h:164`): the response is
  skipped and frames keep arriving (`FramesArrive`).
* A SETUP answer without `timeout=` leaves `Timeout` at -1: the "default 60"
  (`rtspClient.cpp:580`) is stored and overwritten.
* A request with Basic credentials lacks the empty line that ends it
  (`rtspClient.cpp:1986`): server and client wait for each other, and
  `CommandReturns` fails with `"basic"` in `Challenges`.
* When no pair of ports is free the search never gets to "Created failed"
  (`rtspClient.cpp:1218`): its 16-bit variable wraps past the bound.
* In a tunnel before the GET, or after an error closed its connection, a command
  waits on the standard input or on a descriptor of somebody else, or takes its text
  for an answer of the server: `AnswersOwnRequest` and `CommandReturns` fail without
  their exceptions for that case.  Without a tunnel the exceptions never apply.
* A fragment of one byte, or a packet of more than 8192 bytes, makes `GetMediaData`
  run out of its memory: `OverrunBounded` fails without its exception for the first,
  and `KilledBySizeOnly` says that there is no third way.
* The callback of a response gets "RTSPSP/1.0 ...": two bytes are taken off the
  socket, four are put in front (`myTCPTransmitter.cpp:95`).
* The lowest payload type is used, where a comment says "the first payload type"
  (`rtspClient.cpp:921`); after a second DESCRIBE that is one of either SDP.
* STAP-A and aggregation packets are copied as if they were single units; FU-B is
  not reassembled; the fragment offset of MPEG audio is skipped like a header.
* A TCP session calls its callback for a BYE and again when the source is removed;
  a UDP session does so once (`NotifiedOncePerDeparture`).

**Bounds.** `MaxCSeq` limits the requests: 4 allow connect, challenge, retry,
failure and a complete second exchange on a new connection; 7 allow DESCRIBE,
two SETUPs and a TEARDOWN of both sessions.  `MaxFd` gives the client its
connections and one number for the rest of the process, which is what a reuse
needs.  The port range is small but even, wraps, and holds more than one pair
per session.  Three units in `tunnel_frames` put a response or a foreign frame between two frames,
and payloads that imitate a header or "RT" make any slip of the parser visible;
`Sleeps` only repeats a loop.  In `media_units` three units are the unit that is
hit, the one a late or repeated packet breaks into, and one that must be unharmed.
It takes 7 for `VideoBufferSize` and 100 for `SizeT`: what matters is which
of two sizes is larger, and that a size that wrapped exceeds every buffer.  Its
fragments are those of H.264, its runaway copy that of H.265; the operators are the
same for both, and the proofs do not distinguish them.
`rtp_sources` has no bound: its state space is finite.  Six lines hold two medias
with their attributes, or a medium described by two SDPs with a session made in
between.  The proofs below remove these bounds for safety.

**Fairness.** `FairSpec` of `RtspClient`: the thread in a command runs on
(`WF(~Blocked /\ Client)`) unless it reads a descriptor of somebody else, from which
nothing need ever come; and the server answers complete requests (`WF(ServerReplies)`).
The second is an assumption about the peer; the client has no time-out, so
without it nothing can be promised.  It is weak: a server that closes the
connection instead is covered too.  `client_tunnel` leaves out the Basic
challenge, which is never answered.  `FairSpec` of `RtpPorts`: the thread in
`DoSETUP` runs on.  `FairSpec` of `TunnelStream`: bytes in flight arrive, both
threads run on and the application keeps fetching (weak fairness); a command gets
the free mutex eventually (`SF(LockSocket)`): the fetching thread sleeps 10 ms
without it whenever a poll brought nothing, and the frames are finitely many.
`FairSpec` of `RtpSources`: sources keep sending and the application keeps polling
(`WF(ProcessRTPPacket)`), and the time of a BYE passes (`WF(BYETimeout)`); how often
a source says BYE is left open, so `ServedAgain` is conditional on its last one.

Deadlock is checked in every run but `sdp`, which stops at its last line, and
`media_units`, where the process may be killed.

## 4. Proofs

All for every value of the constants that the named `ASSUME`s admit.

`RtpPortsProofs`: the conjunction of `TypeOK`, `AnnouncedPair`, `ProbesClosed`,
`NeverAnnouncesPortZero`, `BoundIsExclusive` and `ProbesHeld` (while the RTCP
port is tried, the probe holds exactly the RTP port) is inductive.  Each of the
first five is a theorem, and so are the action properties `BoundUntilTeardown` and
`PairFreeAtOnce`.

`RtspClientProofs`: the inductive invariant is
`Inv == TypeOK /\ InCall /\ CallInv /\ OneConnection`.  `CallInv` ties the
control state to the rest: the descriptor of the command is the cached one until
the first `Close`, the session it works on is in the map and in `todo`, a second
`Close` is due only after an error of the exchange, and a command for a single
session has recorded no error before it ends.  Without the first of these
`ClosesOwnDescriptors` is not inductive; without the second
`TeardownUniqueSession` is not.  Theorems: `TypeOK`, `OneConnection`,
`ClosesOwnDescriptors`, `TeardownUniqueSession`;
`ErrorClosesConnection`, via `ErrorClosed`, which adds that the server's side is
down too, so that no late answer can arrive; and `AnswersOwnRequest` under
`NoResp = FALSE`, via `StreamInv`: between exchanges both directions are empty,
and during one at most one message is in flight, with the CSeq of the last
request.  The hypothesis is needed (section 3).  `CarrierInv` takes care of reads of
other descriptors: nothing is in flight while the process does not own the connection
the server answers on, from which follows that they happen in a tunnel only and leave
no answer behind for a later command (`ForeignRead`).  `TeardownAllSessions` is proved
for `MediaTypes \subseteq {"audio", "video"}` (needed too) via `AllInv`: as long as
nothing failed, no session is left but those still to serve, and they are served in
the order of the map, so that the first session with a shared SessionID is the one
being served.

`TunnelStreamProofs`: `OneReader`, if media is fetched with `GetMyRTPData` and no
poll fails.  The invariant adds that the running `Get...` function is the one
that locks; a lemma reduces every action to what it does to the mutex.  Both
assumptions are needed: `GetMyRTPPacket` takes no lock, and a failed `Poll()`
leaves it locked.

`RtpSourcesProofs`: `TypeOK` is inductive.  `DestInv` adds, per session, that
destinations are addresses of members and members with an address of their own are
destinations; `Dest` gives the RTP port whichever address is known
(`DestIsRtpPort`, from the adjacency of the two ports), so that what was added
under the one is deleted under the other.  `ClbkInv` says that an audio or video
session with an interface holds the callback registered last unless
`SetDestroiedClbk` replaced it; with it follow `UninitialisedNeverCalled` and
`NotifiedOncePerDeparture`.  Theorems: all safety properties of the module.

`MediaDataProofs`: `TypeInv` adds to `TypeOK` that the packets in flight belong to
units that were sent (`Queued`), that the server is within its last unit while
packets of it are left (`Sending`) and that `VideoBuffer` holds a packet between
fetch and copy (`Held`).  On it rests `ParametersOnce`, which holds for any threads
and network (`XPSInv`).  `OwnMedia` assumes
`SingleThread`, one thread for all calls of `GetMediaData`: then one call runs at a
time and `VideoBuffer` holds a packet of its media (`OwnInv`); the run
`shared_buffer` shows that the assumption is needed.  So do `OverrunBounded` and
`KilledBySizeOnly` (`SizeInv`): only then are the bytes `CopyData` copies those of the
packet whose size was tested.  Both except packets of the two sizes the code does not
survive.  `ExactWithoutFaults` assumes
in addition `Framed`: only what the frame type reassembles is sent in several
packets (FU-A, FUs), and an MPEG audio packet without an offset holds more than
its header.  Other shapes come out in pieces or are empty even on a perfect
network (section 3).  Its invariant `ExactInv` numbers the positions of a stream: of a
media without faults the queue holds all packets from the one the reader expects up
to the one the server sends next, what the call has copied is the beginning of the
unit it is in, and what earlier calls returned are the units before it.

`MediaDamageProofs`: `DamageContained`, under `SingleThread` and `Framed`.  The
positions of `ExactInv` are of no use once a packet is missing, so the invariant
`DamageInv` is an account instead: per media, the units that will not come out whole
(`Lost`) and the late packets still under way together are at most the faults
(`Paid`).  A unit is not lost (`Fine`) if it came out whole, if all of its packets
sent so far wait in the queue, or if it is the unit the call is collecting: what the
call has gathered ends with its first packets and the rest of them are next in the
queue (`Opened`).  Three facts carry the proof.  `Insert` keeps the queue in the order
of sending even for a late packet, so the packets of a fine unit stay together
(`InsertOrdered`).  A call collects at most one unit at a time (`OneOpen`), so giving
up, an unknown structure or a packet that does not fit costs at most one unit and is
itself a fault.  And a late packet is charged twice when it is delayed, for its own
unit and for itself; when it comes in after all, the second charge pays for the unit
it breaks into (`DamageLate`).  Both `Lost` and `late` are needed: without the
second, the arrival of a late packet would not be paid for.

`SdpSessionsProofs`: the prover has no induction over sequences, so the meaning of
the text is defined by the last line that matters (`Last`), and the lemmas say what
one more line changes; that a last line exists follows from the well-foundedness of
the naturals.  `ParserInv` says that `section` and `current` name the
last `m=` line and that every entry of the map is what the lines say; from it follow
`TypeOK`, with `current` never naming an absent entry where the code dereferences
it, and `ParsedAsWritten`.  `SessionAsDescribed` adds that a session agrees with
the lines up to its `origin`, which later lines do not alter.

`TunnelFramesProofs`: `FramesWholeOnceInOrder`, that is, every step of `TunnelStream`
is a step of `FrameChannel` (`Send`, `Deliver`, `CutShort`, `GiveUp`) or leaves its
variables alone.  `StreamInv` says which units the unread bytes are the rest of:
there are positions `pos` of the units relative to the next unread byte, numbers
`num` of the frames before each unit, a current unit `c` and a number `k` of its
bytes already read, such that the stream agrees with the units (`Laid`), the frames
with what was taken (`Ranked`), and the parser's state with `c` and `k`
(`ParserAt`, `InPayload`).  This holds until the connection has ended and
everything is read (`Dead`), after which only the frame that was cut short may
still come out.  The quantified positions take the place of a recursive
concatenation.  Theorems: the refinement, `CallbackOncePerResponse` (with `Clbks`: a
callback is taken off when it is called) and `TypeOK`.  Assumptions:

* `Alone`: commands do not wait, so nobody but `PollSocket` reads.  A waiting
  command takes frames for text (section 2).
* `Distinct`: a frame of a channel other than 0 and 1, which the code skips byte by
  byte, holds neither `$` nor `R` behind its first two bytes, and its channel is not
  that of `T`.  Else `PollSocket` resynchronises in the middle of it; frames of
  channels 0 and 1 may hold anything.
* `Short` (`TypeOK` only): at most 155 units, since the model writes the number of a
  response as one byte of its text.

The constants of `tunnel_frames` satisfy `Alone`, `Distinct` and `Short`, those of
`media_units` `SingleThread` and `Framed`: no theorem is vacuous, and each is also
model-checked.

Only model-checked: liveness (`CommandReturns`, `SearchEndsIfPairFree`,
`FramesArrive`, `CommandGetsSocket`, `ServedAgain`), which is out of reach of the
prover.  Every safety property of a passing run is a theorem.

## 5. Plan

Done: models of the command engine, port search, shared connection, depacketizers,
RTP sessions and SDP parser; proofs of all their safety properties.  Liveness stays
with TLC.  The hazards of `PROJECT.json` without a property say what a further model
would have to add.

## 6. Not modelled

* JRTPLIB beyond what the callbacks and `GetMediaData` depend on: RTCP scheduling,
  statistics, other transmitters, encryption.  It is third-party code.
* base64, MD5, the regular expressions: stateless; the models keep whether there is
  a result.
* The outgoing direction of the interleaved connection (`SendRTPRTCPData`): two
  `send()` calls without state.
* The vendored test framework, which is most of the repository's lines; the
  examples and tests; logging; the getters of `RtspClient`.

`PROJECT.json` gives the status of every component.
