------------------------------ MODULE MediaData ------------------------------
(***************************************************************************)
(* RtspClient::GetMediaData (rtspClient.cpp) with the frame types that     *)
(* turn RTP packets back into what the application stores: NAL units of    *)
(* H.264 and H.265 (nalu_types*.cpp), MPEG audio and PCMU frames.          *)
(*                                                                         *)
(* The server sends the units of each media in one or more packets.  The   *)
(* network loses, delays and repeats packets.  A call of GetMediaData      *)
(* takes packets until one ends a unit; each packet is first put into      *)
(* VideoBuffer, which all medias of a client share, and is read from there *)
(* twice.                                                                  *)
(*                                                                         *)
(* Abstracted data: a unit is its number; what the application gets is a   *)
(* sequence of items: <<m, u, 0>> is a start code with the NAL header of   *)
(* unit u, <<m, u, i>> the data of its i-th packet, XPS(m) the parameter   *)
(* sets of the SDP.  Sizes are kept, because the code compares them.       *)
(***************************************************************************)
EXTENDS Integers, Sequences, FiniteSets

CONSTANTS
    Medias,      \* the media sessions of the client
    FrameTypes,  \* subset of [Medias -> FrameType]: what the SDP may say
    Shapes,      \* [Medias -> SUBSET Shape]: the units their server sends
    Thread,      \* [Medias -> threads]: who calls GetMediaData
    MaxSize,     \* max_size of those calls
    XPSSize,     \* bytes of the parameter sets with their start codes
    VideoBufferSize,  \* VideoBuffer.Size, MEDIA_BUFSIZ = 8192 in the code
    SizeT,       \* one more than the largest size_t, 2^64 in the code
    MaxUnits,    \* [Medias -> Nat], bound: units sent
    MaxFaults    \* [Medias -> Nat], bound: harm the network does

\* EncodeType and Packetization of the SDP; XPS: it has parameter sets.
FrameType == [EncodeType : {"H264", "H265", "MPA", "PCMU"},
              Packetization : 0 .. 2, XPS : BOOLEAN]
\* A unit is n packets of payload structure nt and of size bytes each, which may
\* be none, fewer than the header of the structure or more than VideoBuffer
\* holds; offset is the fragment offset in the header of MPEG audio.
Shape == [nt : {"NAL", "STAP_A", "STAP_B", "MTAP", "FU_A", "FU_B", "APs",
                "FUs", "audio"},
          n : Nat \ {0}, size : Nat, offset : Nat]

ASSUME SizesAssumption ==
    /\ MaxSize \in Nat /\ XPSSize \in Nat /\ VideoBufferSize \in Nat
    /\ SizeT \in Nat /\ SizeT >= 4
ASSUME BoundsAssumption ==
    MaxUnits \in [Medias -> Nat] /\ MaxFaults \in [Medias -> Nat]
ASSUME StreamsAssumption ==
    /\ FrameTypes \subseteq [Medias -> FrameType]
    /\ Shapes \in [Medias -> SUBSET Shape]
    /\ DOMAIN Thread = Medias

VARIABLES
    frameType,            \* frameTypeBase of each media session
    prefixParameterOnce,  \* its flag: the parameter sets are still to come
    VideoBuffer,          \* the packet in VideoBuffer.Buf, <<>> for none
    pc, size, SizeTmp, StartFlag, EndFlag, buf,   \* the call under way
    units,    \* shapes of the units sent so far
    left,     \* packets of the last unit that are still to be sent
    net,      \* packets in the queue of the RTP session
    late,     \* packets on their way
    dead,     \* the process was killed by a write beyond its memory
    out,      \* history: what the calls returned
    faults    \* history: units the network or the sizes may have cost

vars == <<frameType, prefixParameterOnce, VideoBuffer, pc, size, SizeTmp,
          StartFlag, EndFlag, buf, units, left, net, late, dead, out, faults>>

Init ==
    /\ frameType \in FrameTypes
    /\ prefixParameterOnce =
          [m \in Medias |-> frameType[m].EncodeType \in {"H264", "H265"}]
    /\ VideoBuffer = <<>>
    /\ pc = [m \in Medias |-> "idle"]
    /\ size = [m \in Medias |-> 0] /\ SizeTmp = [m \in Medias |-> 0]
    /\ StartFlag = [m \in Medias |-> FALSE] /\ EndFlag = [m \in Medias |-> FALSE]
    /\ buf = [m \in Medias |-> <<>>]
    /\ units = [m \in Medias |-> <<>>] /\ left = [m \in Medias |-> 0]
    /\ net = [m \in Medias |-> <<>>] /\ late = [m \in Medias |-> {}]
    /\ dead = FALSE
    /\ out = [m \in Medias |-> <<>>] /\ faults = [m \in Medias |-> 0]

-----------------------------------------------------------------------------
(* Payload structures *)

\* NalUnitType_H264[packetization] and NalUnitType_H265[0]: the payload
\* structures that have an object in the table.
NalUnitType_H264 == [p \in 0 .. 2 |->
    IF p = 0 THEN {"NAL"}
    ELSE IF p = 1 THEN {"NAL", "STAP_A", "FU_A"}
    ELSE {"STAP_B", "MTAP", "FU_A", "FU_B"}]
NalUnitType_H265 == {"NAL", "APs", "FUs"}

\* GetNaluRtpType found an object; MPEG audio only asks for its 4-byte header.
ParsePacketOK(f, p) ==
    IF f.EncodeType = "H264" THEN p.nt \in NalUnitType_H264[f.Packetization]
    ELSE IF f.EncodeType = "H265" THEN p.nt \in NalUnitType_H265
    ELSE f.EncodeType = "MPA" => p.size >= 4

\* Mutant of IsPacketStart: every fragment gets a start code.
AlwaysStart(p) == TRUE

\* The S and E bits of fragmentation units; the other structures are whole.
IsPacketStart(p) == p.nt \in {"FU_A", "FUs"} => p.i = 1
IsPacketEnd(p)   == p.nt \in {"FU_A", "FUs"} => p.i = p.n

IsNALU(f) == f.EncodeType \in {"H264", "H265"}
\* The parameter sets of media m, as PrefixXPS writes them to buf.
XPS(m) == <<m, 0, 0>>

\* Bytes of the header CopyData writes after the start code, and of the packet
\* header it skips (MPA: Offset).
HeaderSize(f) == IF f.EncodeType = "H264" THEN 1 ELSE 2
SkipHeaderSize(f, p) ==
    IF IsNALU(f) THEN HeaderSize(f) + IF p.nt \in {"FU_A", "FUs"} THEN 1 ELSE 0
    ELSE IF f.EncodeType = "MPA" THEN 4 + p.offset ELSE 0

\* Mutant of CopySize: MPEG audio does not compare the size with its headers.
CopySizeUnchecked(f, p, start, n) ==
    (IF IsNALU(f) /\ start THEN 4 + HeaderSize(f) ELSE 0)
    + (n - SkipHeaderSize(f, p))

\* size - SkipHeaderSize of CopyData.  MPEG audio copies nothing if that is
\* negative, H.264 and H.265 do not ask: it is a size_t and wraps.
CopySize(f, p, start, n) ==
    (IF IsNALU(f) /\ start THEN 4 + HeaderSize(f) ELSE 0)
    + (IF n >= SkipHeaderSize(f, p) THEN n - SkipHeaderSize(f, p)
       ELSE IF IsNALU(f) THEN SizeT + n - SkipHeaderSize(f, p) ELSE 0)
RunsOff(f, p, n) == IsNALU(f) /\ n < SkipHeaderSize(f, p)

\* CopyData(buf, data, n): the items it appends.
Carries(f, p) == f.EncodeType = "MPA" => p.size > SkipHeaderSize(f, p)
CopyItems(f, p, start) ==
    (IF IsNALU(f) /\ start THEN <<<<p.media, p.unit, 0>>>> ELSE <<>>)
    \o (IF Carries(f, p) THEN <<<<p.media, p.unit, p.i>>>> ELSE <<>>)

-----------------------------------------------------------------------------
(* Server and network *)

\* Packet k of unit u of media m, which has shape s.
PacketOf(m, u, s, k) ==
    [media |-> m, unit |-> u, i |-> k, n |-> s.n, nt |-> s.nt, size |-> s.size,
     offset |-> s.offset]

\* The server sends the next packet of its last unit, or the first of a new one.
Sent(m) == left[m] = 0
Begin(m, s) ==
    /\ Sent(m) /\ Len(units[m]) < MaxUnits[m] /\ s \in Shapes[m]
    /\ units' = [units EXCEPT ![m] = Append(@, s)]
    /\ left' = [left EXCEPT ![m] = s.n - 1]
Continue(m, s) ==
    /\ ~Sent(m) /\ s = units[m][Len(units[m])]
    /\ left' = [left EXCEPT ![m] = @ - 1]
    /\ UNCHANGED units
SendPacket(m, s) ==
    /\ Begin(m, s) \/ Continue(m, s)
    /\ UNCHANGED <<frameType, prefixParameterOnce, VideoBuffer, pc, size, SizeTmp,
                   StartFlag, EndFlag, buf, dead, out>>
NextPacket(m, s) ==
    IF Sent(m) THEN PacketOf(m, Len(units[m]) + 1, s, 1)
    ELSE PacketOf(m, Len(units[m]), s, s.n - left[m] + 1)

Arrive(m, s) ==
    /\ SendPacket(m, s)
    /\ net' = [net EXCEPT ![m] = Append(@, NextPacket(m, s))]
    /\ UNCHANGED <<late, faults>>

Lose(m, s) ==
    /\ SendPacket(m, s) /\ faults[m] < MaxFaults[m]
    /\ faults' = [faults EXCEPT ![m] = @ + 1]
    /\ UNCHANGED <<net, late>>

\* A delayed packet may be missed by its own unit and end up inside another.
Delay(m, s) ==
    /\ SendPacket(m, s) /\ faults[m] < MaxFaults[m]
    /\ late' = [late EXCEPT ![m] = @ \cup {NextPacket(m, s)}]
    /\ faults' = [faults EXCEPT ![m] = @ + 2]
    /\ UNCHANGED net

\* The network delivers a packet twice.
Duplicate(m, s) ==
    /\ SendPacket(m, s) /\ faults[m] < MaxFaults[m]
    /\ net' = [net EXCEPT ![m] = Append(@, NextPacket(m, s))]
    /\ late' = [late EXCEPT ![m] = @ \cup {NextPacket(m, s)}]
    /\ faults' = [faults EXCEPT ![m] = @ + 1]

\* JRTPLIB keeps the queue in the order of the sequence numbers and drops a
\* packet that is in it; of those taken from it before it knows nothing.
Before(p, q) == p.unit < q.unit \/ (p.unit = q.unit /\ p.i < q.i)
Insert(q, p) ==
    LET k == Cardinality({j \in 1 .. Len(q) : Before(q[j], p)})
    IN  IF \E j \in 1 .. Len(q) : q[j] = p THEN q
        ELSE SubSeq(q, 1, k) \o <<p>> \o SubSeq(q, k + 1, Len(q))
ArriveLate(m) ==
    /\ \E p \in late[m] :
          /\ net' = [net EXCEPT ![m] = Insert(@, p)]
          /\ late' = [late EXCEPT ![m] = @ \ {p}]
    /\ UNCHANGED <<frameType, prefixParameterOnce, VideoBuffer, pc, size, SizeTmp,
                   StartFlag, EndFlag, buf, units, left, dead, out, faults>>

-----------------------------------------------------------------------------
(* GetMediaData(media_session, buf, &size, max_size) *)

Busy(t) == \E m \in Medias : Thread[m] = t /\ pc[m] # "idle"

\* The call ends, with buf or with NULL, which leaves what was copied to buf
\* unused.  What the next call sets before it reads it is cleared.
Leave(m) ==
    /\ pc' = [pc EXCEPT ![m] = "idle"] /\ buf' = [buf EXCEPT ![m] = <<>>]
    /\ SizeTmp' = [SizeTmp EXCEPT ![m] = 0]
    /\ StartFlag' = [StartFlag EXCEPT ![m] = FALSE]
    /\ EndFlag' = [EndFlag EXCEPT ![m] = FALSE]
Return(m, result) == Leave(m) /\ out' = [out EXCEPT ![m] = Append(@, result)]
ReturnNULL(m) == Leave(m) /\ UNCHANGED out

\* Mutant of GetMediaData: NotInsertXPSAgain is not called.
GetMediaDataRepeats(m) ==
    /\ pc[m] = "idle" /\ ~Busy(Thread[m])
    /\ prefixParameterOnce[m] => frameType[m].XPS
    /\ buf' = [buf EXCEPT ![m] = IF prefixParameterOnce[m] THEN <<XPS(m)>> ELSE <<>>]
    /\ size' = [size EXCEPT ![m] = IF prefixParameterOnce[m] THEN XPSSize ELSE 0]
    /\ pc' = [pc EXCEPT ![m] = "fetch"]
    /\ UNCHANGED <<frameType, prefixParameterOnce, VideoBuffer, SizeTmp, StartFlag,
                   EndFlag, units, left, net, late, dead, out, faults>>

\* *size = 0, and the parameter sets once.  If the SDP had none the call returns
\* NULL and changes nothing, which is a stuttering step here.
GetMediaData(m) ==
    /\ pc[m] = "idle" /\ ~Busy(Thread[m])
    /\ prefixParameterOnce[m] => frameType[m].XPS
    /\ buf' = [buf EXCEPT ![m] = IF prefixParameterOnce[m] THEN <<XPS(m)>> ELSE <<>>]
    /\ size' = [size EXCEPT ![m] = IF prefixParameterOnce[m] THEN XPSSize ELSE 0]
    /\ prefixParameterOnce' = [prefixParameterOnce EXCEPT ![m] = FALSE]
    /\ pc' = [pc EXCEPT ![m] = "fetch"]
    /\ UNCHANGED <<frameType, VideoBuffer, SizeTmp, StartFlag, EndFlag, units,
                   left, net, late, dead, out, faults>>

\* "No RTP data", or Poll() failed: the call gives up, a unit begun included.
NoData(m) ==
    /\ pc[m] = "fetch"
    /\ ReturnNULL(m)
    /\ faults' = [faults EXCEPT ![m] = @ + IF buf[m] = <<>> THEN 0 ELSE 1]
    /\ UNCHANGED <<frameType, prefixParameterOnce, VideoBuffer, size, units, left,
                   net, late, dead>>

\* Mutant of Fits: the new packet is not counted.
FitsAlready(m, n) == size[m] <= MaxSize

\* Mutant of Fetch: a packet in VideoBuffer is not replaced.
FetchStale(m) ==
    /\ pc[m] = "fetch" /\ net[m] # <<>>
    /\ VideoBuffer' = IF VideoBuffer = <<>> THEN Head(net[m]) ELSE VideoBuffer
    /\ net' = [net EXCEPT ![m] = Tail(@)]
    /\ UNCHANGED <<frameType, prefixParameterOnce, size, units, left, late>>

\* A packet goes into VideoBuffer.  Only then is its size looked at.
Fits(m, n) == size[m] + n <= MaxSize
Fetch(m) ==
    /\ pc[m] = "fetch" /\ net[m] # <<>>
    /\ VideoBuffer' = Head(net[m])
    /\ net' = [net EXCEPT ![m] = Tail(@)]
    /\ UNCHANGED <<frameType, prefixParameterOnce, size, units, left, late>>
\* An empty payload is taken for "No RTP data".
FetchEmpty(m) ==
    /\ Fetch(m) /\ Head(net[m]).size = 0
    /\ ReturnNULL(m)
    /\ faults' = [faults EXCEPT ![m] = @ + 1]
    /\ UNCHANGED dead
\* The memcpy into VideoBuffer comes before "RTP Packet too large": the process
\* is killed by it or goes on to return NULL.
FetchTooLarge(m) ==
    /\ Fetch(m) /\ Head(net[m]).size > VideoBufferSize
    /\ ReturnNULL(m)
    /\ faults' = [faults EXCEPT ![m] = @ + 1]
    /\ dead' \in BOOLEAN
FetchTruncated(m) ==
    /\ Fetch(m) /\ Head(net[m]).size \in 1 .. VideoBufferSize
    /\ ~Fits(m, Head(net[m]).size)
    /\ Return(m, buf[m])
    /\ faults' = [faults EXCEPT ![m] = @ + 1]
    /\ UNCHANGED dead

\* Mutant of FetchFits: the size of the packet is not stored.
FetchFitsUnsized(m) ==
    /\ Fetch(m) /\ Head(net[m]).size \in 1 .. VideoBufferSize
    /\ Fits(m, Head(net[m]).size)
    /\ pc' = [pc EXCEPT ![m] = "parse"]
    /\ UNCHANGED <<SizeTmp, StartFlag, EndFlag, buf, dead, out, faults>>

FetchFits(m) ==
    /\ Fetch(m) /\ Head(net[m]).size \in 1 .. VideoBufferSize
    /\ Fits(m, Head(net[m]).size)
    /\ SizeTmp' = [SizeTmp EXCEPT ![m] = Head(net[m]).size]
    /\ pc' = [pc EXCEPT ![m] = "parse"]
    /\ UNCHANGED <<StartFlag, EndFlag, buf, dead, out, faults>>

\* What ParsePacket makes of VideoBuffer: an error, or the two flags.  Bytes of
\* another media may look like anything.  The flags of a packet shorter than its
\* header are those of older bytes; CopyDataRunsOff does not depend on them.
Parsed(m, p) ==
    IF p.media # m THEN {<<>>} \cup (BOOLEAN \X BOOLEAN)
    ELSE IF ParsePacketOK(frameType[m], p)
    THEN {<<IsPacketStart(p), IsPacketEnd(p)>>} ELSE {<<>>}
ParsePacket(m) ==
    /\ pc[m] = "parse"
    /\ \E flags \in Parsed(m, VideoBuffer) \ {<<>>} :
          /\ StartFlag' = [StartFlag EXCEPT ![m] = flags[1]]
          /\ EndFlag' = [EndFlag EXCEPT ![m] = flags[2]]
    /\ pc' = [pc EXCEPT ![m] = "copy"]
    /\ UNCHANGED <<frameType, prefixParameterOnce, VideoBuffer, size, SizeTmp, buf,
                   units, left, net, late, dead, out, faults>>
ParsePacketError(m) ==
    /\ pc[m] = "parse"
    /\ <<>> \in Parsed(m, VideoBuffer)
    /\ ReturnNULL(m)
    /\ faults' = [faults EXCEPT ![m] = @ + 1]
    /\ UNCHANGED <<frameType, prefixParameterOnce, VideoBuffer, size, units, left,
                   net, late, dead>>

\* Mutant of Copied: a fragment overwrites the ones before it.
CopiedOver(m) == CopyItems(frameType[m], VideoBuffer, StartFlag[m])

\* CopyData, then on to the next packet or, at the end of a unit, return.
Copied(m) == buf[m] \o CopyItems(frameType[m], VideoBuffer, StartFlag[m])
Copy(m) ==
    /\ pc[m] = "copy"
    /\ size' = [size EXCEPT ![m] =
          @ + CopySize(frameType[m], VideoBuffer, StartFlag[m], SizeTmp[m])]
    /\ UNCHANGED <<frameType, prefixParameterOnce, VideoBuffer, units, left, net,
                   late>>
CopyData(m) ==
    /\ Copy(m) /\ ~RunsOff(frameType[m], VideoBuffer, SizeTmp[m])
    /\ IF EndFlag[m]
       THEN Return(m, Copied(m))
       ELSE /\ pc' = [pc EXCEPT ![m] = "fetch"]
            /\ buf' = [buf EXCEPT ![m] = Copied(m)]
            /\ UNCHANGED <<SizeTmp, StartFlag, EndFlag, out>>
    /\ UNCHANGED <<dead, faults>>
\* A copy of nearly SizeT bytes does not end: the process is killed, and what
\* the call held is gone with it.
CopyDataRunsOff(m) ==
    /\ Copy(m) /\ RunsOff(frameType[m], VideoBuffer, SizeTmp[m])
    /\ ReturnNULL(m)
    /\ faults' = [faults EXCEPT ![m] = @ + 1]
    /\ dead' = TRUE

-----------------------------------------------------------------------------
Environment(m) ==
    \/ \E s \in Shapes[m] : Arrive(m, s) \/ Lose(m, s) \/ Delay(m, s)
                           \/ Duplicate(m, s)
    \/ ArriveLate(m)
Step(m) ==
    \/ NoData(m) \/ FetchEmpty(m) \/ FetchTooLarge(m) \/ FetchTruncated(m)
    \/ FetchFits(m) \/ ParsePacket(m) \/ ParsePacketError(m) \/ CopyData(m)
    \/ CopyDataRunsOff(m)
Next ==
    \E m \in Medias : Environment(m) \/ (~dead /\ (GetMediaData(m) \/ Step(m)))

Spec == Init /\ [][Next]_vars

-----------------------------------------------------------------------------
(* Properties *)

\* Where a call is, what it holds, and what is in flight; packets in flight are
\* numbered within what the server sent.
TypeOK ==
    /\ frameType \in FrameTypes
    /\ prefixParameterOnce \in [Medias -> BOOLEAN]
    /\ pc \in [Medias -> {"idle", "fetch", "parse", "copy"}]
    /\ size \in [Medias -> Nat] /\ SizeTmp \in [Medias -> Nat]
    /\ StartFlag \in [Medias -> BOOLEAN] /\ EndFlag \in [Medias -> BOOLEAN]
    /\ left \in [Medias -> Nat] /\ faults \in [Medias -> Nat] /\ dead \in BOOLEAN
    /\ \A m \in Medias : \A j \in 1 .. Len(net[m]) :
          net[m][j].media = m /\ net[m][j].unit \in 1 .. Len(units[m])

\* The items of unit u of media m, and whether a sequence contains them in one
\* piece.
Whole(m, u) ==
    LET n == units[m][u].n
    IN  IF IsNALU(frameType[m]) THEN [k \in 1 .. n + 1 |-> <<m, u, k - 1>>]
        ELSE [k \in 1 .. n |-> <<m, u, k>>]
Contains(s, w) ==
    \E k \in 0 .. Len(s) - Len(w) : SubSeq(s, k + 1, k + Len(w)) = w

\* GetMediaData(m) returns nothing but data of its own media and its parameter
\* sets, although all medias go through the same VideoBuffer.  Holds when one
\* thread makes all the calls.
OwnMedia ==
    \A m \in Medias : \A k \in 1 .. Len(out[m]) : \A j \in 1 .. Len(out[m][k]) :
        out[m][k][j][1] = m

\* Units that are over: nothing of them is still to come, queued or in a call.
Settled(m) ==
    {u \in 1 .. Len(units[m]) :
        /\ u < Len(units[m]) \/ Sent(m)
        /\ \A p \in late[m] : p.unit # u
        /\ \A j \in 1 .. Len(net[m]) : net[m][j].unit # u
        /\ pc[m] = "idle" \/ (/\ \A j \in 1 .. Len(buf[m]) :
                                    buf[m][j] = XPS(m) \/ buf[m][j][2] # u
                              /\ pc[m] = "fetch" \/ VideoBuffer.unit # u)}
Spoiled(m) ==
    {u \in Settled(m) :
        /\ units[m][u].offset = 0
        /\ \A k \in 1 .. Len(out[m]) : ~Contains(out[m][k], Whole(m, u))}

\* Damage does not spread: every packet that is lost, comes twice, is empty, too
\* large for VideoBuffer or buf, shorter than its header or of an unknown
\* structure, and every time-out inside a unit, costs at most one unit (a late
\* packet two, its own and the one it breaks into); all others come out in one
\* piece, or are still queued when the process dies.  GetMediaData keeps no
\* state from one call to the next, so it starts the next call in the middle of
\* a unit.
DamageContained == \A m \in Medias : Cardinality(Spoiled(m)) <= faults[m]

\* Without such a fault every call that returns data returns exactly the next
\* unit, and the first one begins with the parameter sets.
ExactWithoutFaults ==
    \A m \in Medias : faults[m] = 0 =>
        \A k \in 1 .. Len(out[m]) :
            units[m][k].offset = 0 =>
            out[m][k] = (IF k = 1 /\ IsNALU(frameType[m]) THEN <<XPS(m)>> ELSE <<>>)
                        \o Whole(m, k)

\* The parameter sets are returned at most once, in front of everything else.
ParametersOnce ==
    \A m \in Medias : \A k \in 1 .. Len(out[m]) : \A j \in 1 .. Len(out[m][k]) :
        out[m][k][j] = XPS(m) =>
            /\ j = 1
            /\ \A l \in 1 .. k - 1 : out[m][l] = <<>>

\* The server sent media m a packet that is shorter than the header CopyData
\* skips, or one that is larger than VideoBuffer.
Headless(m) ==
    \E u \in 1 .. Len(units[m]) :
        RunsOff(frameType[m], units[m][u], units[m][u].size)
Oversized(m) == \E u \in 1 .. Len(units[m]) : units[m][u].size > VideoBufferSize

\* The test against max_size leaves out the start code: *size may exceed
\* max_size, but never by more than 4 (or it is that of the parameter sets),
\* whatever is lost, late or repeated.  The only packets that can make CopyData
\* write more are those of H.264 and H.265 that are shorter than their own
\* header.  Holds when one thread makes all the calls.
OverrunBounded ==
    \A m \in Medias : \/ size[m] <= MaxSize + 4 \/ size[m] <= XPSSize
                       \/ Headless(m)

\* Nothing else kills the process: as long as the server sends no packet of such
\* a size, no loss, delay or repetition makes a copy run out of its memory,
\* although VideoBuffer keeps the bytes and SizeTmp the size.  Holds when one
\* thread makes all the calls.
KilledBySizeOnly == dead => \E m \in Medias : Headless(m) \/ Oversized(m)
=============================================================================
