----------------------------- MODULE SdpSessions -----------------------------
(***************************************************************************)
(* SDPData::parse (sdp_data.cpp), which reads an SDP line by line and      *)
(* remembers in which section it is, and RtspClient::ParseSDP, which makes *)
(* the media sessions from what all SDPs so far have said.                 *)
(*                                                                         *)
(* Abstracted data: a line is its key with the fields the code takes from  *)
(* it; a line that matches no pattern is "other".  Of the parameter sets   *)
(* it is kept that they are there, of a control URI its value.             *)
(***************************************************************************)
EXTENDS Integers, Sequences, FiniteSets

CONSTANTS
    MediaTypes,  \* <media> of the m= lines
    Payloads,    \* payload types, a set of numbers
    Lines,       \* the lines an SDP may have
    MaxLines     \* bound: lines of all SDPs together

Line ==
    [key : {"s", "t", "other"}]
    \cup [key : {"m"}, media : MediaTypes, fmts : SUBSET Payloads]
    \cup [key : {"rtpmap"}, pt : Payloads, codec : {"H264", "H265", "PCMU", "MPA"},
          rate : Nat \ {0}]
    \cup [key : {"fmtpH264"}, pt : Payloads, mode : 0 .. 2]
    \cup [key : {"fmtpH265"}, pt : Payloads]
    \cup [key : {"control"}, uri : {"rtsp://", "track"}]

ASSUME PayloadsAssumption == Payloads \subseteq Nat /\ IsFiniteSet(Payloads)
ASSUME LinesAssumption == Lines \subseteq Line /\ MaxLines \in Nat

\* An entry of fmtMap: what the lines said of a payload type.
NoAttrs == [listed |-> FALSE, codec |-> "", rate |-> 0, mode |-> 0,
            sps |-> FALSE, vps |-> FALSE]
NoInfo  == [known |-> FALSE, fmtMap |-> [p \in Payloads |-> NoAttrs],
            controlURI |-> ""]
\* A MediaSession as the constructor leaves it.
NewSession == [PayloadType |-> -1, EncodeType |-> "", TimeRate |-> 0,
               Packetization |-> 0, XPS |-> FALSE,
               ControlURI |-> [prefixed |-> FALSE, uri |-> ""]]

VARIABLES
    mediaInfoMap,   \* of SDPData: never cleared
    pc,             \* "idle" or "parse"
    section,        \* sessionInfo, mediaInfo, timeInfo: which of them is true
    current,        \* currentMediaInfo
    live,           \* keys of MediaSessionMap
    session,        \* its values
    lines,          \* history: all lines parsed, "new" where an SDP begins
    origin          \* history: lines parsed when the session was made

vars == <<mediaInfoMap, pc, section, current, live, session, lines, origin>>

Init ==
    /\ mediaInfoMap = [m \in MediaTypes |-> NoInfo]
    /\ pc = "idle" /\ section = "session" /\ current = "NULL"
    /\ live = {} /\ session = [m \in MediaTypes |-> NewSession]
    /\ lines = <<>> /\ origin = [m \in MediaTypes |-> 0]

-----------------------------------------------------------------------------
(* SDPData::parse *)

Read(l) == lines' = Append(lines, l)

\* Mutant of Parse: the section flags are not local to the call.
ParseStale ==
    /\ pc = "idle" /\ Len(lines) < MaxLines
    /\ pc' = "parse" /\ current' = "NULL"
    /\ Read([key |-> "new"])
    /\ UNCHANGED <<mediaInfoMap, section, live, session, origin>>

\* ParseSDP: an SDP to parse; the local variables start anew.
Parse ==
    /\ pc = "idle" /\ Len(lines) < MaxLines
    /\ pc' = "parse" /\ section' = "session" /\ current' = "NULL"
    /\ Read([key |-> "new"])
    /\ UNCHANGED <<mediaInfoMap, live, session, origin>>

\* A line of the SDP that is read next.
Take(l) ==
    /\ pc = "parse" /\ Len(lines) < MaxLines /\ Read(l)
    /\ UNCHANGED <<pc, live, session, origin>>

\* Mutant of SectionLine: a t= line does not end the section of a media.
SectionLineIgnored(l) ==
    /\ l.key \in {"s", "t"} /\ Take(l)
    /\ section' = (IF l.key = "s" THEN "session" ELSE section)
    /\ UNCHANGED <<mediaInfoMap, current>>

\* s= and t= lines end the section of a media.
SectionLine(l) ==
    /\ l.key \in {"s", "t"} /\ Take(l)
    /\ section' = (IF l.key = "s" THEN "session" ELSE "time")
    /\ UNCHANGED <<mediaInfoMap, current>>

\* m=: the entry of the media type, a new one or that of an earlier line.
MediaLine(l) ==
    /\ l.key = "m" /\ Take(l)
    /\ section' = "media" /\ current' = l.media
    /\ mediaInfoMap' = [mediaInfoMap EXCEPT
          ![l.media].known = TRUE,
          ![l.media].fmtMap = [p \in Payloads |->
              IF p \in l.fmts THEN [@[p] EXCEPT !.listed = TRUE] ELSE @[p]]]

\* a= lines count in the section of a media, for payload types its m= lines list.
Counts(pt) == section = "media" /\ mediaInfoMap[current].fmtMap[pt].listed
Attributes(l, attrs) ==
    /\ Take(l)
    /\ mediaInfoMap' = IF Counts(l.pt)
                       THEN [mediaInfoMap EXCEPT ![current].fmtMap[l.pt] = attrs]
                       ELSE mediaInfoMap
    /\ UNCHANGED <<section, current>>
Attrs(l) == IF section = "media" THEN mediaInfoMap[current].fmtMap[l.pt] ELSE NoAttrs

Rtpmap(l) ==
    /\ l.key = "rtpmap"
    /\ Attributes(l, [Attrs(l) EXCEPT !.codec = l.codec, !.rate = l.rate])

\* Parameter sets, for video only.
FmtpH265(l) ==
    /\ l.key = "fmtpH265"
    /\ Attributes(l, IF current = "video"
                     THEN [Attrs(l) EXCEPT !.sps = TRUE, !.vps = TRUE] ELSE Attrs(l))
FmtpH264(l) ==
    /\ l.key = "fmtpH264"
    /\ Attributes(l, IF current = "video"
                     THEN [Attrs(l) EXCEPT !.sps = TRUE, !.mode = l.mode] ELSE Attrs(l))

Control(l) ==
    /\ l.key = "control" /\ Take(l)
    /\ mediaInfoMap' = IF section = "media"
                       THEN [mediaInfoMap EXCEPT ![current].controlURI = l.uri]
                       ELSE mediaInfoMap
    /\ UNCHANGED <<section, current>>

Other(l) ==
    /\ l.key = "other" /\ Take(l)
    /\ UNCHANGED <<mediaInfoMap, section, current>>

-----------------------------------------------------------------------------
(* RtspClient::ParseSDP *)

\* fmtMap.begin(): the lowest payload type that is listed.
Listed(m) == {p \in Payloads : mediaInfoMap[m].fmtMap[p].listed}
Begin(m) == CHOOSE p \in Listed(m) : \A q \in Listed(m) : p <= q

\* FrameTypeBase and its ParseParaFromSDP: H.265 needs a VPS too.
HasXPS(a) == \/ a.codec = "H264" /\ a.sps
             \/ a.codec = "H265" /\ a.sps /\ a.vps

\* A control URI that is not absolute is put behind RtspURI.
ControlURI(uri) == [prefixed |-> uri # "rtsp://", uri |-> uri]

\* The new session of a media type.
SessionOf(m) ==
    IF Listed(m) = {} THEN NewSession
    ELSE LET a == mediaInfoMap[m].fmtMap[Begin(m)]
         IN  [PayloadType |-> Begin(m), EncodeType |-> a.codec, TimeRate |-> a.rate,
              Packetization |-> a.mode, XPS |-> HasXPS(a),
              ControlURI |-> ControlURI(mediaInfoMap[m].controlURI)]

\* PT2TimeRateMap, by payload type.  What is behind it may be any number.
PT2TimeRateMap ==
    <<8000, 0, 0, 8000, 8000, 8000, 16000, 8000, 8000, 8000, 44100, 44100, 8000,
      8000, 90000, 8000, 11025, 22050, 8000, 0, 0, 0, 0, 0>>
AnyRate == {0, 1}
TableRates(p) == IF p < 24 THEN {PT2TimeRateMap[p + 1]} ELSE AnyRate
\* MediaInfoCheck: the rates it may leave a session with.
MediaInfoCheck(s) ==
    IF s.PayloadType >= 0 /\ s.TimeRate <= 0 THEN TableRates(s.PayloadType)
    ELSE {s.TimeRate}

\* The end of the SDP: a session for every media type that has none.  Mutant:
\* also for those that have one.
Missing == {m \in MediaTypes : mediaInfoMap[m].known /\ m \notin live}
MadeAnew(m) == IF mediaInfoMap[m].known THEN SessionOf(m) ELSE session[m]
Made(m) == IF m \in Missing THEN SessionOf(m) ELSE session[m]
ParseSDP ==
    /\ pc = "parse" /\ pc' = "idle"
    /\ live' = live \cup Missing
    /\ \E rate \in [MediaTypes -> UNION {MediaInfoCheck(Made(m)) : m \in MediaTypes}] :
          /\ \A m \in MediaTypes : rate[m] \in MediaInfoCheck(Made(m))
          /\ session' = [m \in MediaTypes |-> [Made(m) EXCEPT !.TimeRate = rate[m]]]
    /\ origin' = [m \in MediaTypes |->
                    IF m \in Missing THEN Len(lines) ELSE origin[m]]
    /\ UNCHANGED <<mediaInfoMap, section, current, lines>>

\* DoTEARDOWN deletes a session; SDPData keeps its entry.
DoTEARDOWN(m) ==
    /\ pc = "idle" /\ m \in live
    /\ live' = live \ {m}
    /\ session' = [session EXCEPT ![m] = NewSession]
    /\ origin' = [origin EXCEPT ![m] = 0]
    /\ UNCHANGED <<mediaInfoMap, pc, section, current, lines>>

-----------------------------------------------------------------------------
ParseLine(l) ==
    \/ SectionLine(l) \/ MediaLine(l) \/ Rtpmap(l) \/ FmtpH265(l) \/ FmtpH264(l)
    \/ Control(l) \/ Other(l)
Next == \/ Parse \/ ParseSDP
        \/ \E l \in Lines : ParseLine(l)
        \/ \E m \in MediaTypes : DoTEARDOWN(m)

Spec == Init /\ [][Next]_vars

-----------------------------------------------------------------------------
(* Properties *)

\* Whenever a= lines count there is a currentMediaInfo for them: the code
\* dereferences it before it compares it with NULL.
TypeOK ==
    /\ pc \in {"idle", "parse"} /\ section \in {"session", "media", "time"}
    /\ current \in MediaTypes \cup {"NULL"}
    /\ section = "media" => current \in MediaTypes /\ mediaInfoMap[current].known
    /\ live \subseteq MediaTypes
    /\ \A m \in live : mediaInfoMap[m].known
    /\ \A m \in MediaTypes : session[m].PayloadType \in Payloads \cup {-1}
    /\ \A m \in MediaTypes, p \in Payloads :
          mediaInfoMap[m].fmtMap[p].listed => mediaInfoMap[m].known

(* The meaning of a sequence of lines, without the state of the parser. *)

\* Line i belongs to a section of media m: the last line up to it that begins a
\* section is an m= line of m.
Within(ls, i, m) ==
    \E j \in 1 .. i :
        /\ ls[j].key = "m" /\ ls[j].media = m
        /\ \A k \in (j + 1) .. i : ls[k].key \notin {"m", "s", "t", "new"}
ListedBy(ls, i, m, p) ==
    \E j \in 1 .. i : ls[j].key = "m" /\ ls[j].media = m /\ p \in ls[j].fmts

\* The lines of a kind that say something of payload type p of media m.
Saying(ls, m, p, keys) ==
    {i \in 1 .. Len(ls) : /\ ls[i].key \in keys /\ ls[i].pt = p
                          /\ Within(ls, i, m) /\ ListedBy(ls, i, m, p)}
Last(S) == CHOOSE i \in S : \A j \in S : j <= i

Described(ls, m, p) ==
    LET rtpmap == Saying(ls, m, p, {"rtpmap"})
        h264   == IF m = "video" THEN Saying(ls, m, p, {"fmtpH264"}) ELSE {}
        h265   == IF m = "video" THEN Saying(ls, m, p, {"fmtpH265"}) ELSE {}
    IN  [listed |-> ListedBy(ls, Len(ls), m, p),
         codec  |-> IF rtpmap = {} THEN "" ELSE ls[Last(rtpmap)].codec,
         rate   |-> IF rtpmap = {} THEN 0 ELSE ls[Last(rtpmap)].rate,
         mode   |-> IF h264 = {} THEN 0 ELSE ls[Last(h264)].mode,
         sps    |-> h264 \cup h265 # {},
         vps    |-> h265 # {}]
ControlOf(ls, m) ==
    LET control == {i \in 1 .. Len(ls) : ls[i].key = "control" /\ Within(ls, i, m)}
    IN  IF control = {} THEN "" ELSE ls[Last(control)].uri

\* At every line the parser knows of each payload type what the last line of
\* each kind says that stands in a section of its media and names a payload type
\* listed before, and nothing of the sections of other medias.
ParsedAsWritten ==
    \A m \in MediaTypes :
        /\ mediaInfoMap[m].fmtMap = [p \in Payloads |-> Described(lines, m, p)]
        /\ mediaInfoMap[m].controlURI = ControlOf(lines, m)

\* A session is described by the lines read before it was made and keeps that
\* description, whatever later SDPs say, until it is torn down: the lowest
\* payload type of its media with its own codec, parameters and rate, and the
\* control URI of its own section.  Only a payload type that is neither in the
\* table nor in a usable rtpmap line gets a rate from behind the table.
SessionAsDescribed ==
    \A m \in live :
        LET ls     == SubSeq(lines, 1, origin[m])
            listed == {p \in Payloads : ListedBy(ls, Len(ls), m, p)}
            s      == session[m]
            a      == Described(ls, m, s.PayloadType)
        IN  IF listed = {} THEN s = NewSession
            ELSE /\ s.PayloadType \in listed /\ \A p \in listed : s.PayloadType <= p
                 /\ s.EncodeType = a.codec /\ s.Packetization = a.mode
                 /\ s.XPS <=> HasXPS(a)
                 /\ s.ControlURI = ControlURI(ControlOf(ls, m))
                 /\ a.rate # 0 => s.TimeRate = a.rate
                 /\ a.rate = 0 /\ s.PayloadType < 24
                       => s.TimeRate = PT2TimeRateMap[s.PayloadType + 1]
=============================================================================
