------------------------- MODULE TunnelStreamProofs -------------------------
(***************************************************************************)
(* The mutex of a TCP session does its work as long as media is fetched    *)
(* with GetMyRTPData and no poll fails: for any frames, responses, bounds  *)
(* and timing, the thread that reads the socket is the one that holds it.  *)
(* Both assumptions are needed: GetMyRTPPacket takes no lock, and a failed *)
(* Poll() returns with the mutex locked.                                   *)
(***************************************************************************)
EXTENDS TunnelStream, TLAPS

\* OneReader says nothing of which Get... function is running; that it is the
\* one that locks makes it inductive.
Reader == OneReader /\ fetch = "data"

\* What a step may do to the mutex and the two threads that use it.
Grants ==
    \/ UNCHANGED <<SocketMutex, rtp, cmd>>
    \/ rtp \in Polling /\ rtp' \in Polling /\ UNCHANGED <<SocketMutex, cmd>>
    \/ rtp \notin Polling /\ rtp' \notin Polling /\ UNCHANGED <<SocketMutex, cmd>>
    \/ rtp \in Polling /\ rtp' \notin Polling /\ SocketMutex' = "free" /\ UNCHANGED cmd
    \/ /\ rtp \notin Polling /\ rtp' \in Polling
       /\ SocketMutex = "free" /\ SocketMutex' = "rtp" /\ UNCHANGED cmd
    \/ cmd # "read" /\ cmd' # "read" /\ UNCHANGED <<SocketMutex, rtp>>
    \/ /\ cmd # "read" /\ cmd' = "read"
       /\ SocketMutex = "free" /\ SocketMutex' = "cmd" /\ UNCHANGED rtp
    \/ cmd = "read" /\ cmd' # "read" /\ SocketMutex' = "free" /\ UNCHANGED rtp

\* Whatever a step does to the mutex, it is one of those: a thread reads after
\* it was granted the mutex and gives it back when it stops reading.
LEMMA StepGrants ==
    ASSUME Fetches = {"data"}, OutOfMem = FALSE, fetch = "data", Next
    PROVE  Grants /\ fetch' = "data"
<1>1. ASSUME NEW f \in Frames, SendFrame(f) PROVE Grants /\ fetch' = "data"
  BY <1>1 DEF SendFrame, Grants, fetcher, commander
<1>2. CASE SendResponse
  BY <1>2 DEF SendResponse, Grants, fetcher, commander
<1>3. CASE Arrive
  BY <1>3 DEF Arrive, Grants, fetcher, commander
<1>4. ASSUME NEW how \in {"eof", "reset"}, Disconnect(how)
      PROVE  Grants /\ fetch' = "data"
  BY <1>4 DEF Disconnect, Grants, fetcher, commander
<1>5. ASSUME NEW how \in Fetches, Fetch(how) PROVE Grants /\ fetch' = "data"
  BY <1>5 DEF Fetch, Grants, Polling, commander
<1>6. CASE TryLockSocket
  BY <1>6 DEF TryLockSocket, Grants, Polling, commander
<1>7. CASE Take
  BY <1>7 DEF Take, Grants, Polling, commander
<1>8. CASE PollSocket
  <2>1. CASE PollRound
    BY <2>1 DEF PollRound, Grants, Polling, commander
  <2>2. CASE Peek
    <3>1. ASSUME NEW n, NEW step \in {"drop", "header", "text"}, NEW bytes,
                 rtp = "peek", PeekTo(n, step, bytes)
          PROVE  Grants /\ fetch' = "data"
      BY <3>1 DEF PeekTo, Grants, Polling, commander
    <3> QED BY <2>2, <3>1 DEF Peek
  <2>3. CASE Drop
    BY <2>3 DEF Drop, Grants, Polling, commander
  <2>4. CASE ReadHeader
    BY <2>4 DEF ReadHeader, Grants, Polling, commander
  <2>5. CASE ReadRTSP
    BY <2>5 DEF ReadRTSP, Grants, Polling, commander
  <2>6. CASE ReadTextByte
    BY <2>6 DEF ReadTextByte, Grants, Polling, commander
  <2>7. CASE ReadTextEnd
    BY <2>7 DEF ReadTextEnd, Grants, Polling, commander
  <2>8. CASE CallBack
    BY <2>8 DEF CallBack, Grants, Polling, commander
  <2>9. CASE ClearCallback
    BY <2>9 DEF ClearCallback, Grants, Polling, commander
  <2>10. CASE ReadPayload
    BY <2>10 DEF ReadPayload, Grants, Polling, commander
  <2>11. CASE PollEnds
    BY <2>11 DEF PollEnds, Grants, Polling, commander
  <2> QED BY <1>8, <2>1, <2>2, <2>3, <2>4, <2>5, <2>6, <2>7, <2>8, <2>9, <2>10,
             <2>11 DEF PollSocket
<1>9. CASE PollFails
  BY <1>9 DEF PollFails
<1>10. CASE SetRtspCmdClbk
  BY <1>10 DEF SetRtspCmdClbk, Grants, fetcher
<1>11. ASSUME NEW wait \in Waits, Command(wait) PROVE Grants /\ fetch' = "data"
  BY <1>11 DEF Command, Grants, fetcher
<1>12. CASE LockSocket
  BY <1>12 DEF LockSocket, Grants, fetcher
<1>13. CASE RecvRTSPByte
  BY <1>13 DEF RecvRTSPByte, RecvRTSPReturns, Grants, fetcher
<1>14. CASE RecvRTSPFails
  BY <1>14 DEF RecvRTSPFails, RecvRTSPReturns, Grants, fetcher
<1> QED BY <1>1, <1>2, <1>3, <1>4, <1>5, <1>6, <1>7, <1>8, <1>9, <1>10, <1>11,
           <1>12, <1>13, <1>14 DEF Next, FetchStep, RecvRTSP

\* GetMyRTPData and RecvRTSP never read the tunnelling socket at the same time,
\* and neither keeps SocketMutex after it stopped reading.
THEOREM TunnelOneReader ==
    ASSUME Fetches = {"data"}, OutOfMem = FALSE
    PROVE  Spec => []OneReader
<1>1. Init => Reader
  BY DEF Init, Reader, OneReader, Polling
<1>2. Reader /\ [Next]_vars => Reader'
  <2>1. Reader /\ Grants /\ fetch' = "data" => Reader'
    BY DEF Reader, OneReader, Grants
  <2>2. Reader /\ UNCHANGED vars => Reader'
    BY DEF Reader, OneReader, vars
  <2> QED BY <2>1, <2>2, StepGrants DEF Reader
<1>3. Reader => OneReader
  BY DEF Reader
<1> QED BY <1>1, <1>2, <1>3, PTL DEF Spec
=============================================================================
