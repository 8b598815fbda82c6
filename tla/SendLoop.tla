------------------------------ MODULE SendLoop ------------------------------
(***************************************************************************)
(* The part of session.run and session.sendPackets that decides when       *)
(* packets leave, around the loss recovery of SentPacketHandler: one       *)
(* iteration of the run loop waits for an event, fires a due loss          *)
(* detection alarm, applies pacing, and sends.                             *)
(*                                                                         *)
(* early says whether TimeUntilSend(), the time before which pacing allows *)
(* no packet, is in the future, and what put it there: "data" if only the  *)
(* last retransmittable packets did, "ack" if a packet without             *)
(* retransmittable frames did later.  s.pacingDeadline, when it is set,    *)
(* holds that same time.                                                   *)
(***************************************************************************)
EXTENDS SentPacketHandler

CONSTANTS
    Paced,     \* whether the congestion controller ever delays a packet
    KeepAlives,\* config.KeepAlive
    MaxBurst   \* bound on ShouldSendNumPackets without RTO probes

ASSUME LoopAssumption ==
    Paced \in BOOLEAN /\ KeepAlives \in BOOLEAN /\ MaxBurst \in Nat \ {0}

VARIABLES
    phase,      \* where the run loop is
    early,      \* now.Before(sentPacketHandler.TimeUntilSend()), or "no"
    pacing,     \* whether s.pacingDeadline is set
    numPackets, \* numPackets of sendPackets
    numSent     \* numPacketsSent of sendPackets

loopVars == <<phase, early, pacing, numPackets, numSent>>
allVars == <<vars, loopVars>>

Phases == {"select", "alarm", "pace", "send", "sending", "closed"}

-----------------------------------------------------------------------------
(* session.run *)

\* A timer or scheduleSending.
Wake ==
    /\ phase = "select" /\ phase' = "alarm"
    /\ UNCHANGED <<vars, early, pacing, numPackets, numSent>>

\* handlePacketImpl; on an error the session closes itself.
HandlePacket ==
    /\ phase = "select"
    /\ \/ ReceivedPacket
       \/ \E ack \in (SUBSET (1..lastSent + 1)) \ {{}} : ReceivedAck(ack)
    /\ phase' = IF err' = "none" THEN "alarm" ELSE "closed"
    /\ UNCHANGED <<early, pacing, numPackets, numSent>>

\* The server's handleHandshakeComplete, at the top of the loop or in its
\* second select, or the client's first forward-secure packet.
HandshakeComplete ==
    /\ phase = "select"
    /\ SetHandshakeComplete
    /\ phase' \in {"select", "alarm"}
    /\ UNCHANGED <<early, pacing, numPackets, numSent>>

\* A due alarm fires.  The probe timeouts start with the last retransmittable
\* packet and are far longer than the pacing delays it and those sent with it
\* cause.
Alarm ==
    /\ phase = "alarm" /\ phase' = "pace"
    /\ \/ OnAlarm /\ (early = "data" => UNCHANGED <<tlpCount, numRTOs>>)
       \/ UNCHANGED vars
    /\ UNCHANGED <<early, pacing, numPackets, numSent>>

\* Before the deadline the loop goes back to wait, but only if the timer did
\* not have a pacing deadline set yet.
PaceWait ==
    /\ phase = "pace" /\ ~pacing /\ early # "no"
    /\ pacing' = TRUE /\ phase' = "select"
    /\ UNCHANGED <<vars, early, numPackets, numSent>>

PaceDone ==
    /\ phase = "pace" /\ (pacing \/ early = "no")
    /\ phase' \in {"send", "closed"}    \* closed: handshake or idle timeout
    /\ UNCHANGED <<vars, early, pacing, numPackets, numSent>>

\* A keep-alive PING is due: pacing is not looked at.
KeepAlive ==
    /\ phase = "pace" /\ KeepAlives /\ hsComplete
    /\ phase' \in {"send", "closed"}
    /\ UNCHANGED <<vars, early, pacing, numPackets, numSent>>

-----------------------------------------------------------------------------
(* session.sendPackets *)

ShouldSendNumPackets == IF numRTOs > 0 THEN {numRTOs} ELSE 1..MaxBurst

StartSending ==
    /\ phase = "send"
    /\ pacing' = FALSE
    /\ numSent' = 0
    /\ \/ /\ SendMode = "SendNone"
          /\ phase' = "select" /\ UNCHANGED numPackets
       \/ /\ SendMode # "SendNone"
          /\ phase' = "sending"
          /\ numPackets' \in ShouldSendNumPackets
    /\ UNCHANGED <<vars, early>>

\* The send loop ends; the pacing timer starts if the budget was used up.
FinishSending(sent) ==
    /\ phase' = "select"
    /\ pacing' = (sent = numPackets)

\* sentPacketImpl moves nextPacketSendTime.
NextSendTime ==
    early' \in IF ~Paced THEN {"no"}
              ELSE IF bytesInFlight' > bytesInFlight THEN {"no", "data"}
              ELSE IF early = "no" THEN {"no", "ack"}
              ELSE {early}

\* One packet was sent: go on until the budget is used up.
SentOne ==
    /\ numSent' = numSent + 1
    /\ NextSendTime
    /\ IF numSent' >= numPackets THEN FinishSending(numSent')
       ELSE UNCHANGED <<phase, pacing>>

SendAckOnly(skip) ==
    /\ phase = "sending" /\ SendMode = "SendAck"
    /\ phase' = "select"
    /\ \/ numSent = 0 /\ SentNonRetransmittable(skip) /\ NextSendTime
       \/ UNCHANGED <<vars, early>>
    /\ UNCHANGED <<pacing, numPackets, numSent>>

SendProbe(skip) ==
    /\ phase = "sending"
    /\ SendProbePacket(skip)
    /\ \/ err' = "none" /\ SentOne
       \/ err' # "none" /\ phase' = "closed" /\ UNCHANGED <<early, pacing, numSent>>
    /\ UNCHANGED numPackets

SendQueued(skip) ==
    /\ phase = "sending"
    /\ MaybeSendRetransmission(skip)
    /\ IF SkipInitial THEN UNCHANGED <<phase, early, pacing, numSent>> ELSE SentOne
    /\ UNCHANGED numPackets

SendNew(enc, len, skip) ==
    /\ phase = "sending" /\ SendMode = "SendAny"
    /\ SentPacket(enc, len, skip) \/ SentNonRetransmittable(skip)
    /\ SentOne
    /\ UNCHANGED numPackets

\* PackPacket has nothing to send, or the send mode became SendNone.
NothingToSend ==
    /\ phase = "sending" /\ SendMode \in {"SendAny", "SendNone"}
    /\ FinishSending(numSent)
    /\ UNCHANGED <<vars, early, numPackets, numSent>>

\* The pacing time passes.
Tick ==
    /\ early # "no" /\ early' = "no"
    /\ UNCHANGED <<vars, phase, pacing, numPackets, numSent>>

-----------------------------------------------------------------------------
LoopInit ==
    /\ Init
    /\ phase = "select" /\ early = "no" /\ pacing = FALSE
    /\ numPackets = 0 /\ numSent = 0

LoopNext ==
    \/ Wake \/ HandlePacket \/ HandshakeComplete \/ Alarm \/ PaceWait \/ PaceDone \/ KeepAlive
    \/ StartSending \/ NothingToSend \/ Tick
    \/ \E skip \in SkipOffsets :
          \/ SendAckOnly(skip)
          \/ SendProbe(skip)
          \/ SendQueued(skip)
          \/ \E enc \in Levels, len \in Lengths : SendNew(enc, len, skip)

LoopSpec == LoopInit /\ [][LoopNext]_allVars

\* The run loop's goroutine keeps running: the timer always has a deadline (the
\* idle timeout at least), so the select does not block forever, and no other
\* step blocks.  Time passes.  Nothing is assumed of the peer.
RunStep ==
    \/ Wake \/ Alarm \/ PaceWait \/ PaceDone \/ StartSending \/ NothingToSend
    \/ \E skip \in SkipOffsets :
          \/ SendAckOnly(skip)
          \/ SendProbe(skip)
          \/ SendQueued(skip)
          \/ \E enc \in Levels, len \in Lengths : SendNew(enc, len, skip)

FairLoopSpec == LoopSpec /\ WF_allVars(RunStep) /\ WF_allVars(Tick)

-----------------------------------------------------------------------------
\* sendPackets never asks for a probe packet when there is none: the session
\* does not close itself with "cannot dequeue a probe packet".
ProbeHasPacket == err # "noprobe"

\* "RTO probes should not be paced, but must be sent immediately": when the run
\* loop is done with an event and goes back to its select, no RTO probe is left
\* that could be sent.
RTOProbesNotPaced ==
    [][phase # "select" /\ phase' = "select" => numRTOs' = 0 \/ SendMode' = "SendNone"]_allVars

\* A tail loss probe that the alarm granted leaves the session, though pacing
\* may make the loop wait first, unless the session closes or tracks too many
\* packets to send any.  (The last disjunct is the bound on packet numbers.)
ProbeIsSent ==
    allowTLP ~> ~allowTLP \/ phase = "closed" \/ SendMode = "SendNone" \/ gen.next > MaxPn

====
