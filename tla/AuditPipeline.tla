---------------------------- MODULE AuditPipeline ----------------------------
(***************************************************************************)
(* The audit path: emit_event in the BPF hooks (common.h), the ring        *)
(* buffer, the consumer thread with its EventSender, the bounded channel   *)
(* and the AuditStream a sink reads (audit.rs).                            *)
(*                                                                         *)
(* Events are numbered in the order the hooks emit them.                   *)
(***************************************************************************)
EXTENDS Integers, Sequences, FiniteSets

CONSTANTS
  MaxEvents,      \* how many events the hooks emit
  RingSize,       \* records the ring holds
  ChannelDepth,   \* channel_depth
  Short           \* events whose record is too short to decode

\* start_consumer refuses a channel of depth 0.
ASSUME PipelineAssumption ==
  /\ MaxEvents \in Nat /\ RingSize \in Nat \ {0} /\ ChannelDepth \in Nat \ {0}
  /\ Short \subseteq 1 .. MaxEvents

VARIABLES
  emitted,     \* how many events the hooks have emitted
  ring,        \* the ring buffer: event numbers
  chan,        \* the channel: [event, seq, dropped_count] records
  seq,         \* EventSender.seq
  dropped,     \* the shared drop counter
  malformed,   \* the shared counter of undecodable records
  thread,      \* the consumer thread
  shutdown,    \* the shared stop flag
  stream,      \* the AuditStream's owner: "reading", "stopping", "stopped"
  got,         \* history: what the sink has received
  unseen,      \* history: the events the kernel dropped for lack of room
  atStop       \* history: what had been emitted when stop() raised the flag

kernelVars == <<emitted, ring, unseen>>
senderVars == <<chan, seq, dropped, malformed>>
ownerVars == <<shutdown, stream, atStop>>
auditVars == <<kernelVars, senderVars, thread, ownerVars, got>>

AuditInit ==
  /\ emitted = 0 /\ ring = <<>> /\ unseen = {}
  /\ chan = <<>> /\ seq = 0 /\ dropped = 0 /\ malformed = 0
  /\ thread = "check"
  /\ shutdown = FALSE /\ stream = "reading" /\ atStop = 0
  /\ got = <<>>

-----------------------------------------------------------------------------
\* emit_event: with no room in the ring the record is dropped, and that is all.
Emit ==
  /\ emitted < MaxEvents
  /\ emitted' = emitted + 1
  /\ IF Len(ring) < RingSize
       THEN ring' = Append(ring, emitted + 1) /\ UNCHANGED unseen
       ELSE unseen' = unseen \cup {emitted + 1} /\ UNCHANGED ring
  /\ UNCHANGED <<senderVars, thread, ownerVars, got>>

\* EventSender::offer on the record at the head of the ring.
Stamp_AfterDrop(e) == [event |-> e, seq |-> seq, dropped |-> dropped + 1]
Stamp(e) == [event |-> e, seq |-> seq, dropped |-> dropped]

\* try_send never waits: a full channel loses the record, and counts it.
MaySend_Blocks == Len(chan) < ChannelDepth
MaySend == TRUE
NextSeq == seq + 1
DropCount_Forgets == dropped
DropCount == dropped + 1

Offer ==
  LET e == Head(ring) IN
  /\ ring # <<>>
  /\ MaySend
  /\ ring' = Tail(ring)
  /\ IF e \in Short
       THEN malformed' = malformed + 1 /\ UNCHANGED <<chan, seq, dropped>>
       ELSE /\ seq' = NextSeq
            /\ IF Len(chan) < ChannelDepth
                 THEN chan' = Append(chan, Stamp(e)) /\ UNCHANGED dropped
                 ELSE dropped' = DropCount /\ UNCHANGED chan
            /\ UNCHANGED malformed
  /\ UNCHANGED <<emitted, unseen>>

\* The consumer thread: the flag is read between two polls, a poll offers every
\* record there is or fails, and a last sweep follows the flag.
Check ==
  /\ thread = "check"
  /\ thread' = IF shutdown THEN "sweep" ELSE "poll"
  /\ UNCHANGED <<kernelVars, senderVars, ownerVars, got>>

Drain ==
  /\ thread \in {"poll", "sweep"}
  /\ Offer
  /\ UNCHANGED <<thread, ownerVars, got>>

PollEnds ==
  /\ thread = "poll"
  /\ thread' = "check"
  /\ UNCHANGED <<kernelVars, senderVars, ownerVars, got>>

SweepDone_AtOnce == TRUE
SweepDone == ring = <<>>

SweepEnds ==
  /\ thread = "sweep" /\ SweepDone
  /\ thread' = "done"
  /\ shutdown' = TRUE
  /\ UNCHANGED <<kernelVars, senderVars, stream, atStop, got>>

-----------------------------------------------------------------------------
\* The sink: recv, recv_timeout and drain.  stop() borrows the stream, so
\* nothing is received while it waits for the thread.
Recv ==
  /\ stream # "stopping"
  /\ chan # <<>>
  /\ got' = Append(got, Head(chan))
  /\ chan' = Tail(chan)
  /\ UNCHANGED <<kernelVars, seq, dropped, malformed, thread, ownerVars>>

Stop ==
  /\ stream = "reading"
  /\ stream' = "stopping"
  /\ shutdown' = TRUE
  /\ atStop' = emitted
  /\ UNCHANGED <<kernelVars, senderVars, thread, got>>

Joined ==
  /\ stream = "stopping" /\ thread = "done"
  /\ stream' = "stopped"
  /\ UNCHANGED <<kernelVars, senderVars, thread, shutdown, atStop, got>>

-----------------------------------------------------------------------------
Consumer == Check \/ Drain \/ PollEnds \/ SweepEnds
AuditNext == Emit \/ Consumer \/ Recv \/ Stop \/ Joined

AuditSpec == AuditInit /\ [][AuditNext]_auditVars

\* The consumer thread is scheduled and stop()'s join returns when it has ended.
\* Nothing makes a sink read.
AuditFairSpec == AuditSpec /\ WF_auditVars(Consumer) /\ WF_auditVars(Joined)

-----------------------------------------------------------------------------
Past == got \o chan

\* What a sink can infer: the jump of dropped_count between two events it
\* receives "knows exactly how many records it is missing", and they arrive in
\* the order of emission.
LossIsInBand ==
  \A i \in DOMAIN Past :
    /\ Past[i].seq = (i - 1) + Past[i].dropped
    /\ i > 1 => Past[i - 1].event < Past[i].event

\* "both are counted rather than hidden": an event that is not on its way or
\* delivered is in one of the two counters.
AllLossCounted == emitted = Len(ring) + Len(Past) + dropped + malformed

\* So it is for every event that the ring had room for: none is lost without
\* being counted, or counted and delivered.
AcceptedIsAccountedFor ==
  emitted - Cardinality(unseen) = Len(ring) + Len(Past) + dropped + malformed

\* "events already in the ring at shutdown are not lost to the stop flag".
SweptAtStop == stream = "stopped" => \A i \in DOMAIN ring : ring[i] > atStop

\* stop() returns although nobody reads the channel: a stalled sink costs
\* records, never a blocked consumer.
StopReturns == stream = "stopping" ~> stream = "stopped"
=============================================================================
