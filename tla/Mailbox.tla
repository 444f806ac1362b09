------------------------------- MODULE Mailbox -------------------------------
(***************************************************************************)
(* The hardware message box between the ARM side and the E902 firmware,    *)
(* word by word.  All six logical channels of hwmsgbox-extended.h are      *)
(* queue 3, so there is one FIFO per direction: rx (ARM to RISC) carries   *)
(* the requests of the ARM side and also its reply to the startup notify,  *)
(* tx (RISC to ARM) carries the notify and every feedback.                 *)
(*                                                                         *)
(* A frame is a header word, a count word and count parameter words; the   *)
(* two sides move one word per step.  A wait that finds the FIFO in the    *)
(* wrong state may time out at any moment.  The E902 side is               *)
(* hwmsgbox-extended.c under startup_state_notify and message_process_loop *)
(* of daemon.c; the ARM side (BL31, U-Boot) is not part of the repository. *)
(***************************************************************************)
EXTENDS Integers, Sequences

CONSTANTS
  Depth,        \* HWMSGBOX_FIFO_DEPTH
  NotifyParas,  \* STARTUP_NOTIFY_PARA_WORDS
  Capacity,     \* MESSAGE_PARA_MAX, capacity passed by message_process_loop
  ParaCounts,   \* parameter counts the ARM side uses
  Stray,        \* what a parameter word reads as when it is taken for a count
  MaxRequests,  \* bound on the requests of the ARM side
  Stalls        \* may a side stop for longer than the other's per-word timeout?

ASSUME MailboxAssumption ==
  /\ {Depth, NotifyParas, Capacity, Stray, MaxRequests} \cup ParaCounts \subseteq Nat
  /\ 2 + NotifyParas <= Depth      \* _Static_assert in daemon.c
  /\ Stalls \subseteq BOOLEAN

HeaderWords == 2                   \* MESSAGE_FRAME_HEADER_WORDS
Types == {"hard", "async", "notify", "none"}

VARIABLES
  rx, tx,       \* the two FIFOs of queue 3
  at,           \* where the E902 is
  got,          \* words consumed of the frame being parsed
  out,          \* words still to write of the frame being sent
  armq,         \* words the ARM side has still to write of its frame
  armgot,       \* words the ARM side has read of the frame being parsed
  owes,         \* startup notifies the ARM side has read and not answered
  replied,      \* has the ARM side answered a startup notify?
  sent,         \* frames the ARM side has started
  await,        \* the "hard" request the ARM side waits for, or NoRequest
  stalls        \* do the sides stall past a timeout in this behaviour?

arm  == <<armq, armgot, owes, replied, sent, await, stalls>>
boxVars == <<rx, tx, at, got, out, armq, armgot, owes, replied, sent, await, stalls>>

(***************************************************************************)
(* Words.  f, of and k (frame, its type, place in the frame) are history;  *)
(* t is the message type the word shows when parsed as a header, c the     *)
(* count it shows when parsed as a count word (value & 0xff).              *)
(***************************************************************************)
Frame(f, t, n) ==
  [i \in 1 .. HeaderWords + n |->
     CASE i = 1 -> [f |-> f, of |-> t, k |-> 1, t |-> t, c |-> 0]
       [] i = 2 -> [f |-> f, of |-> t, k |-> 2, t |-> "none", c |-> n]
       [] OTHER -> [f |-> f, of |-> t, k |-> i, t |-> "none", c |-> Stray]]

Complete(words) ==
  Len(words) >= HeaderWords /\ Len(words) = HeaderWords + words[2].c

NoRequest == [f |-> 0, n |-> 0]
MidFrame == armq # <<>> /\ armq[1].k > 1

\* A notify of a firmware run before this one may still be in the FIFO.
InitBox ==
  /\ rx = <<>>
  /\ tx \in {<<>>, Frame(0, "notify", NotifyParas)}
  /\ at = "start"
  /\ got = <<>> /\ out = <<>>
  /\ armq = <<>> /\ armgot = <<>>
  /\ owes = 0 /\ replied = FALSE /\ sent = 0 /\ await = NoRequest
  /\ stalls \in Stalls

-----------------------------------------------------------------------------
(* E902, startup_state_notify: hwmsgbox_send_message with HARDSYN           *)

\* hwmsgbox_wait_queue_space: all slots of the frame are free
SendBegin ==
  /\ at = "start"
  /\ Len(tx) <= Depth - (HeaderWords + NotifyParas)
  /\ at' = "send"
  /\ out' = Frame(0, "notify", NotifyParas)
  /\ UNCHANGED <<rx, tx, got, arm>>

SpaceTimeout ==
  /\ at = "start"
  /\ Len(tx) > Depth - (HeaderWords + NotifyParas)
  /\ at' = "loop"
  /\ UNCHANGED <<rx, tx, got, out, arm>>

\* hwmsgbox_wait_queue_not_full and writel, for the notify and for a feedback
SendWord ==
  /\ at \in {"send", "feedback"}
  /\ Len(tx) < Depth
  /\ tx' = Append(tx, Head(out))
  /\ out' = Tail(out)
  /\ at' = CASE Len(out) > 1 -> at
             [] at = "send" /\ Len(out) = 1 -> "reply"
             [] OTHER -> "loop"
  /\ UNCHANGED <<rx, got, arm>>

SendTimeout ==
  /\ stalls
  /\ at \in {"send", "feedback"}
  /\ Len(tx) = Depth
  /\ out' = <<>>
  /\ at' = "loop"
  /\ UNCHANGED <<rx, tx, got, arm>>

\* The reply is read from the FIFO that also carries requests, unchecked.
ReplyWord ==
  /\ at = "reply"
  /\ rx # <<>>
  /\ rx' = Tail(rx)
  /\ LET g == Append(got, Head(rx))
     IN  IF Complete(g) THEN at' = "loop" /\ got' = <<>>
                        ELSE got' = g /\ UNCHANGED at
  /\ UNCHANGED <<tx, out, arm>>

\* -ETIMEOUT: what was read is lost, what comes later stays in the FIFO
ReplyTimeout ==
  /\ at = "reply"
  /\ rx = <<>>
  /\ MidFrame => stalls
  /\ at' = "loop"
  /\ got' = <<>>
  /\ UNCHANGED <<rx, tx, out, arm>>

-----------------------------------------------------------------------------
(* E902, message_process_loop                                               *)

\* hwmsgbox_query_message: both fixed words must be visible
QueryBegin ==
  /\ at = "loop"
  /\ Len(rx) >= HeaderWords
  /\ at' = "query"
  /\ UNCHANGED <<rx, tx, got, out, arm>>

\* FAIL, no valid message: the daemon polls again
QueryNone ==
  /\ at = "loop"
  /\ Len(rx) < HeaderWords
  /\ UNCHANGED boxVars

\* mutant: a late reply to the startup notify is handled as a message
AfterFrameAny(g) == IF g[2].c > Capacity THEN "loop" ELSE "dispatch"

\* -E2BIG after the whole frame was read; a late notify reply is dropped
AfterFrame(g) ==
  IF g[2].c > Capacity \/ g[1].t = "notify" THEN "loop" ELSE "dispatch"

\* mutant: the parameters that do not fit are left in the FIFO
QueryWordUndrained ==
  /\ at = "query"
  /\ rx # <<>>
  /\ rx' = Tail(rx)
  /\ LET g == Append(got, Head(rx))
     IN  IF Complete(g) \/ Len(g) = HeaderWords + Capacity
           THEN /\ at' = AfterFrame(g)
                /\ got' = IF AfterFrame(g) = "loop" THEN <<>> ELSE g
           ELSE got' = g /\ UNCHANGED at
  /\ UNCHANGED <<tx, out, arm>>

\* hwmsgbox_receive_message reads every word of the frame, fitting or not
QueryWord ==
  /\ at = "query"
  /\ rx # <<>>
  /\ rx' = Tail(rx)
  /\ LET g == Append(got, Head(rx))
     IN  IF Complete(g) THEN /\ at' = AfterFrame(g)
                             /\ got' = IF AfterFrame(g) = "loop" THEN <<>> ELSE g
                        ELSE got' = g /\ UNCHANGED at
  /\ UNCHANGED <<tx, out, arm>>

QueryTimeout ==
  /\ at = "query"
  /\ rx = <<>>
  /\ MidFrame => stalls
  /\ at' = "drain"
  /\ got' = <<>>
  /\ UNCHANGED <<rx, tx, out, arm>>

Drain ==
  /\ at = "drain"
  /\ IF rx = <<>> THEN at' = "loop" /\ UNCHANGED rx
                  ELSE rx' = Tail(rx) /\ UNCHANGED at
  /\ UNCHANGED <<tx, got, out, arm>>

\* mutant: only requests with parameters are answered
DispatchSilent ==
  /\ at = "dispatch"
  /\ got' = <<>>
  /\ IF got[1].t = "hard" /\ got[2].c > 0
       THEN at' = "feedback" /\ out' = Frame(got[1].f, "hard", got[2].c)
       ELSE at' = "loop" /\ UNCHANGED out
  /\ UNCHANGED <<rx, tx, arm>>

\* process_message, then hwmsgbox_feedback_message for a HARDSYN request
Dispatch ==
  /\ at = "dispatch"
  /\ got' = <<>>
  /\ IF got[1].t = "hard"
       THEN at' = "feedback" /\ out' = Frame(got[1].f, "hard", got[2].c)
       ELSE at' = "loop" /\ UNCHANGED out
  /\ UNCHANGED <<rx, tx, arm>>

E902 ==
  \/ SendBegin \/ SpaceTimeout \/ SendWord \/ SendTimeout
  \/ ReplyWord \/ ReplyTimeout
  \/ QueryBegin \/ QueryNone \/ QueryWord \/ QueryTimeout \/ Drain \/ Dispatch

-----------------------------------------------------------------------------
(* ARM side (external): answers a startup notify before it sends requests,  *)
(* and sends one HARDSYN request at a time.                                 *)

ArmRequest(t, n) ==
  /\ armq = <<>> /\ await = NoRequest /\ replied /\ owes = 0
  /\ sent < MaxRequests + 2
  /\ sent' = sent + 1
  /\ armq' = Frame(sent', t, n)
  /\ await' = IF t = "hard" THEN [f |-> sent', n |-> n] ELSE NoRequest
  /\ UNCHANGED <<rx, tx, at, got, out, armgot, owes, replied, stalls>>

ArmReply ==
  /\ armq = <<>> /\ owes > 0
  /\ owes' = owes - 1
  /\ replied' = TRUE
  /\ sent' = sent + 1
  /\ armq' = Frame(sent', "notify", NotifyParas)
  /\ UNCHANGED <<rx, tx, at, got, out, armgot, await, stalls>>

ArmWrite ==
  /\ armq # <<>>
  /\ Len(rx) < Depth
  /\ rx' = Append(rx, Head(armq))
  /\ armq' = Tail(armq)
  /\ UNCHANGED <<tx, at, got, out, armgot, owes, replied, sent, await, stalls>>

ArmRead ==
  /\ tx # <<>>
  /\ tx' = Tail(tx)
  /\ LET g == Append(armgot, Head(tx))
     IN  IF Complete(g)
           THEN /\ armgot' = <<>>
                /\ owes' = IF g[1].t = "notify" THEN owes + 1 ELSE owes
                /\ await' = IF g[1].f = await.f THEN NoRequest ELSE await
           ELSE armgot' = g /\ UNCHANGED <<owes, await>>
  /\ UNCHANGED <<rx, at, got, out, armq, replied, sent, stalls>>

\* A request larger than the receiver's capacity is never answered.
ArmGiveUp ==
  /\ await # NoRequest
  /\ await.n > Capacity \/ stalls
  /\ armq = <<>>
  /\ await' = NoRequest
  /\ UNCHANGED <<rx, tx, at, got, out, armq, armgot, owes, replied, sent, stalls>>

Arm ==
  \/ \E t \in {"hard", "async"}, n \in ParaCounts : ArmRequest(t, n)
  \/ ArmReply \/ ArmWrite \/ ArmRead \/ ArmGiveUp

NextBox == E902 \/ Arm

SpecBox == InitBox /\ [][NextBox]_boxVars

(* Both processors keep running: the E902 loop never blocks without a       *)
(* timeout, and the ARM side goes on with a frame and with its answers.     *)
FairSpec ==
  /\ SpecBox
  /\ WF_boxVars(E902)
  /\ WF_boxVars(ArmReply) /\ WF_boxVars(ArmWrite) /\ WF_boxVars(ArmRead)
-----------------------------------------------------------------------------
(***************************************************************************)
(* A frame handed to message_coming_notify is one frame of the ARM side,   *)
(* word for word, and never the answer to the startup notify: neither a    *)
(* late answer, nor an oversized frame before it, nor a header seen alone  *)
(* makes the parser start anywhere but at a header, unless a side stalls   *)
(* past a timeout in mid-frame.                                            *)
(***************************************************************************)
OneFrame(g) == \A i \in 1 .. Len(g) : g[i].f = g[1].f /\ g[i].k = i

DispatchedWhole ==
  at = "dispatch" /\ ~ stalls => OneFrame(got) /\ got[1].t # "notify"

(***************************************************************************)
(* Neither side of the E902's driver waits in mid-frame for long.  Once    *)
(* the first word of the startup notify is written there is room for the   *)
(* rest, whatever an earlier firmware run left in the FIFO ("this keeps a  *)
(* timeout from exposing a partial frame to the peer"); and when the       *)
(* parser has taken a header the count word was there already, so only a   *)
(* parameter word can be waited for ("do not consume a lone header word"). *)
(***************************************************************************)
WaitsAtBoundary ==
  /\ at = "send" => Len(tx) + Len(out) <= Depth
  /\ at = "query" /\ rx = <<>> => Len(got) >= HeaderWords

(***************************************************************************)
(* A HARDSYN request that fits the receiver is answered: both sides share  *)
(* bounded FIFOs and each waits for the other to make room, yet with       *)
(* neither stalling for a timeout the answer arrives.                      *)
(***************************************************************************)
HardAnswered ==
  \A f \in 1 .. MaxRequests + 2 :
    (await.f = f /\ await.n <= Capacity /\ ~ stalls) ~> (await.f # f)

(***************************************************************************)
(* So both directions of the box stay in step, frame by frame.             *)
(***************************************************************************)
Framed == DispatchedWhole /\ WaitsAtBoundary
=============================================================================
