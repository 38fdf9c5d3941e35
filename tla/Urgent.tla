-------------------------------- MODULE Urgent --------------------------------
(***************************************************************************)
(* Two receivers of TCP urgent data, for a sender such as that of          *)
(* ch5/5-6_testoobsend.cpp (some bytes, an urgent one, some more, and the  *)
(* end): ch10/10-3_SIGURG.cpp reads the urgent byte in a signal handler    *)
(* while the main program is in recv(), ch9/9-1_test_select.cpp when       *)
(* select() reports an exception. receiver says which of them runs.        *)
(*                                                                         *)
(* The socket is Linux's: recv() stops before the urgent byte when it has  *)
(* read something, waits no longer there when a signal is pending, and     *)
(* else passes it, after which it cannot be had any more. The urgent       *)
(* pointer arrives with the byte it points to.                             *)
(***************************************************************************)
EXTENDS Naturals, Sequences

CONSTANTS
  Before, Behind    (* bound: bytes before and behind the urgent one       *)

ASSUME UrgentAssumption == Before \in Nat /\ Behind \in Nat

Total == Before + 1 + Behind
UrgentByte == Before + 1

VARIABLES
  receiver,     (* "handler" (10-3) or "select" (9-1)                      *)
  delivered,    (* bytes that have come                                    *)
  hungup,       (* and the end of the stream                               *)
  copied,       (* bytes that were read or passed                          *)
  urg,          (* the urgent byte: "none", "valid", "read" (by MSG_OOB),  *)
                (* "passed"                                                *)
  sigurg,       (* SIGURG is to be delivered                               *)
  signalled,    (* history: it was sent                                    *)
  step,         (* "setup", "recv", "select", "normal", "oob", "closed"    *)
  normal, oob   (* what the program has got                                *)

socketVars == <<delivered, hungup, copied, urg, sigurg, signalled>>
urgentVars == <<receiver, socketVars, step, normal, oob>>

(* The type of each variable.                                              *)
UrgentTypeOK ==
  /\ receiver \in {"handler", "select"}
  /\ copied \in 0..Total /\ delivered \in copied..Total
  /\ hungup \in BOOLEAN /\ sigurg \in BOOLEAN /\ signalled \in BOOLEAN
  /\ urg \in {"none", "valid", "read", "passed"}
  /\ step \in {"setup", "recv", "select", "normal", "oob", "closed"}
  /\ normal \in Seq(1..Total)
  /\ oob \in SUBSET {UrgentByte}

UrgentInit ==
  /\ receiver \in {"handler", "select"}
  /\ delivered = 0 /\ hungup = FALSE /\ copied = 0
  /\ urg = "none" /\ sigurg = FALSE /\ signalled = FALSE
  /\ step = IF receiver = "handler" THEN "setup" ELSE "select"
  /\ normal = <<>> /\ oob = {}

-----------------------------------------------------------------------------
(* The sender and the network. SIGURG goes to the owner of the socket.     *)

Owned == receiver = "handler" /\ step # "setup"

Segment ==
  /\ \E n \in delivered + 1..Total :
       LET urgent == delivered < UrgentByte /\ UrgentByte <= n
       IN /\ delivered' = n
          /\ urg' = IF urgent THEN "valid" ELSE urg
          /\ sigurg' = (sigurg \/ (urgent /\ Owned))
          /\ signalled' = (signalled \/ (urgent /\ Owned))
  /\ step # "closed"
  /\ UNCHANGED <<receiver, hungup, copied, step, normal, oob>>

HangUp ==
  /\ delivered = Total /\ ~hungup
  /\ hungup' = TRUE
  /\ UNCHANGED <<receiver, delivered, copied, urg, sigurg, signalled, step, normal, oob>>

-----------------------------------------------------------------------------
(* recv(), without MSG_OOB and with it.                                    *)

AtMark == copied = Before /\ urg \in {"valid", "read"}

(* What one recv() copies, when it is not at the mark.                     *)
UpTo == IF copied < UrgentByte /\ UrgentByte <= delivered THEN Before ELSE delivered

CopyNormal ==
  /\ ~AtMark /\ copied < delivered
  /\ normal' = normal \o [k \in 1..UpTo - copied |-> copied + k]
  /\ copied' = UpTo
  /\ UNCHANGED <<delivered, hungup, urg, sigurg, signalled, oob>>

(* Past the mark, to go on in the same call.                               *)
PassMark ==
  /\ AtMark /\ ~sigurg
  /\ copied' = UrgentByte /\ urg' = "passed"
  /\ UNCHANGED <<delivered, hungup, sigurg, signalled, normal, oob>>

AtEndOfStream == hungup /\ copied = Total

(* 1 byte, or EINVAL.                                                      *)
CopyUrgent ==
  /\ oob' = IF urg = "valid" THEN {UrgentByte} ELSE oob
  /\ urg' = IF urg = "valid" THEN "read" ELSE urg

-----------------------------------------------------------------------------
(* 10-3_SIGURG.cpp.                                                        *)

SetOwner ==
  /\ step = "setup"
  /\ step' = "recv"
  /\ UNCHANGED <<receiver, socketVars, normal, oob>>

(* SA_RESTART: a recv() that had nothing yet is called again.              *)
NotRestarted == IF AtMark \/ copied = delivered THEN "closed" ELSE step
Restarted == step

SigUrg ==
  /\ sigurg
  /\ sigurg' = FALSE
  /\ CopyUrgent
  /\ step' = Restarted
  /\ UNCHANGED <<receiver, delivered, hungup, copied, signalled, normal>>

SigurgRecv ==
  /\ step = "recv" /\ (CopyNormal \/ PassMark)
  /\ UNCHANGED <<receiver, step>>

SigurgEnd ==
  /\ step = "recv" /\ AtEndOfStream
  /\ step' = "closed"
  /\ UNCHANGED <<receiver, socketVars, normal, oob>>

-----------------------------------------------------------------------------
(* 9-1_test_select.cpp. select() counts no byte at the mark.               *)

SelectReads == hungup \/ delivered > copied + (IF AtMark THEN 1 ELSE 0)

Select ==
  /\ step = "select"
  /\ SelectReads \/ urg = "valid"
  /\ step' = IF SelectReads THEN "normal" ELSE "oob"
  /\ UNCHANGED <<receiver, socketVars, normal, oob>>

SelectRecv ==
  /\ step = "normal"
  /\ \/ CopyNormal /\ step' = "select"
     \/ PassMark /\ UNCHANGED step
  /\ UNCHANGED receiver

SelectOob ==
  /\ step = "oob"
  /\ CopyUrgent
  /\ step' = "select"
  /\ UNCHANGED <<receiver, delivered, hungup, copied, sigurg, signalled, normal>>

SelectEnd ==
  /\ step = "normal" /\ AtEndOfStream
  /\ step' = "closed"
  /\ UNCHANGED <<receiver, socketVars, normal, oob>>

Receiver ==
  \/ SetOwner \/ SigUrg \/ SigurgRecv \/ SigurgEnd
  \/ Select \/ SelectRecv \/ SelectOob \/ SelectEnd

UrgentNext == Segment \/ HangUp \/ Receiver

UrgentSpec == UrgentInit /\ [][UrgentNext]_urgentVars

(* The receiver is scheduled; nothing is assumed of the sender.            *)
UrgentFairSpec == UrgentSpec /\ WF_urgentVars(Receiver)
-----------------------------------------------------------------------------
(* Properties.                                                             *)

(* The sender's stream is read to its end, the normal bytes in order and   *)
(* the urgent one not among them, though the handler comes in between or   *)
(* interrupts recv(); and when the byte came after F_SETOWN the handler    *)
(* gets it. Where SIGURG was not sent (10-3, before line 76), or select()  *)
(* finds both sets ready (9-1, line 62), it may be lost.                   *)
StreamRead ==
  hungup ~> /\ step = "closed"
            /\ normal = [k \in 1..Before + Behind |-> IF k <= Before THEN k ELSE k + 1]
            /\ signalled => oob = {UrgentByte}
=============================================================================
