-------------------------------- MODULE Signals --------------------------------
(***************************************************************************)
(* ch10/10-1_signal.cpp: signals become events. The handler writes the     *)
(* signal to a non-blocking socket pair, whose other end the main loop     *)
(* watches edge-triggered, as it does the listening socket and every       *)
(* connection. A signal may come between any two calls of the main loop,   *)
(* and interrupts epoll_wait().                                            *)
(*                                                                         *)
(* One step is one epoll_wait(), the test of what it returned, or one      *)
(* event. Only the main loop reads the socket pair, so that the recv() of  *)
(* line 125 always finds something. Connections are counted: the program   *)
(* neither reads nor closes them.                                          *)
(***************************************************************************)
EXTENDS Naturals, Sequences, SequencesExt

CONSTANTS
  PipeSize,     (* signals the socket pair holds (some 280 on Linux)       *)
  RecvSize,     (* sizeof(signals)                                         *)
  Backlog       (* bound: connections waiting for accept()                 *)

ASSUME SignalsAssumption ==
  /\ PipeSize \in Nat \ {0} /\ RecvSize \in Nat /\ RecvSize >= PipeSize
  /\ Backlog \in Nat

VARIABLES
  sigpipe,      (* signals between pipefd[1] and pipefd[0]                 *)
  backlog,
  edges,        (* "listen", "pipe", "conn": not reported by epoll yet     *)
  reported,     (* by the last epoll_wait() and not handled                *)
  loop,         (* "wait", "check" (epoll_wait() returned -1), "events",   *)
                (* "end"                                                   *)
  errno,
  stop_server

signalVars == <<sigpipe, backlog, edges, reported, loop, errno, stop_server>>

Stopping == {"SIGTERM", "SIGINT"}
Signal == Stopping \cup {"SIGHUP", "SIGCHLD"}
Sources == {"listen", "pipe", "conn"}

(* The type of each variable.                                              *)
SignalsTypeOK ==
  /\ sigpipe \in Seq(Signal) /\ Len(sigpipe) <= PipeSize
  /\ backlog \in 0..Backlog
  /\ edges \subseteq Sources /\ reported \subseteq Sources
  /\ loop \in {"wait", "check", "events", "end"}
  /\ errno \in {"other", "EINTR", "EAGAIN"}
  /\ stop_server \in BOOLEAN

SignalsInit ==
  /\ sigpipe = <<>> /\ backlog = 0
  /\ edges = {} /\ reported = {}
  /\ loop = "wait" /\ errno = "other" /\ stop_server = FALSE

-----------------------------------------------------------------------------
(* The handler.                                                            *)

Full == Len(sigpipe) = PipeSize

(* send() fails on a full pipe: errno is EAGAIN until the last line.       *)
ErrnoOfSend(e) == IF Full THEN "EAGAIN" ELSE e
ErrnoRestored(e) == e

Handler(s) ==
  /\ sigpipe' = IF Full THEN sigpipe ELSE Append(sigpipe, s)
  /\ edges' = IF Full THEN edges ELSE edges \cup {"pipe"}

(* A signal outside epoll_wait(), or as it is called.                      *)
SignalBetween(s) ==
  /\ loop # "end"
  /\ Handler(s)
  /\ errno' = ErrnoRestored(errno)
  /\ UNCHANGED <<backlog, reported, loop, stop_server>>

(* epoll_wait() reports what is still there to be read.                    *)
Live(e) == CASE e = "pipe" -> sigpipe # <<>>
             [] e = "listen" -> backlog > 0
             [] OTHER -> TRUE
Due == {e \in edges : Live(e)}

(* A signal while epoll_wait() waits: it returns -1, SA_RESTART or not.    *)
SignalInWait(s) ==
  /\ loop = "wait" /\ Due = {}
  /\ Handler(s)
  /\ loop' = "check" /\ errno' = "EINTR"
  /\ UNCHANGED <<backlog, reported, stop_server>>

-----------------------------------------------------------------------------
(* The peers.                                                              *)

Connects ==
  /\ loop # "end" /\ backlog < Backlog
  /\ backlog' = backlog + 1 /\ edges' = edges \cup {"listen"}
  /\ UNCHANGED <<sigpipe, reported, loop, errno, stop_server>>

(* Any event on an accepted connection.                                    *)
Talks ==
  /\ loop # "end"
  /\ edges' = edges \cup {"conn"}
  /\ UNCHANGED <<sigpipe, backlog, reported, loop, errno, stop_server>>

-----------------------------------------------------------------------------
(* The main loop.                                                          *)

Wait ==
  /\ loop = "wait" /\ Due # {}
  /\ reported' = Due /\ edges' = {}
  /\ loop' = "events"
  /\ UNCHANGED <<sigpipe, backlog, errno, stop_server>>

CheckErrno ==
  /\ loop = "check"
  /\ loop' = IF errno # "EINTR" THEN "end" ELSE "wait"
  /\ UNCHANGED <<sigpipe, backlog, edges, reported, errno, stop_server>>

Takes(e) == loop = "events" /\ e \in reported /\ reported' = reported \ {e}

(* accept(), once for each edge; it may fail.                              *)
AcceptConn ==
  /\ Takes("listen")
  /\ \/ backlog' = backlog - 1 /\ errno' = errno
     \/ backlog' = backlog /\ errno' = "EAGAIN"
  /\ UNCHANGED <<sigpipe, edges, loop, stop_server>>

TakenOne == 1
Taken == IF Len(sigpipe) < RecvSize THEN Len(sigpipe) ELSE RecvSize

ReadSignals ==
  /\ Takes("pipe")
  /\ sigpipe' = SubSeq(sigpipe, Taken + 1, Len(sigpipe))
  /\ stop_server' = (stop_server \/ ToSet(SubSeq(sigpipe, 1, Taken)) \cap Stopping # {})
  /\ UNCHANGED <<backlog, edges, loop, errno>>

IgnoreConn ==
  /\ Takes("conn")
  /\ UNCHANGED <<sigpipe, backlog, edges, loop, errno, stop_server>>

EventsDone ==
  /\ loop = "events" /\ reported = {}
  /\ loop' = IF stop_server THEN "end" ELSE "wait"
  /\ UNCHANGED <<sigpipe, backlog, edges, reported, errno, stop_server>>

SignalComes == \E s \in Signal : SignalBetween(s) \/ SignalInWait(s)
SignalsMain == Wait \/ CheckErrno \/ AcceptConn \/ ReadSignals \/ IgnoreConn \/ EventsDone

SignalsNext == SignalComes \/ Connects \/ Talks \/ SignalsMain

SignalsSpec == SignalsInit /\ [][SignalsNext]_signalVars

(* The main loop is scheduled; nothing is assumed of signals and peers.    *)
SignalsFairSpec == SignalsSpec /\ WF_signalVars(SignalsMain)
-----------------------------------------------------------------------------
(* Properties.                                                             *)

(* Lines 134, 146-150: SIGTERM and SIGINT end the server once the handler  *)
(* has written them, though signals come between any two calls, several    *)
(* share one edge, and the loop recv()s once for each edge. (A signal that *)
(* finds the socket pair full is lost.)                                    *)
StopIsHeard == (ToSet(sigpipe) \cap Stopping # {}) ~> loop = "end"

(* And nothing else ends it: a handler that runs between epoll_wait() and  *)
(* the test of line 105 does not turn EINTR into a failure, whatever its   *)
(* send() met (lines 39-43).                                               *)
OnlyStopEnds == loop = "end" => stop_server
=============================================================================
