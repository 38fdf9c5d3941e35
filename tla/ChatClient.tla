------------------------------ MODULE ChatClient ------------------------------
(***************************************************************************)
(* The chat client of ch9/9-6_communication_client.cpp: poll() on standard *)
(* input and on the connection; what the user types goes through a pipe to *)
(* the connection by two splice() calls, what the server sends is printed. *)
(*                                                                         *)
(* One step is one poll(), one recv() or one splice(); the user and the    *)
(* server act between any two. Texts from the server and pieces of input   *)
(* are numbered; both splices and recv() move any number of them. The      *)
(* server's side is that of ChatServer: it sends, and it closes when it    *)
(* refuses the connection or has seen an error on it.                      *)
(***************************************************************************)
EXTENDS Naturals, Sequences

CONSTANTS
  MaxTyped,     (* bound: pieces of input                                  *)
  MaxSaid       (* bound: texts from the server                            *)

ASSUME ClientAssumption == MaxTyped \in Nat /\ MaxSaid \in Nat

VARIABLES
  typed,        (* number of pieces the user has entered                   *)
  stdin,        (* those not read yet                                      *)
  ended,        (* how the input ended: "no", "file" (POLLIN and then 0    *)
                (* bytes: a terminal or a file), "pipe" (POLLHUP only)     *)
  pipefd,       (* what is in the pipe                                     *)
  net,          (* what has gone to the server                             *)
  said,         (* number of texts the server has sent                     *)
  incoming,     (* those not read                                          *)
  shut,         (* the server has closed the connection                    *)
  printed,
  at,           (* "poll", "server", "stdin", "out", "end"                 *)
  revents       (* what poll() reported on standard input ("IN") and on    *)
                (* the connection ("SOCKIN", "RDHUP") and is not handled   *)

clientVars == <<typed, stdin, ended, pipefd, net, said, incoming, shut, printed, at, revents>>

Pieces(n) == [k \in 1..n |-> k]

(* The type of each variable.                                              *)
ClientTypeOK ==
  /\ typed \in 0..MaxTyped /\ said \in 0..MaxSaid
  /\ stdin \in Seq(1..MaxTyped) /\ pipefd \in Seq(1..MaxTyped) /\ net \in Seq(1..MaxTyped)
  /\ incoming \in Seq(1..MaxSaid) /\ printed \in Seq(1..MaxSaid)
  /\ ended \in {"no", "file", "pipe"} /\ shut \in BOOLEAN
  /\ at \in {"poll", "server", "stdin", "out", "end"}
  /\ revents \subseteq {"IN", "SOCKIN", "RDHUP"}

ClientInit ==
  /\ typed = 0 /\ stdin = <<>> /\ ended = "no"
  /\ said = 0 /\ incoming = <<>> /\ shut = FALSE
  /\ pipefd = <<>> /\ net = <<>> /\ printed = <<>>
  /\ at = "poll" /\ revents = {}

-----------------------------------------------------------------------------
(* The user and the server.                                                *)

Type ==
  /\ ended = "no" /\ typed < MaxTyped
  /\ typed' = typed + 1 /\ stdin' = Append(stdin, typed + 1)
  /\ UNCHANGED <<ended, pipefd, net, said, incoming, shut, printed, at, revents>>

EndInput ==
  /\ ended = "no"
  /\ ended' \in {"file", "pipe"}
  /\ UNCHANGED <<typed, stdin, pipefd, net, said, incoming, shut, printed, at, revents>>

Say ==
  /\ ~shut /\ said < MaxSaid
  /\ said' = said + 1 /\ incoming' = Append(incoming, said + 1)
  /\ UNCHANGED <<typed, stdin, ended, pipefd, net, shut, printed, at, revents>>

Shut ==
  /\ ~shut
  /\ shut' = TRUE
  /\ UNCHANGED <<typed, stdin, ended, pipefd, net, said, incoming, printed, at, revents>>

-----------------------------------------------------------------------------
(* The client.                                                             *)

Reported ==
  (IF stdin # <<>> \/ ended = "file" THEN {"IN"} ELSE {}) \cup
  (IF incoming # <<>> \/ shut THEN {"SOCKIN"} ELSE {}) \cup
  (IF shut THEN {"RDHUP"} ELSE {})

(* At the end of a pipe poll() returns at once, with nothing this loop     *)
(* looks at.                                                               *)
ClientPoll ==
  /\ at = "poll"
  /\ Reported # {} \/ ended = "pipe"
  /\ revents' = Reported
  /\ at' = "server"
  /\ UNCHANGED <<typed, stdin, ended, pipefd, net, said, incoming, shut, printed>>

GoneIfSilent == "RDHUP" \in revents /\ "SOCKIN" \notin revents
ServerGone == "RDHUP" \in revents

(* POLLRDHUP comes first: what was sent before the end is not read.        *)
ServerClosed ==
  /\ at = "server" /\ ServerGone
  /\ at' = "end"
  /\ UNCHANGED <<typed, stdin, ended, pipefd, net, said, incoming, shut, printed, revents>>

(* recv(), of up to BUFFER_SIZE - 1 bytes; 0 at the end, which is not asked *)
(* about.                                                                  *)
ReadServer ==
  /\ at = "server" /\ ~ServerGone /\ "SOCKIN" \in revents
  /\ \E n \in (IF incoming = <<>> THEN {0} ELSE 1..Len(incoming)) :
       /\ printed' = printed \o SubSeq(incoming, 1, n)
       /\ incoming' = SubSeq(incoming, n + 1, Len(incoming))
  /\ at' = "stdin"
  /\ UNCHANGED <<typed, stdin, ended, pipefd, net, said, shut, revents>>

NothingFromServer ==
  /\ at = "server" /\ revents \cap {"SOCKIN", "RDHUP"} = {}
  /\ at' = "stdin"
  /\ UNCHANGED <<typed, stdin, ended, pipefd, net, said, incoming, shut, printed, revents>>

NoInput ==
  /\ at = "stdin" /\ "IN" \notin revents
  /\ at' = "poll"
  /\ UNCHANGED <<typed, stdin, ended, pipefd, net, said, incoming, shut, printed, revents>>

(* splice(0, ..., pipefd[1]): 0 pieces at the end of the input.            *)
SpliceIn ==
  /\ at = "stdin" /\ "IN" \in revents
  /\ \E n \in (IF stdin = <<>> THEN {0} ELSE 1..Len(stdin)) :
       /\ pipefd' = pipefd \o SubSeq(stdin, 1, n)
       /\ stdin' = SubSeq(stdin, n + 1, Len(stdin))
  /\ at' = "out"
  /\ UNCHANGED <<typed, ended, net, said, incoming, shut, printed, revents>>

(* What one splice() left in the pipe.                                     *)
PipeEmptied(n) == <<>>
PipeRest(n) == SubSeq(pipefd, n + 1, Len(pipefd))

(* splice(pipefd[0], ..., sockfd). It waits while the pipe is empty, and   *)
(* this process, which holds the other end of the pipe, is then stuck.     *)
SpliceOut ==
  /\ at = "out"
  /\ \E n \in 1..Len(pipefd) :
       /\ net' = net \o SubSeq(pipefd, 1, n)
       /\ pipefd' = PipeRest(n)
  /\ at' = "poll"
  /\ UNCHANGED <<typed, stdin, ended, said, incoming, shut, printed, revents>>

(* The connection was reset, and SIGPIPE ends the process.                 *)
Killed ==
  /\ at = "out" /\ pipefd # <<>> /\ shut
  /\ at' = "end"
  /\ UNCHANGED <<typed, stdin, ended, pipefd, net, said, incoming, shut, printed, revents>>

User == Type \/ EndInput
Server == Say \/ Shut
Client ==
  \/ ClientPoll \/ ServerClosed \/ ReadServer \/ NothingFromServer
  \/ NoInput \/ SpliceIn \/ SpliceOut \/ Killed

ClientNext == User \/ Server \/ Client

ClientSpec == ClientInit /\ [][ClientNext]_clientVars

(* The client is scheduled; nothing is assumed of the user and the server. *)
ClientFairSpec == ClientSpec /\ WF_clientVars(Client)
-----------------------------------------------------------------------------
(* Properties.                                                             *)

(* What is typed is at every moment on its way in the order in which it    *)
(* was typed: partial splices leave the rest in the pipe, to be followed   *)
(* by what comes later, and nothing is sent twice or left out (l.80-81).   *)
TypedInOrder == net \o pipefd \o stdin = Pieces(typed)

Stuck == at = "out" /\ pipefd = <<>>

(* Lines 65-69: when the server closes the connection, the client ends,    *)
(* unless it is already stuck in the second splice() (line 81), which      *)
(* happens at the end of a terminal's or a file's input and only then.     *)
ServerEndSeen == shut ~> (at = "end" \/ (Stuck /\ ended = "file"))
=============================================================================
