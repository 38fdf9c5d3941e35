------------------------------ MODULE HttpParser ------------------------------
(***************************************************************************)
(* The server of ch8/8-3_finite_stage_machine.cpp: one connection, whose   *)
(* bytes are appended to a buffer as recv() delivers them and cut into     *)
(* lines by parse_line, which is called again on the same buffer when more *)
(* has come. The request line and the headers are looked at only when      *)
(* their line is complete.                                                 *)
(*                                                                         *)
(* A symbol stands for a word the parser compares with, a separator, or a  *)
(* word it does not know. One step is one recv() or one call of parse_line *)
(* with what parse_content does to the line.                               *)
(***************************************************************************)
EXTENDS Integers, Sequences, FiniteSetsExt

CONSTANTS
  Streams,      (* what the client may send                                *)
  BufferSize    (* BUFFER_SIZE, in symbols                                 *)

(* SP: blanks and tabs. GET and VERSION: the words of lines 62 and 79 in   *)
(* any case. URL: a word that lines 84-93 accept. OTHER: any other word.   *)
Symbol == {"CR", "LF", "SP", "GET", "URL", "VERSION", "OTHER"}

ASSUME HttpAssumption ==
  /\ Streams \subseteq Seq(Symbol)
  /\ BufferSize \in Nat \ {0}

VARIABLES
  stream,       (* all the client sends on this connection                 *)
  closed,       (* the client closes after it                              *)
  buffer,       (* NUL is the zero of memset() and of parse_line           *)
  read_index, checked_index, start_line,
  checkstate,
  parsing,      (* inside parse_content                                    *)
  reply         (* how the connection ended, "none" before it has          *)

vars == <<stream, closed, buffer, read_index, checked_index, start_line, checkstate, parsing, reply>>

(* The type of each variable.                                              *)
TypeOK ==
  /\ stream \in Streams
  /\ closed \in BOOLEAN
  /\ buffer \in [0..BufferSize - 1 -> Symbol \cup {"NUL"}]
  /\ read_index \in 0..BufferSize
  /\ checked_index \in 0..BufferSize
  /\ start_line \in 0..BufferSize
  /\ checkstate \in {"REQUESTLINE", "HEADER"}
  /\ parsing \in BOOLEAN
  /\ reply \in {"none", "correct", "wrong", "silent", "failed"}

Init ==
  /\ stream \in Streams
  /\ closed \in BOOLEAN
  /\ buffer = [k \in 0..BufferSize - 1 |-> "NUL"]
  /\ read_index = 0 /\ checked_index = 0 /\ start_line = 0
  /\ checkstate = "REQUESTLINE"
  /\ parsing = FALSE
  /\ reply = "none"

-----------------------------------------------------------------------------
(* The connection.                                                         *)

Receiving == reply = "none" /\ ~parsing

Recv ==
  /\ Receiving
  /\ \E n \in 1..BufferSize - read_index :
       /\ read_index + n <= Len(stream)
       /\ read_index' = read_index + n
       /\ buffer' = [k \in 0..BufferSize - 1 |->
                       IF k \in read_index..read_index + n - 1 THEN stream[k + 1] ELSE buffer[k]]
  /\ parsing' = TRUE
  /\ UNCHANGED <<stream, closed, checked_index, start_line, checkstate, reply>>

(* recv() returns 0: the client has closed, or the buffer is full and 0    *)
(* bytes were asked for.                                                   *)
RecvNothing ==
  /\ Receiving
  /\ \/ read_index = BufferSize
     \/ closed /\ read_index = Len(stream)
  /\ reply' = "silent"
  /\ UNCHANGED <<stream, closed, buffer, read_index, checked_index, start_line, checkstate, parsing>>

(* recv() returns -1.                                                      *)
RecvError ==
  /\ Receiving
  /\ reply' = "failed"
  /\ UNCHANGED <<stream, closed, buffer, read_index, checked_index, start_line, checkstate, parsing>>

-----------------------------------------------------------------------------
(* parse_line: where it stops, what it returns, and the new checked_index. *)

Breaks == {k \in checked_index..read_index - 1 : buffer[k] \in {"CR", "LF"}}
Break  == Min(Breaks)

LineOpen == Breaks # {} => buffer[Break] = "CR" /\ Break + 1 = read_index

(* A CR at the end of what was read is looked at again the next time.      *)
OpenIndexPastCR == read_index
OpenIndexRescans == IF Breaks = {} THEN 0 ELSE Break
OpenIndex == IF Breaks = {} THEN read_index ELSE Break

(* The second alternative, LF after a CR that was passed over, is never    *)
(* taken: a CR is never passed over.                                       *)
LineOk ==
  /\ ~LineOpen
  /\ IF buffer[Break] = "CR" THEN buffer[Break + 1] = "LF"
                             ELSE Break > 1 /\ buffer[Break - 1] = "CR"

LineEnd == IF buffer[Break] = "CR" THEN Break ELSE Break - 1

(* The line as a C string, without the two characters that end it.         *)
Line == [k \in 1..LineEnd - start_line |-> buffer[start_line + k - 1]]

(* strpbrk and strspn: the first blank, the first other character, from k  *)
(* on; 0 when strpbrk returns NULL.                                        *)
BlankFrom(s, k) == Min({m \in k..Len(s) : s[m] = "SP"} \cup {Len(s) + 1}) % (Len(s) + 1)
WordFrom(s, k) == Min({m \in k..Len(s) : s[m] # "SP"} \cup {Len(s) + 1})

(* parse_requestline. The zeros it writes fall in a line not read again.   *)
GoodRequestLine(s) ==
  LET method == BlankFrom(s, 1)
      url == WordFrom(s, method)
      blank == BlankFrom(s, url)
      version == WordFrom(s, blank)
  IN /\ method # 0 /\ SubSeq(s, 1, method - 1) = <<"GET">>
     /\ blank # 0 /\ SubSeq(s, version, Len(s)) = <<"VERSION">>
     /\ s[url] = "URL"

PastEndTooFar == LineEnd + 3
PastEnd == LineEnd + 2

NextStartStays == start_line
NextStart == PastEnd

(* A complete line moves checked_index behind it and clears its end.       *)
TakeLine ==
  /\ reply = "none" /\ parsing /\ LineOk
  /\ checked_index' = PastEnd
  /\ start_line' = NextStart
  /\ buffer' = [buffer EXCEPT ![LineEnd] = "NUL", ![LineEnd + 1] = "NUL"]
  /\ UNCHANGED <<stream, closed, read_index>>

RequestLine ==
  /\ checkstate = "REQUESTLINE" /\ TakeLine
  /\ GoodRequestLine(Line)
  /\ checkstate' = "HEADER"
  /\ UNCHANGED <<parsing, reply>>

BadRequestLine ==
  /\ checkstate = "REQUESTLINE" /\ TakeLine
  /\ ~GoodRequestLine(Line)
  /\ reply' = "wrong" /\ parsing' = FALSE
  /\ UNCHANGED checkstate

(* Known or not, a header changes nothing.                                 *)
Header ==
  /\ checkstate = "HEADER" /\ TakeLine
  /\ Line # <<>>
  /\ UNCHANGED <<checkstate, parsing, reply>>

EndOfHeaders ==
  /\ checkstate = "HEADER" /\ TakeLine
  /\ Line = <<>>
  /\ reply' = "correct" /\ parsing' = FALSE
  /\ UNCHANGED checkstate

NeedMore ==
  /\ reply = "none" /\ parsing /\ LineOpen
  /\ checked_index' = OpenIndex
  /\ parsing' = FALSE
  /\ UNCHANGED <<stream, closed, buffer, read_index, start_line, checkstate, reply>>

BadLine ==
  /\ reply = "none" /\ parsing /\ ~LineOpen /\ ~LineOk
  /\ checked_index' = Break
  /\ reply' = "wrong" /\ parsing' = FALSE
  /\ UNCHANGED <<stream, closed, buffer, read_index, start_line, checkstate>>

Next ==
  \/ Recv \/ RecvNothing \/ RecvError \/ NeedMore \/ BadLine
  \/ RequestLine \/ BadRequestLine \/ Header \/ EndOfHeaders

Spec == Init /\ [][Next]_vars

(* The client's bytes arrive and the server runs.                          *)
FairSpec == Spec /\ WF_vars(Next)
-----------------------------------------------------------------------------
(* Properties.                                                             *)

(* The verdict on what has arrived, defined on the whole of it: where its  *)
(* lines end, where a CR or an LF stands alone, and what decides first.    *)
Ends(p) == {k \in 2..Len(p) : p[k - 1] = "CR" /\ p[k] = "LF"}
Strays(p) == {k \in 1..Len(p) :
                \/ p[k] = "CR" /\ k < Len(p) /\ p[k + 1] # "LF"
                \/ p[k] = "LF" /\ k - 1 \notin {m \in 1..Len(p) : p[m] = "CR"}}
LineTo(p, e) == SubSeq(p, Max({d \in Ends(p) : d < e} \cup {0}) + 1, e - 2)

Sp(n) == [k \in 1..n |-> "SP"]
WellFormed(s) ==
  \E a \in 1..Len(s), m \in 3..Len(s) - 2 :
     LET url == SubSeq(s, a + 2, m)
     IN /\ s = <<"GET">> \o Sp(a) \o url \o Sp(Len(s) - 1 - m) \o <<"VERSION">>
        /\ url # <<>> /\ url[1] = "URL" /\ "SP" \notin {url[k] : k \in DOMAIN url}

Verdict(p) ==
  LET wrong == Strays(p) \cup {e \in Ends(p) : e = Min(Ends(p)) /\ ~WellFormed(LineTo(p, e))}
      right == {e \in Ends(p) : e # Min(Ends(p)) /\ LineTo(p, e) = <<>>}
  IN CASE wrong \cup right = {} -> "none"
       [] wrong \cup right # {} /\ Min(wrong \cup right) \in right -> "correct"
       [] OTHER -> "wrong"

(* However recv() cuts the request into pieces (a CR may end one and its   *)
(* LF begin the next), after each piece the server has answered what the   *)
(* pieces together deserve, and has not given up on a decided request.     *)
SameVerdict ==
  ~parsing => LET v == Verdict(SubSeq(stream, 1, read_index))
              IN IF v = "none" THEN reply \in {"none", "silent", "failed"} ELSE reply = v

(* The line being collected starts before the position parse_line resumes  *)
(* from, which is within what has been read, which is within the buffer.   *)
IndicesOrdered ==
  /\ start_line <= checked_index /\ checked_index <= read_index
  /\ read_index <= BufferSize /\ read_index <= Len(stream)

(* A request that is decided within the first BUFFER_SIZE characters is    *)
(* answered, unless recv() fails; one that fills the buffer undecided does *)
(* not hold the server: a recv() of no bytes ends the loop (line 212).     *)
Answered ==
  LET v == Verdict(SubSeq(stream, 1, Min({Len(stream), BufferSize})))
  IN /\ v # "none" ~> reply \in {v, "failed"}
     /\ Len(stream) >= BufferSize ~> reply # "none"
=============================================================================
