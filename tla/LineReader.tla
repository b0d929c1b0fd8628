----------------------------- MODULE LineReader -----------------------------
(***************************************************************************)
(* getLine() of net.c, through which the dealer, the benchmark server and  *)
(* the clients read everything they are sent: its buffer, its line, and    *)
(* its limit on the time spent waiting.                                    *)
(*                                                                         *)
(* The other end writes bytes, of which only newlines are told apart; a    *)
(* byte is named by its position in what was sent.  The reader calls       *)
(* getLine() again and again, each time with any of the limits in use.     *)
(***************************************************************************)
EXTENDS Integers, Sequences

CONSTANTS
  READBUF_LEN,   \* size of the buffer
  maxLen,        \* size of the caller's line, its terminating 0 included
  Timeouts,      \* values of timeoutMicros; negative: no limit
  WORD,          \* unsigned arithmetic on times is modulo WORD
  MaxBytes,      \* bound: bytes sent
  MaxDelay       \* bound: time that passes outside of select() in a call

ASSUME SizesAssumption ==
  /\ READBUF_LEN \in Nat \ {0}
  /\ maxLen \in Nat \ {0, 1}
  /\ WORD \in Nat \ {0}
  /\ Timeouts \subseteq Int /\ \A t \in Timeouts : t < WORD

VARIABLES
  sent,           \* for each byte sent so far, whether it is a newline
  end,            \* "open", "closed" by the sender, or "error"
  fetched,        \* how many bytes read() has returned so far
  buf, bufStart, bufEnd,
  line,           \* bytes of the line so far; after a call, what it returned
  timeoutMicros, haveStartTime,
  elapsed,        \* time since start, modulo WORD
  timeLeft,       \* what select() is to wait at most
  result,         \* what the last call returned
  pc              \* "idle" between calls, or where getLine() is

(* History variables: the bytes earlier calls have returned or dropped, the *)
(* time this call has spent in select(), and outside of it.                 *)
VARIABLES out, waited, delayed

socket == <<sent, end>>
buffer == <<fetched, buf, bufStart, bufEnd>>
call == <<line, timeoutMicros, haveStartTime, elapsed, timeLeft, result, out, waited, delayed>>
vars == <<socket, buffer, call, pc>>

Init ==
  /\ sent = <<>> /\ end = "open"
  /\ fetched = 0 /\ buf = <<>> /\ bufStart = 0 /\ bufEnd = 0      \* createReadBuf()
  /\ line = <<>> /\ timeoutMicros \in Timeouts /\ haveStartTime = FALSE
  /\ elapsed = 0 /\ timeLeft = 0 /\ result = 0
  /\ out = <<>> /\ waited = 0 /\ delayed = 0
  /\ pc = "idle"

-----------------------------------------------------------------------------
(* getLine()                                                               *)

GetLine ==
  /\ pc = "idle"
  /\ timeoutMicros' \in Timeouts
  /\ line' = <<>> /\ haveStartTime' = FALSE /\ elapsed' = 0 /\ timeLeft' = 0
  /\ waited' = 0 /\ delayed' = 0
  /\ pc' = "loop"
  /\ UNCHANGED <<socket, buffer, result, out>>

Return(value) ==
  /\ result' = value
  /\ out' = out \o line'
  /\ pc' = "idle"
  /\ UNCHANGED <<timeoutMicros, haveStartTime, elapsed, timeLeft, waited, delayed>>

BufferEmpty_mutantOffByOne == bufStart + 1 >= bufEnd

BufferEmpty == bufStart >= bufEnd

EndsLine_mutantNever(byte) == FALSE

(* Whether a line is complete with this byte.                              *)
EndsLine(byte) == sent[byte] = TRUE

RoomLeft_mutantNoTerminator(bytes) == Len(bytes) < maxLen

(* while( len < maxLen ), after --maxLen.                                  *)
RoomLeft(bytes) == Len(bytes) < maxLen - 1

TakeByte ==
  LET byte == buf[bufStart + 1]
  IN  /\ pc = "loop" /\ ~BufferEmpty
      /\ bufStart' = bufStart + 1
      /\ line' = Append(line, byte)
      /\ IF EndsLine(byte) \/ ~RoomLeft(line')
           THEN Return(Len(line'))
           ELSE UNCHANGED <<timeoutMicros, haveStartTime, elapsed, timeLeft, result,
                            out, waited, delayed, pc>>
      /\ UNCHANGED <<socket, fetched, buf, bufEnd>>

TimeLeft_mutantPollsAgain == IF haveStartTime THEN 0 ELSE timeoutMicros

(* The time left of the limit, as an unsigned number: the code's test for  *)
(* timeLeft < 0 is never true.                                             *)
TimeLeft == IF haveStartTime THEN (timeoutMicros - elapsed) % WORD ELSE timeoutMicros

StartWait ==
  /\ pc = "loop" /\ BufferEmpty /\ timeoutMicros >= 0
  /\ timeLeft' = TimeLeft
  /\ haveStartTime' = TRUE
  /\ elapsed' = IF haveStartTime THEN elapsed ELSE 0
  /\ pc' = "select"
  /\ UNCHANGED <<socket, buffer, line, timeoutMicros, result, out, waited, delayed>>

ReadNow ==
  /\ pc = "loop" /\ BufferEmpty /\ timeoutMicros < 0
  /\ pc' = "read"
  /\ UNCHANGED <<socket, buffer, call>>

Readable == fetched < Len(sent) \/ end # "open"

SelectReady ==
  /\ pc = "select" /\ Readable
  /\ pc' = "read"
  /\ UNCHANGED <<socket, buffer, call>>

(* The limit has passed: -1, and what was read of the line is forgotten.   *)
(* The code returns -1 also when select() itself fails; on a connection    *)
(* that is open, in programs that catch no signals, it does not.           *)
SelectTimesOut ==
  /\ pc = "select" /\ ~Readable /\ timeLeft = 0
  /\ line' = line
  /\ Return(-1)
  /\ UNCHANGED <<socket, buffer>>

(* read() returns at least one byte of what has arrived, and as much as    *)
(* fits at most.                                                           *)
ReadSome ==
  /\ pc = "read" /\ fetched < Len(sent)
  /\ \E n \in 1..READBUF_LEN :
       /\ fetched + n <= Len(sent)
       /\ buf' = [i \in 1..n |-> fetched + i]
       /\ bufEnd' = n
       /\ fetched' = fetched + n
  /\ bufStart' = 0
  /\ pc' = "loop"
  /\ UNCHANGED <<socket, call>>

(* End of input: what there is of a line is returned, be it nothing.       *)
ReadEnd ==
  /\ pc = "read" /\ fetched = Len(sent) /\ end = "closed"
  /\ bufStart' = 0 /\ bufEnd' = 0
  /\ line' = line
  /\ Return(Len(line))
  /\ UNCHANGED <<socket, fetched, buf>>

ReadFails_mutantAsEnd ==
  /\ pc = "read" /\ end = "error"
  /\ bufStart' = 0 /\ bufEnd' = 0
  /\ line' = line
  /\ Return(0)
  /\ end' = "closed"
  /\ UNCHANGED <<sent, fetched, buf>>

(* An error is reported once; after that the connection is at its end.     *)
ReadFails ==
  /\ pc = "read" /\ end = "error"
  /\ bufStart' = 0 /\ bufEnd' = 0
  /\ line' = line
  /\ Return(-1)
  /\ end' = "closed"
  /\ UNCHANGED <<sent, fetched, buf>>

Reader ==
  \/ GetLine \/ TakeByte \/ StartWait \/ ReadNow
  \/ SelectReady \/ SelectTimesOut
  \/ ReadSome \/ ReadEnd \/ ReadFails

-----------------------------------------------------------------------------
(* The sender and time                                                     *)

Send ==
  /\ end = "open" /\ Len(sent) < MaxBytes
  /\ \E newline \in BOOLEAN : sent' = Append(sent, newline)
  /\ UNCHANGED <<end, buffer, call, pc>>

Shut ==
  /\ end = "open" /\ end' = "closed"
  /\ UNCHANGED <<sent, buffer, call, pc>>

(* An error loses what has not been read.                                  *)
Break ==
  /\ end = "open" /\ end' = "error"
  /\ sent' = SubSeq(sent, 1, fetched)
  /\ UNCHANGED <<buffer, call, pc>>

Tick ==
  /\ elapsed' = (elapsed + 1) % WORD
  /\ \/ pc = "select" /\ timeLeft > 0
        /\ timeLeft' = timeLeft - 1 /\ waited' = waited + 1 /\ UNCHANGED delayed
     \/ pc \in {"loop", "read"} /\ haveStartTime /\ delayed < MaxDelay
        /\ delayed' = delayed + 1 /\ UNCHANGED <<timeLeft, waited>>
  /\ UNCHANGED <<socket, buffer, line, timeoutMicros, haveStartTime, result, out, pc>>

Next == Reader \/ Send \/ Shut \/ Break \/ Tick

(* The caller calls again whenever a call has returned, and calls go on.   *)
Spec == Init /\ [][Next]_vars /\ WF_vars(Reader)

-----------------------------------------------------------------------------
(* Properties                                                              *)

TypeOK ==
  /\ sent \in Seq(BOOLEAN) /\ end \in {"open", "closed", "error"}
  /\ fetched \in 0..Len(sent)
  /\ buf \in Seq(1..Len(sent)) /\ Len(buf) <= READBUF_LEN
  /\ bufStart \in 0..bufEnd /\ bufEnd \in 0..Len(buf)
  /\ line \in Seq(1..Len(sent)) /\ Len(line) < maxLen
  /\ timeoutMicros \in Timeouts /\ haveStartTime \in BOOLEAN
  /\ elapsed \in 0..WORD-1 /\ timeLeft \in 0..WORD-1
  /\ result \in -1..maxLen-1
  /\ pc \in {"idle", "loop", "select", "read"}

Positions(n) == [i \in 1..n |-> i]

(* Every byte goes through the buffer once and in order: what calls have   *)
(* returned or dropped, the line in the making, and what is left in the    *)
(* buffer, are the bytes fetched.                                          *)
NothingLost ==
  out \o (IF pc = "idle" THEN <<>> ELSE line) \o SubSeq(buf, bufStart + 1, bufEnd)
    = Positions(fetched)

(* What a call returns as a line is one: it has a newline at its end and   *)
(* nowhere else, unless it fills the caller's array or the input is over.  *)
LinesAreLines ==
  pc = "idle" /\ result > 0 =>
    /\ result = Len(line)
    /\ \A i \in 1..result-1 : ~sent[line[i]]
    /\ sent[line[result]] \/ result = maxLen - 1 \/ (end = "closed" /\ fetched = Len(sent))

(* 0 is the end: it is returned only when all that was sent has been       *)
(* fetched and has left the buffer, so no line can come after it.          *)
ZeroIsTheEnd ==
  [][pc # "idle" /\ pc' = "idle" /\ result' = 0 =>
       end = "closed" /\ fetched = Len(sent) /\ Len(out') = fetched]_vars

(* A call gives up waiting only when its limit has passed since it began   *)
(* to wait, however often bytes came in between.                           *)
WaitsLongEnough ==
  [][pc = "select" /\ pc' = "idle" => waited + delayed >= timeoutMicros]_vars

(* net.c:38: "if timeoutMicros is non-negative, do not spend more than     *)
(* that number of microseconds waiting to read data".                      *)
WaitsAtMostTimeout == timeoutMicros >= 0 => waited <= timeoutMicros

(* A whole line that has been sent is sooner or later taken in by a call,  *)
(* if the caller keeps calling and the connection holds.                   *)
EveryLineComesThrough ==
  \A i \in 1..MaxBytes :
    (i <= Len(sent) /\ sent[i]) ~> (Len(out) >= i \/ Len(sent) < i)
=============================================================================
