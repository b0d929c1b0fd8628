-------------------------- MODULE LineReaderProofs --------------------------
(***************************************************************************)
(* Theorems about getLine(), for buffers, lines, limits and clocks of any  *)
(* size and any input: no byte is lost, repeated or put out of order, what *)
(* is returned as a line is one, and no limit is cut short.                *)
(***************************************************************************)
EXTENDS LineReader, SequenceTheorems, TLAPS

-----------------------------------------------------------------------------
(* The inductive invariant.                                                *)

(* The buffer holds the bytes fetched last, in their order; getLine() goes *)
(* to select() or read() only with an empty one.                           *)
BufferInv ==
  /\ fetched \in 0..Len(sent)
  /\ buf \in Seq(Nat) /\ Len(buf) <= READBUF_LEN /\ Len(buf) <= fetched
  /\ \A i \in 1..Len(buf) : buf[i] = fetched - Len(buf) + i
  /\ bufStart \in Nat /\ bufEnd \in Nat /\ bufStart <= bufEnd /\ bufEnd <= Len(buf)
  /\ bufStart < bufEnd => bufEnd = Len(buf)
  /\ pc \in {"select", "read"} => bufStart = bufEnd

(* The bytes that have left the buffer are those returned or dropped, then *)
(* those of the line in the making.                                        *)
InLine == IF pc = "idle" THEN 0 ELSE Len(line)

OrderInv ==
  /\ out \in Seq(Nat) /\ line \in Seq(Nat)
  /\ Len(out) + InLine = fetched - (bufEnd - bufStart)
  /\ \A i \in 1..Len(out) : out[i] = i
  /\ pc # "idle" => \A i \in 1..Len(line) : line[i] = Len(out) + i
  /\ Len(line) <= fetched
  /\ \A i \in 1..Len(line) : line[i] \in 1..fetched

(* A line in the making has no newline yet and leaves room for a byte.     *)
LineInv ==
  /\ sent \in Seq(BOOLEAN) /\ end \in {"open", "closed", "error"}
  /\ pc \in {"idle", "loop", "select", "read"}
  /\ Len(line) < maxLen
  /\ result \in -1..maxLen - 1
  /\ pc # "idle" =>
       Len(line) < maxLen - 1 /\ \A i \in 1..Len(line) : ~sent[line[i]]

(* The clock is the time spent so far modulo WORD, and what select() still *)
(* waits brings it to the limit modulo WORD.                               *)
ClockInv ==
  /\ timeoutMicros \in Timeouts /\ haveStartTime \in BOOLEAN
  /\ elapsed \in 0..WORD - 1 /\ timeLeft \in 0..WORD - 1
  /\ waited \in Nat /\ delayed \in Nat
  /\ pc # "idle" /\ ~haveStartTime => waited = 0 /\ delayed = 0
  /\ pc # "idle" => elapsed = (waited + delayed) % WORD
  /\ pc = "select" =>
       /\ haveStartTime /\ timeoutMicros >= 0
       /\ (waited + delayed + timeLeft - timeoutMicros) % WORD = 0

ReaderInv == BufferInv /\ OrderInv /\ LineInv /\ ClockInv

-----------------------------------------------------------------------------
(* The next byte of the buffer is the first one fetched that has not left  *)
(* it yet.                                                                 *)
LEMMA NextByte ==
  ASSUME ReaderInv, ~BufferEmpty
  PROVE  /\ bufStart + 1 \in 1..Len(buf) /\ bufEnd = Len(buf)
         /\ buf[bufStart + 1] = fetched - (bufEnd - bufStart) + 1
         /\ buf[bufStart + 1] \in 1..fetched
<1>1. /\ bufStart < bufEnd /\ bufEnd = Len(buf)
      /\ Len(buf) \in Nat /\ bufStart \in Nat /\ fetched \in Nat /\ Len(buf) <= fetched
  BY DEF ReaderInv, BufferInv, BufferEmpty
<1>2. bufStart + 1 \in 1..Len(buf)
  BY <1>1
<1>3. buf[bufStart + 1] = fetched - Len(buf) + (bufStart + 1)
  BY <1>2 DEF ReaderInv, BufferInv
<1>4. QED
  BY <1>1, <1>2, <1>3

-----------------------------------------------------------------------------
(* Every step keeps the buffer in order.                                   *)
LEMMA BufferKept ==
  ASSUME ReaderInv, [Next]_vars
  PROVE  BufferInv'
<1>1. /\ Len(buf) \in Nat /\ Len(sent) \in Nat /\ sent \in Seq(BOOLEAN)
      /\ buf \in Seq(Nat)
  BY DEF ReaderInv, BufferInv, LineInv
<1> USE SizesAssumption DEF ReaderInv, BufferInv, BufferEmpty
<1>2. CASE GetLine
  BY <1>2 DEF GetLine, socket, buffer
<1>3. CASE TakeByte
  <2>1. /\ bufStart' = bufStart + 1 /\ pc' \in {"loop", "idle"} /\ ~BufferEmpty
        /\ sent' = sent /\ fetched' = fetched /\ buf' = buf /\ bufEnd' = bufEnd
    BY <1>3 DEF TakeByte, socket, Return
  <2>2. bufStart + 1 \in 1..Len(buf) /\ bufEnd = Len(buf)
    BY <2>1, NextByte
  <2>3. QED
    BY <1>1, <2>1, <2>2
<1>4. CASE StartWait
  BY <1>1, <1>4 DEF StartWait, socket, buffer
<1>5. CASE ReadNow
  BY <1>1, <1>5 DEF ReadNow, socket, buffer
<1>6. CASE SelectReady
  BY <1>1, <1>6 DEF SelectReady, socket, buffer
<1>7. CASE SelectTimesOut
  BY <1>7 DEF SelectTimesOut, Return, socket, buffer
<1>8. CASE ReadSome
  <2>1. PICK n \in 1..READBUF_LEN :
          /\ fetched + n <= Len(sent) /\ buf' = [i \in 1..n |-> fetched + i]
          /\ bufEnd' = n /\ fetched' = fetched + n
    BY <1>8 DEF ReadSome
  <2>2. buf' \in Seq(Nat) /\ Len(buf') = n /\ \A i \in 1..n : buf'[i] = fetched + i
    BY <2>1
  <2>3. QED
    BY <1>1, <1>8, <2>1, <2>2 DEF ReadSome, socket
<1>9. CASE ReadEnd
  BY <1>1, <1>9 DEF ReadEnd, Return, socket
<1>10. CASE ReadFails
  BY <1>1, <1>10 DEF ReadFails, Return
<1>11. CASE Send
  BY <1>1, <1>11 DEF Send, buffer
<1>12. CASE Shut
  BY <1>12 DEF Shut, buffer
<1>13. CASE Break
  <2>1. sent' = SubSeq(sent, 1, fetched) /\ Len(sent') = fetched
    BY <1>1, <1>13 DEF Break
  <2>2. QED
    BY <1>1, <1>13, <2>1 DEF Break, buffer
<1>14. CASE Tick
  BY <1>14 DEF Tick, socket, buffer
<1>15. CASE UNCHANGED vars
  BY <1>15 DEF vars, socket, buffer
<1>16. QED
  BY <1>2, <1>3, <1>4, <1>5, <1>6, <1>7, <1>8, <1>9, <1>10, <1>11, <1>12, <1>13,
     <1>14, <1>15 DEF Next, Reader

-----------------------------------------------------------------------------
(* What a call that returns hands over: the line so far, appended to what  *)
(* went before.                                                            *)
LEMMA LineIsAppended ==
  ASSUME NEW earlier \in Seq(Nat), \A i \in 1..Len(earlier) : earlier[i] = i,
         NEW bytes \in Seq(Nat),
         \A i \in 1..Len(bytes) : bytes[i] = Len(earlier) + i
  PROVE  /\ earlier \o bytes \in Seq(Nat)
         /\ Len(earlier \o bytes) = Len(earlier) + Len(bytes)
         /\ \A i \in 1..Len(earlier \o bytes) : (earlier \o bytes)[i] = i
<1>1. Len(earlier) \in Nat /\ Len(bytes) \in Nat
  OBVIOUS
<1>2. /\ earlier \o bytes \in Seq(Nat)
      /\ Len(earlier \o bytes) = Len(earlier) + Len(bytes)
      /\ \A i \in 1..Len(earlier) + Len(bytes) :
           (earlier \o bytes)[i] = IF i <= Len(earlier) THEN earlier[i]
                                                       ELSE bytes[i - Len(earlier)]
  BY ConcatProperties
<1>3. ASSUME NEW i \in 1..Len(earlier) + Len(bytes)
      PROVE  (earlier \o bytes)[i] = i
  <2>1. CASE i <= Len(earlier)
    <3>1. i \in 1..Len(earlier)
      BY <1>1, <2>1
    <3>2. QED
      BY <1>2, <2>1, <3>1
  <2>2. CASE i > Len(earlier)
    <3>1. i - Len(earlier) \in 1..Len(bytes)
      BY <1>1, <2>2
    <3>2. bytes[i - Len(earlier)] = Len(earlier) + (i - Len(earlier))
      BY <3>1
    <3>3. QED
      BY <1>1, <1>2, <2>2, <3>2
  <2>3. QED
    BY <1>1, <2>1, <2>2
<1>4. QED
  BY <1>2, <1>3

(* Every step keeps the bytes in order.                                    *)
LEMMA OrderKept ==
  ASSUME ReaderInv, [Next]_vars
  PROVE  OrderInv'
<1>1. /\ Len(out) \in Nat /\ Len(line) \in Nat /\ fetched \in Nat
      /\ bufStart \in Nat /\ bufEnd \in Nat /\ Len(buf) \in Nat
  BY DEF ReaderInv, BufferInv, OrderInv
<1>0. /\ out \in Seq(Nat) /\ line \in Seq(Nat) /\ Len(sent) \in Nat
      /\ pc \in {"idle", "loop", "select", "read"}
  BY DEF ReaderInv, BufferInv, LineInv, OrderInv
<1>2. ASSUME UNCHANGED <<buffer, line, out>>, pc # "idle" <=> pc' # "idle"
      PROVE  OrderInv'
  BY <1>1, <1>2 DEF ReaderInv, OrderInv, InLine, buffer
<1>3. ASSUME pc # "idle", pc' = "idle", UNCHANGED <<fetched, line>>, out' = out \o line,
             bufEnd' - bufStart' = bufEnd - bufStart
      PROVE  OrderInv'
  <2>1. Len(out) + Len(line) = fetched - (bufEnd - bufStart)
    BY <1>3 DEF ReaderInv, OrderInv, InLine
  <2>2. /\ out' \in Seq(Nat) /\ Len(out') = Len(out) + Len(line)
        /\ \A i \in 1..Len(out') : out'[i] = i
    BY <1>0, <1>3, LineIsAppended DEF ReaderInv, OrderInv
  <2>3. Len(out') + InLine' = fetched' - (bufEnd' - bufStart')
    BY <1>3, <2>1, <2>2 DEF InLine
  <2>4. /\ line' \in Seq(Nat) /\ Len(line') <= fetched'
        /\ \A i \in 1..Len(line') : line'[i] \in 1..fetched'
    BY <1>3 DEF ReaderInv, OrderInv
  <2>5. QED
    BY <1>3, <2>2, <2>3, <2>4 DEF OrderInv
<1>4. CASE GetLine
  BY <1>0, <1>1, <1>4 DEF ReaderInv, OrderInv, InLine, GetLine, buffer
<1>5. CASE TakeByte
  <2> DEFINE byte == buf[bufStart + 1]
  <2>1. /\ pc = "loop" /\ bufStart' = bufStart + 1
        /\ fetched' = fetched /\ bufEnd' = bufEnd
        /\ byte = fetched - (bufEnd - bufStart) + 1 /\ byte \in 1..fetched
        /\ \/ out' = out /\ pc' = "loop"
           \/ out' = out \o line' /\ pc' = "idle"
    BY <1>5, NextByte DEF TakeByte, Return
  <2>2. line' = Append(line, byte)
    BY <1>5 DEF TakeByte
  <2> HIDE DEF byte
  <2>3. /\ line' \in Seq(Nat) /\ Len(line') \in Nat /\ Len(line') = Len(line) + 1
        /\ \A i \in 1..Len(line) : line'[i] = line[i]
        /\ line'[Len(line) + 1] = byte
    BY <1>0, <1>1, <2>1, <2>2
  <2>4. Len(out) + Len(line) = fetched - (bufEnd - bufStart)
    BY <2>1 DEF ReaderInv, OrderInv, InLine
  <2>5. Len(out) + Len(line') = fetched' - (bufEnd' - bufStart') /\ Len(line') <= fetched
    <3>1. fetched - (bufEnd - bufStart) + 1 <= fetched
      BY <1>1, <2>1
    <3>2. QED
      <4>1. PICK a, b : a = Len(out) /\ b = Len(line)
        OBVIOUS
      <4>2. a + b = fetched - (bufEnd - bufStart) /\ Len(line') = b + 1
        BY ONLY <2>3, <2>4, <4>1, Zenon
      <4>3. a \in Nat /\ b \in Nat /\ {fetched, bufEnd, bufStart} \subseteq Nat
        BY ONLY <1>1, <4>1
      <4>4. a + (b + 1) = fetched - (bufEnd - (bufStart + 1)) /\ b + 1 <= fetched
        BY ONLY <3>1, <4>2, <4>3
      <4>5. QED
        BY ONLY <2>1, <4>1, <4>2, <4>4, Zenon
  <2>6. \A i \in 1..Len(line') : line'[i] = Len(out) + i /\ line'[i] \in 1..fetched
    <3>1. \A i \in 1..Len(line) : line[i] = Len(out) + i /\ line[i] \in 1..fetched
      BY <2>1 DEF ReaderInv, OrderInv
    <3>2. byte = Len(out) + (Len(line) + 1)
      BY <1>1, <2>1, <2>4
    <3>3. ASSUME NEW i \in 1..Len(line')
          PROVE  line'[i] = Len(out) + i /\ line'[i] \in 1..fetched
      <4>1. i \in 1..Len(line) \/ i = Len(line) + 1
        BY <1>1, <2>3
      <4>2. QED
        BY <2>1, <2>3, <3>1, <3>2, <4>1
    <3>4. QED
      BY <3>3
  <2>7. CASE out' = out /\ pc' = "loop"
    <3>1. /\ out \in Seq(Nat) /\ \A i \in 1..Len(out) : out[i] = i
      BY DEF ReaderInv, OrderInv
    <3>2. out' \in Seq(Nat) /\ \A i \in 1..Len(out') : out'[i] = i
      BY <2>7, <3>1, Zenon
    <3>3. Len(out)' + InLine' = fetched' - (bufEnd' - bufStart')
      BY <2>1, <2>3, <2>5, <2>7 DEF InLine
    <3>4. Len(line') <= fetched' /\ line' \in Seq(Nat)
      BY <2>1, <2>3, <2>5
    <3>5. \A i \in 1..Len(line') : line'[i] = Len(out') + i /\ line'[i] \in 1..fetched'
      BY <2>1, <2>6, <2>7
    <3>6. QED
      BY <3>2, <3>3, <3>4, <3>5 DEF OrderInv
  <2>8. CASE out' = out \o line' /\ pc' = "idle"
    <3> DEFINE bytes == line'
    <3>1. bytes \in Seq(Nat) /\ Len(bytes) \in Nat /\ out' = out \o bytes
      BY <2>3, <2>8
    <3>2. \A i \in 1..Len(bytes) : bytes[i] = Len(out) + i
      BY <2>6
    <3> HIDE DEF bytes
    <3>3. /\ out' \in Seq(Nat) /\ Len(out') = Len(out) + Len(bytes)
          /\ \A i \in 1..Len(out') : out'[i] = i
      BY <1>0, <3>1, <3>2, LineIsAppended DEF ReaderInv, OrderInv
    <3>4. Len(out') + InLine' = fetched' - (bufEnd' - bufStart')
      BY <2>5, <2>8, <3>3 DEF InLine, bytes
    <3>5. /\ line' \in Seq(Nat) /\ Len(line') <= fetched' /\ pc' = "idle"
          /\ \A i \in 1..Len(line') : line'[i] \in 1..fetched'
      BY <1>1, <2>1, <2>3, <2>5, <2>6, <2>8
    <3>6. QED
      BY <3>3, <3>4, <3>5 DEF OrderInv
  <2>9. QED
    BY <2>1, <2>7, <2>8
<1>6. CASE StartWait
  BY <1>2, <1>6 DEF StartWait
<1>7. CASE ReadNow
  BY <1>2, <1>7 DEF ReadNow, call
<1>8. CASE SelectReady
  BY <1>2, <1>8 DEF SelectReady, call
<1>9. CASE SelectTimesOut
  BY <1>3, <1>9 DEF SelectTimesOut, Return, buffer
<1>10. CASE ReadSome
  <2>1. PICK n \in 1..READBUF_LEN : fetched' = fetched + n /\ bufEnd' = n
    BY <1>10 DEF ReadSome
  <2>2. /\ pc = "read" /\ pc' = "loop" /\ bufStart' = 0 /\ bufStart = bufEnd
        /\ UNCHANGED <<line, out>>
    BY <1>10 DEF ReadSome, call, ReaderInv, BufferInv
  <2>3. Len(out) + Len(line) = fetched
    BY <1>1, <2>2 DEF ReaderInv, OrderInv, InLine
  <2>4. n \in Nat
    BY SizesAssumption
  <2>5. QED
    BY <1>1, <2>1, <2>2, <2>3, <2>4 DEF ReaderInv, OrderInv, InLine
<1>11. CASE ReadEnd
  BY <1>1, <1>3, <1>11 DEF ReadEnd, Return, ReaderInv, BufferInv
<1>12. CASE ReadFails
  BY <1>1, <1>3, <1>12 DEF ReadFails, Return, ReaderInv, BufferInv
<1>13. CASE Send
  BY <1>2, <1>13 DEF Send, call
<1>14. CASE Shut
  BY <1>2, <1>14 DEF Shut, call
<1>15. CASE Break
  BY <1>2, <1>15 DEF Break, call
<1>16. CASE Tick
  BY <1>2, <1>16 DEF Tick
<1>17. CASE UNCHANGED vars
  BY <1>2, <1>17 DEF vars, call
<1>18. QED
  BY <1>4, <1>5, <1>6, <1>7, <1>8, <1>9, <1>10, <1>11, <1>12, <1>13, <1>14, <1>15,
     <1>16, <1>17 DEF Next, Reader

-----------------------------------------------------------------------------
(* Every step keeps the line in the making free of newlines, and its       *)
(* length below what the caller has room for.                              *)
LEMMA LineKept ==
  ASSUME ReaderInv, [Next]_vars
  PROVE  LineInv'
<1>1. /\ sent \in Seq(BOOLEAN) /\ line \in Seq(Nat) /\ Len(line) \in Nat
      /\ Len(sent) \in Nat /\ fetched \in 0..Len(sent)
      /\ \A i \in 1..Len(line) : line[i] \in 1..fetched
      /\ maxLen \in Nat
  BY SizesAssumption DEF ReaderInv, BufferInv, LineInv, OrderInv
<1>2. ASSUME UNCHANGED <<socket, line, result>>, pc # "idle" <=> pc' # "idle",
             pc' \in {"idle", "loop", "select", "read"}
      PROVE  LineInv'
  BY <1>2 DEF ReaderInv, LineInv, socket
<1>3. ASSUME UNCHANGED <<sent, line>>, pc' = "idle", result' \in -1..maxLen - 1,
             end' \in {"open", "closed", "error"}
      PROVE  LineInv'
  BY <1>3 DEF ReaderInv, LineInv
<1>4. CASE GetLine
  BY <1>1, <1>4, SizesAssumption DEF ReaderInv, LineInv, GetLine, socket
<1>5. CASE TakeByte
  <2> DEFINE byte == buf[bufStart + 1]
  <2>1. /\ pc = "loop" /\ line' = Append(line, byte) /\ byte \in Nat
        /\ UNCHANGED socket
    BY <1>1, <1>5, NextByte DEF TakeByte
  <2>2. /\ Len(line') = Len(line) + 1 /\ Len(line') < maxLen
        /\ \A i \in 1..Len(line) : line'[i] = line[i]
        /\ line'[Len(line) + 1] = byte
    BY <1>1, <2>1 DEF ReaderInv, LineInv
  <2>3. CASE EndsLine(byte) \/ ~RoomLeft(line')
    BY <1>1, <1>5, <2>1, <2>2, <2>3 DEF TakeByte, Return, ReaderInv, LineInv, socket
  <2>4. CASE ~EndsLine(byte) /\ RoomLeft(line')
    <3>1. UNCHANGED <<result, pc>>
      BY <1>5, <2>4 DEF TakeByte
    <3>2. \A i \in 1..Len(line') : ~sent[line'[i]]
      <4>1. byte \in 1..Len(sent)
        BY <1>1, <1>5, NextByte DEF TakeByte
      <4>2. ~sent[byte]
        BY <1>1, <2>4, <4>1 DEF EndsLine
      <4>3. \A i \in 1..Len(line) : ~sent[line[i]]
        BY <2>1 DEF ReaderInv, LineInv
      <4>4. QED
        <5>1. ASSUME NEW i \in 1..Len(line')
              PROVE  i \in 1..Len(line) \/ i = Len(line) + 1
          BY <1>1, <2>2
        <5>2. QED
          BY <2>2, <4>2, <4>3, <5>1, Zenon
    <3>3. QED
      BY <2>1, <2>2, <2>4, <3>1, <3>2 DEF RoomLeft, ReaderInv, LineInv, socket
  <2>5. QED
    BY <2>3, <2>4
<1>6. CASE StartWait
  BY <1>2, <1>6 DEF StartWait
<1>7. CASE ReadNow
  BY <1>2, <1>7 DEF ReadNow, call
<1>8. CASE SelectReady
  BY <1>2, <1>8 DEF SelectReady, call
<1>9. CASE SelectTimesOut
  BY <1>1, <1>3, <1>9 DEF SelectTimesOut, Return, socket, ReaderInv, LineInv
<1>10. CASE ReadSome
  BY <1>2, <1>10 DEF ReadSome, call
<1>11. CASE ReadEnd
  BY <1>1, <1>3, <1>11 DEF ReadEnd, Return, socket, ReaderInv, LineInv
<1>12. CASE ReadFails
  BY <1>1, <1>3, <1>12 DEF ReadFails, Return
<1>13. CASE Send
  <2>1. PICK newline \in BOOLEAN : sent' = Append(sent, newline)
    BY <1>13 DEF Send
  <2>2. sent' \in Seq(BOOLEAN) /\ \A i \in 1..Len(sent) : sent'[i] = sent[i]
    BY <1>1, <2>1
  <2>3. UNCHANGED <<line, result, pc, end>>
    BY <1>13 DEF Send, call
  <2>4. \A i \in 1..Len(line) : line[i] \in 1..Len(sent)
    BY <1>1
  <2>5. QED
    BY <1>1, <2>2, <2>3, <2>4 DEF ReaderInv, LineInv
<1>14. CASE Shut
  BY <1>14 DEF Shut, call, ReaderInv, LineInv
<1>15. CASE Break
  <2>1. sent' = SubSeq(sent, 1, fetched)
    BY <1>15 DEF Break
  <2>2. sent' \in Seq(BOOLEAN) /\ \A i \in 1..fetched : sent'[i] = sent[i]
    BY <1>1, <2>1
  <2>3. QED
    BY <1>1, <1>15, <2>2 DEF Break, call, ReaderInv, LineInv
<1>16. CASE Tick
  BY <1>2, <1>16 DEF Tick, ReaderInv, LineInv
<1>17. CASE UNCHANGED vars
  BY <1>2, <1>17 DEF vars, call, ReaderInv, LineInv
<1>18. QED
  BY <1>4, <1>5, <1>6, <1>7, <1>8, <1>9, <1>10, <1>11, <1>12, <1>13, <1>14, <1>15,
     <1>16, <1>17 DEF Next, Reader

-----------------------------------------------------------------------------
(* The clock is unsigned.                                                  *)

(* A quotient and a remainder below w are unique.                          *)
LEMMA OneRemainder ==
  ASSUME NEW w \in Nat \ {0}, NEW c \in Int, NEW d \in Int,
         NEW r \in 0..w - 1, NEW s \in 0..w - 1, w * c + r = w * d + s
  PROVE  r = s
<1>1. ASSUME NEW k \in Int, k > 0
      PROVE  w * k >= w
  BY <1>1
<1>2. w * (c - d) = w * c - w * d /\ w * (d - c) = w * d - w * c
  OBVIOUS
<1>3. w * c \in Int /\ w * d \in Int
  OBVIOUS
<1>4. CASE c > d
  <2>1. w * (c - d) >= w
    BY <1>1, <1>4
  <2>2. QED
    BY <1>2, <1>3, <2>1
<1>5. CASE d > c
  <2>1. w * (d - c) >= w
    BY <1>1, <1>5
  <2>2. QED
    BY <1>2, <1>3, <2>1
<1>6. QED
  BY <1>4, <1>5

LEMMA AddMultiple ==
  ASSUME NEW w \in Nat \ {0}, NEW x \in Int, NEW k \in Int
  PROVE  (x + w * k) % w = x % w
<1> DEFINE y == x + w * k
           p == x \div w
           q == y \div w
           r == x % w
           s == y % w
<1>1. y \in Int /\ w * k \in Int
  OBVIOUS
<1>2. r \in 0..w - 1 /\ p \in Int /\ x = w * p + r
  OBVIOUS
<1>3. s \in 0..w - 1 /\ q \in Int /\ y = w * q + s
  BY <1>1
<1> HIDE DEF p, q, r, s
<1>4. w * (p + k) = w * p + w * k /\ w * p \in Int
  BY <1>2
<1>5. w * (p + k) + r = w * q + s
  BY <1>1, <1>2, <1>3, <1>4
<1>6. r = s
  BY <1>2, <1>3, <1>5, OneRemainder
<1>7. QED
  BY <1>6 DEF r, s

(* What is equal modulo w stays so when the same is added or taken off.    *)
LEMMA ModAdd ==
  ASSUME NEW w \in Nat \ {0}, NEW a \in Int, NEW b \in Int
  PROVE  /\ ((a % w) + b) % w = (a + b) % w
         /\ (b - (a % w)) % w = (b - a) % w
         /\ a % w \in 0..w - 1
<1> DEFINE q == a \div w
           r == a % w
<1>1. r \in 0..w - 1 /\ q \in Int /\ a = w * q + r
  OBVIOUS
<1> HIDE DEF q, r
<1>2. -q \in Int /\ w * (-q) = -(w * q) /\ w * q \in Int /\ r \in Int
  BY <1>1
<1>3. a + b = (r + b) + w * q /\ b - a = (b - r) + w * (-q)
  BY <1>1, <1>2
<1>4. r + b \in Int /\ b - r \in Int
  BY <1>2
<1>5. ((r + b) + w * q) % w = (r + b) % w
  BY ONLY <1>1, <1>4, w \in Nat \ {0}, AddMultiple
<1>6. ((b - r) + w * (-q)) % w = (b - r) % w
  BY ONLY <1>2, <1>4, w \in Nat \ {0}, AddMultiple
<1>7. QED
  BY <1>1, <1>3, <1>5, <1>6 DEF r

(* A number between 0 and the limit that the limit exceeds by a multiple   *)
(* of w is at least the limit, if that is below w.                         *)
LEMMA ModReached ==
  ASSUME NEW w \in Nat \ {0}, NEW spent \in Nat, NEW limit \in Nat, limit < w,
         (spent - limit) % w = 0
  PROVE  spent >= limit
OBVIOUS

(* The time left as the code computes it takes the clock to the limit.     *)
LEMMA TimeLeftReaches ==
  ASSUME NEW w \in Nat \ {0}, NEW spent \in Nat, NEW limit \in Nat
  PROVE  (spent + ((limit - (spent % w)) % w) - limit) % w = 0
<1> DEFINE left == (limit - (spent % w)) % w
<1>1. left = (limit - spent) % w
  <2>1. spent \in Int /\ limit \in Int
    OBVIOUS
  <2>2. QED
    BY ONLY <2>1, w \in Nat \ {0}, ModAdd
<1>2. limit - spent \in Int /\ spent - limit \in Int
  OBVIOUS
<1>3. (((limit - spent) % w) + (spent - limit)) % w = ((limit - spent) + (spent - limit)) % w
  BY ONLY <1>2, w \in Nat \ {0}, ModAdd
<1>4. (limit - spent) + (spent - limit) = 0 /\ 0 % w = 0
  BY <1>2
<1>5. (limit - spent) % w \in Int
  OBVIOUS
<1> HIDE DEF left
<1>6. spent + left - limit = left + (spent - limit)
  BY <1>1, <1>5
<1>7. QED
  BY <1>1, <1>3, <1>4, <1>6 DEF left

(* Every step keeps the clock.                                             *)
LEMMA ClockKept ==
  ASSUME ReaderInv, [Next]_vars
  PROVE  ClockInv'
<1>1. /\ WORD \in Nat \ {0} /\ timeoutMicros \in Int /\ timeoutMicros < WORD
      /\ elapsed \in Nat /\ timeLeft \in Nat /\ waited \in Nat /\ delayed \in Nat
  BY SizesAssumption DEF ReaderInv, ClockInv
<1>2. ASSUME UNCHANGED <<timeoutMicros, haveStartTime, elapsed, timeLeft, waited, delayed>>,
             pc' # "select" \/ pc = "select", pc # "idle" \/ pc' = "idle"
      PROVE  ClockInv'
  BY <1>2 DEF ReaderInv, ClockInv
<1>3. CASE GetLine
  <2>1. (0 + 0) % WORD = 0 /\ 0 \in 0..WORD - 1
    BY <1>1
  <2>2. QED
    BY <1>3, <2>1 DEF GetLine, ClockInv
<1>4. CASE TakeByte
  BY <1>2, <1>4 DEF TakeByte, Return
<1>5. CASE StartWait
  <2>1. /\ pc = "loop" /\ pc' = "select" /\ timeoutMicros >= 0 /\ haveStartTime' = TRUE
        /\ UNCHANGED <<timeoutMicros, waited, delayed>>
        /\ timeLeft' = TimeLeft /\ elapsed' = IF haveStartTime THEN elapsed ELSE 0
    BY <1>5 DEF StartWait
  <2>2. timeoutMicros \in Nat /\ timeoutMicros \in 0..WORD - 1
    BY <1>1, <2>1
  <2>3. CASE haveStartTime
    <3>1. elapsed = (waited + delayed) % WORD /\ elapsed' = elapsed
      BY <2>1, <2>3 DEF ReaderInv, ClockInv
    <3>2. timeLeft' = (timeoutMicros - ((waited + delayed) % WORD)) % WORD
      BY <2>1, <2>3, <3>1 DEF TimeLeft
    <3>3. timeLeft' \in 0..WORD - 1
      BY <1>1, <3>2, ModAdd
    <3>4. waited + delayed \in Nat
      BY <1>1
    <3>5. (waited + delayed + timeLeft' - timeoutMicros) % WORD = 0
      BY <1>1, <2>2, <3>2, <3>4, TimeLeftReaches
    <3>6. QED
      BY <2>1, <3>1, <3>3, <3>5 DEF ReaderInv, ClockInv
  <2>4. CASE ~haveStartTime
    <3>1. timeLeft' = timeoutMicros /\ elapsed' = 0 /\ waited = 0 /\ delayed = 0
      BY <2>1, <2>4 DEF TimeLeft, ReaderInv, ClockInv
    <3>2. (0 + 0) % WORD = 0 /\ (0 + 0 + timeoutMicros - timeoutMicros) % WORD = 0
      BY <1>1
    <3>3. QED
      BY <1>1, <2>1, <2>2, <3>1, <3>2 DEF ReaderInv, ClockInv
  <2>5. QED
    BY <2>3, <2>4 DEF ReaderInv, ClockInv
<1>6. CASE ReadNow
  BY <1>2, <1>6 DEF ReadNow, call
<1>7. CASE SelectReady
  BY <1>2, <1>7 DEF SelectReady, call
<1>8. CASE SelectTimesOut
  BY <1>2, <1>8 DEF SelectTimesOut, Return
<1>9. CASE ReadSome
  BY <1>2, <1>9 DEF ReadSome, call
<1>10. CASE ReadEnd
  BY <1>2, <1>10 DEF ReadEnd, Return
<1>11. CASE ReadFails
  BY <1>2, <1>11 DEF ReadFails, Return
<1>12. CASE Send
  BY <1>2, <1>12 DEF Send, call
<1>13. CASE Shut
  BY <1>2, <1>13 DEF Shut, call
<1>14. CASE Break
  BY <1>2, <1>14 DEF Break, call
<1>15. CASE Tick
  <2>1. /\ elapsed' = (elapsed + 1) % WORD /\ UNCHANGED <<timeoutMicros, haveStartTime, pc>>
        /\ pc \in {"loop", "select", "read"} /\ haveStartTime
        /\ \/ pc = "select" /\ timeLeft > 0 /\ timeLeft' = timeLeft - 1
              /\ waited' = waited + 1 /\ delayed' = delayed
           \/ pc # "select" /\ timeLeft' = timeLeft
              /\ delayed' = delayed + 1 /\ waited' = waited
    BY <1>15 DEF Tick, ReaderInv, ClockInv
  <2>2. /\ waited' \in Nat /\ delayed' \in Nat
        /\ waited' + delayed' = (waited + delayed) + 1
        /\ timeLeft' \in 0..WORD - 1
        /\ pc = "select" => waited' + delayed' + timeLeft' - timeoutMicros
                             = waited + delayed + timeLeft - timeoutMicros
    <3>1. timeLeft \in 0..WORD - 1
      BY DEF ReaderInv, ClockInv
    <3>2. QED
      BY <1>1, <2>1, <3>1
  <2>3. elapsed = (waited + delayed) % WORD
    BY <2>1 DEF ReaderInv, ClockInv
  <2>4. elapsed' = (waited' + delayed') % WORD /\ elapsed' \in 0..WORD - 1
    <3>1. waited + delayed \in Int /\ 1 \in Int /\ elapsed + 1 \in Int
      BY <1>1
    <3>2. (elapsed + 1) % WORD = ((waited + delayed) + 1) % WORD
      <4>1. PICK t \in Int : t = waited + delayed
        BY ONLY <3>1
      <4>2. ((t % WORD) + 1) % WORD = (t + 1) % WORD
        <5>1. WORD \in Nat \ {0} /\ t \in Int /\ 1 \in Int
          BY ONLY <1>1, <4>1
        <5>2. QED
          BY ONLY <5>1, ModAdd, Zenon
      <4>3. elapsed = t % WORD
        BY ONLY <2>3, <4>1, Zenon
      <4>4. QED
        BY ONLY <4>1, <4>2, <4>3, Zenon
    <3>3. (elapsed + 1) % WORD \in 0..WORD - 1
      BY ONLY <1>1, <3>1, ModAdd
    <3>4. QED
      BY <2>1, <2>2, <3>2, <3>3
  <2>5. QED
    BY <2>1, <2>2, <2>4 DEF ReaderInv, ClockInv
<1>16. CASE UNCHANGED vars
  BY <1>2, <1>16 DEF vars, call
<1>17. QED
  BY <1>3, <1>4, <1>5, <1>6, <1>7, <1>8, <1>9, <1>10, <1>11, <1>12, <1>13, <1>14,
     <1>15, <1>16 DEF Next, Reader

-----------------------------------------------------------------------------
(* The theorems.                                                           *)

LEMMA InitReaderInv == Init => ReaderInv
<1> SUFFICES ASSUME Init PROVE ReaderInv
  OBVIOUS
<1>1. BufferInv /\ OrderInv
  <2>1. \A S : <<>> \in Seq(S) /\ Len(<<>>) = 0
    BY EmptySeq
  <2>2. 1..0 = {}
    OBVIOUS
  <2>3. BufferInv
    BY <2>1, <2>2, SizesAssumption DEF Init, BufferInv
  <2>4. OrderInv
    BY <2>1, <2>2 DEF Init, OrderInv, InLine
  <2>5. QED
    BY <2>3, <2>4
<1>2. LineInv
  BY SizesAssumption DEF Init, LineInv
<1>3. ClockInv
  <2>1. WORD \in Nat \ {0} /\ 0 \in 0..WORD - 1
    BY SizesAssumption
  <2>2. pc = "idle"
    BY DEF Init
  <2>3. QED
    BY <2>1, <2>2 DEF Init, ClockInv
<1>4. QED
  BY <1>1, <1>2, <1>3 DEF ReaderInv

(* The inductive invariant holds at every step of getLine().               *)
THEOREM ReaderInvHolds == Spec => []ReaderInv
<1>1. ReaderInv /\ [Next]_vars => ReaderInv'
  BY BufferKept, OrderKept, LineKept, ClockKept DEF ReaderInv
<1>2. QED
  BY InitReaderInv, <1>1, PTL DEF Spec

(* A sequence is one over any set its elements are in.                     *)
LEMMA SeqOfElements ==
  ASSUME NEW S, NEW T, NEW s \in Seq(S), \A i \in 1..Len(s) : s[i] \in T
  PROVE  s \in Seq(T)
<1>1. Len(s) \in Nat /\ s \in [1..Len(s) -> S]
  BY LenProperties
<1>2. s = [i \in 1..Len(s) |-> s[i]]
  BY <1>1
<1>3. [i \in 1..Len(s) |-> s[i]] \in Seq(T)
  BY <1>1, IsASeq
<1>4. QED
  BY <1>2, <1>3

(* getLine() stays inside its buffer and the caller's line, and holds      *)
(* nothing but bytes that were sent.                                       *)
THEOREM ReaderTypes == Spec => []TypeOK
<1>1. ReaderInv => TypeOK
  <2> SUFFICES ASSUME ReaderInv PROVE TypeOK
    OBVIOUS
  <2>1. /\ buf \in Seq(Nat) /\ line \in Seq(Nat) /\ sent \in Seq(BOOLEAN)
        /\ Len(buf) \in Nat /\ Len(line) \in Nat /\ Len(sent) \in Nat
        /\ fetched \in 0..Len(sent) /\ Len(buf) <= fetched
    BY DEF ReaderInv, BufferInv, OrderInv, LineInv
  <2>2. buf \in Seq(1..Len(sent))
    <3>1. \A i \in 1..Len(buf) : buf[i] = fetched - Len(buf) + i
      BY DEF ReaderInv, BufferInv
    <3>2. \A i \in 1..Len(buf) : buf[i] \in 1..Len(sent)
      BY <2>1, <3>1
    <3>3. QED
      BY <2>1, <3>2, SeqOfElements
  <2>3. line \in Seq(1..Len(sent))
    <3>1. \A i \in 1..Len(line) : line[i] \in 1..fetched
      BY DEF ReaderInv, OrderInv
    <3>2. \A i \in 1..Len(line) : line[i] \in 1..Len(sent)
      BY <2>1, <3>1
    <3>3. QED
      BY <2>1, <3>2, SeqOfElements
  <2>4. QED
    BY <2>1, <2>2, <2>3 DEF TypeOK, ReaderInv, BufferInv, LineInv, ClockInv
<1>2. QED
  BY ReaderInvHolds, <1>1, PTL

(* Whatever the sizes of buffer and line, however the input comes in and   *)
(* however often a call times out: what calls have handed over or dropped, *)
(* the line in the making and the rest of the buffer are the bytes read,   *)
(* in their order and without a gap.                                       *)
THEOREM NoByteIsLost == Spec => []NothingLost
<1>1. ReaderInv => NothingLost
  <2> SUFFICES ASSUME ReaderInv PROVE NothingLost
    OBVIOUS
  <2> DEFINE making == IF pc = "idle" THEN <<>> ELSE line
             rest == SubSeq(buf, bufStart + 1, bufEnd)
  <2>1. /\ out \in Seq(Nat) /\ making \in Seq(Nat) /\ buf \in Seq(Nat)
        /\ Len(making) = InLine
        /\ \A i \in 1..Len(out) : out[i] = i
        /\ \A i \in 1..Len(making) : making[i] = Len(out) + i
    <3>1. <<>> \in Seq(Nat) /\ Len(<<>>) = 0 /\ 1..0 = {}
      BY EmptySeq
    <3>2. CASE pc = "idle"
      BY <3>1, <3>2 DEF ReaderInv, BufferInv, OrderInv, InLine
    <3>3. CASE pc # "idle"
      BY <3>3 DEF ReaderInv, BufferInv, OrderInv, InLine
    <3>4. QED
      BY <3>2, <3>3
  <2>2. /\ bufStart \in Nat /\ bufEnd \in Nat /\ fetched \in Nat /\ Len(buf) \in Nat
        /\ bufStart <= bufEnd /\ bufEnd <= Len(buf)
        /\ bufStart < bufEnd => bufEnd = Len(buf)
        /\ Len(out) \in Nat /\ Len(making) \in Nat
        /\ Len(out) + Len(making) = fetched - (bufEnd - bufStart)
    <3>1. Len(out) + InLine = fetched - (bufEnd - bufStart)
      BY DEF ReaderInv, OrderInv
    <3>2. Len(out) \in Nat /\ Len(making) \in Nat /\ Len(buf) \in Nat
      BY <2>1
    <3>3. /\ bufStart \in Nat /\ bufEnd \in Nat /\ fetched \in Nat
          /\ bufStart <= bufEnd /\ bufEnd <= Len(buf)
          /\ bufStart < bufEnd => bufEnd = Len(buf)
      <4>1. fetched \in 0..Len(sent) /\ Len(sent) \in Nat
        BY DEF ReaderInv, BufferInv, LineInv
      <4>2. QED
        BY <4>1 DEF ReaderInv, BufferInv
    <3>4. Len(making) = InLine
      BY <2>1
    <3>5. QED
      BY ONLY <3>1, <3>2, <3>3, <3>4
  <2> HIDE DEF making
  <2>3. /\ rest \in Seq(Nat) /\ Len(rest) = bufEnd - bufStart
        /\ \A i \in 1..bufEnd - bufStart : rest[i] = buf[bufStart + i]
    <3>1. /\ bufStart + 1 \in Int /\ bufEnd \in Int
          /\ \A i \in bufStart + 1..bufEnd : i \in 1..Len(buf)
      BY <2>2
    <3>2. \A i \in bufStart + 1..bufEnd : buf[i] \in Nat
      BY <2>1, <3>1, ElementOfSeq
    <3> HIDE DEF rest
    <3>3. /\ rest \in Seq(Nat)
          /\ Len(rest) = IF bufStart + 1 <= bufEnd THEN bufEnd - (bufStart + 1) + 1 ELSE 0
          /\ \A i \in 1..bufEnd - (bufStart + 1) + 1 : rest[i] = buf[bufStart + 1 + i - 1]
      BY <3>1, <3>2, SubSeqProperties DEF rest
    <3>6. /\ bufEnd - (bufStart + 1) + 1 = bufEnd - bufStart
          /\ Len(rest) = bufEnd - bufStart
      BY <2>2, <3>3
    <3>4. ASSUME NEW i \in 1..bufEnd - bufStart
          PROVE  rest[i] = buf[bufStart + i]
      <4>1. bufStart + 1 + i - 1 = bufStart + i
        BY <2>2
      <4>2. QED
        BY <3>3, <3>6, <4>1
    <3>5. QED
      BY <3>3, <3>4, <3>6
  <2> HIDE DEF rest
  <2> DEFINE both == out \o making
  <2>4. /\ both \in Seq(Nat) /\ Len(both) = Len(out) + Len(making)
        /\ \A i \in 1..Len(both) : both[i] = i
    BY <2>1, LineIsAppended
  <2> HIDE DEF both
  <2>5. \A i \in 1..Len(rest) : rest[i] = Len(both) + i
    <3>1. ASSUME NEW i \in 1..Len(rest)
          PROVE  rest[i] = Len(both) + i
      <4>1. i \in 1..bufEnd - bufStart /\ bufEnd = Len(buf) /\ bufStart + i \in 1..Len(buf)
        <5>1. i \in 1..bufEnd - bufStart
          BY <2>3, Zenon
        <5>2. QED
          BY <2>2, <5>1
      <4>2. rest[i] = fetched - Len(buf) + (bufStart + i)
        BY <2>3, <4>1 DEF ReaderInv, BufferInv
      <4>3. Len(both) = fetched - (bufEnd - bufStart)
        BY <2>2, <2>4
      <4>4. i \in Nat
        BY <4>1
      <4>5. QED
        BY <2>2, <4>1, <4>2, <4>3, <4>4
    <3>2. QED
      BY <3>1
  <2>6. /\ both \o rest \in Seq(Nat) /\ Len(both \o rest) = fetched
        /\ \A i \in 1..fetched : (both \o rest)[i] = i
    <3>1. Len(both) + Len(rest) = fetched
      BY <2>2, <2>3, <2>4
    <3>2. QED
      BY <2>3, <2>4, <2>5, <3>1, LineIsAppended
  <2>7. /\ Positions(fetched) \in Seq(Nat) /\ Len(Positions(fetched)) = fetched
        /\ \A i \in 1..fetched : Positions(fetched)[i] = i
    BY <2>2 DEF Positions
  <2>8. both \o rest = Positions(fetched)
    BY <2>6, <2>7, SeqEqual
  <2>9. QED
    BY <2>8 DEF NothingLost, both, making, rest
<1>2. QED
  BY ReaderInvHolds, <1>1, PTL

(* A call that returns a length returns a line: nothing before its end is  *)
(* a newline, and it ends in one unless the array is full or the input is  *)
(* over.  That the sender writes on, closes or breaks the connection after *)
(* the call does not change what was returned.                             *)
THEOREM LinesEndOnce == Spec => []LinesAreLines
<1>1. Init => LinesAreLines
  BY DEF Init, LinesAreLines
<1>2. ReaderInv /\ LinesAreLines /\ [Next]_vars => LinesAreLines'
  <2> SUFFICES ASSUME ReaderInv, LinesAreLines, [Next]_vars,
                      pc' = "idle", result' > 0
               PROVE  /\ result' = Len(line')
                      /\ \A i \in 1..result' - 1 : ~sent'[line'[i]]
                      /\ \/ sent'[line'[result']] \/ result' = maxLen - 1
                         \/ end' = "closed" /\ fetched' = Len(sent')
    BY DEF LinesAreLines
  <2>1. /\ sent \in Seq(BOOLEAN) /\ line \in Seq(Nat) /\ Len(line) \in Nat
        /\ Len(sent) \in Nat /\ fetched \in 0..Len(sent)
        /\ \A i \in 1..Len(line) : line[i] \in 1..fetched
        /\ maxLen \in Nat /\ Len(line) < maxLen /\ result \in Int
    BY SizesAssumption DEF ReaderInv, BufferInv, LineInv, OrderInv
  (* What a step of the sender leaves of what was returned.                *)
  <2>2. ASSUME pc = "idle", UNCHANGED <<line, result, fetched>>,
               sent' \in Seq(BOOLEAN),
               \A i \in 1..fetched : sent'[i] = sent[i],
               end = "closed" => UNCHANGED <<end, sent>>
        PROVE  /\ result' = Len(line')
               /\ \A i \in 1..result' - 1 : ~sent'[line'[i]]
               /\ \/ sent'[line'[result']] \/ result' = maxLen - 1
                  \/ end' = "closed" /\ fetched' = Len(sent')
    <3>1. /\ result = Len(line) /\ \A i \in 1..result - 1 : ~sent[line[i]]
          /\ \/ sent[line[result]] \/ result = maxLen - 1
             \/ end = "closed" /\ fetched = Len(sent)
      BY <2>2 DEF LinesAreLines
    <3>2. \A i \in 1..result : sent'[line'[i]] = sent[line[i]]
      BY <2>1, <2>2, <3>1
    <3>3. result \in 1..result /\ \A i \in 1..result - 1 : i \in 1..result
      BY <2>1, <2>2
    <3>4. QED
      BY <2>2, <3>1, <3>2, <3>3
  <2>3. CASE TakeByte
    <3> DEFINE byte == buf[bufStart + 1]
    <3>1. /\ pc = "loop" /\ line' = Append(line, byte) /\ byte \in Nat
          /\ UNCHANGED socket
          /\ EndsLine(byte) \/ ~RoomLeft(line')
          /\ result' = Len(line')
      BY <2>3, NextByte DEF TakeByte, Return
    <3> HIDE DEF byte
    <3>2. /\ Len(line') = Len(line) + 1
          /\ \A i \in 1..Len(line) : line'[i] = line[i]
          /\ line'[Len(line) + 1] = byte
      BY <2>1, <3>1
    <3>3. Len(line) < maxLen - 1 /\ \A i \in 1..Len(line) : ~sent[line[i]]
      BY <3>1 DEF ReaderInv, LineInv
    <3>4. \A i \in 1..result' - 1 : ~sent'[line'[i]]
      BY <2>1, <3>1, <3>2, <3>3 DEF socket
    <3>5. sent'[line'[result']] \/ result' = maxLen - 1
      BY <2>1, <3>1, <3>2, <3>3 DEF EndsLine, RoomLeft, socket
    <3>6. QED
      BY <3>1, <3>4, <3>5
  <2>4. CASE SelectTimesOut \/ ReadFails
    BY <2>4 DEF SelectTimesOut, ReadFails, Return
  <2>5. CASE ReadEnd
    <3>1. /\ pc = "read" /\ UNCHANGED <<line, socket, fetched>> /\ result' = Len(line)
          /\ end = "closed" /\ fetched = Len(sent)
      BY <2>5 DEF ReadEnd, Return
    <3>2. \A i \in 1..Len(line) : ~sent[line[i]]
      BY <3>1 DEF ReaderInv, LineInv
    <3>3. \A i \in 1..Len(line) - 1 : i \in 1..Len(line)
      BY <2>1
    <3>4. QED
      BY <3>1, <3>2, <3>3 DEF socket
  <2>6. CASE GetLine \/ StartWait \/ ReadNow \/ SelectReady \/ ReadSome
    BY <2>6 DEF GetLine, StartWait, ReadNow, SelectReady, ReadSome
  <2>7. CASE Send
    <3>1. PICK newline \in BOOLEAN : sent' = Append(sent, newline)
      BY <2>7 DEF Send
    <3>2. sent' \in Seq(BOOLEAN) /\ \A i \in 1..fetched : sent'[i] = sent[i]
      BY <2>1, <3>1
    <3>3. end = "open" /\ UNCHANGED <<line, result, fetched, pc>>
      BY <2>7 DEF Send, buffer, call
    <3>4. QED
      BY <2>2, <3>2, <3>3
  <2>8. CASE Shut
    BY <2>1, <2>2, <2>8 DEF Shut, buffer, call
  <2>9. CASE Break
    <3>1. sent' = SubSeq(sent, 1, fetched) /\ end = "open"
          /\ UNCHANGED <<line, result, fetched, pc>>
      BY <2>9 DEF Break, buffer, call
    <3>2. sent' \in Seq(BOOLEAN) /\ \A i \in 1..fetched : sent'[i] = sent[i]
      BY <2>1, <3>1
    <3>3. QED
      BY <2>2, <3>1, <3>2
  <2>10. CASE Tick
    BY <2>1, <2>2, <2>10 DEF Tick, socket, buffer
  <2>11. CASE UNCHANGED vars
    BY <2>1, <2>2, <2>11 DEF vars, socket, buffer, call
  <2>12. QED
    BY <2>3, <2>4, <2>5, <2>6, <2>7, <2>8, <2>9, <2>10, <2>11 DEF Next, Reader
<1>3. QED
  BY ReaderInvHolds, <1>1, <1>2, PTL DEF Spec

(* 0 is returned only when the input is over, and then every byte of it    *)
(* has been handed over or dropped by a call: nothing is left in the       *)
(* buffer or in the line.                                                  *)
THEOREM ZeroMeansTheEnd == Spec => ZeroIsTheEnd
<1>1. ReaderInv /\ ReaderInv' /\ [Next]_vars =>
        [pc # "idle" /\ pc' = "idle" /\ result' = 0 =>
           end = "closed" /\ fetched = Len(sent) /\ Len(out') = fetched]_vars
  <2> SUFFICES ASSUME ReaderInv, ReaderInv', Next,
                      pc # "idle", pc' = "idle", result' = 0
               PROVE  end = "closed" /\ fetched = Len(sent) /\ Len(out') = fetched
    OBVIOUS
  <2>1. CASE TakeByte
    <3>1. result' = Len(line')
      BY <2>1 DEF TakeByte, Return
    <3>2. line' = Append(line, buf[bufStart + 1]) /\ line \in Seq(Nat)
          /\ buf[bufStart + 1] \in Nat
      BY <2>1, NextByte DEF TakeByte, ReaderInv, OrderInv
    <3>3. Len(line') = Len(line) + 1 /\ Len(line) \in Nat
      BY <3>2
    <3>4. QED
      BY <3>1, <3>3
  <2>2. CASE ReadEnd
    <3>1. /\ end = "closed" /\ fetched = Len(sent) /\ fetched' = fetched
          /\ bufStart' = 0 /\ bufEnd' = 0
      BY <2>2 DEF ReadEnd
    <3>2. out' \in Seq(Nat) /\ Len(out') + 0 = fetched' - (bufEnd' - bufStart')
      BY DEF ReaderInv, OrderInv, InLine
    <3>3. Len(out') \in Nat /\ fetched \in Nat
      BY <3>2 DEF ReaderInv, BufferInv
    <3>4. QED
      BY <3>1, <3>2, <3>3
  <2>3. CASE SelectTimesOut \/ ReadFails
    BY <2>3 DEF SelectTimesOut, ReadFails, Return
  <2>4. CASE GetLine \/ StartWait \/ ReadNow \/ SelectReady \/ ReadSome
    BY <2>4 DEF GetLine, StartWait, ReadNow, SelectReady, ReadSome
  <2>5. CASE Send \/ Shut \/ Break \/ Tick
    BY <2>5 DEF Send, Shut, Break, Tick
  <2>6. QED
    BY <2>1, <2>2, <2>3, <2>4, <2>5 DEF Next, Reader
<1>2. QED
  BY ReaderInvHolds, <1>1, PTL DEF Spec, ZeroIsTheEnd

(* Although the clock is unsigned and its difference to the limit wraps    *)
(* around, no call gives up before its limit has passed.                   *)
THEOREM NoLimitIsCutShort == Spec => WaitsLongEnough
<1>1. ReaderInv /\ [Next]_vars =>
        [pc = "select" /\ pc' = "idle" => waited + delayed >= timeoutMicros]_vars
  <2> SUFFICES ASSUME ReaderInv, Next, pc = "select", pc' = "idle"
               PROVE  waited + delayed >= timeoutMicros
    OBVIOUS
  <2>1. CASE SelectTimesOut
    <3>1. /\ WORD \in Nat \ {0} /\ timeoutMicros \in Nat /\ timeoutMicros < WORD
          /\ waited \in Nat /\ delayed \in Nat /\ timeLeft = 0
          /\ (waited + delayed + timeLeft - timeoutMicros) % WORD = 0
      BY <2>1, SizesAssumption DEF SelectTimesOut, ReaderInv, ClockInv
    <3>2. /\ waited + delayed \in Nat
          /\ waited + delayed + timeLeft - timeoutMicros = (waited + delayed) - timeoutMicros
      BY <3>1
    <3>3. ((waited + delayed) - timeoutMicros) % WORD = 0
      BY <3>1, <3>2
    <3>4. QED
      BY <3>1, <3>2, <3>3, ModReached
  <2>2. CASE GetLine \/ TakeByte \/ StartWait \/ ReadNow \/ SelectReady
    BY <2>2 DEF GetLine, TakeByte, StartWait, ReadNow, SelectReady
  <2>3. CASE ReadSome \/ ReadEnd \/ ReadFails
    BY <2>3 DEF ReadSome, ReadEnd, ReadFails
  <2>4. CASE Send \/ Shut \/ Break \/ Tick
    BY <2>4 DEF Send, Shut, Break, Tick
  <2>5. QED
    BY <2>1, <2>2, <2>3, <2>4 DEF Next, Reader
<1>2. QED
  BY ReaderInvHolds, <1>1, PTL DEF Spec, WaitsLongEnough
=============================================================================
