--------------------------- MODULE TransferProofs ---------------------------
(***************************************************************************)
(* Proofs about module Transfer, for payloads, headers and a flow control  *)
(* window of any size, and any number of calls and of futures dropped.     *)
(***************************************************************************)
EXTENDS Transfer, TLAPS

(***************************************************************************)
(* The inductive invariant.                                                *)
(***************************************************************************)

(* QUIC has taken the bytes in order, and what is left of the WriteBuf is  *)
(* exactly what follows them, up to the last byte handed over.  The        *)
(* payload is not touched before the header is through.                    *)
Left(w) ==
  /\ Len(sent) = w.at + w.pos + w.taken
  /\ accepted = w.at + w.len + w.payload
  /\ w.taken # 0 => w.pos = w.len
InOrder ==
  /\ sent = Bytes(Len(sent))
  /\ writing = None => Len(sent) = accepted
  /\ writing # None => Left(writing)

(* Where a call is, what it works on and what it has said.                 *)
CallInv ==
  /\ pc \in {"ready", "send", "write"} => frame # None
  /\ pc = "send" => writing = None
  /\ pc # "idle" => result # "Ok"
  /\ pc = "finish" => phase = "over"
  /\ frame # None /\ frame.type = "GREASE" => phase = "over"

(* The end is announced, and then seen, after the last byte.               *)
EndInv ==
  /\ fin => pc = "idle" /\ phase = "over" /\ writing = None
  /\ told = "fin" => fin /\ read = Len(sent)

IInv == TypeOK /\ InOrder /\ CallInv /\ EndInv /\ NeverMisused /\ OkMeansWritten

(***************************************************************************)
(* WriteBuf and sequences of bytes.                                        *)
(***************************************************************************)

(* The lesser of two numbers.                                              *)
LEMMA MinOfTwo ==
  ASSUME NEW a \in Int, NEW b \in Int
  PROVE  Min({a, b}) \in {a, b} /\ Min({a, b}) <= a /\ Min({a, b}) <= b
<1>1. \E x \in {a, b} : \A y \in {a, b} : x <= y OBVIOUS
<1>2. Min({a, b}) \in {a, b} /\ \A y \in {a, b} : Min({a, b}) <= y BY <1>1, Zenon DEF Min
<1> QED BY <1>2

(* A buffer in the states the invariant allows.                            *)
Sound(w) == /\ w \in WriteBufs /\ w.pos <= w.len /\ w.taken <= w.payload
            /\ w.taken # 0 => w.pos = w.len

(* chunk() begins with the first byte that was not written yet, and has    *)
(* one as long as remaining() is not 0; it does not leave the buffer.      *)
LEMMA ChunkIsNext ==
  ASSUME NEW w, Sound(w), has_remaining(w)
  PROVE  \E size \in Nat \ {0} :
           /\ chunk(w) = [i \in 1 .. size |-> w.at + w.pos + w.taken + i]
           /\ w.pos < w.len => size = w.len - w.pos
           /\ w.pos >= w.len => size = w.payload - w.taken
<1>1. /\ w.at \in Nat /\ w.pos \in Nat /\ w.len \in Nat /\ w.payload \in Nat /\ w.taken \in Nat
      /\ w.pos <= w.len /\ w.taken <= w.payload /\ (w.taken # 0 => w.pos = w.len)
  BY DEF Sound, WriteBufs
<1>2. CASE w.pos < w.len
  <2>1. chunk(w) = [i \in 1 .. (w.len - w.pos) |-> w.at + w.pos + i] BY <1>2 DEF chunk
  <2>2. w.taken = 0 /\ w.len - w.pos \in Nat \ {0} BY <1>1, <1>2
  <2>3. \A i \in 1 .. (w.len - w.pos) : w.at + w.pos + w.taken + i = w.at + w.pos + i
    BY <1>1, <2>2
  <2>4. chunk(w) = [i \in 1 .. (w.len - w.pos) |-> w.at + w.pos + w.taken + i]
    BY <2>1, <2>3
  <2> QED BY <1>1, <1>2, <2>2, <2>4
<1>3. CASE ~(w.pos < w.len)
  <2>1. chunk(w) = [i \in 1 .. (w.payload - w.taken) |-> w.at + (w.len + w.taken) + i]
    BY <1>3 DEF chunk
  <2>2. w.pos = w.len /\ w.payload - w.taken \in Nat \ {0} BY <1>1, <1>3 DEF has_remaining
  <2>3. \A i \in 1 .. (w.payload - w.taken) :
           w.at + w.pos + w.taken + i = w.at + (w.len + w.taken) + i
    BY <1>1, <2>2
  <2>4. chunk(w) = [i \in 1 .. (w.payload - w.taken) |-> w.at + w.pos + w.taken + i]
    BY <2>1, <2>3
  <2> QED BY <1>1, <1>3, <2>2, <2>4
<1> QED BY <1>2, <1>3

(* advance() by no more than the chunk keeps the buffer, n bytes on.       *)
LEMMA AdvanceMoves ==
  ASSUME NEW w, Sound(w), NEW n \in Nat,
         w.pos < w.len => n <= w.len - w.pos,
         w.pos >= w.len => n <= w.payload - w.taken
  PROVE  /\ Sound(advance(w, n))
         /\ advance(w, n).at = w.at /\ advance(w, n).len = w.len
         /\ advance(w, n).payload = w.payload
         /\ advance(w, n).pos + advance(w, n).taken = w.pos + w.taken + n
<1>1. /\ w.at \in Nat /\ w.pos \in Nat /\ w.len \in Nat /\ w.payload \in Nat /\ w.taken \in Nat
      /\ w.pos <= w.len /\ w.taken <= w.payload /\ (w.taken # 0 => w.pos = w.len)
      /\ w \in WriteBufs
  BY DEF Sound, WriteBufs
<1> DEFINE head == Min({n, w.len - w.pos})
<1>2. head \in {n, w.len - w.pos} /\ head <= n /\ head <= w.len - w.pos
  <2>1. n \in Int /\ w.len - w.pos \in Int BY <1>1
  <2> QED BY <2>1, MinOfTwo
<1>3. advance(w, n) = [w EXCEPT !.pos = @ + head, !.taken = @ + (n - head)] BY DEF advance
<1> HIDE DEF head
<1>4. advance(w, n) = [at |-> w.at, pos |-> w.pos + head, len |-> w.len, payload |-> w.payload,
                       taken |-> w.taken + (n - head)]
  BY <1>1, <1>3 DEF WriteBufs
<1>5. head \in Nat /\ n - head \in Nat BY <1>1, <1>2
<1>6. advance(w, n) \in WriteBufs BY <1>1, <1>4, <1>5 DEF WriteBufs
<1>7. /\ w.pos + head <= w.len
      /\ w.taken + (n - head) <= w.payload
      /\ w.taken + (n - head) # 0 => w.pos + head = w.len
      /\ (w.pos + head) + (w.taken + (n - head)) = w.pos + w.taken + n
  BY <1>1, <1>2, <1>5
<1> QED BY <1>4, <1>6, <1>7 DEF Sound

(* A write appends the next bytes.                                         *)
LEMMA BytesAppend ==
  ASSUME NEW m \in Nat, NEW size \in Nat, NEW n \in 0 .. size
  PROVE  Bytes(m) \o SubSeq([i \in 1 .. size |-> m + i], 1, n) = Bytes(m + n)
<1> DEFINE s == SubSeq([i \in 1 .. size |-> m + i], 1, n)
<1>1. s = [i \in 1 .. n |-> m + i] OBVIOUS
<1>2. s \in Seq(Nat) /\ Len(s) = n /\ \A i \in 1 .. n : s[i] = m + i BY <1>1
<1>3. Bytes(m) \in Seq(Nat) /\ Len(Bytes(m)) = m /\ \A i \in 1 .. m : Bytes(m)[i] = i
  BY DEF Bytes
<1> HIDE DEF s
<1> DEFINE b == Bytes(m)
           t == b \o s
<1>4. b \in Seq(Nat) /\ Len(b) = m /\ \A i \in 1 .. m : b[i] = i BY <1>3
<1> HIDE DEF b
<1>5. t \in Seq(Nat) /\ Len(t) = m + n BY <1>2, <1>4
<1>6. \A i \in 1 .. m : t[i] = i BY <1>2, <1>4
<1>7. \A i \in (m + 1) .. (m + n) : t[i] = i
  <2> SUFFICES ASSUME NEW i \in (m + 1) .. (m + n) PROVE t[i] = i OBVIOUS
  <2>1. i - m \in 1 .. n /\ m + (i - m) = i OBVIOUS
  <2>2. t[i] = s[i - m] BY <1>2, <1>4
  <2> QED BY <1>2, <2>1, <2>2
<1> HIDE DEF t
<1>8. DOMAIN t = 1 .. (m + n) /\ t = [i \in DOMAIN t |-> t[i]] BY <1>5
<1>9. \A i \in 1 .. (m + n) : t[i] = i BY <1>6, <1>7
<1>10. t = [i \in 1 .. (m + n) |-> i] BY <1>8, <1>9
<1> QED BY <1>10 DEF t, b, s, Bytes

(* What is known about the first n bytes.                                  *)
LEMMA BytesFacts ==
  ASSUME NEW n \in Nat
  PROVE  /\ Bytes(n) \in Seq(Nat) /\ Len(Bytes(n)) = n
         /\ \A m \in 0 .. n : /\ IsPrefix(Bytes(m), Bytes(n))
                              /\ SubSeq(Bytes(n), 1, m) = Bytes(m)
                              /\ m # n => IsStrictPrefix(Bytes(m), Bytes(n))
<1>1. Bytes(n) \in Seq(Nat) /\ Len(Bytes(n)) = n BY DEF Bytes
<1>2. ASSUME NEW m \in 0 .. n
      PROVE  /\ IsPrefix(Bytes(m), Bytes(n))
             /\ SubSeq(Bytes(n), 1, m) = Bytes(m)
             /\ m # n => IsStrictPrefix(Bytes(m), Bytes(n))
  BY <1>2 DEF Bytes, IsPrefix, IsStrictPrefix
<1> QED BY <1>1, <1>2

(***************************************************************************)
(* Type correctness.                                                       *)
(***************************************************************************)

(* The types of the buffer, which has its own part of TypeOK.              *)
Buffers == {w \in WriteBufs : w.pos <= w.len /\ w.taken <= w.payload}

(* The types hold at the start.                                            *)
LEMMA InitType == Init => TypeOK
<1> SUFFICES ASSUME Init PROVE TypeOK OBVIOUS
<1>1. Len(<<>>) = 0 /\ <<>> \in Seq(Nat) OBVIOUS
<1>2. read \in 0 .. Len(sent) /\ Len(sent) - read <= Window
  BY <1>1, SizesAssumption DEF Init
<1>3. send_grease_frame \in BOOLEAN BY BoundAssumption DEF Init
<1> QED BY <1>1, <1>2, <1>3 DEF Init, TypeOK

(* A frame makes a whole buffer, of which nothing is written.              *)
LEMMA WriteBufType ==
  ASSUME NEW at \in Nat, NEW f \in Frames
  PROVE  /\ WriteBuf(at, f) \in Buffers /\ Sound(WriteBuf(at, f))
         /\ WriteBuf(at, f).at = at /\ WriteBuf(at, f).pos = 0 /\ WriteBuf(at, f).taken = 0
         /\ WriteBuf(at, f).len = encode_frame_header(f)
         /\ WriteBuf(at, f).payload = f.payload
         /\ encode_frame_header(f) \in Nat /\ f.payload \in Nat
<1>1. encode_frame_header(f) \in Nat /\ f.payload \in Nat
  BY SizesAssumption DEF encode_frame_header, Frames
<1> QED BY <1>1 DEF WriteBuf, WriteBufs, Buffers, Sound

(* poll_write takes n bytes of the chunk: what it leaves is a buffer, and  *)
(* QUIC has the next n bytes.                                              *)
LEMMA PollWriteMoves ==
  ASSUME TypeOK, InOrder, NEW n, PollWrite(n)
  PROVE  /\ n \in Nat \ {0} /\ n <= Window - (Len(sent) - read)
         /\ writing' \in Buffers /\ writing' # None
         /\ writing # None /\ Left(writing)'
         /\ sent' = Bytes(Len(sent) + n) /\ Len(sent') = Len(sent) + n
<1>1. /\ writing # None /\ has_remaining(writing)
      /\ n \in 1 .. Min({Len(chunk(writing)), Room})
      /\ sent' = sent \o SubSeq(chunk(writing), 1, n)
      /\ writing' = advance(writing, n)
      /\ accepted' = accepted
  BY DEF PollWrite
<1>2. Sound(writing) BY <1>1 DEF Sound, TypeOK, InOrder, Left
<1>3. PICK size \in Nat \ {0} :
           /\ chunk(writing) = [i \in 1 .. size |-> writing.at + writing.pos + writing.taken + i]
           /\ writing.pos < writing.len => size = writing.len - writing.pos
           /\ writing.pos >= writing.len => size = writing.payload - writing.taken
  BY <1>1, <1>2, ChunkIsNext
<1>4. Len(sent) \in Nat /\ read \in Nat /\ Window \in Nat /\ accepted \in Nat
  BY SizesAssumption DEF TypeOK
<1>5. Len(chunk(writing)) = size
  <2> HIDE DEF chunk
  <2> QED BY <1>3
<1>6. n \in Nat \ {0} /\ n <= size /\ n <= Window - (Len(sent) - read)
  <2> DEFINE room == Window - (Len(sent) - read)
  <2>1. Room = room /\ room \in Int BY <1>4 DEF Room
  <2> HIDE DEF room
  <2>2. n \in 1 .. Min({size, room}) BY <1>1, <1>5, <2>1
  <2>3. Min({size, room}) \in Int /\ Min({size, room}) <= size /\ Min({size, room}) <= room
    <3>1. size \in Int /\ room \in Int BY <2>1
    <3> QED BY <3>1, MinOfTwo
  <2>4. n \in Nat \ {0} /\ n <= size /\ n <= room BY <2>1, <2>2, <2>3
  <2> QED BY <2>4 DEF room
<1>7. /\ Sound(writing') /\ writing'.at = writing.at /\ writing'.len = writing.len
      /\ writing'.payload = writing.payload
      /\ writing'.pos + writing'.taken = writing.pos + writing.taken + n
  BY <1>1, <1>2, <1>3, <1>6, AdvanceMoves
<1>8. writing' \in Buffers /\ writing' # None
  BY <1>7, NoneAssumption DEF Sound, Buffers
<1>9. sent = Bytes(Len(sent)) /\ Len(sent) = writing.at + writing.pos + writing.taken
  BY <1>1 DEF InOrder, Left
<1>10. sent' = Bytes(Len(sent) + n)
  <2>1. sent' = Bytes(Len(sent)) \o SubSeq([i \in 1 .. size |-> Len(sent) + i], 1, n)
    BY <1>1, <1>3, <1>9
  <2>2. n \in 0 .. size BY <1>6
  <2> QED BY <1>4, <2>1, <2>2, BytesAppend
<1>11. Len(sent') = Len(sent) + n BY <1>4, <1>6, <1>10, BytesFacts
<1>12. Left(writing)'
  <2>1. /\ writing.at \in Nat /\ writing.pos \in Nat /\ writing.taken \in Nat
        /\ writing'.at \in Nat /\ writing'.pos \in Nat /\ writing'.taken \in Nat
    BY <1>2, <1>7 DEF Sound, WriteBufs
  <2>2. Len(sent') = writing'.at + writing'.pos + writing'.taken
    <3> DEFINE a == writing.at
               p == writing.pos
               t == writing.taken
               q == writing'.pos
               u == writing'.taken
    <3>1. a \in Nat /\ p \in Nat /\ t \in Nat /\ q \in Nat /\ u \in Nat /\ n \in Nat
      BY <1>6, <2>1
    <3>2. q + u = p + t + n /\ Len(sent') = a + p + t + n BY <1>7, <1>9, <1>11
    <3> HIDE DEF a, p, t, q, u
    <3>3. Len(sent') = a + q + u BY <3>1, <3>2
    <3>4. Len(sent') = writing.at + writing'.pos + writing'.taken BY <3>3 DEF a, q, u
    <3> QED BY <1>7, <3>4
  <2>3. accepted' = writing'.at + writing'.len + writing'.payload
    BY <1>1, <1>7 DEF InOrder, Left
  <2> QED BY <1>7, <2>2, <2>3 DEF Left, Sound
<1> QED BY <1>1, <1>6, <1>8, <1>10, <1>11, <1>12

(* Every step keeps the types: a WriteBuf does not run past its end, and   *)
(* QUIC does not hold more than the window.                                *)
LEMMA NextType ==
  ASSUME TypeOK, InOrder, CallInv, [Next]_vars
  PROVE  TypeOK'
<1>1. ASSUME NEW f \in Frames, NEW then \in {"body", "trailers"}, Call(f, then) PROVE TypeOK'
  BY <1>1 DEF Call, TypeOK, quic, reader
<1>2. ASSUME send_response \/ (\E n \in Payloads : send_data(n)) \/ send_trailers PROVE TypeOK'
  <2>1. \A n \in Payloads : Frame("DATA", n) \in Frames BY SizesAssumption DEF Frame, Frames
  <2>2. Frame("HEADERS", 1) \in Frames BY DEF Frame, Frames
  <2> QED BY <1>1, <1>2, <2>1, <2>2 DEF send_response, send_data, send_trailers
<1>3. CASE finish
  <2>1. GreaseFrame \in Frames BY DEF GreaseFrame, Frame, Frames
  <2>2. frame' \in Frames \cup {None} /\ pc' \in {"ready", "finish"}
    BY <1>3, <2>1 DEF finish
  <2> QED BY <1>3, <2>2 DEF finish, TypeOK, quic, reader
<1>4. CASE HeaderTooBig BY <1>4 DEF HeaderTooBig, TypeOK, quic, reader
<1>5. CASE DropCall BY <1>5 DEF DropCall, TypeOK, quic, reader
<1>6. CASE stop_stream BY <1>6 DEF stop_stream, TypeOK, writer, reader
<1>7. ASSUME NEW n, PollWrite(n) PROVE TypeOK'
  <2>1. /\ n \in Nat \ {0} /\ n <= Window - (Len(sent) - read)
        /\ writing' \in Buffers
        /\ sent' = Bytes(Len(sent) + n) /\ Len(sent') = Len(sent) + n
    BY <1>7, PollWriteMoves
  <2>2. Len(sent) \in Nat /\ read \in 0 .. Len(sent) /\ Window \in Nat
    BY SizesAssumption DEF TypeOK
  <2>3. sent' \in Seq(Nat) /\ read \in 0 .. Len(sent') /\ Len(sent') - read <= Window
    <3>1. Len(sent) + n \in Nat BY <2>1, <2>2
    <3>2. sent' \in Seq(Nat) BY <2>1, <3>1, BytesFacts
    <3>3. read \in 0 .. (Len(sent) + n) /\ (Len(sent) + n) - read <= Window BY <2>1, <2>2
    <3> QED BY <2>1, <3>2, <3>3
  <2> QED BY <1>7, <2>1, <2>3 DEF PollWrite, TypeOK, writer, reader, Buffers
<1>8. CASE PollWriteFails BY <1>8 DEF PollWriteFails, Fail, TypeOK, quic, reader
<1>9. CASE poll_ready BY <1>9 DEF poll_ready, TypeOK, quic, reader
<1>10. CASE HandOver
  <2>1. writing = None /\ frame \in Frames BY <1>10 DEF HandOver, CallInv, TypeOK
  <2>2. /\ writing' = WriteBuf(accepted, frame)
        /\ accepted' = accepted + encode_frame_header(frame) + frame.payload
        /\ pc' = "write"
        /\ UNCHANGED <<frame, send_grease_frame, phase, result, datas, drops, quic, reader>>
    BY <1>10, <2>1 DEF HandOver
  <2>3. accepted \in Nat BY DEF TypeOK
  <2>4. writing' \in Buffers /\ accepted' \in Nat BY <2>1, <2>2, <2>3, WriteBufType
  <2> QED BY <2>2, <2>4 DEF TypeOK, quic, reader, Buffers
<1>11. CASE WriteReturns
  <2>1. writing' = None /\ frame' = None /\ pc' \in {"finish", "idle"}
        /\ send_grease_frame' \in BOOLEAN
    BY <1>11 DEF WriteReturns, Return, TypeOK
  <2> QED BY <1>11, <2>1 DEF WriteReturns, Return, TypeOK, quic, reader
<1>12. CASE poll_finish
  <2>1. writing' = None /\ pc' = "idle" /\ fin' \in BOOLEAN
    BY <1>12 DEF poll_finish, Finish
  <2> QED BY <1>12, <2>1 DEF poll_finish, Finish, TypeOK, reader
<1>13. ASSUME ReadDone
       PROVE  /\ reading' \in BOOLEAN
              /\ pending_stop' \in {StopCode, None} /\ stop' \in {StopCode, None}
  BY <1>13 DEF ReadDone, Stopping, TypeOK
<1>14. ASSUME NEW n, PollData(n) PROVE TypeOK'
  <2>1. n \in 1 .. (Len(sent) - read) /\ read' = read + n /\ ReadDone
        /\ UNCHANGED <<writer, writing, accepted, sent, fin, reset, lost, stopped, asked, told>>
    BY <1>14 DEF PollData
  <2>2. Len(sent) \in Nat /\ read \in 0 .. Len(sent) /\ Window \in Nat
        /\ Len(sent) - read <= Window
    BY SizesAssumption DEF TypeOK
  <2>3. read' \in 0 .. Len(sent') /\ Len(sent') - read' <= Window BY <2>1, <2>2
  <2> QED BY <1>13, <2>1, <2>3 DEF TypeOK, writer
<1>15. CASE PollDataEnds
  BY <1>13, <1>15 DEF PollDataEnds, ReadEnds, TypeOK, writer
<1>16. CASE PollDataPending BY <1>16 DEF PollDataPending, TypeOK, writer, quic
<1>17. CASE stop_sending BY <1>17 DEF stop_sending, Stopping, TypeOK, writer
<1>18. CASE DeliverStop BY <1>18 DEF DeliverStop, TypeOK, writer, reader
<1>19. CASE Lose BY <1>19 DEF Lose, TypeOK, writer, reader
<1>20. CASE UNCHANGED vars BY <1>20 DEF vars, writer, quic, reader, TypeOK
<1> QED BY <1>2, <1>3, <1>4, <1>5, <1>6, <1>7, <1>8, <1>9, <1>10, <1>11, <1>12, <1>14,
           <1>15, <1>16, <1>17, <1>18, <1>19, <1>20 DEF Next, WriterStep, ReaderStep

(***************************************************************************)
(* Order, calls and the end.                                               *)
(***************************************************************************)

(* Nothing was sent, called or ended at the start.                         *)
LEMMA InitOrder == Init => InOrder /\ CallInv /\ EndInv /\ NeverMisused /\ OkMeansWritten
<1> SUFFICES ASSUME Init
             PROVE  InOrder /\ CallInv /\ EndInv /\ NeverMisused /\ OkMeansWritten
  OBVIOUS
<1>1. Bytes(0) = <<>> /\ Len(<<>>) = 0 BY DEF Bytes
<1>2. None # "Ok" /\ None # "InternalError" /\ None # "fin" BY NoneAssumption
<1>3. InOrder BY <1>1 DEF Init, InOrder
<1>4. CallInv /\ NeverMisused /\ OkMeansWritten
  BY <1>2 DEF Init, CallInv, NeverMisused, OkMeansWritten
<1>5. EndInv BY <1>2 DEF Init, EndInv
<1> QED BY <1>3, <1>4, <1>5

(* A buffer that has nothing left has been written to its end.             *)
LEMMA FlushedMeansAll ==
  ASSUME TypeOK, InOrder, Flushed
  PROVE  Len(sent) = accepted
<1>1. CASE writing = None BY <1>1 DEF InOrder
<1>2. CASE writing # None
  <2>1. /\ Len(sent) = writing.at + writing.pos + writing.taken
        /\ accepted = writing.at + writing.len + writing.payload
    BY <1>2 DEF InOrder, Left
  <2>2. ~(writing.pos < writing.len) /\ ~(writing.taken < writing.payload)
    BY <1>2 DEF Flushed, has_remaining
  <2>3. writing.pos = writing.len /\ writing.taken = writing.payload
    BY <1>2, <2>2 DEF TypeOK, WriteBufs
  <2> QED BY <2>1, <2>3
<1> QED BY <1>1, <1>2

(* The steps that touch neither the buffer nor what was sent or accepted.  *)
Elsewhere ==
  \/ send_response \/ (\E n \in Payloads : send_data(n)) \/ send_trailers \/ finish
  \/ HeaderTooBig \/ DropCall \/ stop_stream \/ PollWriteFails \/ ReaderStep
  \/ PollDataPending \/ stop_sending \/ DeliverStop \/ Lose \/ UNCHANGED vars

(* They do not, indeed.                                                    *)
LEMMA ElsewhereKeeps == Elsewhere => UNCHANGED <<writing, accepted, sent>>
BY DEF Elsewhere, send_response, send_data, send_trailers, Call, finish, HeaderTooBig, DropCall,
   stop_stream, PollWriteFails, Fail, ReaderStep, PollData, PollDataEnds, PollDataPending,
   stop_sending, DeliverStop, Lose, vars, quic

(* The whole next-state relation, with those steps put together.           *)
LEMMA NextCases ==
  [Next]_vars => \/ Elsewhere \/ poll_ready \/ HandOver \/ WriteReturns \/ poll_finish
                 \/ \E n \in 1 .. Window : PollWrite(n)
BY DEF Next, WriterStep, Elsewhere

(* Bytes reach QUIC in order, without gaps, whichever future is dropped.   *)
LEMMA NextInOrder ==
  ASSUME TypeOK, InOrder, CallInv, [Next]_vars
  PROVE  InOrder'
<1>1. ASSUME UNCHANGED <<writing, accepted, sent>> PROVE InOrder'
  BY <1>1 DEF InOrder, Left
<1>2. ASSUME Flushed, writing' = None, UNCHANGED <<accepted, sent>> PROVE InOrder'
  <2>1. Len(sent) = accepted BY <1>2, FlushedMeansAll
  <2> QED BY <1>2, <2>1 DEF InOrder
<1>3. ASSUME NEW n, PollWrite(n) PROVE InOrder'
  <2>1. /\ writing' # None /\ Left(writing)'
        /\ sent' = Bytes(Len(sent) + n) /\ Len(sent') = Len(sent) + n
    BY <1>3, PollWriteMoves
  <2> QED BY <2>1 DEF InOrder
<1>4. CASE HandOver
  <2>1. writing = None /\ frame \in Frames BY <1>4 DEF HandOver, CallInv, TypeOK
  <2>2. /\ writing' = WriteBuf(accepted, frame) /\ sent' = sent
        /\ accepted' = accepted + encode_frame_header(frame) + frame.payload
    BY <1>4, <2>1 DEF HandOver, quic
  <2>3. accepted \in Nat /\ Len(sent) = accepted /\ sent = Bytes(Len(sent))
    BY <2>1 DEF TypeOK, InOrder
  <2>4. /\ writing' \in Buffers /\ writing'.at = accepted /\ writing'.pos = 0
        /\ writing'.taken = 0 /\ writing'.len = encode_frame_header(frame)
        /\ writing'.payload = frame.payload
    BY <2>1, <2>2, <2>3, WriteBufType
  <2>5. writing' # None BY <2>4, NoneAssumption DEF Buffers
  <2>6. Len(sent') = writing'.at + writing'.pos + writing'.taken BY <2>2, <2>3, <2>4
  <2>7. accepted' = writing'.at + writing'.len + writing'.payload BY <2>2, <2>4
  <2>8. Left(writing)' BY <2>4, <2>6, <2>7 DEF Left
  <2> QED BY <2>2, <2>3, <2>5, <2>8 DEF InOrder
<1>5. CASE poll_ready BY <1>2, <1>5 DEF poll_ready, quic
<1>6. CASE WriteReturns BY <1>2, <1>6 DEF WriteReturns, Return, quic
<1>7. CASE poll_finish BY <1>2, <1>7 DEF poll_finish, Finish
<1> QED BY <1>1, <1>3, <1>4, <1>5, <1>6, <1>7, NextCases, ElsewhereKeeps

(* A call works on its frame, and hands it over to an empty SendStream.    *)
LEMMA NextCall ==
  ASSUME TypeOK, CallInv, [Next]_vars
  PROVE  CallInv'
<1>0. None # "Ok" /\ None \notin Frames BY NoneAssumption
<1>1. ASSUME UNCHANGED <<pc, frame, phase, result>>, pc # "send" \/ UNCHANGED writing
      PROVE  CallInv'
  BY <1>1 DEF CallInv
<1>2. ASSUME NEW f \in Frames, f.type # "GREASE", NEW then, Call(f, then) PROVE CallInv'
  BY <1>0, <1>2 DEF Call, CallInv
<1>3. ASSUME send_response \/ (\E n \in Payloads : send_data(n)) \/ send_trailers PROVE CallInv'
  <2>1. \A n \in Payloads : Frame("DATA", n) \in Frames /\ Frame("DATA", n).type # "GREASE"
    BY SizesAssumption DEF Frame, Frames
  <2>2. Frame("HEADERS", 1) \in Frames /\ Frame("HEADERS", 1).type # "GREASE"
    BY DEF Frame, Frames
  <2> QED BY <1>2, <1>3, <2>1, <2>2 DEF send_response, send_data, send_trailers
<1>4. CASE finish
  <2>1. GreaseFrame \in Frames BY DEF GreaseFrame, Frame, Frames
  <2>2. /\ phase' = "over" /\ result' = None
        /\ \/ pc' = "ready" /\ frame' = GreaseFrame
           \/ pc' = "finish" /\ frame' = None
    BY <1>4 DEF finish
  <2> QED BY <1>0, <2>1, <2>2 DEF CallInv
<1>5. CASE HeaderTooBig BY <1>5 DEF HeaderTooBig, CallInv
<1>6. ASSUME pc' = "idle", frame' = None PROVE CallInv' BY <1>6 DEF CallInv
<1>7. CASE DropCall BY <1>6, <1>7 DEF DropCall
<1>8. CASE PollWriteFails BY <1>6, <1>8 DEF PollWriteFails, Fail
<1>9. ASSUME NEW n, PollWrite(n) PROVE CallInv'
  <2>1. pc # "send" BY <1>9 DEF PollWrite, CallInv
  <2> QED BY <1>1, <1>9, <2>1 DEF PollWrite, writer
<1>10. CASE poll_ready BY <1>10 DEF poll_ready, CallInv
<1>11. CASE HandOver
  <2>1. writing = None BY <1>11 DEF HandOver, CallInv
  <2> QED BY <1>11, <2>1 DEF HandOver, CallInv
<1>12. CASE WriteReturns
  <2>1. frame # None /\ result # "Ok" BY <1>12 DEF WriteReturns, Return, CallInv
  <2>2. CASE frame.type = "GREASE"
    BY <1>12, <2>1, <2>2 DEF WriteReturns, Return, CallInv
  <2>3. CASE frame.type # "GREASE"
    BY <1>6, <1>12, <2>3 DEF WriteReturns, Return
  <2> QED BY <2>2, <2>3
<1>13. CASE poll_finish BY <1>13 DEF poll_finish, Finish, CallInv
<1>14. CASE stop_stream \/ ReaderStep \/ PollDataPending \/ stop_sending \/ DeliverStop \/ Lose
            \/ UNCHANGED vars
  BY <1>1, <1>14 DEF stop_stream, ReaderStep, PollData, PollDataEnds, PollDataPending,
     stop_sending, DeliverStop, Lose, vars, writer
<1> QED BY <1>3, <1>4, <1>5, <1>7, <1>8, <1>9, <1>10, <1>11, <1>12, <1>13, <1>14
        DEF Next, WriterStep

(* The end is announced after the last byte, and nothing comes after it.   *)
LEMMA NextEnd ==
  ASSUME TypeOK, InOrder, CallInv, EndInv, [Next]_vars
  PROVE  EndInv'
<1>1. ASSUME UNCHANGED <<fin, told, read, sent>>,
             fin => UNCHANGED <<pc, phase, writing>>
      PROVE  EndInv'
  BY <1>1 DEF EndInv
<1>2. ASSUME pc # "idle" PROVE ~fin BY <1>2 DEF EndInv
<1>3. ASSUME send_response \/ (\E n \in Payloads : send_data(n)) \/ send_trailers PROVE EndInv'
  <2>1. phase # "over" /\ UNCHANGED <<fin, told, read, sent>>
    BY <1>3 DEF send_response, send_data, send_trailers, Call, quic, reader
  <2>2. ~fin BY <2>1 DEF EndInv
  <2> QED BY <1>1, <2>1, <2>2
<1>4. CASE finish BY <1>1, <1>4 DEF finish, quic, reader
<1>5. CASE HeaderTooBig \/ stop_stream \/ PollDataPending \/ stop_sending \/ DeliverStop \/ Lose
           \/ UNCHANGED vars
  BY <1>1, <1>5 DEF HeaderTooBig, stop_stream, PollDataPending, stop_sending, DeliverStop, Lose,
     vars, writer, quic, reader
<1>6. CASE DropCall \/ PollWriteFails \/ poll_ready \/ HandOver \/ WriteReturns
  <2>1. pc # "idle" /\ UNCHANGED <<fin, told, read, sent>>
    BY <1>6 DEF DropCall, PollWriteFails, Fail, poll_ready, HandOver, WriteReturns, Return, quic,
       reader
  <2> QED BY <1>1, <1>2, <2>1
<1>7. ASSUME NEW n, PollWrite(n) PROVE EndInv'
  <2>1. pc # "idle" /\ UNCHANGED <<fin, told, read>> BY <1>7 DEF PollWrite, reader
  <2>2. ~fin BY <1>2, <2>1
  <2>3. told # "fin" BY <2>2 DEF EndInv
  <2> QED BY <2>1, <2>2, <2>3 DEF EndInv
<1>8. CASE poll_finish
  <2>1. pc = "finish" /\ pc' = "idle" /\ writing' = None
        /\ UNCHANGED <<phase, told, read, sent>>
    BY <1>8 DEF poll_finish, Finish, reader
  <2>2. phase = "over" BY <2>1 DEF CallInv
  <2>3. ~fin BY <1>2, <2>1
  <2>4. told # "fin" BY <2>3 DEF EndInv
  <2> QED BY <2>1, <2>2, <2>4 DEF EndInv
<1>9. ASSUME NEW n, PollData(n) PROVE EndInv'
  <2>1. told = None /\ UNCHANGED <<pc, phase, writing, fin, told, sent>>
        /\ n \in 1 .. (Len(sent) - read)
    BY <1>9 DEF PollData, writer
  <2>2. told # "fin" BY <2>1, NoneAssumption
  <2> QED BY <2>1, <2>2 DEF EndInv
<1>10. CASE PollDataEnds
  <2>1. told' \in ReadEnds /\ UNCHANGED <<pc, phase, writing, fin, read, sent>>
    BY <1>10 DEF PollDataEnds, writer
  <2>2. told' = "fin" => fin /\ read = Len(sent) BY <2>1 DEF ReadEnds
  <2> QED BY <2>1, <2>2 DEF EndInv
<1> QED BY <1>3, <1>4, <1>5, <1>6, <1>7, <1>8, <1>9, <1>10 DEF Next, WriterStep, ReaderStep

(* What the calls return.                                                  *)
LEMMA NextResult ==
  ASSUME TypeOK, InOrder, CallInv, EndInv, NeverMisused, OkMeansWritten, [Next]_vars
  PROVE  NeverMisused' /\ OkMeansWritten'
<1> USE DEF NeverMisused
<1>0. None # "Ok" /\ None # "InternalError" BY NoneAssumption
<1>1. ASSUME UNCHANGED <<result, accepted, sent>>, pc' = "idle" => pc = "idle" \/ result # "Ok"
      PROVE  NeverMisused' /\ OkMeansWritten'
  BY <1>1 DEF OkMeansWritten
<1>2. ASSUME result' \notin {"Ok", "InternalError"} PROVE NeverMisused' /\ OkMeansWritten'
  BY <1>2 DEF OkMeansWritten
<1>3. ASSUME Flushed, UNCHANGED <<sent, accepted>>, result' # "InternalError"
      PROVE  NeverMisused' /\ OkMeansWritten'
  <2>1. Len(sent) = accepted /\ sent = Bytes(Len(sent)) BY <1>3, FlushedMeansAll DEF InOrder
  <2> QED BY <1>3, <2>1 DEF OkMeansWritten
<1>4. ASSUME send_response \/ (\E n \in Payloads : send_data(n)) \/ send_trailers \/ finish
             \/ HeaderTooBig
      PROVE  NeverMisused' /\ OkMeansWritten'
  BY <1>0, <1>2, <1>4 DEF send_response, send_data, send_trailers, Call, finish, HeaderTooBig
<1>5. CASE DropCall
  <2>1. result # "Ok" BY <1>5 DEF DropCall, CallInv
  <2> QED BY <1>1, <1>5, <2>1 DEF DropCall, quic
<1>6. CASE PollWriteFails
  <2>1. result' = WriteError /\ WriteError # None BY <1>6 DEF PollWriteFails, Fail
  <2> QED BY <1>0, <1>2, <2>1 DEF WriteError
<1>7. ASSUME NEW n, PollWrite(n) PROVE NeverMisused' /\ OkMeansWritten'
  BY <1>7 DEF PollWrite, writer, OkMeansWritten
<1>8. CASE poll_ready BY <1>1, <1>8 DEF poll_ready, quic
<1>9. CASE HandOver
  <2>1. writing = None BY <1>9 DEF HandOver, CallInv
  <2>2. pc' = "write" /\ result' = result BY <1>9, <2>1 DEF HandOver
  <2> QED BY <2>2 DEF OkMeansWritten
<1>10. CASE WriteReturns
  <2>1. result' # "InternalError" BY <1>10 DEF WriteReturns, Return
  <2> QED BY <1>3, <1>10, <2>1 DEF WriteReturns, Return, quic
<1>11. CASE poll_finish
  <2>1. result' # "InternalError" BY <1>11 DEF poll_finish, Finish
  <2> QED BY <1>3, <1>11, <2>1 DEF poll_finish, Finish
<1>12. CASE stop_stream \/ ReaderStep \/ PollDataPending \/ stop_sending \/ DeliverStop \/ Lose
            \/ UNCHANGED vars
  BY <1>1, <1>12 DEF stop_stream, ReaderStep, PollData, PollDataEnds, PollDataPending,
     stop_sending, DeliverStop, Lose, vars, writer, quic
<1> QED BY <1>4, <1>5, <1>6, <1>7, <1>8, <1>9, <1>10, <1>11, <1>12 DEF Next, WriterStep

(***************************************************************************)
(* The theorems.                                                           *)
(***************************************************************************)

(* The inductive invariant holds in every reachable state.                 *)
THEOREM Inductive == Spec => []IInv
<1>1. Init => IInv BY InitType, InitOrder DEF IInv
<1>2. IInv /\ [Next]_vars => IInv'
  <2> SUFFICES ASSUME IInv, [Next]_vars PROVE IInv' OBVIOUS
  <2>1. TypeOK /\ InOrder /\ CallInv /\ EndInv /\ NeverMisused /\ OkMeansWritten BY DEF IInv
  <2>2. TypeOK' /\ InOrder' BY <2>1, NextType, NextInOrder
  <2>3. CallInv' /\ EndInv' BY <2>1, NextCall, NextEnd
  <2>4. NeverMisused' /\ OkMeansWritten' BY <2>1, NextResult
  <2> QED BY <2>2, <2>3, <2>4 DEF IInv
<1> QED BY <1>1, <1>2, PTL DEF Spec

(* Whatever futures are dropped and whatever writes fail, write() never    *)
(* hands a frame to a SendStream that still holds one.                     *)
THEOREM TransportNotMisused == Spec => []NeverMisused
<1>1. IInv => NeverMisused BY DEF IInv
<1> QED BY <1>1, Inductive, PTL

(* When a call returns Ok, QUIC has every byte handed over so far, those   *)
(* of dropped calls included, in order.                                    *)
THEOREM OkAfterAll == Spec => []OkMeansWritten
<1>1. IInv => OkMeansWritten BY DEF IInv
<1> QED BY <1>1, Inductive, PTL

(* The steps of the abstract stream: send_data puts, poll_data delivers    *)
(* and ends, all others are invisible.                                     *)
LEMMA NextStream ==
  ASSUME IInv, [Next]_vars
  PROVE  [Stream!Next]_(Stream!vars)
<1>0. /\ TypeOK /\ InOrder /\ CallInv /\ EndInv
      /\ Len(sent) \in Nat /\ accepted \in Nat /\ read \in 0 .. Len(sent)
      /\ sent = Bytes(Len(sent))
  BY DEF IInv, TypeOK, InOrder
<1>1. Len(sent) <= accepted
  <2>1. CASE writing = None BY <1>0, <2>1 DEF InOrder
  <2>2. CASE writing # None
    <3> DEFINE w == writing
    <3>1. /\ w.at \in Nat /\ w.pos \in Nat /\ w.len \in Nat /\ w.payload \in Nat /\ w.taken \in Nat
          /\ w.pos <= w.len /\ w.taken <= w.payload
      BY <1>0, <2>2 DEF TypeOK, WriteBufs
    <3>2. Len(sent) = w.at + w.pos + w.taken /\ accepted = w.at + w.len + w.payload
      BY <1>0, <2>2 DEF InOrder, Left
    <3> QED BY <3>1, <3>2
  <2> QED BY <2>1, <2>2
<1>2. SubSeq(sent, 1, read) = Bytes(read) BY <1>0, BytesFacts
<1>3. ASSUME UNCHANGED <<accepted, sent, read, told>> PROVE UNCHANGED Stream!vars
  BY <1>3 DEF Stream!vars
<1>4. ASSUME NEW n, PollWrite(n) PROVE UNCHANGED Stream!vars
  <2>1. n \in Nat \ {0} /\ sent' = Bytes(Len(sent) + n) BY <1>0, <1>4, PollWriteMoves
  <2>2. UNCHANGED <<accepted, read, told>> BY <1>4 DEF PollWrite, reader
  <2>3. Len(sent) + n \in Nat /\ read \in 0 .. (Len(sent) + n) BY <1>0, <2>1
  <2>4. SubSeq(sent', 1, read) = Bytes(read) BY <2>1, <2>3, BytesFacts
  <2> QED BY <1>2, <2>2, <2>4 DEF Stream!vars
<1>5. CASE HandOver
  <2>1. writing = None /\ frame \in Frames /\ pc # "idle"
    BY <1>0, <1>5 DEF HandOver, CallInv, TypeOK
  <2>2. /\ accepted' = accepted + encode_frame_header(frame) + frame.payload
        /\ UNCHANGED <<sent, read, told>>
    BY <1>5, <2>1 DEF HandOver, quic, reader
  <2>3. encode_frame_header(frame) \in Nat \ {0} /\ frame.payload \in Nat
    BY <2>1, SizesAssumption DEF encode_frame_header, Frames
  <2>4. accepted' \in Nat /\ accepted < accepted' BY <1>0, <2>2, <2>3
  <2>5. IsStrictPrefix(Bytes(accepted), Bytes(accepted')) BY <1>0, <2>4, BytesFacts
  <2>6. told # "fin" BY <1>0, <2>1 DEF EndInv
  <2>7. Stream!Put BY <2>2, <2>5, <2>6 DEF Stream!Put, Stream!IsStrictPrefix, IsStrictPrefix,
                                             Stream!IsPrefix, IsPrefix
  <2> QED BY <2>7 DEF Stream!Next
<1>6. ASSUME NEW n, PollData(n) PROVE Stream!Next
  <2>1. /\ told = None /\ n \in 1 .. (Len(sent) - read) /\ read' = read + n
        /\ UNCHANGED <<accepted, sent, told>>
    BY <1>6 DEF PollData
  <2>2. read' \in Nat /\ read' <= Len(sent) /\ read < read' /\ read \in Nat
    BY <1>0, <2>1
  <2>3. SubSeq(sent', 1, read') = Bytes(read')
    <3>1. read' \in 0 .. Len(sent) BY <1>0, <2>2
    <3>2. SubSeq(Bytes(Len(sent)), 1, read') = Bytes(read') BY <1>0, <3>1, BytesFacts
    <3> QED BY <1>0, <2>1, <3>2
  <2>4. IsStrictPrefix(Bytes(read), Bytes(read')) BY <2>2, BytesFacts
  <2>5. read' \in 0 .. accepted BY <1>0, <1>1, <2>2
  <2>6. IsPrefix(Bytes(read'), Bytes(accepted)) BY <1>0, <2>5, BytesFacts
  <2>7. Stream!Deliver
    BY <1>2, <2>1, <2>3, <2>4, <2>6 DEF Stream!Deliver, Stream!IsStrictPrefix, IsStrictPrefix,
                                        Stream!IsPrefix, IsPrefix
  <2> QED BY <2>7 DEF Stream!Next
<1>7. CASE PollDataEnds
  <2>1. /\ told = None /\ told' \in ReadEnds
        /\ UNCHANGED <<accepted, sent, read>>
    BY <1>7 DEF PollDataEnds
  <2>2. told' = "broken" \/ (told' = "fin" /\ fin /\ read = Len(sent)) BY <2>1 DEF ReadEnds
  <2>3. fin => Len(sent) = accepted BY <1>0 DEF EndInv, InOrder
  <2>4. told' = "broken" \/ (told' = "fin" /\ SubSeq(sent, 1, read) = Bytes(accepted))
    BY <1>2, <2>2, <2>3
  <2>5. Stream!End BY <2>1, <2>4 DEF Stream!End
  <2> QED BY <2>5 DEF Stream!Next
<1>8. CASE \/ send_response \/ (\E n \in Payloads : send_data(n)) \/ send_trailers \/ finish
           \/ HeaderTooBig \/ DropCall \/ stop_stream \/ PollWriteFails \/ poll_ready
           \/ WriteReturns \/ poll_finish \/ PollDataPending \/ stop_sending \/ DeliverStop
           \/ Lose \/ UNCHANGED vars
  <2>1. UNCHANGED <<accepted, sent, read, told>>
    BY <1>8 DEF send_response, send_data, send_trailers, Call, finish, HeaderTooBig, DropCall,
       stop_stream, PollWriteFails, Fail, poll_ready, WriteReturns, Return, poll_finish, Finish,
       PollDataPending, stop_sending, DeliverStop, Lose, vars, writer, quic, reader
  <2> QED BY <1>3, <2>1
<1> QED BY <1>4, <1>5, <1>6, <1>7, <1>8 DEF Next, WriterStep, ReaderStep

(* The reader gets the bytes handed to send_data, in order and without     *)
(* gaps, and is told of the end only after all of them: Transfer           *)
(* implements ByteStream.                                                  *)
THEOREM Refinement == Spec => ImplementsByteStream
<1>1. Init => Stream!Init
  <2> SUFFICES ASSUME Init PROVE Stream!Init OBVIOUS
  <2>1. Bytes(0) = <<>> /\ SubSeq(<<>>, 1, 0) = <<>> BY DEF Bytes
  <2> QED BY <2>1 DEF Init, Stream!Init
<1>2. IInv /\ [Next]_vars => [Stream!Next]_(Stream!vars) BY NextStream
<1> QED BY <1>1, <1>2, Inductive, PTL DEF Spec, ImplementsByteStream, Stream!Spec
=============================================================================
