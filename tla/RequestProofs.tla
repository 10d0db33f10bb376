---------------------------- MODULE RequestProofs ----------------------------
(***************************************************************************)
(* Theorems about Request: for every sequence of bytes a peer may send,    *)
(* every way of cutting it into chunks, every dropped future and split.    *)
(***************************************************************************)
EXTENDS Request, FrameStreamProofs

(***************************************************************************)
(* The inductive invariant.                                                *)
(***************************************************************************)

(* The reference frames from position b on, and how many of all come       *)
(* before; b beyond the end is that of a DATA frame cut short.             *)
Unread(w, s, b) == IF b <= Len(w) THEN FramesFrom(w)[b] ELSE <<s[Len(s)]>>
CountTo(w, s, b) == Len(s) - Len(Unread(w, s, b))
Aligned(w, s, b) ==
  /\ CountTo(w, s, b) \in Nat
  /\ \A i \in 1 .. Len(Unread(w, s, b)) : s[CountTo(w, s, b) + i] = Unread(w, s, b)[i]
  /\ b > Len(w) => CountTo(w, s, b) >= 1 /\ s[Len(s)].type = Truncated

(* The decoder stands where the reference has a frame begin: at pos, or at *)
(* the end of the DATA frame it is in.                                     *)
Boundary == pos + remaining_data
Count == CountTo(wire, sent, Boundary)
PosInv == Aligned(wire, sent, Boundary)

(* What is left of a DATA frame, and what of the body has been handed out. *)
DataInv ==
  /\ remaining_data # 0 =>
       /\ Count >= 2 /\ sent[Count].type = DATA
       /\ sent[Count].at <= pos /\ EndOf(sent[Count]) = Boundary
       /\ phase # "head"
       /\ expected = None
       /\ phase = "trailers" => TruncatedData
  /\ \A i \in 1 .. Count : sent[i].type = DATA => EndOf(sent[i]) <= Boundary
  /\ body = {q \in BodyBytes : q <= pos}

(* Who waits has a reason to.                                              *)
PollInv ==
  /\ eos => received = Len(wire) /\ ending = "fin"
  /\ expected # None => Hopeless(wire, pos, expected)
  /\ pc \in {"decode", "recv"} => remaining_data = 0
  /\ pc = "recv" => remaining = 0 \/ Decode(wire, pos, received).res = "incomplete"
  /\ pc = "data" => phase = "body" /\ Count >= 2
  /\ pc = "data" /\ remaining_data = 0 => EmptyData

(* What the frames read so far were, by what the caller has been told.     *)
PhaseInv ==
  /\ phase = "head" => Count = 0 /\ trailers = None
  /\ phase # "head" => Count >= 1 /\ sent[1].type = HEADERS /\ Section(1) = "ok"
  /\ phase = "body" => trailers = None
  /\ trailers = None => \A j \in 2 .. Count : sent[j].type = DATA
  /\ trailers # None => /\ Count >= 2 /\ sent[Count].type = HEADERS
                        /\ trailers = Section(Count)
                        /\ \A j \in 2 .. (Count - 1) : sent[j].type = DATA
                        /\ remaining_data = 0
  /\ phase = "trailers" /\ trailers = None =>
       EmptyData \/ TruncatedData \/ (eos /\ pos = Len(wire))

Live == PosInv /\ DataInv /\ PollInv /\ PhaseInv

IInv ==
  /\ TypeOK
  /\ sent = FramesOf(wire)
  /\ outcome # None \/ panicked => pc = "idle"
  /\ outcome = None /\ ~panicked => Live
  /\ OutcomeIsRFCExceptSettings /\ BodyIsFaithful /\ NoneIsTrustworthy

(***************************************************************************)
(* What the peer has sent does not change, nor what it demands.            *)
(***************************************************************************)

(* Field sections stay what they are.                                      *)
LEMMA SectionFixed ==
  ASSUME UNCHANGED <<stream, role>>
  PROVE  \A i : Section(i)' = Section(i)
<1>1. wire' = wire /\ sent' = sent BY DEF stream
<1>2. \A at, len : decode_stateless(at, len)' = decode_stateless(at, len)
  BY <1>1 DEF decode_stateless
<1>3. \A at, len : try_from(at, len)' = try_from(at, len) BY <1>1, <1>2 DEF try_from
<1>4. \A at, len : into_parts(at, len)' = into_parts(at, len) BY <1>1, <1>3 DEF into_parts
<1> QED BY <1>1, <1>3, <1>4 DEF Section

(* What the frames demand, and what is reported of them, stays the same.   *)
LEMMA DemandedFixed ==
  ASSUME UNCHANGED <<stream, role>>
  PROVE  Demanded' = Demanded /\ Reported' = Reported
<1>1. wire' = wire /\ sent' = sent /\ role' = role BY DEF stream
<1>2. \A i : Allowed(i)' <=> Allowed(i) BY <1>1, Zenon DEF Allowed
<1>3. FirstBad' = FirstBad
  <2>1. FirstBad' = CHOOSE i \in 1 .. Len(sent) : ~Allowed(i) /\ \A j \in 1 .. (i - 1) : Allowed(j)
    BY <1>1, SMT DEF FirstBad, Allowed
  <2> QED BY <2>1, Zenon DEF FirstBad
<1>4. NoHeader' = NoHeader BY <1>1, Zenon DEF NoHeader
<1>5. Section(1)' = Section(1) /\ Section(Len(sent))' = Section(Len(sent)) BY <1>1, SectionFixed
<1>6. \A f : ReportedCode(f)' = ReportedCode(f)
  BY <1>1, Zenon DEF ReportedCode, Undecodable, BadCode
<1>7. \A code : OutcomeWith(code)' = OutcomeWith(code)
  BY <1>1, <1>2, <1>4, <1>5, Zenon DEF OutcomeWith
<1> QED BY <1>1, <1>3, <1>6, <1>7, Zenon DEF Demanded, Reported

(* So do the bytes of the body, and what is special about the message.     *)
LEMMA SentFixed ==
  ASSUME UNCHANGED <<stream, role>>
  PROVE  /\ BodyBytes' = BodyBytes
         /\ EmptyData' <=> EmptyData
         /\ TruncatedData' <=> TruncatedData
         /\ QuicOutcome' = QuicOutcome
BY DEF stream, BodyBytes, EmptyData, TruncatedData, QuicOutcome

(***************************************************************************)
(* Steps of the decoder along the reference frames s of the bytes w.       *)
(***************************************************************************)

(* The frames that are left, and those before them.                        *)
LEMMA UnreadType ==
  ASSUME NEW w \in Seq(Byte), NEW s \in Seq(FrameRecord), NEW b \in Nat, Aligned(w, s, b)
  PROVE  /\ Len(Unread(w, s, b)) \in Nat /\ CountTo(w, s, b) \in Nat
         /\ Len(s) = CountTo(w, s, b) + Len(Unread(w, s, b))
         /\ b <= Len(w) => Unread(w, s, b) = FramesFrom(w)[b] /\ Unread(w, s, b) \in Seq(FrameRecord)
         /\ b > Len(w) => Len(s) = CountTo(w, s, b) + 1
<1>1. CASE b <= Len(w)
  <2>1. Unread(w, s, b) = FramesFrom(w)[b] BY <1>1 DEF Unread
  <2>2. Unread(w, s, b) \in Seq(FrameRecord)
    BY <1>1, <2>1, b \in 0 .. Len(w), FramesAhead DEF Ahead
  <2>3. Len(Unread(w, s, b)) \in Nat BY <2>2
  <2> QED BY <1>1, <2>1, <2>2, <2>3 DEF Aligned, CountTo
<1>2. CASE b > Len(w)
  <2>1. Len(Unread(w, s, b)) = 1 BY <1>2 DEF Unread
  <2> QED BY <1>2, <2>1 DEF Aligned, CountTo
<1> QED BY <1>1, <1>2

(* Frames that are left begin at b or later.                               *)
LEMMA UnreadAhead ==
  ASSUME NEW w \in Seq(Byte), NEW s \in Seq(FrameRecord), NEW b \in Nat, Aligned(w, s, b)
  PROVE  \A i \in (CountTo(w, s, b) + 1) .. Len(s) : s[i].type = DATA => s[i].at >= b
<1> DEFINE c == CountTo(w, s, b)
           u == Unread(w, s, b)
<1>1. c \in Nat /\ Len(u) \in Nat /\ Len(s) = c + Len(u) BY UnreadType
<1>2. CASE b <= Len(w)
  <2>1. Ahead(u, b) BY <1>2, b \in 0 .. Len(w), FramesAhead, UnreadType
  <2>2. \A j \in 1 .. Len(u) : s[c + j] = u[j] BY DEF Aligned
  <2> HIDE DEF c, u
  <2>3. \A i \in (c + 1) .. Len(s) : i - c \in 1 .. Len(u) /\ i = c + (i - c) BY <1>1
  <2>4. \A i \in (c + 1) .. Len(s) : s[i] = u[i - c] BY <2>2, <2>3, Zenon
  <2>5. \A i \in (c + 1) .. Len(s) : s[i].at >= b BY <2>1, <2>3, <2>4 DEF Ahead
  <2> QED BY <2>5 DEF c
<1>3. CASE b > Len(w)
  <2>1. s[Len(s)].type # DATA BY <1>3 DEF Aligned, Truncated, DATA
  <2>2. Len(s) = c + 1 BY <1>3, UnreadType
  <2>3. \A i \in (c + 1) .. Len(s) : i = Len(s) BY <1>1, <2>2
  <2> QED BY <2>1, <2>3
<1> QED BY <1>2, <1>3

(* The next frame of the reference.                                        *)
LEMMA NextFrame ==
  ASSUME NEW w \in Seq(Byte), NEW s \in Seq(FrameRecord), NEW p \in 0 .. Len(w),
         Aligned(w, s, p), Len(FramesFrom(w)[p]) >= 1
  PROVE  /\ CountTo(w, s, p) + 1 \in 1 .. Len(s)
         /\ s[CountTo(w, s, p) + 1] = FramesFrom(w)[p][1]
<1>1. p \in Nat /\ p <= Len(w) OBVIOUS
<1>2. /\ CountTo(w, s, p) \in Nat /\ Unread(w, s, p) = FramesFrom(w)[p]
      /\ Len(Unread(w, s, p)) \in Nat /\ Len(s) = CountTo(w, s, p) + Len(Unread(w, s, p))
  BY <1>1, UnreadType
<1>3. 1 \in 1 .. Len(Unread(w, s, p)) BY <1>2
<1> QED BY <1>2, <1>3 DEF Aligned

(* Passing an unknown frame.                                               *)
LEMMA AlignedUnknown ==
  ASSUME NEW w \in Seq(Byte), NEW s \in Seq(FrameRecord),
         NEW p \in 0 .. Len(w), NEW e \in 0 .. Len(w),
         FramesFrom(w)[p] = FramesFrom(w)[e], Aligned(w, s, p)
  PROVE  Aligned(w, s, e) /\ CountTo(w, s, e) = CountTo(w, s, p)
<1>1. Unread(w, s, e) = Unread(w, s, p) BY DEF Unread
<1>2. CountTo(w, s, e) = CountTo(w, s, p) BY <1>1 DEF CountTo
<1>3. ~(e > Len(w)) OBVIOUS
<1> QED BY <1>1, <1>2, <1>3 DEF Aligned

(* The frame f is at p, and the next one is looked for at e.               *)
Leads(w, p, f, e) == FramesFrom(w)[p] = <<f>> \o FramesFrom(w)[e]

(* Passing a frame that is whole.                                          *)
LEMMA AlignedNext ==
  ASSUME NEW w \in Seq(Byte), NEW s \in Seq(FrameRecord),
         NEW p \in 0 .. Len(w), NEW e \in 0 .. Len(w), NEW f \in FrameRecord,
         Leads(w, p, f, e), Aligned(w, s, p)
  PROVE  /\ Aligned(w, s, e) /\ CountTo(w, s, e) = CountTo(w, s, p) + 1
         /\ CountTo(w, s, e) <= Len(s) /\ s[CountTo(w, s, e)] = f
<1> DEFINE c == CountTo(w, s, p)
           u == Unread(w, s, p)
           v == Unread(w, s, e)
<1>0. p \in Nat /\ e \in Nat /\ p <= Len(w) /\ e <= Len(w) /\ ~(e > Len(w)) OBVIOUS
<1>1. u = FramesFrom(w)[p] /\ v = FramesFrom(w)[e] BY <1>0 DEF Unread
<1>2. v \in Seq(FrameRecord) BY <1>1, FramesAhead DEF Ahead
<1>3. c \in Nat /\ Len(u) \in Nat /\ Len(s) = c + Len(u) BY <1>0, UnreadType
<1>4. \A j \in 1 .. Len(u) : s[c + j] = u[j] BY DEF Aligned
<1>5. CountTo(w, s, e) = Len(s) - Len(v) BY DEF CountTo
<1>6. u = <<f>> \o v BY <1>1 DEF Leads
<1> HIDE DEF c, u, v
<1>7. Len(u) = 1 + Len(v) /\ Len(v) \in Nat BY <1>2, <1>6
<1>8. u[1] = f /\ \A j \in 1 .. Len(v) : u[j + 1] = v[j] BY <1>2, <1>6
<1>9. CountTo(w, s, e) = c + 1 BY <1>3, <1>5, <1>7
<1>10. \A j \in 1 .. Len(v) : j + 1 \in 1 .. Len(u) /\ c + (j + 1) = (c + 1) + j BY <1>3, <1>7
<1>11. \A j \in 1 .. Len(v) : s[(c + 1) + j] = v[j] BY <1>4, <1>8, <1>10
<1>12. s[c + 1] = f BY <1>4, <1>7, <1>8
<1>13. Aligned(w, s, e) BY <1>0, <1>3, <1>9, <1>11 DEF Aligned, v
<1> QED BY <1>3, <1>7, <1>9, <1>12, <1>13 DEF c

(* Entering a DATA frame that is cut short.                                *)
LEMMA AlignedCut ==
  ASSUME NEW w \in Seq(Byte), NEW s \in Seq(FrameRecord),
         NEW p \in 0 .. Len(w), NEW e \in Nat, e > Len(w),
         NEW f \in FrameRecord, NEW g \in FrameRecord, g.type = Truncated,
         FramesFrom(w)[p] = <<f, g>>, Aligned(w, s, p)
  PROVE  /\ Aligned(w, s, e) /\ CountTo(w, s, e) = CountTo(w, s, p) + 1
         /\ CountTo(w, s, e) <= Len(s) /\ s[CountTo(w, s, e)] = f
<1> DEFINE c == CountTo(w, s, p)
           u == Unread(w, s, p)
<1>0. p \in Nat /\ p <= Len(w) /\ ~(e <= Len(w)) OBVIOUS
<1>1. u = <<f, g>> BY <1>0 DEF Unread
<1>2. c \in Nat /\ Len(s) = c + Len(u) BY <1>0, UnreadType
<1>3. \A j \in 1 .. Len(u) : s[c + j] = u[j] BY DEF Aligned
<1>4. Unread(w, s, e) = <<s[Len(s)]>> BY <1>0 DEF Unread
<1> HIDE DEF c, u
<1>5. Len(s) = c + 2 /\ s[c + 1] = f /\ s[c + 2] = g BY <1>1, <1>2, <1>3
<1>6. CountTo(w, s, e) = c + 1 BY <1>2, <1>4, <1>5 DEF CountTo
<1>7. \A j \in 1 .. 1 : s[(c + 1) + j] = <<s[Len(s)]>>[j] BY <1>2, <1>5
<1>8. Len(<<s[Len(s)]>>) = 1 OBVIOUS
<1>9. Aligned(w, s, e) BY <1>2, <1>4, <1>5, <1>6, <1>7, <1>8 DEF Aligned
<1> QED BY <1>2, <1>5, <1>6, <1>9 DEF c

(***************************************************************************)
(* What the frames demand.                                                 *)
(***************************************************************************)

(* The first frame that is not allowed, when all before it are.            *)
LEMMA FirstBadIs ==
  ASSUME sent \in Seq(FrameRecord), NEW k \in 1 .. Len(sent), ~Allowed(k),
         \A j \in 1 .. (k - 1) : Allowed(j)
  PROVE  FirstBad = k
<1> DEFINE P(i) == ~Allowed(i) /\ \A j \in 1 .. (i - 1) : Allowed(j)
<1>1. P(k) OBVIOUS
<1>2. \A i \in 1 .. Len(sent) : P(i) => i = k
  <2> SUFFICES ASSUME NEW i \in 1 .. Len(sent), P(i), i # k PROVE FALSE OBVIOUS
  <2>1. CASE i < k BY <2>1, i \in 1 .. (k - 1)
  <2>2. CASE i > k BY <2>2, k \in 1 .. (i - 1)
  <2> QED BY <2>1, <2>2
<1>3. FirstBad \in 1 .. Len(sent) /\ P(FirstBad) BY <1>1, Zenon DEF FirstBad
<1> QED BY <1>2, <1>3

(* A message whose k-th frame is the first that is not allowed ends with   *)
(* the error of that frame.                                                *)
LEMMA DemandsError ==
  ASSUME sent \in Seq(FrameRecord), NEW k \in 1 .. Len(sent), ~Allowed(k),
         \A j \in 1 .. (k - 1) : Allowed(j), k = 1 \/ Section(1) = "ok"
  PROVE  Reported = Conn(ReportedCode(sent[k]))
<1>1. FirstBad = k BY FirstBadIs
<1>2. sent # <<>> OBVIOUS
<1>3. ~(Allowed(1) /\ Section(1) # "ok") OBVIOUS
<1>4. \E i \in 1 .. Len(sent) : ~Allowed(i) OBVIOUS
<1> QED BY <1>1, <1>2, <1>3, <1>4, Zenon DEF Reported, OutcomeWith

(* The frames that were read are allowed.                                  *)
LEMMA ReadAllowed ==
  ASSUME TypeOK, Live
  PROVE  \A j \in 1 .. Count : Allowed(j)
<1>1. Count \in Nat BY DEF Live, PosInv, Aligned, Count
<1>2. phase = "head" => Count = 0 BY DEF Live, PhaseInv
<1>3. phase # "head" => sent[1].type = HEADERS BY DEF Live, PhaseInv
<1>4. \A j \in 2 .. (Count - 1) : sent[j].type = DATA BY <1>1 DEF Live, PhaseInv
<1>5. Count >= 2 => sent[Count].type \in {DATA, HEADERS} BY <1>1 DEF Live, PhaseInv
<1> HIDE DEF Count
<1> TAKE j \in 1 .. Count
<1>6. CASE j = 1 BY <1>1, <1>2, <1>3, <1>6 DEF Allowed
<1>7. CASE j # 1
  <2>1. Count >= 2 /\ j \in 2 .. Count BY <1>1, <1>7
  <2>2. sent[j].type \in {DATA, HEADERS} BY <1>1, <1>4, <1>5, <2>1 DEF DATA, HEADERS
  <2>3. \A i \in 2 .. (j - 1) : sent[i].type = DATA BY <1>1, <1>4, <2>1
  <2> QED BY <1>7, <2>2, <2>3 DEF Allowed
<1> QED BY <1>6, <1>7

(* The next frame is one that has no place in the message here.            *)
LEMMA NextIsBad ==
  ASSUME TypeOK, Live, Count + 1 \in 1 .. Len(sent),
         \/ phase = "head" /\ sent[Count + 1].type # HEADERS
         \/ sent[Count + 1].type \notin {DATA, HEADERS}
         \/ trailers # None
  PROVE  Reported = Conn(ReportedCode(sent[Count + 1]))
<1>1. Count \in Nat BY DEF Live, PosInv, Aligned, Count
<1>2. \A j \in 1 .. Count : Allowed(j) BY ReadAllowed
<1>3. sent \in Seq(FrameRecord) BY DEF TypeOK, FrameRecord
<1>4. ~Allowed(Count + 1)
  <2>1. CASE Count = 0
    <3>1. phase = "head" BY <2>1 DEF Live, PhaseInv
    <3>2. trailers = None BY <3>1 DEF Live, PhaseInv
    <3>3. sent[Count + 1].type # HEADERS BY <3>1, <3>2
    <3> QED BY <2>1, <3>3 DEF Allowed
  <2>2. CASE Count # 0
    <3>1. phase # "head" BY <2>2 DEF Live, PhaseInv
    <3>2. CASE trailers # None
      <4>1. Count >= 2 /\ sent[Count].type = HEADERS BY <3>2 DEF Live, PhaseInv
      <4>2. Count \in 2 .. ((Count + 1) - 1) /\ Count + 1 # 1 BY <1>1, <4>1
      <4>3. sent[Count].type # DATA BY <4>1 DEF HEADERS, DATA
      <4> HIDE DEF Count
      <4> QED BY <4>2, <4>3 DEF Allowed
    <3>3. CASE sent[Count + 1].type \notin {DATA, HEADERS}
      <4>1. Count + 1 # 1 BY <1>1, <2>2
      <4> QED BY <3>3, <4>1 DEF Allowed
    <3> QED BY <3>1, <3>2, <3>3
  <2> QED BY <2>1, <2>2
<1>5. Count + 1 = 1 \/ Section(1) = "ok" BY <1>1 DEF Live, PhaseInv
<1>6. (Count + 1) - 1 = Count BY <1>1
<1> DEFINE k == Count + 1
<1>7. \A j \in 1 .. (k - 1) : Allowed(j) BY <1>2, <1>6
<1> HIDE DEF k
<1>8. k \in 1 .. Len(sent) /\ ~Allowed(k) /\ (k = 1 \/ Section(1) = "ok") BY <1>4, <1>5 DEF k
<1>9. Reported = Conn(ReportedCode(sent[k]))
  BY <1>3, <1>7, <1>8, DemandsError, Zenon
<1> QED BY <1>9 DEF k

(* A message with a frame that is not allowed is not complete.             *)
LEMMA CompleteIsAllowed ==
  ASSUME TypeOK, Section(1) = "ok", Demanded = Complete, NEW i \in 1 .. Len(sent)
  PROVE  Allowed(i)
<1> SUFFICES ASSUME ~Allowed(i) PROVE FALSE OBVIOUS
<1>1. sent \in Seq(FrameRecord) BY DEF TypeOK, FrameRecord
<1>2. sent # <<>> BY <1>1
<1>3. \E c : Demanded = Conn(c) BY <1>2, Zenon DEF Demanded, OutcomeWith
<1> QED BY <1>3 DEF Complete, Conn

(* Everything was read.                                                    *)
LEMMA AllRead ==
  ASSUME TypeOK, Live, Count = Len(sent), phase = "trailers"
  PROVE  Reported = IF trailers \in {None, "ok"} THEN Complete ELSE FieldsOutcome(trailers)
<1>1. Count \in Nat /\ Count >= 1 /\ Section(1) = "ok"
  BY DEF Live, PosInv, Aligned, Count, PhaseInv
<1>2. \A j \in 1 .. Len(sent) : Allowed(j) BY ReadAllowed
<1>3. sent \in Seq(FrameRecord) BY DEF TypeOK, FrameRecord
<1>4. sent # <<>> BY <1>1, <1>3
<1>5. Reported = IF Len(sent) > 1 /\ sent[Len(sent)].type = HEADERS /\ Section(Len(sent)) # "ok"
                 THEN FieldsOutcome(Section(Len(sent))) ELSE Complete
  BY <1>1, <1>2, <1>4, Zenon DEF Reported, OutcomeWith
<1>6. CASE trailers = None
  <2>1. Len(sent) > 1 => sent[Len(sent)].type = DATA BY <1>1, <1>6 DEF Live, PhaseInv
  <2>2. DATA # HEADERS BY DEF DATA, HEADERS
  <2> QED BY <1>5, <1>6, <2>1, <2>2
<1>7. CASE trailers # None
  <2>1. Len(sent) > 1 /\ sent[Len(sent)].type = HEADERS /\ Section(Len(sent)) = trailers
    BY <1>1, <1>7 DEF Live, PhaseInv
  <2> QED BY <1>5, <1>7, <2>1
<1> QED BY <1>6, <1>7

(***************************************************************************)
(* The bytes of the body.                                                  *)
(***************************************************************************)

(* A byte of the body is one of the payload of a DATA frame.               *)
LEMMA InBody ==
  ASSUME TypeOK
  PROVE  /\ wire \in Seq(Byte) /\ sent \in Seq(FrameRecord)
         /\ \A q : q \in BodyBytes <=>
              /\ q \in 1 .. Len(wire)
              /\ \E i \in 1 .. Len(sent) :
                   sent[i].type = DATA /\ q \in (sent[i].at + 1) .. EndOf(sent[i])
<1>1. wire \in Seq(Byte) BY WiresAssumption DEF TypeOK
<1>2. sent \in Seq(FrameRecord) BY DEF TypeOK, FrameRecord
<1>3. ASSUME NEW q
      PROVE  q \in BodyBytes <=>
               /\ q \in 1 .. Len(wire)
               /\ \E i \in 1 .. Len(sent) :
                    sent[i].type = DATA /\ q \in (sent[i].at + 1) .. EndOf(sent[i])
  BY DEF BodyBytes, EndOf
<1> QED BY <1>1, <1>2, <1>3

(* Positions and lengths of frames are numbers.                            *)
LEMMA SentNumbers ==
  ASSUME TypeOK
  PROVE  \A i \in 1 .. Len(sent) :
           sent[i] \in FrameRecord /\ sent[i].at \in Nat /\ sent[i].len \in Nat /\ EndOf(sent[i]) \in Nat
<1>1. sent \in Seq(FrameRecord) BY DEF TypeOK, FrameRecord
<1>2. \A f \in FrameRecord : f.at \in Nat /\ f.len \in Nat /\ EndOf(f) \in Nat
  BY DEF FrameRecord, EndOf
<1> QED BY <1>1, <1>2

Upto(p) == {q \in BodyBytes : q <= p}

(* No DATA frame reaches between p and e: the body up to either is the     *)
(* same.                                                                   *)
LEMMA NoBodyBetween ==
  ASSUME TypeOK, NEW p \in Nat, NEW e \in Nat, p <= e,
         \A i \in 1 .. Len(sent) : sent[i].type = DATA => EndOf(sent[i]) <= p \/ sent[i].at >= e
  PROVE  Upto(p) = Upto(e)
<1> SUFFICES ASSUME NEW q \in BodyBytes, q <= e PROVE q <= p
  <2>1. \A q \in BodyBytes : q \in 1 .. Len(wire) BY InBody
  <2>2. \A q \in BodyBytes : q <= p => q <= e BY <2>1, InBody
  <2> QED BY <2>2 DEF Upto
<1>1. q \in 1 .. Len(wire) BY InBody
<1>2. PICK i \in 1 .. Len(sent) : sent[i].type = DATA /\ q \in (sent[i].at + 1) .. EndOf(sent[i])
  BY InBody
<1>3. sent[i].at \in Nat /\ EndOf(sent[i]) \in Nat BY SentNumbers
<1> QED BY <1>1, <1>2, <1>3, InBody

(* The bytes between p and e are those of one DATA frame: they are the     *)
(* body's next.                                                            *)
LEMMA MoreBody ==
  ASSUME TypeOK, NEW p \in Nat, NEW e \in Nat, p <= e, e <= Len(wire),
         NEW k \in 1 .. Len(sent), sent[k].type = DATA, sent[k].at <= p, e <= EndOf(sent[k])
  PROVE  Upto(p) \cup (p + 1) .. e = Upto(e)
<1>1. sent[k].at \in Nat /\ EndOf(sent[k]) \in Nat /\ Len(wire) \in Nat BY SentNumbers, InBody
<1>2. \A q \in (p + 1) .. e : /\ q \in 1 .. Len(wire) /\ q \in (sent[k].at + 1) .. EndOf(sent[k])
                             /\ q <= e
  BY <1>1
<1>3. \A q \in (p + 1) .. e : q \in BodyBytes /\ q <= e BY <1>2, InBody
<1>4. \A q \in BodyBytes : q \in Nat BY InBody
<1>5. \A q \in BodyBytes : (q <= p => q <= e) /\ (q <= e => q <= p \/ q \in (p + 1) .. e) BY <1>4
<1> QED BY <1>3, <1>5 DEF Upto

(* At the end of the stream, or of the last DATA frame, the body is        *)
(* complete.                                                               *)
LEMMA AllBody ==
  ASSUME TypeOK, NEW p \in Nat,
         p = Len(wire) \/ \A i \in 1 .. Len(sent) : sent[i].type = DATA => EndOf(sent[i]) <= p
  PROVE  Upto(p) = BodyBytes
<1> SUFFICES ASSUME NEW q \in BodyBytes PROVE q <= p BY DEF Upto
<1>1. q \in 1 .. Len(wire) BY InBody
<1>2. PICK i \in 1 .. Len(sent) : sent[i].type = DATA /\ q \in (sent[i].at + 1) .. EndOf(sent[i])
  BY InBody
<1>3. sent[i].at \in Nat /\ EndOf(sent[i]) \in Nat BY SentNumbers
<1> QED BY <1>1, <1>2, <1>3

(* The body up to any position is faithful.                                *)
LEMMA UptoFaithful ==
  ASSUME TypeOK, NEW p \in Nat
  PROVE  /\ Upto(p) \subseteq BodyBytes
         /\ \A x \in Upto(p), q \in BodyBytes : q < x => q \in Upto(p)
<1>1. \A q \in BodyBytes : q \in Nat BY InBody
<1> QED BY <1>1 DEF Upto

(***************************************************************************)
(* What steps have in common.                                              *)
(***************************************************************************)

(* A call is in progress, or may begin: the message has not ended.         *)
LEMMA InProgress ==
  ASSUME IInv, pc # "idle" \/ (outcome = None /\ ~panicked)
  PROVE  TypeOK /\ Live /\ outcome = None /\ ~panicked
BY DEF IInv

(* Nothing was handed out, and the caller was told nothing.                *)
LEMMA KeepsPromises ==
  ASSUME IInv, UNCHANGED <<stream, role, body, phase>>, panicked' => TruncatedData
  PROVE  sent' = FramesOf(wire') /\ BodyIsFaithful' /\ NoneIsTrustworthy'
<1>1. Demanded' = Demanded BY DemandedFixed
<1>2. BodyBytes' = BodyBytes /\ (EmptyData' <=> EmptyData) /\ (TruncatedData' <=> TruncatedData)
  BY SentFixed
<1>3. wire' = wire /\ sent' = sent /\ body' = body /\ phase' = phase BY DEF stream
<1>4. BodyIsFaithful' BY <1>2, <1>3 DEF IInv, BodyIsFaithful
<1>5. NoneMeansFinished' <=> NoneMeansFinished BY <1>1, <1>2, <1>3 DEF NoneMeansFinished
<1>6. NoneIsTrustworthy' BY <1>2, <1>5 DEF IInv, NoneIsTrustworthy
<1> QED BY <1>3, <1>4, <1>6 DEF IInv

(* Only the buffer or the call has changed.                                *)
LEMMA Unmoved ==
  ASSUME TypeOK, Live, UNCHANGED <<stream, role, pos, remaining_data, phase, trailers, body>>,
         eos => eos', remaining_data = 0 \/ expected' = expected
  PROVE  PosInv' /\ DataInv' /\ PhaseInv' /\ Count' = Count
<1>1. BodyBytes' = BodyBytes /\ (EmptyData' <=> EmptyData) /\ (TruncatedData' <=> TruncatedData)
  BY SentFixed
<1>2. wire' = wire /\ sent' = sent /\ Boundary' = Boundary BY DEF stream, Boundary
<1>3. Count' = Count BY <1>2 DEF Count
<1>4. PosInv' BY <1>2 DEF Live, PosInv
<1>5. DataInv' BY <1>1, <1>2, <1>3 DEF Live, DataInv
<1>6. \A i : Section(i)' = Section(i) BY SectionFixed
<1>7. PhaseInv' BY <1>1, <1>2, <1>3, <1>6 DEF Live, PhaseInv
<1> QED BY <1>3, <1>4, <1>5, <1>7

(***************************************************************************)
(* Calls.                                                                  *)
(***************************************************************************)

(* A call of poll_next.                                                    *)
LEMMA EntersNext ==
  ASSUME IInv, Idle, EnterNext, UNCHANGED <<stream, frames, role, message, halves>>,
         remaining_data # 0 => TruncatedData
  PROVE  IInv'
<1>1. TypeOK /\ Live /\ outcome = None /\ ~panicked BY InProgress DEF Idle
<1> USE DEF frames, message, buf
<1>2. TypeOK' BY <1>1 DEF TypeOK, EnterNext, stream, remaining
<1>3. PosInv' /\ DataInv' /\ PhaseInv' /\ Count' = Count BY <1>1, Unmoved
<1>4. remaining_data = 0 => PollInv'
  BY <1>1 DEF Live, PollInv, EnterNext, Hopeless, stream
<1>5. panicked' <=> remaining_data # 0 BY <1>1 DEF EnterNext, TypeOK
<1>6. sent' = FramesOf(wire') /\ BodyIsFaithful' /\ NoneIsTrustworthy'
  BY <1>5, KeepsPromises
<1>7. OutcomeIsRFCExceptSettings' BY <1>1 DEF OutcomeIsRFCExceptSettings
<1>8. outcome' # None \/ panicked' => pc' = "idle" BY <1>1 DEF EnterNext, Idle
<1> QED BY <1>2, <1>3, <1>4, <1>5, <1>6, <1>7, <1>8 DEF IInv, Live

(* recv_response or resolve is called: no DATA was seen yet.               *)
LEMMA CallsHead ==
  ASSUME IInv, CallHead PROVE IInv'
<1>1. TypeOK /\ Live BY InProgress DEF CallHead, Idle
<1>2. remaining_data = 0 BY <1>1 DEF Live, DataInv, CallHead
<1> QED BY <1>2, EntersNext DEF CallHead

(* recv_data is called, in the middle of a DATA frame or between frames.   *)
LEMMA CallsRecvData ==
  ASSUME IInv, CallRecvData PROVE IInv'
<1>1. TypeOK /\ Live /\ outcome = None /\ ~panicked BY InProgress DEF CallRecvData, Idle
<1>2. CASE remaining_data = 0 BY <1>2, EntersNext DEF CallRecvData
<1>3. CASE remaining_data # 0
  <2>1. pc' = "data" /\ panicked' = panicked BY <1>3 DEF CallRecvData
  <2> USE DEF frames, message, buf
  <2>2. TypeOK' BY <1>1, <2>1 DEF TypeOK, CallRecvData, stream, remaining
  <2>3. PosInv' /\ DataInv' /\ PhaseInv' /\ Count' = Count BY <1>1, Unmoved DEF CallRecvData
  <2>4. Count >= 2 /\ phase = "body" BY <1>1, <1>3 DEF Live, DataInv, CallRecvData
  <2>5. PollInv'
    BY <1>1, <1>3, <2>1, <2>3, <2>4 DEF Live, PollInv, CallRecvData, Hopeless, stream
  <2>6. sent' = FramesOf(wire') /\ BodyIsFaithful' /\ NoneIsTrustworthy'
    BY <1>1, <2>1, KeepsPromises DEF CallRecvData
  <2>7. OutcomeIsRFCExceptSettings' BY <1>1 DEF OutcomeIsRFCExceptSettings, CallRecvData
  <2>8. outcome' = None /\ ~panicked' BY <1>1, <2>1 DEF CallRecvData
  <2> QED BY <2>2, <2>3, <2>5, <2>6, <2>7, <2>8 DEF IInv, Live
<1> QED BY <1>2, <1>3

(* A pending future is dropped.                                            *)
LEMMA DropsCall ==
  ASSUME IInv, DropCall PROVE IInv'
<1>1. TypeOK /\ Live /\ outcome = None /\ ~panicked BY InProgress DEF DropCall
<1> USE DEF frames, message, buf
<1>2. TypeOK' BY <1>1 DEF TypeOK, DropCall, stream, remaining
<1>3. PosInv' /\ DataInv' /\ PhaseInv' /\ Count' = Count BY <1>1, Unmoved DEF DropCall
<1>4. PollInv' BY <1>1 DEF Live, PollInv, DropCall, Hopeless, stream
<1>5. sent' = FramesOf(wire') /\ BodyIsFaithful' /\ NoneIsTrustworthy'
  BY <1>1, KeepsPromises DEF DropCall
<1>6. OutcomeIsRFCExceptSettings' /\ outcome' = None /\ ~panicked' BY <1>1 DEF OutcomeIsRFCExceptSettings, DropCall
<1> QED BY <1>2, <1>3, <1>4, <1>5, <1>6 DEF IInv, Live

(* The stream is split.                                                    *)
LEMMA Splits ==
  ASSUME IInv, Split PROVE IInv'
<1>1. TypeOK /\ Live /\ outcome = None /\ ~panicked BY InProgress DEF Split, Idle
<1> USE DEF message, buf, SplitFrames, SplitBuffer
<1>2. TypeOK' BY <1>1 DEF TypeOK, Split, stream, remaining
<1>3. PosInv' /\ DataInv' /\ PhaseInv' /\ Count' = Count BY <1>1, Unmoved DEF Split
<1>4. PollInv' BY <1>1 DEF Live, PollInv, Split, Idle, Hopeless, stream
<1>5. sent' = FramesOf(wire') /\ BodyIsFaithful' /\ NoneIsTrustworthy'
  BY <1>1, KeepsPromises DEF Split
<1>6. OutcomeIsRFCExceptSettings' /\ outcome' = None /\ ~panicked' BY <1>1 DEF OutcomeIsRFCExceptSettings, Split
<1> QED BY <1>2, <1>3, <1>4, <1>5, <1>6 DEF IInv, Live

(***************************************************************************)
(* The message ends.                                                       *)
(***************************************************************************)

(* Outcomes and codes are of their kinds, and an error is not Complete.    *)
LEMMA OutcomeTypes ==
  /\ Complete \in Outcomes
  /\ \A c \in {"QPACK_DECOMPRESSION_FAILED", "H3_FRAME_UNEXPECTED", "H3_FRAME_ERROR",
            "H3_SETTINGS_ERROR", "lost"} :
       Conn(c) \in Outcomes /\ Conn(c) # Complete
  /\ NoHeader \in Outcomes /\ NoHeader # Complete
  /\ QuicOutcome \in Outcomes /\ QuicOutcome # Complete
  /\ \A f \in Sections : f # "ok" => FieldsOutcome(f) \in Outcomes /\ FieldsOutcome(f) # Complete
  /\ FieldsOutcome("ok") = None
  /\ \A f \in Sections : HeadCodes(f) \subseteq Codes /\ TrailerCodes(f) \subseteq Codes
  /\ None \notin Outcomes /\ None \notin Sections
<1>1. None \notin Outcomes /\ None \notin Sections BY NoneAssumption
<1>2. Complete \in Outcomes BY DEF Outcomes
<1>3. \A c \in {"QPACK_DECOMPRESSION_FAILED", "H3_FRAME_UNEXPECTED", "H3_FRAME_ERROR",
            "H3_SETTINGS_ERROR", "lost"} :
        Conn(c) \in Outcomes /\ Conn(c) # Complete
  BY DEF Outcomes, Conn, Complete
<1>4. \A c \in {"HeaderTooBig", "H3_MESSAGE_ERROR", "H3_REQUEST_INCOMPLETE", "RemoteTerminate"} :
        StreamErr(c) \in Outcomes /\ StreamErr(c) # Complete
  BY DEF Outcomes, StreamErr, Complete
<1>5. NoHeader \in Outcomes /\ NoHeader # Complete BY <1>3, <1>4 DEF NoHeader
<1>6. QuicOutcome \in Outcomes /\ QuicOutcome # Complete BY <1>3, <1>4 DEF QuicOutcome
<1>7. \A f \in Sections : f # "ok" => FieldsOutcome(f) \in Outcomes /\ FieldsOutcome(f) # Complete
  BY <1>3, <1>4 DEF Sections, FieldsOutcome
<1>8. FieldsOutcome("ok") = None BY DEF FieldsOutcome
<1>9. \A f \in Sections : HeadCodes(f) \subseteq Codes BY DEF Sections, HeadCodes, Codes
<1>10. \A f \in Sections : TrailerCodes(f) \subseteq Codes BY DEF Sections, TrailerCodes, Codes
<1> QED BY <1>1, <1>2, <1>3, <1>5, <1>6, <1>7, <1>8, <1>9, <1>10

(* Decoding a field section has one of four results.                       *)
LEMMA SectionTypes ==
  \A at, len : try_from(at, len) \in Sections /\ into_parts(at, len) \in Sections
<1> TAKE at, len
<1>1. decode_stateless(at, len) \in Sections BY DEF decode_stateless, Sections
<1>2. try_from(at, len) \in Sections BY <1>1 DEF try_from, Sections
<1>3. into_parts(at, len) \in Sections BY <1>2 DEF into_parts, Sections
<1> QED BY <1>2, <1>3

(* The caller gets an outcome, and nothing else changes for it.            *)
LEMMA Ends ==
  ASSUME IInv, UNCHANGED <<stream, role, phase, body>>, ~panicked', pc' = "idle", TypeOK',
         outcome' # None, outcome' = Complete => ending = "fin",
         \/ EmptyData \/ TruncatedData \/ outcome' = Reported
         \/ ending # "fin" /\ outcome' = QuicOutcome
  PROVE  IInv'
<1>1. sent' = FramesOf(wire') /\ BodyIsFaithful' /\ NoneIsTrustworthy' BY KeepsPromises
<1>2. /\ EmptyData' <=> EmptyData
      /\ TruncatedData' <=> TruncatedData
      /\ QuicOutcome' = QuicOutcome /\ Reported' = Reported
      /\ ending' = ending
  BY SentFixed, DemandedFixed DEF stream
<1>3. OutcomeIsRFCExceptSettings' BY <1>2 DEF OutcomeIsRFCExceptSettings
<1> QED BY <1>1, <1>3 DEF IInv

(* At the end of the stream nothing is left to read.                       *)
LEMMA NothingLeft ==
  ASSUME TypeOK, Live, pos = Len(wire), remaining_data = 0
  PROVE  Count = Len(sent)
<1>1. wire \in Seq(Byte) /\ sent \in Seq(FrameRecord) BY InBody
<1>2. Boundary = Len(wire) BY <1>1 DEF Boundary
<1>3. FramesFrom(wire)[Len(wire)] = <<>> BY <1>1, Len(wire) \in 0 .. Len(wire), FramesCases
<1>4. Unread(wire, sent, Boundary) = <<>> BY <1>1, <1>2, <1>3 DEF Unread
<1> QED BY <1>1, <1>4 DEF Count, CountTo

(* recv_trailers is called.                                                *)
LEMMA CallsRecvTrailers ==
  ASSUME IInv, CallRecvTrailers PROVE IInv'
<1>1. TypeOK /\ Live /\ outcome = None /\ ~panicked BY InProgress DEF CallRecvTrailers, Idle
<1>2. CASE trailers # None /\ is_eos
  <2>1. DecodeTrailers(trailers) /\ panicked' = panicked BY <1>2 DEF CallRecvTrailers
  <2>2. trailers \in Sections /\ trailers # None BY <1>1, <1>2 DEF TypeOK
  <2>3. remaining_data = 0 BY <1>1, <1>2 DEF Live, PhaseInv
  <2>4. pos = Len(wire) /\ ending = "fin"
    BY <1>1, <1>2 DEF Live, PollInv, is_eos, remaining, TypeOK
  <2>5. Reported = IF trailers \in {None, "ok"} THEN Complete ELSE FieldsOutcome(trailers)
    BY <1>1, <2>3, <2>4, NothingLeft, AllRead DEF CallRecvTrailers
  <2>6. outcome' = Reported /\ outcome' \in Outcomes /\ stopped' \subseteq Codes /\ pc' = "idle"
    <3>1. outcome' = IF trailers = "ok" THEN Complete ELSE FieldsOutcome(trailers)
      BY <2>1 DEF DecodeTrailers, Return
    <3>2. stopped' = stopped \cup TrailerCodes(trailers) /\ pc' = "idle"
      BY <2>1 DEF DecodeTrailers, Return
    <3> QED BY <1>1, <2>2, <2>5, <3>1, <3>2, OutcomeTypes DEF TypeOK
  <2> USE DEF frames, buf
  <2>7. UNCHANGED <<stream, role, phase, body, pos, received, cuts, eos, expected,
                    remaining_data, halves>> /\ trailers' = None
    BY <2>1 DEF CallRecvTrailers, DecodeTrailers
  <2>8. TypeOK' BY <1>1, <2>1, <2>6, <2>7 DEF TypeOK, stream, remaining
  <2>9. outcome' # None BY <2>6, OutcomeTypes
  <2> QED BY <1>1, <2>1, <2>4, <2>6, <2>7, <2>8, <2>9, Ends
<1>3. CASE ~(trailers # None /\ is_eos)
  <2>1. EnterNext /\ UNCHANGED message BY <1>3 DEF CallRecvTrailers
  <2>2. remaining_data # 0 => TruncatedData BY <1>1 DEF Live, DataInv, CallRecvTrailers
  <2> QED BY <2>1, <2>2, EntersNext DEF CallRecvTrailers
<1> QED BY <1>2, <1>3

(***************************************************************************)
(* Answers of QUIC.                                                        *)
(***************************************************************************)

(* QUIC has more bytes while poll_next waits.                              *)
LEMMA ReceivesChunk ==
  ASSUME IInv, NEW n \in 1 .. MaxChunk, RecvChunk(n) PROVE IInv'
<1>1. TypeOK /\ Live /\ outcome = None /\ ~panicked BY InProgress DEF RecvChunk
<1> n \in Nat /\ n >= 1 BY RequestAssumption
<1> USE DEF message
<1>2. TypeOK'
  <2>1. received' = received + n /\ received' <= Len(wire) /\ Len(wire) \in Nat
    BY <1>1, InBody DEF RecvChunk, ReadChunk
  <2>2. received' \in 0 .. Len(wire) /\ pos \in 0 .. received' BY <1>1, <2>1 DEF TypeOK
  <2>3. cuts' \subseteq (pos + 1) .. received' /\ received' \in cuts'
    BY <1>1, <2>1 DEF TypeOK, RecvChunk
  <2> QED BY <1>1, <2>2, <2>3 DEF TypeOK, RecvChunk, stream, remaining
<1>3. PosInv' /\ DataInv' /\ PhaseInv' /\ Count' = Count BY <1>1, Unmoved DEF RecvChunk
<1>4. PollInv' BY <1>1 DEF Live, PollInv, RecvChunk, ReadChunk, Hopeless, stream
<1>5. sent' = FramesOf(wire') /\ BodyIsFaithful' /\ NoneIsTrustworthy'
  BY <1>1, KeepsPromises DEF RecvChunk
<1>6. OutcomeIsRFCExceptSettings' /\ outcome' = None /\ ~panicked' BY <1>1 DEF OutcomeIsRFCExceptSettings, RecvChunk
<1> QED BY <1>2, <1>3, <1>4, <1>5, <1>6 DEF IInv, Live

(* The body is over for the caller.                                        *)
LEMMA TurnsToTrailers ==
  ASSUME IInv, Live, UNCHANGED <<stream, role, body>>, outcome' = None, ~panicked', phase' = "trailers",
         EmptyData \/ (Demanded = Complete => body = BodyBytes)
  PROVE  sent' = FramesOf(wire') /\ OutcomeIsRFCExceptSettings' /\ BodyIsFaithful' /\ NoneIsTrustworthy'
<1>1. Demanded' = Demanded BY DemandedFixed
<1>2. BodyBytes' = BodyBytes /\ (EmptyData' <=> EmptyData) BY SentFixed
<1>3. wire' = wire /\ sent' = sent /\ body' = body BY DEF stream
<1>4. BodyIsFaithful' BY <1>2, <1>3 DEF IInv, BodyIsFaithful
<1>5. NoneIsTrustworthy' BY <1>1, <1>2, <1>3 DEF NoneIsTrustworthy, NoneMeansFinished
<1> QED BY <1>3, <1>4, <1>5 DEF IInv, OutcomeIsRFCExceptSettings

(* recv_data returns None where the decoder stands.                        *)
LEMMA BodyEnds ==
  ASSUME IInv, Live, BodyDone, phase = "body", outcome = None, ~panicked,
         UNCHANGED <<stream, role, pos, received, cuts, expected, remaining_data, trailers, halves, panicked>>,
         eos' \in BOOLEAN, eos => eos', eos' => received = Len(wire) /\ ending = "fin",
         EmptyData \/ (Demanded = Complete => body = BodyBytes),
         EmptyData \/ TruncatedData \/ (eos' /\ pos = Len(wire)),
         remaining_data # 0 => TruncatedData
  PROVE  IInv'
<1>1. TypeOK BY DEF IInv
<1>2. outcome' = None /\ pc' = "idle" /\ phase' = "trailers" /\ body' = body /\ stopped' = stopped
  BY <1>1 DEF BodyDone, Return, TypeOK
<1>3. TypeOK' BY <1>1, <1>2, OutcomeTypes DEF TypeOK, stream, remaining
<1>4. sent' = FramesOf(wire') /\ OutcomeIsRFCExceptSettings' /\ BodyIsFaithful' /\ NoneIsTrustworthy'
  BY <1>2, TurnsToTrailers
<1>5. BodyBytes' = BodyBytes /\ (EmptyData' <=> EmptyData) /\ (TruncatedData' <=> TruncatedData)
  BY SentFixed
<1>6. wire' = wire /\ sent' = sent /\ ending' = ending /\ Boundary' = Boundary BY DEF stream, Boundary
<1>7. Count' = Count BY <1>6 DEF Count
<1>8. PosInv' BY <1>6 DEF Live, PosInv
<1>9. DataInv' BY <1>2, <1>5, <1>6, <1>7 DEF Live, DataInv
<1>10. PollInv' BY <1>2, <1>6 DEF Live, PollInv, Hopeless
<1>11. Section(1)' = Section(1) BY SectionFixed
<1>12. trailers = None BY DEF Live, PhaseInv
<1>13. PhaseInv' BY <1>2, <1>5, <1>6, <1>7, <1>11, <1>12 DEF Live, PhaseInv
<1> QED BY <1>2, <1>3, <1>4, <1>8, <1>9, <1>10, <1>13 DEF IInv, Live

(* A DATA frame that goes on beyond the end of the stream.                 *)
LEMMA CutData ==
  ASSUME TypeOK, Live, remaining_data # 0, Boundary > Len(wire)
  PROVE  TruncatedData /\ Demanded # Complete
<1>1. wire \in Seq(Byte) /\ sent \in Seq(FrameRecord) /\ Boundary \in Nat
  BY InBody DEF TypeOK, Boundary
<1>2. Count \in Nat /\ Len(sent) = Count + 1 /\ sent[Len(sent)].type = Truncated
  BY <1>1, UnreadType DEF Live, PosInv, Count, Aligned
<1>3. Count >= 2 /\ sent[Count].type = DATA /\ EndOf(sent[Count]) = Boundary BY DEF Live, DataInv
<1> HIDE DEF Count
<1>4. Count \in 1 .. Len(sent) BY <1>2, <1>3
<1>5. TruncatedData BY <1>3, <1>4 DEF TruncatedData, EndOf
<1>6. ~Allowed(Len(sent)) BY <1>2, <1>3 DEF Allowed, Truncated, DATA, HEADERS
<1>7. Section(1) = "ok" BY DEF Live, DataInv, PhaseInv
<1>8. Len(sent) \in 1 .. Len(sent) BY <1>2
<1> QED BY <1>5, <1>6, <1>7, <1>8, CompleteIsAllowed

(* The stream ends while poll_next waits: between two frames, or within    *)
(* one.                                                                    *)
LEMMA ReceivesEnd ==
  ASSUME IInv, RecvEnd PROVE IInv'
<1>1. TypeOK /\ Live /\ outcome = None /\ ~panicked BY InProgress DEF RecvEnd
<1>2. received = Len(wire) /\ ending = "fin" BY <1>1 DEF RecvEnd, AtEnd, Live, PollInv
<1>3. remaining_data = 0 BY <1>1 DEF RecvEnd, Live, PollInv
<1>4. /\ UNCHANGED <<stream, pos, received, cuts, expected, remaining_data, role, halves, panicked>>
      /\ eos' = TRUE
  BY DEF RecvEnd, buf
<1>5. wire \in Seq(Byte) /\ sent \in Seq(FrameRecord) BY <1>1, InBody
<1>6. pos \in 0 .. Len(wire) BY <1>1, <1>2 DEF TypeOK
<1>7. ASSUME outcome' \in Outcomes, stopped' \subseteq Codes, pc' = "idle", UNCHANGED <<phase, body>>,
             trailers' \in Sections \cup {None}
      PROVE  TypeOK' /\ outcome' # None
  BY <1>1, <1>4, <1>7, OutcomeTypes DEF TypeOK, stream, remaining
<1>8. CASE remaining > 0
  <2>1. Finish(Conn("H3_FRAME_ERROR")) BY <1>8 DEF RecvEnd
  <2>2. /\ outcome' = Conn("H3_FRAME_ERROR") /\ pc' = "idle" /\ UNCHANGED <<phase, trailers, body>>
        /\ stopped' \subseteq Codes
    BY <1>1, <2>1 DEF Finish, Return, TypeOK
  <2>3. pos < Len(wire) /\ Decode(wire, pos, Len(wire)).res = "incomplete"
    BY <1>1, <1>2, <1>6, <1>8 DEF Live, PollInv, RecvEnd, remaining
  <2>4. Len(FramesFrom(wire)[pos]) = 1 /\ FramesFrom(wire)[pos][1].type = Truncated
    BY <1>5, <1>6, <2>3, DecodedNothing
  <2>5. Boundary = pos BY <1>3, <1>6 DEF Boundary
  <2>6. Count + 1 \in 1 .. Len(sent) /\ sent[Count + 1].type = Truncated
    BY <1>1, <1>5, <1>6, <2>4, <2>5, NextFrame DEF Live, PosInv, Count
  <2>7. sent[Count + 1].type \notin {DATA, HEADERS} BY <2>6 DEF DATA, HEADERS, Truncated
  <2>8. Reported = Conn("H3_FRAME_ERROR")
    BY <1>1, <2>6, <2>7, NextIsBad DEF ReportedCode, Undecodable, BadCode, SETTINGS, Truncated
  <2>9. outcome' \in Outcomes /\ outcome' # Complete BY <2>2, OutcomeTypes
  <2>10. TypeOK' /\ outcome' # None BY <1>1, <1>7, <2>2, <2>9 DEF TypeOK
  <2> QED BY <1>1, <1>4, <2>2, <2>8, <2>9, <2>10, Ends
<1>9. CASE ~(remaining > 0)
  <2>1. OnEnd BY <1>9 DEF RecvEnd
  <2>2. pos = Len(wire) BY <1>2, <1>6, <1>9 DEF remaining
  <2>3. Count = Len(sent) BY <1>1, <1>3, <2>2, NothingLeft
  <2>4. CASE phase = "head"
    <3>1. outcome' = NoHeader /\ pc' = "idle" /\ UNCHANGED <<phase, trailers, body>>
      BY <2>1, <2>4 DEF OnEnd, Return
    <3>2. stopped' \subseteq Codes
      BY <1>1, <2>1, <2>4 DEF OnEnd, Return, TypeOK, Codes
    <3>3. Len(sent) = 0 BY <1>1, <2>3, <2>4 DEF Live, PhaseInv
    <3>4. Reported = NoHeader BY <1>5, <3>3 DEF Reported, OutcomeWith
    <3>5. outcome' \in Outcomes /\ outcome' # Complete BY <3>1, OutcomeTypes
    <3>6. TypeOK' /\ outcome' # None BY <1>1, <1>7, <3>1, <3>2, <3>5 DEF TypeOK
    <3> QED BY <1>1, <1>4, <3>1, <3>4, <3>5, <3>6, Ends
  <2>5. CASE phase = "body"
    <3>1. BodyDone /\ UNCHANGED trailers BY <2>1, <2>5 DEF OnEnd
    <3>2. body = Upto(pos) BY <1>1 DEF Live, DataInv, Upto
    <3>3. body = BodyBytes BY <1>1, <1>6, <2>2, <3>2, AllBody
    <3> QED BY <1>1, <1>2, <1>3, <1>4, <2>2, <2>5, <3>1, <3>3, BodyEnds
  <2>6. CASE phase = "trailers"
    <3>1. Reported = IF trailers \in {None, "ok"} THEN Complete ELSE FieldsOutcome(trailers)
      BY <1>1, <2>3, <2>6, AllRead
    <3>2. trailers \in Sections \cup {None} BY <1>1 DEF TypeOK
    <3>3. outcome' = Reported /\ pc' = "idle" /\ UNCHANGED <<phase, body>>
      BY <2>1, <2>6, <3>1 DEF OnEnd, Finish, DecodeTrailers, Return
    <3>4. stopped' \subseteq Codes /\ trailers' \in Sections \cup {None}
      BY <1>1, <2>1, <2>6, <3>2, OutcomeTypes DEF OnEnd, Finish, DecodeTrailers, Return, TypeOK
    <3>5. outcome' \in Outcomes BY <3>1, <3>2, <3>3, OutcomeTypes
    <3>6. TypeOK' /\ outcome' # None BY <1>7, <3>3, <3>4, <3>5
    <3> QED BY <1>1, <1>2, <1>4, <3>3, <3>6, Ends
  <2> QED BY <1>1, <2>4, <2>5, <2>6 DEF TypeOK
<1> QED BY <1>8, <1>9

(* The stream was reset, or the connection is lost.                        *)
LEMMA ReceivesBroken ==
  ASSUME IInv, RecvBroken PROVE IInv'
<1>1. TypeOK /\ Live /\ outcome = None /\ ~panicked BY InProgress DEF RecvBroken
<1>2. ending # "fin" BY DEF RecvBroken, Broken
<1>3. /\ outcome' = QuicOutcome /\ pc' = "idle" /\ stopped' = stopped
      /\ UNCHANGED <<stream, pos, received, cuts, eos, expected, remaining_data, role, phase,
                     trailers, body, halves, panicked>>
  BY <1>1 DEF RecvBroken, Finish, Return, frames, buf, TypeOK
<1>4. outcome' \in Outcomes /\ outcome' # Complete /\ outcome' # None BY <1>3, OutcomeTypes
<1>5. TypeOK' BY <1>1, <1>3, <1>4 DEF TypeOK, stream, remaining
<1> QED BY <1>1, <1>2, <1>3, <1>4, <1>5, Ends

(* recv_data hands out bytes of the DATA frame the decoder is in.          *)
LEMMA ReturnsData ==
  ASSUME IInv, pc = "data", remaining_data # 0, NEW end, ReturnData(end),
         UNCHANGED <<stream, expected, role, halves, panicked>>,
         received' \in Nat, received <= received', received' <= Len(wire),
         end \in (pos + 1) .. received', end - pos <= remaining_data,
         eos' \in BOOLEAN, eos' => received' = Len(wire) /\ ending = "fin"
  PROVE  IInv'
<1>1. TypeOK /\ Live /\ outcome = None /\ ~panicked BY InProgress
<1>2. phase = "body" BY <1>1 DEF Live, PollInv
<1>3. /\ pos' = end /\ cuts' = {c \in cuts \cup {received'} : c > end}
      /\ remaining_data' = remaining_data - (end - pos)
      /\ body' = body \cup (pos + 1) .. end
      /\ pc' = "idle" /\ UNCHANGED <<phase, trailers, outcome, stopped>>
  BY DEF ReturnData
<1>4. wire' = wire /\ sent' = sent /\ ending' = ending BY DEF stream
<1>5. wire \in Seq(Byte) /\ sent \in Seq(FrameRecord) /\ Len(wire) \in Nat BY <1>1, InBody
<1>6. pos \in Nat /\ received \in Nat /\ pos <= received /\ remaining_data \in Nat
  BY <1>1, <1>5 DEF TypeOK
<1>7. end \in Nat /\ pos <= end /\ end <= Len(wire) /\ remaining_data' \in Nat BY <1>3, <1>5, <1>6
<1>8. Boundary' = Boundary /\ Boundary \in Nat /\ end <= Boundary
  BY <1>3, <1>6, <1>7 DEF Boundary
<1>9. Count' = Count BY <1>4, <1>8 DEF Count
<1>10. PosInv' BY <1>1, <1>4, <1>8 DEF Live, PosInv
<1>11. /\ Count >= 2 /\ sent[Count].type = DATA /\ sent[Count].at <= pos
       /\ EndOf(sent[Count]) = Boundary /\ expected = None
  BY <1>1 DEF Live, DataInv
<1>12. Count \in 1 .. Len(sent) /\ Count \in Nat
  BY <1>1, <1>5, <1>8, <1>11, UnreadType DEF Live, PosInv, Count
<1>13. sent[Count].at \in Nat BY <1>1, <1>12, SentNumbers
<1>14. body' = Upto(end)
  <2>1. body = Upto(pos) BY <1>1 DEF Live, DataInv, Upto
  <2>2. Upto(pos) \cup (pos + 1) .. end = Upto(end)
    BY <1>1, <1>6, <1>7, <1>8, <1>11, <1>12, MoreBody
  <2> QED BY <1>3, <2>1, <2>2
<1>15. BodyBytes' = BodyBytes /\ (EmptyData' <=> EmptyData) BY SentFixed
<1>16. \A i \in 1 .. Count : sent[i].type = DATA => EndOf(sent[i]) <= Boundary
  BY <1>1 DEF Live, DataInv
<1>17. \A q \in BodyBytes : q \in 1 .. Len(wire) BY <1>1, InBody
<1>18. TypeOK'
  <2>0. cuts \subseteq (pos + 1) .. received BY <1>1 DEF TypeOK
  <2>1. cuts' \subseteq (pos' + 1) .. received' /\ (received' - pos' > 0 => received' \in cuts')
    <3>1. \A c \in cuts : c \in Nat /\ c <= received' BY <1>6, <2>0
    <3>2. \A c \in cuts' : c \in Nat /\ c <= received' /\ c > end BY <1>3, <3>1
    <3>3. received' > end => received' \in cuts' BY <1>3
    <3>4. \A c \in cuts' : c \in (end + 1) .. received' BY <1>7, <3>2
    <3>5. received' - end > 0 => received' > end
      <4>1. \A a, b \in Nat : a - b > 0 => a > b OBVIOUS
      <4>2. received' \in Nat /\ end \in Nat BY <1>7
      <4> QED BY <4>1, <4>2, Zenon
    <3>6. pos' = end BY <1>3
    <3> QED BY <3>3, <3>4, <3>5, <3>6
  <2>2. body' \subseteq 1 .. Len(wire) BY <1>14, <1>17 DEF Upto
  <2>3. pos' \in 0 .. received' /\ received' \in 0 .. Len(wire) BY <1>3, <1>5, <1>7
  <2> QED BY <1>1, <1>3, <1>7, <2>1, <2>2, <2>3 DEF TypeOK, stream, remaining
<1> HIDE DEF Count, Boundary
<1>19. DataInv' BY <1>2, <1>3, <1>4, <1>6, <1>7, <1>8, <1>9, <1>11, <1>13, <1>14, <1>15, <1>16 DEF DataInv, Upto
<1>20. PollInv' BY <1>3, <1>4, <1>11 DEF PollInv
<1>21. \A i : Section(i)' = Section(i) BY SectionFixed
<1>22. PhaseInv' BY <1>1, <1>2, <1>3, <1>4, <1>9, <1>21 DEF Live, PhaseInv
<1>23. BodyIsFaithful'
  BY <1>1, <1>7, <1>14, <1>15, UptoFaithful DEF BodyIsFaithful
<1>24. NoneIsTrustworthy' BY <1>1, <1>2, <1>3 DEF NoneIsTrustworthy, NoneMeansFinished
<1>25. OutcomeIsRFCExceptSettings' BY <1>1, <1>3 DEF OutcomeIsRFCExceptSettings
<1> QED BY <1>1, <1>3, <1>4, <1>10, <1>18, <1>19, <1>20, <1>22, <1>23, <1>24, <1>25 DEF IInv, Live

(* poll_data while the stream goes on.                                     *)
LEMMA PollsData ==
  ASSUME IInv, NEW n \in 0 .. MaxChunk, PollData(n) PROVE IInv'
<1>1. TypeOK /\ Live /\ outcome = None /\ ~panicked BY InProgress DEF PollData
<1> DEFINE end == ChunkEnd(cuts \cup {received'}, remaining_data)
<1>2. /\ pc = "data" /\ remaining_data # 0 /\ ReturnData(end)
      /\ UNCHANGED <<stream, eos, expected, role, halves, panicked>>
  BY DEF PollData
<1>3. n \in Nat /\ wire \in Seq(Byte) /\ Len(wire) \in Nat BY <1>1, InBody, RequestAssumption
<1>4. pos \in Nat /\ received \in Nat /\ pos <= received /\ received <= Len(wire)
      /\ remaining_data \in Nat
  BY <1>1, <1>3 DEF TypeOK
<1>5. /\ received' \in Nat /\ received <= received' /\ received' <= Len(wire) /\ pos < received'
      /\ eos => received' = received
  BY <1>3, <1>4 DEF PollData, ReadChunk, remaining
<1>6. cuts \cup {received'} \subseteq (pos + 1) .. received' BY <1>1, <1>4, <1>5 DEF TypeOK
<1>7. end \in (pos + 1) .. received' /\ end - pos <= remaining_data
  BY <1>2, <1>4, <1>5, <1>6, TakeChunk
<1>8. eos' \in BOOLEAN /\ (eos' => received' = Len(wire) /\ ending = "fin")
  BY <1>1, <1>2, <1>5 DEF TypeOK, Live, PollInv
<1> HIDE DEF end
<1> QED BY <1>2, <1>5, <1>7, <1>8, ReturnsData

(* poll_data at the end of the stream.                                     *)
LEMMA PollsDataAtEnd ==
  ASSUME IInv, PollDataAtEnd PROVE IInv'
<1>1. TypeOK /\ Live /\ outcome = None /\ ~panicked BY InProgress DEF PollDataAtEnd
<1> DEFINE end == ChunkEnd(cuts, remaining_data)
<1>2. /\ pc = "data" /\ remaining_data # 0 /\ eos' = TRUE
      /\ UNCHANGED <<stream, expected, role, halves, panicked>>
  BY DEF PollDataAtEnd
<1>3. received = Len(wire) /\ ending = "fin" BY <1>1 DEF PollDataAtEnd, AtEnd, Live, PollInv
<1>4. wire \in Seq(Byte) /\ Len(wire) \in Nat BY <1>1, InBody
<1>5. /\ pos \in Nat /\ received \in Nat /\ pos <= received /\ remaining_data \in Nat
      /\ cuts \subseteq (pos + 1) .. received /\ (pos < received => received \in cuts)
  BY <1>1, <1>4 DEF TypeOK, remaining
<1>6. phase = "body" BY <1>1, <1>2 DEF Live, PollInv
<1>7. CASE remaining = 0
  <2>1. BodyDone /\ UNCHANGED <<trailers, pos, received, cuts, remaining_data>>
    BY <1>7 DEF PollDataAtEnd, buf
  <2>2. pos = Len(wire) BY <1>3, <1>5, <1>7 DEF remaining
  <2>3. Boundary > Len(wire) BY <1>2, <1>4, <1>5, <2>2 DEF Boundary
  <2>4. TruncatedData /\ Demanded # Complete BY <1>1, <1>2, <2>3, CutData
  <2> QED BY <1>1, <1>2, <1>3, <1>6, <2>1, <2>2, <2>4, BodyEnds
<1>8. CASE remaining # 0
  <2>1. pos < received BY <1>5, <1>8 DEF remaining
  <2>2. cuts # {} BY <1>5, <2>1
  <2>3. end \in (pos + 1) .. received /\ end - pos <= remaining_data
    BY <1>2, <1>5, <2>2, TakeChunk
  <2>4. CASE end - pos < remaining_data /\ end = received
    <3>1. Finish(Conn("H3_FRAME_ERROR")) /\ advance(end) /\ UNCHANGED <<received, remaining_data>>
      BY <1>8, <2>4 DEF PollDataAtEnd
    <3>2. Boundary > Len(wire) BY <1>3, <1>4, <1>5, <2>3, <2>4 DEF Boundary
    <3>3. TruncatedData BY <1>1, <1>2, <3>2, CutData
    <3>4. /\ outcome' = Conn("H3_FRAME_ERROR") /\ pc' = "idle" /\ stopped' = stopped
          /\ UNCHANGED <<phase, trailers, body>> /\ pos' = end /\ cuts' = {c \in cuts : c > end}
      BY <1>1, <3>1 DEF Finish, Return, advance, TypeOK
    <3>5. outcome' \in Outcomes /\ outcome' # Complete /\ outcome' # None BY <3>4, OutcomeTypes
    <3>6. cuts' = {} /\ pos' \in 0 .. received /\ ~(received - pos' > 0)
      <4>1. pos' = received BY <2>4, <3>4
      <4>2. \A c \in cuts : ~(c > received) BY <1>5
      <4>3. cuts' = {} BY <2>4, <3>4, <4>2
      <4> QED BY <1>5, <4>1, <4>3
    <3>7. TypeOK' BY <1>1, <1>2, <3>1, <3>4, <3>5, <3>6 DEF TypeOK, stream, remaining
    <3> QED BY <1>1, <1>2, <3>3, <3>4, <3>5, <3>7, Ends
  <2>5. CASE ~(end - pos < remaining_data /\ end = received)
    <3>1. received' = received /\ ReturnData(end) BY <1>8, <2>5 DEF PollDataAtEnd
    <3> HIDE DEF end
    <3> QED BY <1>2, <1>3, <1>5, <2>3, <3>1, ReturnsData
  <2> QED BY <2>4, <2>5
<1> QED BY <1>7, <1>8

(* poll_data after an empty DATA frame.                                    *)
LEMMA PollsEmptyData ==
  ASSUME IInv, PollDataEmpty PROVE IInv'
<1>1. TypeOK /\ Live /\ outcome = None /\ ~panicked BY InProgress DEF PollDataEmpty
<1>2. EmptyData /\ phase = "body" BY <1>1 DEF Live, PollInv, PollDataEmpty
<1>3. BodyDone /\ UNCHANGED <<stream, pos, received, cuts, eos, expected, remaining_data, role,
                              trailers, halves, panicked>> /\ remaining_data = 0
  BY DEF PollDataEmpty, frames, buf
<1>4. eos' \in BOOLEAN /\ (eos' => received = Len(wire) /\ ending = "fin")
  BY <1>1, <1>3 DEF TypeOK, Live, PollInv
<1> QED BY <1>1, <1>2, <1>3, <1>4, BodyEnds

(***************************************************************************)
(* poll_next.                                                              *)
(***************************************************************************)

(* Where the decoder stands.                                               *)
LEMMA Decoding ==
  ASSUME TypeOK, Live, pc = "decode"
  PROVE  /\ wire \in Seq(Byte) /\ sent \in Seq(FrameRecord) /\ Len(wire) \in Nat
         /\ pos \in Nat /\ pos \in 0 .. Len(wire)
         /\ received \in Nat /\ received \in pos .. Len(wire)
         /\ remaining_data = 0
         /\ Aligned(wire, sent, pos) /\ Count = CountTo(wire, sent, pos) /\ Count \in Nat
         /\ \A i \in 1 .. Count : sent[i].type = DATA => EndOf(sent[i]) <= pos
         /\ body = Upto(pos)
<1>1. wire \in Seq(Byte) /\ sent \in Seq(FrameRecord) /\ Len(wire) \in Nat BY InBody
<1>2. /\ pos \in Nat /\ pos \in 0 .. Len(wire)
      /\ received \in Nat /\ received \in pos .. Len(wire)
  BY <1>1 DEF TypeOK
<1>3. remaining_data = 0 BY DEF Live, PollInv
<1>4. Boundary = pos BY <1>2, <1>3 DEF Boundary
<1>5. Aligned(wire, sent, pos) /\ Count = CountTo(wire, sent, pos)
  BY <1>4 DEF Live, PosInv, Count
<1>6. Count \in Nat BY <1>5 DEF Aligned
<1>7. /\ \A i \in 1 .. Count : sent[i].type = DATA => EndOf(sent[i]) <= pos
      /\ body = Upto(pos)
  BY <1>4 DEF Live, DataInv, Upto
<1> QED BY <1>1, <1>2, <1>3, <1>5, <1>6, <1>7

(* Consuming what is there.                                                *)
LEMMA Advances ==
  ASSUME TypeOK, NEW e \in Nat, pos <= e, e <= received, advance(e), UNCHANGED <<received, wire>>
  PROVE  /\ pos' = e
         /\ pos' \in 0 .. received' /\ received' \in 0 .. Len(wire')
         /\ cuts' \subseteq (pos' + 1) .. received'
         /\ (remaining > 0 => received \in cuts)'
<1>1. pos' = e /\ cuts' = {c \in cuts : c > e} BY DEF advance
<1>2. /\ cuts \subseteq (pos + 1) .. received /\ pos \in Nat /\ received \in Nat /\ pos <= received
      /\ received \in 0 .. Len(wire) /\ (received - pos > 0 => received \in cuts)
  BY InBody DEF TypeOK, remaining
<1>3. \A c \in cuts' : c \in (e + 1) .. received BY <1>1, <1>2
<1>4. received - e > 0 => received \in cuts'
  <2>1. SUFFICES ASSUME received - e > 0 PROVE received \in cuts' OBVIOUS
  <2>2. received > e /\ received - pos > 0 BY <1>2, <2>1
  <2> QED BY <1>1, <1>2, <2>2
<1>5. (remaining > 0 => received \in cuts)' BY <1>1, <1>4 DEF remaining
<1>6. cuts' \subseteq (pos' + 1) .. received' BY <1>1, <1>3
<1>7. pos' \in 0 .. received' /\ received' \in 0 .. Len(wire') BY <1>1, <1>2
<1> QED BY <1>1, <1>5, <1>6, <1>7

(* There is not enough for a frame.                                        *)
LEMMA DecodesNothing ==
  ASSUME IInv, pc = "decode", pc' = "recv",
         UNCHANGED <<stream, received, eos, role, halves, panicked, pos, cuts, remaining_data, message>>,
         \/ expected' = expected /\ TooShort
         \/ /\ Decode(wire, pos, received).res = "incomplete"
            /\ expected' = Decode(wire, pos, received).min
  PROVE  IInv'
<1>1. TypeOK /\ Live /\ outcome = None /\ ~panicked BY InProgress
<1> USE DEF message
<1>2. /\ wire \in Seq(Byte) /\ pos \in Nat /\ received \in Nat /\ received \in pos .. Len(wire)
      /\ remaining_data = 0
  BY <1>1, Decoding
<1>3. expected' = expected \/ (expected' \in Nat /\ Hopeless(wire, pos, expected'))
  BY <1>2, WaitIsRight
<1>4. remaining = 0 \/ Decode(wire, pos, received).res = "incomplete"
  <2>1. ASSUME expected # None, remaining < expected
        PROVE  Decode(wire, pos, received).res = "incomplete"
    BY <1>1, <1>2, <2>1 DEF Live, PollInv, Hopeless, remaining
  <2> QED BY <2>1 DEF TooShort
<1>5. TypeOK' BY <1>1, <1>3 DEF TypeOK, stream, remaining
<1>6. PosInv' /\ DataInv' /\ PhaseInv' /\ Count' = Count BY <1>1, <1>2, Unmoved
<1>7. wire' = wire /\ ending' = ending BY DEF stream
<1>8. PollInv'
  <2>1. expected' # None => Hopeless(wire, pos, expected') BY <1>1, <1>3 DEF Live, PollInv
  <2>2. eos' => received' = Len(wire') /\ ending' = "fin" BY <1>1, <1>7 DEF Live, PollInv
  <2>3. (expected # None => Hopeless(wire, pos, expected))' BY <1>7, <2>1 DEF Hopeless
  <2>4. remaining' = 0 \/ Decode(wire', pos', received').res = "incomplete"
    BY <1>4, <1>7 DEF remaining
  <2> QED BY <1>2, <2>2, <2>3, <2>4 DEF PollInv
<1>9. sent' = FramesOf(wire') /\ BodyIsFaithful' /\ NoneIsTrustworthy' BY <1>1, KeepsPromises
<1>10. OutcomeIsRFCExceptSettings' /\ outcome' = None /\ ~panicked' BY <1>1 DEF OutcomeIsRFCExceptSettings
<1> QED BY <1>5, <1>6, <1>8, <1>9, <1>10 DEF IInv, Live

(* A frame of an unknown type is passed over.                              *)
LEMMA DecodesUnknown ==
  ASSUME IInv, pc = "decode", NEW e, Decode(wire, pos, received).res = "unknown",
         e = Decode(wire, pos, received).end, advance(e), expected' = None,
         UNCHANGED <<stream, received, eos, role, halves, panicked, pc, remaining_data, message>>
  PROVE  IInv'
<1>1. TypeOK /\ Live /\ outcome = None /\ ~panicked BY InProgress
<1> USE DEF message
<1>2. /\ wire \in Seq(Byte) /\ sent \in Seq(FrameRecord) /\ Len(wire) \in Nat
      /\ pos \in Nat /\ pos \in 0 .. Len(wire)
      /\ received \in Nat /\ received \in pos .. Len(wire)
      /\ remaining_data = 0
      /\ Aligned(wire, sent, pos) /\ Count = CountTo(wire, sent, pos) /\ Count \in Nat
      /\ \A i \in 1 .. Count : sent[i].type = DATA => EndOf(sent[i]) <= pos
      /\ body = Upto(pos)
  BY <1>1, Decoding
<1>3. e \in (pos + 1) .. received /\ FramesFrom(wire)[pos] = FramesFrom(wire)[e]
  BY <1>2, DecodedUnknown
<1>4. e \in Nat /\ pos <= e /\ e <= received /\ e \in 0 .. Len(wire) /\ pos < e BY <1>2, <1>3
<1>5. Aligned(wire, sent, e) /\ CountTo(wire, sent, e) = Count BY <1>2, <1>3, <1>4, AlignedUnknown
<1>6. \A i \in (Count + 1) .. Len(sent) : sent[i].type = DATA => sent[i].at >= e
  BY <1>2, <1>4, <1>5, UnreadAhead
<1>7. body = Upto(e)
  <2>1. \A i \in 1 .. Len(sent) : i \in 1 .. Count \/ i \in (Count + 1) .. Len(sent) BY <1>2
  <2>2. \A i \in 1 .. Len(sent) : sent[i].type = DATA => EndOf(sent[i]) <= pos \/ sent[i].at >= e
    BY <1>2, <1>6, <2>1
  <2> QED BY <1>1, <1>2, <1>4, <2>2, NoBodyBetween
<1>8. wire' = wire /\ sent' = sent /\ ending' = ending BY DEF stream
<1>9. /\ pos' = e /\ pos' \in 0 .. received' /\ received' \in 0 .. Len(wire')
      /\ cuts' \subseteq (pos' + 1) .. received' /\ (remaining > 0 => received \in cuts)'
  BY <1>1, <1>4, <1>8, Advances
<1>10. TypeOK' BY <1>1, <1>8, <1>9 DEF TypeOK
<1>11. Boundary' = e /\ Count' = Count BY <1>2, <1>4, <1>5, <1>8, <1>9 DEF Boundary, Count
<1>12. PosInv' BY <1>5, <1>8, <1>11 DEF PosInv
<1>13. BodyBytes' = BodyBytes /\ (EmptyData' <=> EmptyData) /\ (TruncatedData' <=> TruncatedData)
  BY SentFixed
<1>14. \A i \in 1 .. Count : sent[i].type = DATA => EndOf(sent[i]) <= e
  <2>1. \A i \in 1 .. Count : i \in 1 .. Len(sent) BY <1>2, UnreadType
  <2>2. \A i \in 1 .. Count : EndOf(sent[i]) \in Nat BY <1>1, <2>1, SentNumbers
  <2> QED BY <1>2, <1>4, <2>2
<1>15. DataInv' BY <1>2, <1>7, <1>8, <1>9, <1>11, <1>13, <1>14 DEF DataInv, Upto
<1>16. PollInv' BY <1>1, <1>2, <1>8 DEF Live, PollInv
<1>17. \A i : Section(i)' = Section(i) BY SectionFixed
<1>18. ~(eos /\ pos = Len(wire)) BY <1>2, <1>4
<1>19. PhaseInv' BY <1>1, <1>8, <1>11, <1>13, <1>17, <1>18 DEF Live, PhaseInv
<1>20. sent' = FramesOf(wire') /\ BodyIsFaithful' /\ NoneIsTrustworthy' BY <1>1, KeepsPromises
<1>21. OutcomeIsRFCExceptSettings' /\ outcome' = None /\ ~panicked' BY <1>1 DEF OutcomeIsRFCExceptSettings
<1> QED BY <1>10, <1>12, <1>15, <1>16, <1>19, <1>20, <1>21 DEF IInv, Live

(* A frame that is an error wherever it comes.                             *)
LEMMA DecodesError ==
  ASSUME IInv, pc = "decode", Decode(wire, pos, received).res = "error",
         Finish(Conn(Decode(wire, pos, received).code)),
         UNCHANGED <<stream, received, eos, role, halves, panicked, pos, cuts, expected, remaining_data>>
  PROVE  IInv'
<1>1. TypeOK /\ Live /\ outcome = None /\ ~panicked BY InProgress
<1>2. /\ wire \in Seq(Byte) /\ sent \in Seq(FrameRecord) /\ Len(wire) \in Nat
      /\ pos \in Nat /\ pos \in 0 .. Len(wire) /\ received \in pos .. Len(wire)
      /\ Aligned(wire, sent, pos) /\ Count = CountTo(wire, sent, pos) /\ Count \in Nat
  BY <1>1, Decoding
<1> DEFINE code == Decode(wire, pos, received).code
           f == FramesFrom(wire)[pos][1]
<1>3. /\ Len(FramesFrom(wire)[pos]) >= 1
      /\ f.type \notin {DATA, HEADERS, Truncated}
      /\ \/ f.type = SETTINGS /\ BadSettings(wire, f.at, f.len) /\ code = "H3_SETTINGS_ERROR"
         \/ f.type # SETTINGS /\ code = "H3_FRAME_UNEXPECTED"
  BY <1>2, DecodedError
<1>4. Count + 1 \in 1 .. Len(sent) /\ sent[Count + 1] = f BY <1>2, <1>3, NextFrame
<1> HIDE DEF f, code
<1>5. sent[Count + 1].type \notin {DATA, HEADERS} BY <1>3, <1>4
<1>10. ReportedCode(sent[Count + 1]) = code
  BY <1>3, <1>4 DEF ReportedCode, Undecodable, BadCode
<1>6. Reported = Conn(code) BY <1>1, <1>4, <1>5, <1>10, NextIsBad
<1>7. /\ outcome' = Conn(code) /\ pc' = "idle" /\ stopped' = stopped
      /\ UNCHANGED <<phase, trailers, body>>
  BY <1>1 DEF Finish, Return, TypeOK, code
<1>8. outcome' \in Outcomes /\ outcome' # Complete /\ outcome' # None BY <1>3, <1>7, OutcomeTypes
<1>9. TypeOK' BY <1>1, <1>7, <1>8 DEF TypeOK, stream, remaining
<1> QED BY <1>1, <1>6, <1>7, <1>8, <1>9, Ends

(* What a frame the decoder has found is in the reference.                 *)
LEMMA FrameFound ==
  ASSUME TypeOK, Live, pc = "decode", NEW d, d = Decode(wire, pos, received), d.res = "frame"
  PROVE  /\ d.type \in Nat /\ d.len \in Nat
         /\ d.end \in Nat /\ pos < d.end /\ d.end <= received /\ d.end \in 0 .. Len(wire)
         /\ Count \in Nat /\ Count + 1 \in 1 .. Len(sent)
         /\ sent[Count + 1] = FrameAt(wire, pos) /\ sent[Count + 1] \in FrameRecord
         /\ sent[Count + 1].type = d.type
         /\ d.type \in {DATA, HEADERS} => sent[Count + 1].at = d.at /\ sent[Count + 1].len = d.len
         /\ d.type = HEADERS => FramesFrom(wire)[pos] = <<sent[Count + 1]>> \o FramesFrom(wire)[d.end]
         /\ sent[Count + 1].type = SETTINGS => ~BadSettings(wire, sent[Count + 1].at, sent[Count + 1].len)
<1>1. /\ wire \in Seq(Byte) /\ sent \in Seq(FrameRecord) /\ Len(wire) \in Nat
      /\ pos \in Nat /\ pos \in 0 .. Len(wire)
      /\ received \in Nat /\ received \in pos .. Len(wire)
      /\ Aligned(wire, sent, pos) /\ Count = CountTo(wire, sent, pos) /\ Count \in Nat
  BY Decoding
<1> DEFINE f == FrameAt(wire, pos)
           F == FramesFrom(wire)
<1>2. /\ d.type \in Nat /\ d.len \in Nat /\ d.end \in (pos + 1) .. received
      /\ Len(F[pos]) >= 1 /\ F[pos][1] = f /\ f \in FrameRecord /\ f.type = d.type
      /\ d.type = HEADERS =>
           /\ d.at = f.at /\ d.len = f.len /\ d.end = EndOf(f)
           /\ F[pos] = <<f>> \o F[EndOf(f)]
      /\ d.type = DATA => d.at = f.at /\ d.len = f.len
      /\ f.type = SETTINGS => ~BadSettings(wire, f.at, f.len)
  BY <1>1, DecodedFrame
<1>3. Count + 1 \in 1 .. Len(sent) /\ sent[Count + 1] = f BY <1>1, <1>2, NextFrame
<1> HIDE DEF f, F, Count
<1>4. /\ d.end \in Nat /\ pos < d.end /\ d.end <= received /\ d.end \in 0 .. Len(wire)
  BY <1>1, <1>2
<1>5. d.type = HEADERS => F[pos] = <<f>> \o F[d.end] BY <1>2
<1>6. d.type \in {DATA, HEADERS} => f.at = d.at /\ f.len = d.len BY <1>2
<1>7. /\ sent[Count + 1] \in FrameRecord /\ sent[Count + 1].type = d.type
      /\ d.type \in {DATA, HEADERS} => sent[Count + 1].at = d.at /\ sent[Count + 1].len = d.len
      /\ d.type = HEADERS => F[pos] = <<sent[Count + 1]>> \o F[d.end]
      /\ sent[Count + 1].type = SETTINGS => ~BadSettings(wire, sent[Count + 1].at, sent[Count + 1].len)
  BY <1>2, <1>3, <1>5, <1>6
<1> QED BY <1>1, <1>2, <1>3, <1>4, <1>7 DEF f, F

(* Passing a HEADERS frame.                                                *)
LEMMA HeadersPassed ==
  ASSUME TypeOK, Live, pc = "decode", NEW d, d = Decode(wire, pos, received), d.res = "frame",
         d.type = HEADERS
  PROVE  /\ Aligned(wire, sent, d.end) /\ CountTo(wire, sent, d.end) = Count + 1
         /\ body = Upto(d.end)
         /\ \A i \in 1 .. (Count + 1) : sent[i].type = DATA => EndOf(sent[i]) <= d.end
<1>1. /\ wire \in Seq(Byte) /\ sent \in Seq(FrameRecord) /\ Len(wire) \in Nat
      /\ pos \in Nat /\ pos \in 0 .. Len(wire)
      /\ Aligned(wire, sent, pos) /\ Count = CountTo(wire, sent, pos) /\ Count \in Nat
      /\ \A i \in 1 .. Count : sent[i].type = DATA => EndOf(sent[i]) <= pos
      /\ body = Upto(pos)
  BY Decoding
<1>2. /\ d.end \in Nat /\ pos < d.end /\ d.end \in 0 .. Len(wire)
      /\ Count + 1 \in 1 .. Len(sent) /\ sent[Count + 1] \in FrameRecord
      /\ sent[Count + 1].type = HEADERS
      /\ FramesFrom(wire)[pos] = <<sent[Count + 1]>> \o FramesFrom(wire)[d.end]
  BY FrameFound
<1>3. Aligned(wire, sent, d.end) /\ CountTo(wire, sent, d.end) = Count + 1
  <2> DEFINE e == d.end
             f == sent[Count + 1]
  <2>1. e \in 0 .. Len(wire) /\ f \in FrameRecord /\ Leads(wire, pos, f, e)
    BY <1>2 DEF Leads
  <2> HIDE DEF e, f
  <2>2. Aligned(wire, sent, e) /\ CountTo(wire, sent, e) = CountTo(wire, sent, pos) + 1
    <3>1. wire \in Seq(Byte) /\ sent \in Seq(FrameRecord) /\ pos \in 0 .. Len(wire) /\ Aligned(wire, sent, pos)
      BY <1>1
    <3> QED BY <2>1, <3>1, AlignedNext
  <2> QED BY <1>1, <2>2 DEF e
<1>4. \A i \in ((Count + 1) + 1) .. Len(sent) : sent[i].type = DATA => sent[i].at >= d.end
  BY <1>1, <1>2, <1>3, UnreadAhead
<1> HIDE DEF Count
<1>5. \A i \in 1 .. Len(sent) : i \in 1 .. Count \/ i = Count + 1 \/ i \in ((Count + 1) + 1) .. Len(sent)
  BY <1>1, <1>2
<1>6. HEADERS # DATA BY DEF HEADERS, DATA
<1>7. \A i \in 1 .. Len(sent) : sent[i].type = DATA => EndOf(sent[i]) <= pos \/ sent[i].at >= d.end
  <2> TAKE i \in 1 .. Len(sent)
  <2>1. CASE i \in 1 .. Count BY <1>1, <2>1
  <2>2. CASE i = Count + 1 BY <1>2, <1>6, <2>2
  <2>3. CASE i \in ((Count + 1) + 1) .. Len(sent) BY <1>4, <2>3
  <2> QED BY <1>5, <2>1, <2>2, <2>3
<1>8. body = Upto(d.end)
  <2> DEFINE e == d.end
  <2>1. /\ e \in Nat /\ pos <= e
        /\ \A i \in 1 .. Len(sent) : sent[i].type = DATA => EndOf(sent[i]) <= pos \/ sent[i].at >= e
    BY <1>1, <1>2, <1>7
  <2> HIDE DEF e
  <2>2. Upto(pos) = Upto(e) BY <1>1, <2>1, NoBodyBetween
  <2> QED BY <1>1, <2>2 DEF e
<1>9. \A i \in 1 .. (Count + 1) : (i \in 1 .. Count \/ i = Count + 1) /\ i \in 1 .. Len(sent) BY <1>1, <1>2
<1>10. \A i \in 1 .. (Count + 1) : EndOf(sent[i]) \in Nat BY <1>9, SentNumbers
<1>11. \A i \in 1 .. (Count + 1) : sent[i].type = DATA => EndOf(sent[i]) <= d.end
  BY <1>1, <1>2, <1>6, <1>9, <1>10
<1> QED BY <1>3, <1>8, <1>11

(* The part of DecodeFrame that is the same for all frames.                *)
Found(d) ==
  /\ pc = "decode" /\ d = Decode(wire, pos, received) /\ d.res = "frame"
  /\ advance(d.end) /\ expected' = None
  /\ remaining_data' = IF d.type \in {DATA, WEBTRANSPORT_BI_STREAM} THEN d.len ELSE remaining_data
  /\ UNCHANGED <<stream, received, eos, role, halves, panicked>>

(* Passing the frame keeps the types.                                      *)
LEMMA FoundTypes ==
  ASSUME TypeOK, Live, NEW d, Found(d), phase' \in {"head", "body", "trailers"},
         pc' \in {"idle", "decode", "recv", "data"}, trailers' \in Sections \cup {None},
         body' = body, outcome' \in Outcomes \cup {None}, stopped' \subseteq Codes
  PROVE  TypeOK' /\ pos' = d.end
<1>1. /\ d.len \in Nat /\ d.end \in Nat /\ pos < d.end /\ d.end <= received
  BY FrameFound DEF Found
<1>2. pos \in Nat BY Decoding DEF Found
<1>3. wire' = wire /\ sent' = sent /\ ending' = ending /\ received' = received BY DEF Found, stream
<1>4. /\ pos' = d.end /\ pos' \in 0 .. received' /\ received' \in 0 .. Len(wire')
      /\ cuts' \subseteq (pos' + 1) .. received' /\ (remaining > 0 => received \in cuts)'
  BY <1>1, <1>2, <1>3, Advances DEF Found
<1>5. remaining_data' \in Nat BY <1>1 DEF Found, TypeOK
<1> QED BY <1>3, <1>4, <1>5 DEF TypeOK, Found

(* A known frame that has no place in the message here.                    *)
LEMMA RefusesFrame ==
  ASSUME IInv, NEW d, Found(d), Finish(Conn("H3_FRAME_UNEXPECTED")),
         \/ phase = "head" /\ d.type # HEADERS
         \/ d.type \notin {DATA, HEADERS}
         \/ phase = "trailers"
  PROVE  IInv'
<1>1. TypeOK /\ Live /\ outcome = None /\ ~panicked BY InProgress DEF Found
<1>2. /\ outcome' = Conn("H3_FRAME_UNEXPECTED") /\ pc' = "idle" /\ stopped' = stopped
      /\ UNCHANGED <<phase, trailers, body>>
  BY <1>1 DEF Finish, Return, TypeOK
<1>3. outcome' \in Outcomes /\ outcome' # Complete /\ outcome' # None BY <1>2, OutcomeTypes
<1>4. TypeOK'
  <2>1. /\ phase' \in {"head", "body", "trailers"} /\ trailers' \in Sections \cup {None}
        /\ stopped' \subseteq Codes
    BY <1>1, <1>2 DEF TypeOK
  <2> QED BY <1>1, <1>2, <1>3, <2>1, FoundTypes
<1>5. /\ Count + 1 \in 1 .. Len(sent) /\ sent[Count + 1].type = d.type /\ d.type \in Nat
      /\ pos < d.end /\ d.end <= received
  BY <1>1, FrameFound DEF Found
<1>6. ReportedCode(sent[Count + 1]) = "H3_FRAME_UNEXPECTED"
  <2>1. sent[Count + 1].type # Truncated BY <1>5 DEF Truncated
  <2>2. ~Undecodable(sent[Count + 1])
    <3>1. sent[Count + 1].type = SETTINGS =>
            ~BadSettings(wire, sent[Count + 1].at, sent[Count + 1].len)
      BY <1>1, FrameFound DEF Found
    <3> QED BY <3>1 DEF Undecodable
  <2> QED BY <2>1, <2>2 DEF ReportedCode, BadCode
<1>7. EmptyData \/ TruncatedData \/ Reported = Conn("H3_FRAME_UNEXPECTED")
  <2>1. CASE phase = "trailers" /\ trailers = None
    <3>1. pos \in Nat /\ received \in Nat /\ received <= Len(wire) /\ d.end \in Nat
      BY <1>1, Decoding, FrameFound DEF Found
    <3>2. ~(pos = Len(wire)) BY <1>5, <3>1
    <3> QED BY <1>1, <2>1, <3>2 DEF Live, PhaseInv
  <2>2. CASE ~(phase = "trailers" /\ trailers = None)
    <3>1. Reported = Conn("H3_FRAME_UNEXPECTED") BY <1>1, <1>5, <1>6, <2>2, NextIsBad
    <3> QED BY <3>1
  <2> QED BY <2>1, <2>2
<1>8. UNCHANGED <<stream, role, phase, body>> /\ ~panicked' BY <1>1, <1>2 DEF Found
<1> QED BY <1>2, <1>3, <1>4, <1>7, <1>8, Ends

(* A HEADERS frame is passed, and the message goes on.                     *)
LEMMA HeadersLive ==
  ASSUME IInv, NEW d, Found(d), d.type = HEADERS, body' = body,
         trailers = None, pc' # "data", pc' # "recv", phase' # "head",
         phase' = "body" => trailers' = None,
         \/ phase = "head" /\ trailers' = None /\ phase' = "body" /\ into_parts(d.at, d.len) = "ok"
         \/ phase # "head" /\ trailers' = try_from(d.at, d.len)
  PROVE  Live'
<1>1. TypeOK /\ Live /\ outcome = None /\ ~panicked BY InProgress DEF Found
<1>2. wire' = wire /\ sent' = sent /\ ending' = ending /\ received' = received /\ eos' = eos
  BY DEF Found, stream
<1>3. /\ d.end \in Nat /\ Count \in Nat /\ Count + 1 \in 1 .. Len(sent)
      /\ sent[Count + 1].type = HEADERS /\ sent[Count + 1].at = d.at /\ sent[Count + 1].len = d.len
  BY <1>1, FrameFound DEF Found
<1>4. /\ Aligned(wire, sent, d.end) /\ CountTo(wire, sent, d.end) = Count + 1
      /\ body = Upto(d.end)
      /\ \A i \in 1 .. (Count + 1) : sent[i].type = DATA => EndOf(sent[i]) <= d.end
  BY <1>1, HeadersPassed DEF Found
<1>5. remaining_data' = 0 /\ expected' = None /\ pos' = d.end
  <2>1. d.type \notin {DATA, WEBTRANSPORT_BI_STREAM} BY DEF HEADERS, DATA, WEBTRANSPORT_BI_STREAM
  <2>2. remaining_data = 0 BY <1>1, Decoding DEF Found
  <2> QED BY <2>1, <2>2 DEF Found, advance
<1>6. Boundary' = d.end BY <1>3, <1>5 DEF Boundary
<1>7. Count' = Count + 1 BY <1>2, <1>4, <1>6 DEF Count
<1>8. PosInv' BY <1>2, <1>4, <1>6 DEF PosInv
<1>9. BodyBytes' = BodyBytes BY SentFixed DEF Found
<1> HIDE DEF Count, Boundary
<1>10. DataInv' BY <1>2, <1>4, <1>5, <1>6, <1>7, <1>9 DEF DataInv, Upto
<1>11. PollInv' BY <1>1, <1>2, <1>5 DEF Live, PollInv
<1>12. \A i : Section(i)' = Section(i) BY SectionFixed DEF Found
<1>13. PhaseInv'
  <2>1. CASE phase = "head"
    <3>1. Count = 0 BY <1>1, <2>1 DEF Live, PhaseInv
    <3>2. Section(1) = "ok" /\ sent[1].type = HEADERS BY <1>3, <2>1, <3>1 DEF Section
    <3>3. Count' = 1 /\ sent'[1].type = HEADERS /\ Section(1)' = "ok" BY <1>2, <1>7, <1>12, <3>1, <3>2
    <3> QED BY <2>1, <3>3 DEF PhaseInv
  <2>2. CASE phase # "head"
    <3>1. Count >= 1 /\ sent[1].type = HEADERS /\ Section(1) = "ok"
      BY <1>1, <2>2 DEF Live, PhaseInv
    <3>2. \A j \in 2 .. Count : sent[j].type = DATA BY <1>1 DEF Live, PhaseInv
    <3>3. trailers' = Section(Count + 1) BY <1>3, <2>2, <3>1 DEF Section
    <3>4. trailers' # None BY <2>2, SectionTypes, OutcomeTypes
    <3>5. Count' >= 2 /\ sent'[Count'].type = HEADERS /\ Count' - 1 = Count
      BY <1>2, <1>3, <1>7, <3>1
    <3>6. (trailers = Section(Count))' BY <1>7, <1>12, <3>3
    <3>7. Section(1)' = "ok" /\ sent'[1].type = HEADERS BY <1>2, <1>12, <3>1
    <3>8. \A j \in 2 .. (Count' - 1) : sent'[j].type = DATA BY <1>2, <3>2, <3>5
    <3> QED BY <1>3, <1>5, <1>7, <3>1, <3>4, <3>5, <3>6, <3>7, <3>8 DEF PhaseInv
  <2> QED BY <2>1, <2>2
<1> QED BY <1>8, <1>10, <1>11, <1>13 DEF Live

(* The message's header.                                                   *)
LEMMA ReceivesHead ==
  ASSUME IInv, NEW d, Found(d), phase = "head", RecvHead(d)
  PROVE  IInv'
<1>1. TypeOK /\ Live /\ outcome = None /\ ~panicked BY InProgress DEF Found
<1>2. CASE d.type # HEADERS BY <1>2, RefusesFrame DEF RecvHead
<1>3. CASE d.type = HEADERS
  <2> DEFINE sec == into_parts(d.at, d.len)
  <2>1. /\ Return(FieldsOutcome(sec), HeadCodes(sec))
        /\ phase' = IF sec = "ok" THEN "body" ELSE phase
        /\ UNCHANGED <<trailers, body>>
    BY <1>3 DEF RecvHead
  <2>2. sec \in Sections BY SectionTypes
  <2>3. trailers = None /\ Count = 0 BY <1>1 DEF Live, PhaseInv
  <2>4. UNCHANGED <<stream, role, body>> /\ ~panicked' BY <1>1, <2>1 DEF Found
  <2> HIDE DEF sec
  <2>5. outcome' = FieldsOutcome(sec) /\ pc' = "idle" /\ stopped' \subseteq Codes
    <3>1. HeadCodes(sec) \subseteq Codes BY <2>2, OutcomeTypes
    <3> QED BY <1>1, <2>1, <3>1 DEF Return, TypeOK
  <2>6. outcome' \in Outcomes \cup {None} BY <2>2, <2>5, OutcomeTypes
  <2>7. TypeOK'
    <3>1. phase' \in {"head", "body", "trailers"} /\ trailers' \in Sections \cup {None}
      BY <1>1, <2>1 DEF TypeOK
    <3> QED BY <1>1, <2>1, <2>5, <2>6, <3>1, FoundTypes
  <2>8. CASE sec = "ok"
    <3>1. outcome' = None /\ phase' = "body" BY <2>1, <2>5, <2>8, OutcomeTypes
    <3>2. Live' BY <1>3, <2>1, <2>3, <2>5, <2>8, <3>1, HeadersLive DEF sec
    <3>3. BodyBytes' = BodyBytes BY <2>4, SentFixed
    <3>4. BodyIsFaithful' BY <2>4, <3>3 DEF IInv, BodyIsFaithful
    <3>5. NoneIsTrustworthy' BY <2>4, <3>1 DEF NoneIsTrustworthy, NoneMeansFinished
    <3>6. sent' = FramesOf(wire') BY <2>4 DEF IInv, stream
    <3>7. OutcomeIsRFCExceptSettings' BY <3>1 DEF OutcomeIsRFCExceptSettings
    <3> QED BY <2>4, <2>5, <2>7, <3>1, <3>2, <3>4, <3>5, <3>6, <3>7 DEF IInv
  <2>9. CASE sec # "ok"
    <3>1. phase' = phase /\ outcome' \in Outcomes /\ outcome' # Complete /\ outcome' # None
      BY <2>1, <2>2, <2>5, <2>9, OutcomeTypes
    <3>2. /\ 1 \in 1 .. Len(sent) /\ sent[1].type = HEADERS
          /\ sent[1].at = d.at /\ sent[1].len = d.len
      BY <1>1, <1>3, <2>3, FrameFound DEF Found
    <3>3. Allowed(1) BY <3>2 DEF Allowed
    <3>4. Section(1) = sec BY <3>2 DEF Section, sec
    <3>5. sent # <<>> BY <1>1, <3>2, InBody
    <3>6. Reported = FieldsOutcome(sec)
      BY <2>9, <3>3, <3>4, <3>5, Zenon DEF Reported, OutcomeWith
    <3> QED BY <2>4, <2>5, <2>7, <3>1, <3>6, Ends
  <2> QED BY <2>8, <2>9
<1> QED BY <1>2, <1>3

(* HEADERS after the body are the end of a valid message.                  *)
LEMMA TrailersAreLast ==
  ASSUME IInv, Live, NEW d, Found(d), d.type = HEADERS, phase = "body", Demanded = Complete
  PROVE  body = BodyBytes
<1>1. TypeOK BY DEF IInv
<1>2. /\ d.end \in Nat /\ Count \in Nat /\ Count + 1 \in 1 .. Len(sent)
      /\ sent[Count + 1].type = HEADERS
  BY <1>1, FrameFound DEF Found
<1>3. /\ body = Upto(d.end)
      /\ \A i \in 1 .. (Count + 1) : sent[i].type = DATA => EndOf(sent[i]) <= d.end
  BY <1>1, HeadersPassed DEF Found
<1>4. Count >= 1 /\ Section(1) = "ok" BY DEF Live, PhaseInv
<1> HIDE DEF Count
<1>5. \A i \in 1 .. Len(sent) : i \in 1 .. (Count + 1)
  <2> SUFFICES ASSUME NEW i \in 1 .. Len(sent), i > Count + 1 PROVE FALSE BY <1>2
  <2>1. Allowed(i) BY <1>1, <1>4, CompleteIsAllowed
  <2>2. i # 1 /\ Count + 1 \in 2 .. (i - 1) BY <1>2, <1>4
  <2>3. sent[Count + 1].type = DATA BY <2>1, <2>2 DEF Allowed
  <2> QED BY <1>2, <2>3 DEF DATA, HEADERS
<1>6. \A i \in 1 .. Len(sent) : sent[i].type = DATA => EndOf(sent[i]) <= d.end BY <1>3, <1>5
<1> DEFINE e == d.end
<1>7. e \in Nat /\ body = Upto(e) BY <1>2, <1>3
<1>8. \A i \in 1 .. Len(sent) : sent[i].type = DATA => EndOf(sent[i]) <= e BY <1>6
<1> HIDE DEF e
<1>9. Upto(e) = BodyBytes BY <1>1, <1>7, <1>8, AllBody
<1> QED BY <1>7, <1>9

(* A DATA frame is entered.                                                *)
LEMMA EntersData ==
  ASSUME TypeOK, Live, NEW d, Found(d), d.type = DATA
  PROVE  LET e == d.end + d.len
         IN /\ Aligned(wire, sent, e) /\ CountTo(wire, sent, e) = Count + 1
            /\ EndOf(sent[Count + 1]) = e /\ sent[Count + 1].at = d.end
            /\ body = Upto(d.end)
            /\ \A i \in 1 .. (Count + 1) : sent[i].type = DATA => EndOf(sent[i]) <= e
<1>1. /\ wire \in Seq(Byte) /\ sent \in Seq(FrameRecord) /\ Len(wire) \in Nat
      /\ pos \in Nat /\ pos \in 0 .. Len(wire)
      /\ received \in Nat /\ received \in pos .. Len(wire)
      /\ Aligned(wire, sent, pos) /\ Count = CountTo(wire, sent, pos) /\ Count \in Nat
      /\ \A i \in 1 .. Count : sent[i].type = DATA => EndOf(sent[i]) <= pos
      /\ body = Upto(pos)
  BY Decoding DEF Found
<1>2. /\ d.end \in Nat /\ d.len \in Nat /\ pos < d.end
      /\ Count + 1 \in 1 .. Len(sent) /\ sent[Count + 1] \in FrameRecord
      /\ sent[Count + 1].type = DATA
      /\ sent[Count + 1] = FrameAt(wire, pos)
  BY FrameFound DEF Found
<1> DEFINE f == FrameAt(wire, pos)
           F == FramesFrom(wire)
           e == EndOf(f)
           at == d.end
<1>3. /\ d.len = f.len /\ d.end = f.at
      /\ F[pos] = IF EndOf(f) > Len(wire) THEN <<f, CutShort(f)>> ELSE <<f>> \o F[EndOf(f)]
  BY <1>1, DecodedFrame DEF Found
<1>4. f \in FrameRecord /\ f = sent[Count + 1] BY <1>2
<1>5. e = d.end + d.len /\ e \in Nat /\ at \in Nat /\ at <= e /\ pos < at /\ at = f.at
  BY <1>2, <1>3 DEF EndOf
<1> HIDE DEF f, F, e
<1>6. Aligned(wire, sent, e) /\ CountTo(wire, sent, e) = Count + 1
  <2>1. CASE e <= Len(wire)
    <3>1. Leads(wire, pos, f, e) BY <1>1, <1>3, <1>5, <2>1 DEF Leads, F, e
    <3>2. e \in 0 .. Len(wire) BY <1>1, <1>5, <2>1
    <3> QED BY <1>1, <1>4, <3>1, <3>2, AlignedNext
  <2>2. CASE e > Len(wire)
    <3> DEFINE g == CutShort(f)
    <3>1. g \in FrameRecord /\ g.type = Truncated BY <1>4 DEF CutShort, FrameRecord, Truncated
    <3>2. FramesFrom(wire)[pos] = <<f, g>> BY <1>3, <2>2 DEF F, e
    <3> HIDE DEF g
    <3> QED BY <1>1, <1>4, <1>5, <2>2, <3>1, <3>2, AlignedCut
  <2> QED BY <1>1, <1>5, <2>1, <2>2
<1>7. \A i \in ((Count + 1) + 1) .. Len(sent) : sent[i].type = DATA => sent[i].at >= e
  BY <1>1, <1>5, <1>6, UnreadAhead
<1> HIDE DEF Count, at
<1>8. \A i \in 1 .. Len(sent) : i \in 1 .. Count \/ i = Count + 1 \/ i \in ((Count + 1) + 1) .. Len(sent)
  BY <1>1, <1>2
<1>9. \A i \in 1 .. Len(sent) : sent[i].type = DATA => EndOf(sent[i]) <= pos \/ sent[i].at >= at
  <2> TAKE i \in 1 .. Len(sent)
  <2>0. sent[i].at \in Nat BY SentNumbers
  <2>1. CASE i \in 1 .. Count BY <1>1, <2>1
  <2>2. CASE i = Count + 1
    <3>1. sent[i].at = at BY <1>4, <1>5, <2>2
    <3> QED BY <1>5, <3>1
  <2>3. CASE i \in ((Count + 1) + 1) .. Len(sent) BY <1>5, <1>7, <2>0, <2>3
  <2> QED BY <1>8, <2>1, <2>2, <2>3
<1>10. body = Upto(at)
  <2>1. pos <= at BY <1>1, <1>5
  <2>2. Upto(pos) = Upto(at) BY <1>1, <1>5, <1>9, <2>1, NoBodyBetween
  <2> QED BY <1>1, <2>2
<1>11. \A i \in 1 .. (Count + 1) : sent[i].type = DATA => EndOf(sent[i]) <= e
  <2> TAKE i \in 1 .. (Count + 1)
  <2>1. (i \in 1 .. Count \/ i = Count + 1) /\ i \in 1 .. Len(sent) BY <1>1, <1>2
  <2>2. EndOf(sent[i]) \in Nat BY <2>1, SentNumbers
  <2>3. CASE i \in 1 .. Count BY <1>1, <1>5, <2>2, <2>3
  <2>4. CASE i = Count + 1 BY <1>4, <1>5, <2>4 DEF e
  <2> QED BY <2>1, <2>3, <2>4
<1>12. EndOf(sent[Count + 1]) = e /\ sent[Count + 1].at = at BY <1>4, <1>5 DEF e
<1> QED BY <1>5, <1>6, <1>10, <1>11, <1>12 DEF at

(* A frame while the body is read.                                         *)
LEMMA ReceivesBodyFrame ==
  ASSUME IInv, NEW d, Found(d), phase = "body", RecvData(d)
  PROVE  IInv'
<1>1. TypeOK /\ Live /\ outcome = None /\ ~panicked BY InProgress DEF Found
<1>2. UNCHANGED <<stream, role>> /\ ~panicked' BY <1>1 DEF Found
<1>3. trailers = None /\ Count >= 1 BY <1>1 DEF Live, PhaseInv
<1>4. CASE d.type \notin {HEADERS, DATA}
  <2>1. Finish(Conn("H3_FRAME_UNEXPECTED")) BY <1>4 DEF RecvData
  <2> QED BY <1>4, <2>1, RefusesFrame
<1>5. CASE d.type = HEADERS
  <2>1. BodyDone /\ trailers' = try_from(d.at, d.len) BY <1>5 DEF RecvData, HEADERS, DATA
  <2>2. /\ outcome' = None /\ pc' = "idle" /\ phase' = "trailers" /\ body' = body
        /\ stopped' = stopped
    BY <1>1, <2>1 DEF BodyDone, Return, TypeOK
  <2>3. trailers' \in Sections \cup {None} BY <2>1, SectionTypes
  <2>4. stopped' \subseteq Codes BY <1>1, <2>2 DEF TypeOK
  <2>5. TypeOK' BY <1>1, <2>2, <2>3, <2>4, FoundTypes
  <2>6. Live' BY <1>3, <1>5, <2>1, <2>2, HeadersLive
  <2>7. Demanded = Complete => body = BodyBytes BY <1>1, <1>5, TrailersAreLast
  <2>8. sent' = FramesOf(wire') /\ OutcomeIsRFCExceptSettings' /\ BodyIsFaithful' /\ NoneIsTrustworthy'
    BY <1>1, <1>2, <2>2, <2>7, TurnsToTrailers
  <2> QED BY <1>2, <2>2, <2>5, <2>6, <2>8 DEF IInv
<1>6. CASE d.type = DATA
  <2>1. pc' = "data" /\ UNCHANGED <<phase, trailers, body, outcome, stopped>>
    BY <1>6 DEF RecvData, HEADERS, DATA, message
  <2>2. TypeOK' /\ pos' = d.end
    <3>1. /\ phase' \in {"head", "body", "trailers"} /\ trailers' \in Sections \cup {None}
          /\ stopped' \subseteq Codes /\ outcome' \in Outcomes \cup {None}
      BY <1>1, <2>1 DEF TypeOK
    <3> QED BY <1>1, <2>1, <3>1, FoundTypes
  <2>3. wire' = wire /\ sent' = sent /\ ending' = ending /\ received' = received /\ eos' = eos
    BY DEF Found, stream
  <2>4. remaining_data' = d.len /\ expected' = None BY <1>6 DEF Found
  <2> DEFINE e == d.end + d.len
  <2>5. /\ Aligned(wire, sent, e) /\ CountTo(wire, sent, e) = Count + 1
        /\ EndOf(sent[Count + 1]) = e /\ sent[Count + 1].at = d.end
        /\ body = Upto(d.end)
        /\ \A i \in 1 .. (Count + 1) : sent[i].type = DATA => EndOf(sent[i]) <= e
    BY <1>1, <1>6, EntersData
  <2>6. Boundary' = e BY <2>2, <2>4 DEF Boundary
  <2>7. Count' = Count + 1 BY <2>3, <2>5, <2>6 DEF Count
  <2>8. PosInv' BY <2>3, <2>5, <2>6 DEF PosInv
  <2>9. /\ BodyBytes' = BodyBytes /\ (EmptyData' <=> EmptyData)
    BY <1>2, SentFixed
  <2>10. /\ Count \in Nat /\ Count + 1 \in 1 .. Len(sent) /\ d.end \in Nat
         /\ sent[Count + 1].type = DATA /\ sent[Count + 1].len = d.len
    BY <1>1, <1>6, FrameFound DEF Found
  <2>11. Count' >= 2 BY <1>3, <2>7, <2>10
  <2> HIDE DEF Count, Boundary, e
  <2>12. DataInv'
    <3>1. sent'[Count'].type = DATA /\ sent'[Count'].at <= pos' /\ EndOf(sent'[Count']) = Boundary'
      BY <2>2, <2>3, <2>5, <2>6, <2>7, <2>10
    <3>2. \A i \in 1 .. Count' : sent'[i].type = DATA => EndOf(sent'[i]) <= Boundary'
      BY <2>3, <2>5, <2>6, <2>7
    <3>3. body' = {q \in BodyBytes' : q <= pos'} BY <2>1, <2>2, <2>5, <2>9 DEF Upto
    <3> QED BY <2>1, <2>4, <2>11, <3>1, <3>2, <3>3 DEF DataInv
  <2>13. d.len = 0 => EmptyData BY <2>10 DEF EmptyData
  <2>14. PollInv' BY <1>1, <2>1, <2>3, <2>4, <2>9, <2>11, <2>13 DEF Live, PollInv
  <2>15. \A i : Section(i)' = Section(i) BY <1>2, SectionFixed
  <2>16. \A j \in 2 .. Count' : sent'[j].type = DATA
    <3>1. \A j \in 2 .. Count : sent[j].type = DATA BY <1>1, <1>3 DEF Live, PhaseInv
    <3>2. \A j \in 2 .. Count' : j \in 2 .. Count \/ j = Count + 1 BY <2>7, <2>10
    <3> QED BY <2>3, <2>10, <3>1, <3>2
  <2>17. sent[1].type = HEADERS /\ Section(1) = "ok" BY <1>1 DEF Live, PhaseInv
  <2>18. PhaseInv' BY <1>3, <2>1, <2>3, <2>7, <2>10, <2>11, <2>15, <2>16, <2>17 DEF PhaseInv
  <2>19. sent' = FramesOf(wire') /\ BodyIsFaithful' /\ NoneIsTrustworthy'
    BY <1>2, <2>1, KeepsPromises
  <2>20. OutcomeIsRFCExceptSettings' /\ outcome' = None BY <1>1, <2>1 DEF OutcomeIsRFCExceptSettings
  <2> QED BY <1>2, <2>2, <2>8, <2>12, <2>14, <2>18, <2>19, <2>20 DEF IInv, Live
<1> QED BY <1>4, <1>5, <1>6

(* A frame after the body.                                                 *)
LEMMA ReceivesTrailers ==
  ASSUME IInv, NEW d, Found(d), phase = "trailers", RecvTrailers(d)
  PROVE  IInv'
<1>1. TypeOK /\ Live /\ outcome = None /\ ~panicked BY InProgress DEF Found
<1>2. UNCHANGED <<stream, role>> /\ ~panicked' BY <1>1 DEF Found
<1>3. CASE d.type # HEADERS \/ trailers # None
  <2>1. Finish(Conn("H3_FRAME_UNEXPECTED")) BY <1>3 DEF RecvTrailers
  <2> QED BY <2>1, RefusesFrame
<1>4. CASE d.type = HEADERS /\ trailers = None
  <2> DEFINE sec == try_from(d.at, d.len)
  <2>1. sec \in Sections /\ sec # None BY SectionTypes, OutcomeTypes
  <2>2. EmptyData \/ TruncatedData
    <3>1. pos \in Nat /\ received \in Nat /\ received <= Len(wire) /\ pos < d.end /\ d.end <= received
      BY <1>1, Decoding, FrameFound DEF Found
    <3>2. d.end \in Nat /\ Len(wire) \in Nat BY <1>1, Decoding, FrameFound DEF Found
    <3>3. pos # Len(wire) BY <3>1, <3>2
    <3> QED BY <1>1, <1>4, <3>3 DEF Live, PhaseInv
  <2>3. CASE eos /\ d.end = received
    <3>1. DecodeTrailers(sec) BY <1>4, <2>3 DEF RecvTrailers
    <3> HIDE DEF sec
    <3>2. /\ outcome' = IF sec = "ok" THEN Complete ELSE FieldsOutcome(sec)
          /\ stopped' = stopped \cup TrailerCodes(sec) /\ pc' = "idle"
          /\ trailers' = None /\ UNCHANGED <<phase, body>>
      BY <3>1 DEF DecodeTrailers, Return
    <3>3. outcome' \in Outcomes /\ outcome' # None BY <2>1, <3>2, OutcomeTypes
    <3>4. stopped' \subseteq Codes BY <1>1, <2>1, <3>2, OutcomeTypes DEF TypeOK
    <3>5. phase' \in {"head", "body", "trailers"} BY <3>2
    <3>6. TypeOK' BY <1>1, <3>2, <3>3, <3>4, <3>5, FoundTypes
    <3>7. ending = "fin" BY <1>1, <2>3 DEF Live, PollInv
    <3> QED BY <1>2, <2>2, <3>2, <3>3, <3>6, <3>7, Ends
  <2>4. CASE ~(eos /\ d.end = received)
    <3>1. trailers' = sec /\ pc' = "decode" /\ UNCHANGED <<phase, body, outcome, stopped>>
      BY <1>4, <2>4 DEF RecvTrailers
    <3>2. Live' BY <1>4, <3>1, HeadersLive
    <3> HIDE DEF sec
    <3>3. /\ phase' \in {"head", "body", "trailers"} /\ trailers' \in Sections \cup {None}
          /\ stopped' \subseteq Codes /\ outcome' \in Outcomes \cup {None}
      BY <1>1, <2>1, <3>1 DEF TypeOK
    <3>4. TypeOK' BY <1>1, <3>1, <3>3, FoundTypes
    <3>5. sent' = FramesOf(wire') /\ BodyIsFaithful' /\ NoneIsTrustworthy'
      BY <1>2, <3>1, KeepsPromises
    <3>6. OutcomeIsRFCExceptSettings' /\ outcome' = None BY <1>1, <3>1 DEF OutcomeIsRFCExceptSettings
    <3> QED BY <1>2, <3>2, <3>4, <3>5, <3>6 DEF IInv
  <2> QED BY <2>3, <2>4
<1> QED BY <1>3, <1>4

(* One round of poll_next's loop.                                          *)
LEMMA DecodesFrame ==
  ASSUME IInv, DecodeFrame PROVE IInv'
<1> DEFINE d == Decode(wire, pos, received)
<1>1. pc = "decode" /\ UNCHANGED <<stream, received, eos, role, halves, panicked>>
  BY DEF DecodeFrame
<1>2. CASE TooShort
  <2>1. pc' = "recv" /\ UNCHANGED <<pos, cuts, expected, remaining_data, message>>
    BY <1>2 DEF DecodeFrame
  <2> QED BY <1>1, <1>2, <2>1, DecodesNothing
<1>3. ASSUME d.res = "incomplete", expected' = d.min, pc' = "recv",
             UNCHANGED <<pos, cuts, remaining_data, message>>
      PROVE  IInv'
  BY <1>1, <1>3, DecodesNothing
<1>4. ASSUME d.res = "unknown", advance(d.end), expected' = None,
             UNCHANGED <<pc, remaining_data, message>>
      PROVE  IInv'
  BY <1>1, <1>4, DecodesUnknown
<1>5. ASSUME d.res = "error", Finish(Conn(d.code)), UNCHANGED <<pos, cuts, expected, remaining_data>>
      PROVE  IInv'
  BY <1>1, <1>5, DecodesError
<1>6. ASSUME d.res = "frame", advance(d.end), expected' = None,
             remaining_data' = IF d.type \in {DATA, WEBTRANSPORT_BI_STREAM} THEN d.len
                               ELSE remaining_data,
             OnFrame(d)
      PROVE  IInv'
  <2>1. Found(d) BY <1>1, <1>6 DEF Found
  <2> HIDE DEF d
  <2>2. CASE phase = "head" /\ RecvHead(d) BY <2>1, <2>2, ReceivesHead
  <2>3. CASE phase = "body" /\ RecvData(d) BY <2>1, <2>3, ReceivesBodyFrame
  <2>4. CASE phase = "trailers" /\ RecvTrailers(d) BY <2>1, <2>4, ReceivesTrailers
  <2> QED BY <1>6, <2>2, <2>3, <2>4 DEF OnFrame
<1>7. CASE ~TooShort
  <2>1. \/ /\ d.res = "incomplete"
           /\ expected' = d.min
           /\ pc' = "recv"
           /\ UNCHANGED <<pos, cuts, remaining_data, message>>
        \/ /\ d.res = "unknown"
           /\ advance(d.end)
           /\ expected' = None
           /\ UNCHANGED <<pc, remaining_data, message>>
        \/ /\ d.res = "error"
           /\ Finish(Conn(d.code))
           /\ UNCHANGED <<pos, cuts, expected, remaining_data>>
        \/ /\ d.res = "frame"
           /\ advance(d.end)
           /\ expected' = None
           /\ remaining_data' = IF d.type \in {DATA, WEBTRANSPORT_BI_STREAM} THEN d.len
                                ELSE remaining_data
           /\ OnFrame(d)
    BY <1>7 DEF DecodeFrame
  <2> HIDE DEF d
  <2> QED BY <1>3, <1>4, <1>5, <1>6, <2>1
<1> QED BY <1>2, <1>7

(***************************************************************************)
(* The theorems.                                                           *)
(***************************************************************************)

(* Before the first byte: every frame is unread.                           *)
LEMMA InitInv ==
  ASSUME Init PROVE IInv
<1>1. /\ wire \in Wires /\ ending \in Endings /\ sent = FramesOf(wire)
      /\ pos = 0 /\ received = 0 /\ cuts = {} /\ eos = FALSE /\ expected = None
      /\ remaining_data = 0 /\ role \in Roles /\ phase = "head" /\ pc = "idle" /\ trailers = None
      /\ body = {} /\ outcome = None /\ stopped = {} /\ halves = FALSE /\ panicked = FALSE
  BY DEF Init, InitStream
<1>2. wire \in Seq(Byte) /\ Len(wire) \in Nat BY <1>1, WiresAssumption
<1>3. sent = FramesFrom(wire)[0] /\ sent \in Seq(FrameRecord)
  BY <1>1, <1>2, 0 \in 0 .. Len(wire), FramesAhead DEF FramesOf, Ahead
<1>4. TypeOK
  <2>1. sent \in Seq([type : Int, at : Nat, len : Nat]) BY <1>3 DEF FrameRecord
  <2>2. /\ pos \in 0 .. received /\ received \in 0 .. Len(wire) /\ remaining_data \in Nat
        /\ cuts \subseteq (pos + 1) .. received /\ ~(remaining > 0)
    BY <1>1, <1>2 DEF remaining
  <2>3. expected \in Nat \cup {None} /\ trailers \in Sections \cup {None}
        /\ outcome \in Outcomes \cup {None} /\ eos \in BOOLEAN /\ halves \in BOOLEAN
        /\ panicked \in BOOLEAN /\ body \subseteq 1 .. Len(wire) /\ stopped \subseteq Codes
    BY <1>1
  <2> QED BY <1>1, <2>1, <2>2, <2>3, Zenon DEF TypeOK
<1>5. Boundary = 0 BY <1>1 DEF Boundary
<1>6. Unread(wire, sent, 0) = sent BY <1>2, <1>3 DEF Unread
<1>7. CountTo(wire, sent, 0) = 0 BY <1>3, <1>6 DEF CountTo
<1>8. Count = 0 BY <1>5, <1>7 DEF Count
<1>9. PosInv
  <2>1. Aligned(wire, sent, 0) BY <1>2, <1>3, <1>6, <1>7 DEF Aligned
  <2> QED BY <1>5, <2>1 DEF PosInv
<1>10. DataInv
  <2>1. \A q \in BodyBytes : ~(q <= 0) BY <1>4, InBody
  <2>2. \A i \in 1 .. Count : FALSE BY <1>8
  <2>3. body = {q \in BodyBytes : q <= pos} BY <1>1, <2>1
  <2> QED BY <1>1, <2>2, <2>3, Zenon DEF DataInv
<1>11. PollInv /\ PhaseInv BY <1>1, <1>8 DEF PollInv, PhaseInv
<1>12. OutcomeIsRFCExceptSettings /\ BodyIsFaithful /\ NoneIsTrustworthy
  BY <1>1 DEF OutcomeIsRFCExceptSettings, BodyIsFaithful, NoneIsTrustworthy, NoneMeansFinished
<1> QED BY <1>1, <1>4, <1>9, <1>10, <1>11, <1>12 DEF IInv, Live

(* Nothing changes.                                                        *)
LEMMA StutterInv ==
  ASSUME IInv, UNCHANGED vars PROVE IInv'
<1>1. /\ UNCHANGED <<stream, role, pos, received, cuts, eos, expected, remaining_data, pc, phase,
                     trailers, body, outcome, stopped, halves, panicked>>
  BY DEF vars, frames, buf, message
<1>2. TypeOK' BY <1>1 DEF IInv, TypeOK, stream, remaining
<1>3. outcome = None /\ ~panicked => Live'
  <2> SUFFICES ASSUME outcome = None /\ ~panicked PROVE Live' OBVIOUS
  <2>1. TypeOK /\ Live BY DEF IInv
  <2>2. PosInv' /\ DataInv' /\ PhaseInv' /\ Count' = Count BY <1>1, <2>1, Unmoved
  <2>3. EmptyData' <=> EmptyData BY <1>1, SentFixed
  <2>4. PollInv' BY <1>1, <2>1, <2>2, <2>3 DEF Live, PollInv, Hopeless, stream, remaining
  <2> QED BY <2>2, <2>4 DEF Live
<1>4. panicked' => TruncatedData BY <1>1 DEF IInv, NoneIsTrustworthy
<1>5. sent' = FramesOf(wire') /\ BodyIsFaithful' /\ NoneIsTrustworthy' BY <1>1, <1>4, KeepsPromises
<1>6. /\ EmptyData' <=> EmptyData
      /\ TruncatedData' <=> TruncatedData
      /\ QuicOutcome' = QuicOutcome /\ Reported' = Reported /\ ending' = ending
  BY <1>1, SentFixed, DemandedFixed DEF stream
<1>7. OutcomeIsRFCExceptSettings' BY <1>1, <1>6 DEF IInv, OutcomeIsRFCExceptSettings
<1> QED BY <1>1, <1>2, <1>3, <1>5, <1>7 DEF IInv

(* The state of a stream that is received corresponds to the frames the    *)
(* peer has sent at every moment: whatever the bytes are, however QUIC     *)
(* cuts them, whatever futures the caller drops and wherever it splits the *)
(* stream.                                                                 *)
THEOREM Inductive == Spec => []IInv
<1>1. Init => IInv BY InitInv
<1>2. IInv /\ [Next]_vars => IInv'
  <2> SUFFICES ASSUME IInv, [Next]_vars PROVE IInv' OBVIOUS
  <2>1. CASE CallHead BY <2>1, CallsHead
  <2>2. CASE CallRecvData BY <2>2, CallsRecvData
  <2>3. CASE CallRecvTrailers BY <2>3, CallsRecvTrailers
  <2>4. CASE DecodeFrame BY <2>4, DecodesFrame
  <2>5. CASE PollDataEmpty BY <2>5, PollsEmptyData
  <2>6. CASE Receive
    <3>1. CASE \E n \in 1 .. MaxChunk : RecvChunk(n) BY <3>1, ReceivesChunk
    <3>2. CASE RecvEnd BY <3>2, ReceivesEnd
    <3>3. CASE RecvBroken BY <3>3, ReceivesBroken
    <3>4. CASE \E n \in 0 .. MaxChunk : PollData(n) BY <3>4, PollsData
    <3>5. CASE PollDataAtEnd BY <3>5, PollsDataAtEnd
    <3> QED BY <2>6, <3>1, <3>2, <3>3, <3>4, <3>5 DEF Receive
  <2>7. CASE DropCall BY <2>7, DropsCall
  <2>8. CASE Split BY <2>8, Splits
  <2>9. CASE UNCHANGED vars BY <2>9, StutterInv
  <2> QED BY <2>1, <2>2, <2>3, <2>4, <2>5, <2>6, <2>7, <2>8, <2>9 DEF Next, Call
<1> QED BY <1>1, <1>2, PTL DEF Spec

(* Every variable of the receiving side keeps its type: in particular the  *)
(* buffer never hands out more than was received.                          *)
THEOREM TypeCorrect == Spec => []TypeOK
<1>1. IInv => TypeOK BY DEF IInv
<1> QED BY <1>1, Inductive, PTL

(* A message has the outcome RFC 9114 demands of its frames, or the error  *)
(* of the QUIC stream under it, and is not complete unless the peer ended  *)
(* it; the empty and the truncated DATA frame are the exceptions, and a    *)
(* SETTINGS frame that does not decode, which is reported as               *)
(* H3_SETTINGS_ERROR where H3_FRAME_UNEXPECTED is demanded.                *)
THEOREM OutcomeReported == Spec => []OutcomeIsRFCExceptSettings
<1>1. IInv => OutcomeIsRFCExceptSettings BY DEF IInv
<1> QED BY <1>1, Inductive, PTL

(* recv_data returns the payload of the DATA frames, from its beginning    *)
(* and without a gap, and nothing else.                                    *)
THEOREM BodyFaithful == Spec => []BodyIsFaithful
<1>1. IInv => BodyIsFaithful BY DEF IInv
<1> QED BY <1>1, Inductive, PTL

(* The None of recv_data means that all of a valid message's body was      *)
(* returned, unless it has an empty DATA frame; and the assertion of       *)
(* poll_next fails only after a DATA frame cut short.                      *)
THEOREM NoneTrustworthy == Spec => []NoneIsTrustworthy
<1>1. IInv => NoneIsTrustworthy BY DEF IInv
<1> QED BY <1>1, Inductive, PTL
=============================================================================
