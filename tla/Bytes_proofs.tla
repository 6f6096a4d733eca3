----------------------------- MODULE Bytes_proofs -----------------------------
(***************************************************************************)
(* What happens to bytes, for every stream, every way of cutting it into   *)
(* chunks, every frame limit and every size of buffers and reads.  First   *)
(* the frame decoder, which ends with the bytes behind a first message;    *)
(* then the bridge, which begins with them.                                *)
(***************************************************************************)
EXTENDS FrameDecoder, ByteBridge, TLAPS

-----------------------------------------------------------------------------
(* The frame decoder *)

\* The stream does not change: what a line is and which are good stay the same.
LEMMA SameInput ==
  ASSUME UNCHANGED input
  PROVE  /\ \A f : Good(f)' <=> Good(f)
         /\ \A f, q : IsLine(f, q)' <=> IsLine(f, q)
         /\ \A b, e : LineFrom(b, e)' <=> LineFrom(b, e)
  BY DEF Good, Authentic, IsLine, LineFrom

\* So the frames of a decoder that does not move are as right as before.
LEMMA SameFrames ==
  ASSUME DeliversLines, UNCHANGED <<input, frames, offset>>
  PROVE  DeliversLines'
  <1>1. \A f \in frames : Good(f)' /\ \E q \in 1..offset : IsLine(f, q)'
    BY SameInput DEF DeliversLines
  <1>2. \A q \in 1..offset : input[q] = "newline" => \E f \in frames : IsLine(f, q)'
    BY SameInput DEF DeliversLines
  <1> QED
    BY <1>1, <1>2 DEF DeliversLines

\* The invariant holds before the first chunk (createDecoder).
LEMMA DecoderStarts == DecoderInit => DecoderInv
  <1> SUFFICES ASSUME DecoderInit PROVE DecoderInv
    OBVIOUS
  <1>1. DecoderTypeOK
    <2>1. passed \in 0..Length /\ offset \in 0..passed /\ length \in 0..MaxFrame
      BY SizesAssumption DEF DecoderInit
    <2>2. stopped \in BOOLEAN /\ invalid \in BOOLEAN
      BY DEF DecoderInit
    <2>3. fragments \subseteq Bytes /\ remainder \subseteq Bytes /\ \A f \in frames : f \subseteq Bytes
      BY DEF DecoderInit
    <2> QED
      BY <2>1, <2>2, <2>3 DEF DecoderInit, DecoderTypeOK
  <1>2. DeliversLines /\ HandsOverTheRest /\ ComplainsRightly
    BY DEF DecoderInit, DeliversLines, HandsOverTheRest, ComplainsRightly
  <1>3. LineFrom(offset - length, offset) /\ fragments = (offset - length + 1)..offset
    BY DEF DecoderInit, LineFrom
  <1> QED
    BY <1>1, <1>2, <1>3 DEF DecoderInit, DecoderInv

\* invalid() keeps the invariant if the line that starts behind the offset's is
\* bad at position e, all of it passed to the decoder.
LEMMA InvalidInv ==
  ASSUME DecoderInv, ~stopped, Invalid,
         NEW e \in 1..passed,
         LineFrom(offset - length, e - 1),
         IF input[e] = "newline"
         THEN ~Good((offset - length + 1)..(e - 1))
         ELSE e - (offset - length) > MaxFrame
  PROVE  DecoderInv'
  <1>1. DecoderTypeOK'
    BY SizesAssumption DEF DecoderInv, DecoderTypeOK, Invalid, given, Bytes
  <1>2. HandsOverTheRest'
    BY DEF DecoderInv, Invalid, given, HandsOverTheRest
  <1>3. DeliversLines'
    BY SameFrames DEF DecoderInv, Invalid, given
  <1>4. ComplainsRightly'
    <2>1. offset - length \in 0..offset
      BY DEF DecoderInv, DecoderTypeOK
    <2>2. UNCHANGED <<input, offset, passed>>
      BY DEF Invalid, given
    <2> QED
      BY <2>1, <2>2, SameInput DEF ComplainsRightly
  <1> QED
    BY <1>1, <1>2, <1>3, <1>4 DEF DecoderInv, Invalid

\* A chunk without a newline (the first branch of the loop).
LEMMA KeepInv ==
  ASSUME DecoderInv, Keep
  PROVE  DecoderInv'
  <1> DEFINE b == offset - length
             n == length + passed - offset
  <1>1. /\ offset \in Nat /\ passed \in Nat /\ length \in Nat /\ MaxFrame \in Nat
        /\ b \in 0..offset /\ offset < passed /\ passed <= Length /\ n = passed - b
    BY SizesAssumption DEF DecoderInv, DecoderTypeOK, Keep, Reading
  <1>2. LineFrom(b, passed)
    BY <1>1 DEF DecoderInv, LineFrom, Keep, Reading
  <1>3. CASE n > MaxFrame
    <2>1. Invalid
      BY <1>3 DEF Keep, TooLong
    <2>2. LineFrom(b, passed - 1) /\ passed \in 1..passed /\ input[passed] # "newline"
      BY <1>1, <1>2 DEF LineFrom
    <2> QED
      BY <1>1, <1>3, <2>1, <2>2, InvalidInv DEF Keep, Reading
  <1>4. CASE n <= MaxFrame
    <2>1. /\ fragments' = fragments \cup (offset + 1)..passed
          /\ length' = n /\ offset' = passed
          /\ UNCHANGED <<given, passed, stopped, invalid, frames, remainder>>
      BY <1>1, <1>4 DEF Keep, TooLong
    <2>2. fragments' = (b + 1)..passed
      BY <1>1, <2>1 DEF DecoderInv, Keep, Reading
    <2>3. DecoderTypeOK'
      <3>1. passed' \in 0..Length /\ offset' \in 0..passed' /\ length' \in 0..MaxFrame
        BY <1>1, <1>4, <2>1
      <3>2. fragments' \subseteq Bytes
        <4>1. (b + 1)..passed \subseteq Bytes
          BY <1>1, SizesAssumption DEF Bytes
        <4> QED
          BY <2>2, <4>1
      <3> QED
        BY <2>1, <3>1, <3>2 DEF DecoderInv, DecoderTypeOK, given
    <2>4. offset' - length' = b /\ length' <= offset'
      BY <1>1, <2>1
    <2>5. LineFrom(offset - length, offset)' /\ (fragments = (offset - length + 1)..offset)'
      BY <1>2, <2>1, <2>2, <2>4, SameInput DEF given
    <2>6. DeliversLines'
      <3>1. \A f \in frames : Good(f) /\ \E q \in 1..passed : IsLine(f, q)
        BY <1>1 DEF DecoderInv, DeliversLines
      <3>2. \A q \in 1..passed : input[q] = "newline" => q \in 1..offset
        BY <1>1 DEF Keep
      <3>3. \A q \in 1..passed : input[q] = "newline" => \E f \in frames : IsLine(f, q)
        BY <3>2 DEF DecoderInv, DeliversLines
      <3> QED
        BY <2>1, <3>1, <3>3, SameInput DEF DeliversLines, given
    <2>7. ~stopped /\ ~invalid /\ (firstOnly => frames = {})
      BY DEF DecoderInv, Keep, Reading
    <2>8. HandsOverTheRest' /\ ComplainsRightly'
      BY <2>1, <2>7 DEF HandsOverTheRest, ComplainsRightly, given
    <2> QED
      BY <2>1, <2>3, <2>4, <2>5, <2>6, <2>7, <2>8 DEF DecoderInv, given
  <1> QED
    BY <1>1, <1>3, <1>4

\* A newline (the second branch of the loop).
LEMMA DeliverInv ==
  ASSUME DecoderInv, NEW e \in Bytes, Deliver(e)
  PROVE  DecoderInv'
  <1> DEFINE b == offset - length
             frame == fragments \cup (offset + 1)..(e - 1)
  <1>1. /\ offset \in Nat /\ passed \in Nat /\ length \in Nat /\ MaxFrame \in Nat
        /\ b \in 0..offset /\ e \in (offset + 1)..passed /\ passed <= Length
        /\ input[e] = "newline"
    BY SizesAssumption DEF DecoderInv, DecoderTypeOK, Deliver, Reading, NewlineAt
  <1>2. LineFrom(b, e - 1)
    BY <1>1 DEF DecoderInv, LineFrom, Deliver, NewlineAt, Reading
  <1>3. frame = (b + 1)..(e - 1)
    BY <1>1 DEF DecoderInv, Deliver, Reading
  <1>4. CASE TooLong(length + e - 1 - offset) \/ ~Authentic(frame)
    <2>1. Invalid
      BY <1>4 DEF Deliver
    <2>2. ~Good((b + 1)..(e - 1))
      <3>1. CASE ~Authentic(frame)
        BY <1>3, <3>1 DEF Good, Authentic
      <3>2. CASE TooLong(length + e - 1 - offset)
        <4> DEFINE f == (b + 1)..(e - 1)
        <4>1. b + 1 \in f /\ e - 1 \in f /\ ~((e - 1) - (b + 1) < MaxFrame)
          BY <1>1, <3>2 DEF TooLong
        <4> QED
          BY <4>1 DEF Good
      <3> QED
        BY <1>4, <3>1, <3>2
    <2>3. ~stopped /\ e \in 1..passed
      BY <1>1 DEF Deliver, Reading
    <2> QED
      BY <1>1, <1>2, <2>1, <2>2, <2>3, InvalidInv
  <1>5. CASE ~TooLong(length + e - 1 - offset) /\ Authentic(frame)
    <2>1. /\ frames' = frames \cup {frame}
          /\ fragments' = {} /\ length' = 0 /\ offset' = e /\ stopped' = firstOnly
          /\ remainder' = IF firstOnly THEN (e + 1)..passed ELSE {}
          /\ UNCHANGED <<given, passed, invalid>>
      BY <1>5 DEF Deliver
    <2>2. ~stopped /\ ~invalid /\ (firstOnly => frames = {}) /\ firstOnly \in BOOLEAN
      BY DEF DecoderInv, DecoderTypeOK, Deliver, Reading
    <2>3. frame \subseteq Bytes /\ (e + 1)..passed \subseteq Bytes
      <3>1. (b + 1)..(e - 1) \subseteq Bytes /\ (e + 1)..passed \subseteq Bytes
        BY <1>1, SizesAssumption DEF Bytes
      <3> QED
        BY <1>3, <3>1
    <2>4. Good(frame) /\ IsLine(frame, e)
      BY <1>1, <1>2, <1>3, <1>5 DEF Good, IsLine, TooLong
    <2>5. DecoderTypeOK'
      <3> HIDE DEF frame
      <3>1. passed' \in 0..Length /\ offset' \in 0..passed' /\ length' \in 0..MaxFrame
        BY <1>1, <2>1
      <3>2. fragments' \subseteq Bytes /\ remainder' \subseteq Bytes /\ \A f \in frames' : f \subseteq Bytes
        BY <2>1, <2>3 DEF DecoderInv, DecoderTypeOK
      <3> QED
        BY <2>1, <2>2, <3>1, <3>2 DEF DecoderInv, DecoderTypeOK, given
    <2>6. \A q \in 1..e : input[q] = "newline" => q \in 1..offset \/ q = e
      BY <1>1 DEF Deliver, NewlineAt
    <2>7. DeliversLines'
      <3> HIDE DEF frame
      <3>1. ASSUME NEW f \in frames \cup {frame}
            PROVE  Good(f) /\ \E q \in 1..e : IsLine(f, q)
        <4>1. CASE f \in frames
          BY <1>1, <4>1 DEF DecoderInv, DeliversLines
        <4>2. CASE f = frame
          BY <1>1, <2>4, <4>2
        <4> QED
          BY <4>1, <4>2
      <3>2. ASSUME NEW q \in 1..e, input[q] = "newline"
            PROVE  \E f \in frames \cup {frame} : IsLine(f, q)
        <4>1. CASE q = e
          BY <2>4, <4>1
        <4>2. CASE q \in 1..offset
          BY <3>2, <4>2 DEF DecoderInv, DeliversLines
        <4> QED
          BY <2>6, <3>2, <4>1, <4>2
      <3> QED
        BY <2>1, <3>1, <3>2, SameInput DEF DeliversLines, given
    <2>8. HandsOverTheRest'
      BY <2>1, <2>2 DEF HandsOverTheRest, given
    <2>9. ComplainsRightly'
      BY <2>1, <2>2 DEF ComplainsRightly
    <2>10. LineFrom(e, e) /\ {} = (e + 1)..e
      BY <1>1 DEF LineFrom
    <2>11. LineFrom(offset - length, offset)' /\ (fragments = (offset - length + 1)..offset)'
      BY <1>1, <2>1, <2>10, SameInput DEF given
    <2> QED
      BY <1>1, <2>1, <2>2, <2>5, <2>7, <2>8, <2>9, <2>11 DEF DecoderInv, given
  <1> QED
    BY <1>4, <1>5

\* The invariant holds of every run of the decoder (createDecoder).
THEOREM DecoderInvariant == DecoderSpec => []DecoderInv
  <1>1. ASSUME DecoderInv, [DecoderNext]_decoderVars
        PROVE  DecoderInv'
    <2>1. CASE Decode
      <3>1. /\ UNCHANGED <<input, firstOnly, offset, fragments, length, stopped, invalid, frames, remainder>>
            /\ passed' \in (passed + 1)..Length /\ ~stopped /\ ~invalid /\ (firstOnly => frames = {})
        BY <1>1, <2>1 DEF DecoderInv, Decode, given
      <3>2. DecoderTypeOK'
        BY <1>1, <3>1, SizesAssumption DEF DecoderInv, DecoderTypeOK, Bytes
      <3>3. DeliversLines' /\ HandsOverTheRest' /\ ComplainsRightly'
        BY <1>1, <3>1, SameFrames DEF DecoderInv, HandsOverTheRest, ComplainsRightly
      <3> QED
        BY <1>1, <3>1, <3>2, <3>3, SameInput DEF DecoderInv
    <2>2. CASE UNCHANGED decoderVars
      <3>1. DeliversLines' /\ DecoderTypeOK' /\ HandsOverTheRest' /\ ComplainsRightly'
        BY <1>1, <2>2, SameFrames, SameInput
           DEF DecoderInv, DecoderTypeOK, HandsOverTheRest, ComplainsRightly, decoderVars, given
      <3> QED
        BY <1>1, <2>2, <3>1, SameInput DEF DecoderInv, decoderVars, given
    <2> QED
      BY <1>1, <2>1, <2>2, KeepInv, DeliverInv DEF DecoderNext
  <1> QED
    BY DecoderStarts, <1>1, PTL DEF DecoderSpec

\* Whatever the stream and its chunks, the decoder delivers exactly the good
\* lines up to the first bad one, hands over what follows a first message, keeps
\* at most a frame, and complains only of a bad line (createDecoder).
THEOREM DecoderIsRight == DecoderSpec => []DecodesRightly
  <1>1. DecoderInv => KeepsLittle
    <2> SUFFICES ASSUME DecoderInv, NEW p \in fragments, NEW q \in fragments
                 PROVE  ~stopped /\ q - p < MaxFrame
      BY DEF DecoderInv, KeepsLittle
    <2>1. ~stopped
      BY DEF DecoderInv
    <2>2. fragments = (offset - length + 1)..offset /\ length \in 0..MaxFrame /\ offset \in Nat
      BY <2>1 DEF DecoderInv, DecoderTypeOK
    <2> QED
      BY <2>1, <2>2, SizesAssumption
  <1>2. DecoderInv => DecodesRightly
    BY <1>1 DEF DecoderInv, DecodesRightly
  <1> QED
    BY <1>2, DecoderInvariant, PTL
-----------------------------------------------------------------------------
(* The bridge: lemmas *)

\* The two sockets are each other's other one.
LEMMA OtherOf ==
  ASSUME NEW s \in Sockets
  PROVE  /\ Other(s) \in Sockets /\ Other(s) # s /\ Other(Other(s)) = s
         /\ Sockets = {s, Other(s)}
  BY PairAssumption DEF Other

\* Sequences one behind the other.
LEMMA Joined ==
  ASSUME NEW S, NEW a \in Seq(S), NEW b \in Seq(S)
  PROVE  /\ a \o b \in Seq(S) /\ Len(a) \in Nat /\ Len(b) \in Nat
         /\ Len(a \o b) = Len(a) + Len(b)
  OBVIOUS

\* Bytes m + 1 to m + k of a stream.
LEMMA RangeOf ==
  ASSUME NEW m \in Nat, NEW k \in Nat
  PROVE  /\ Range(m, m + k) \in Seq(Nat)
         /\ Len(Range(m, m + k)) = k
         /\ \A i \in 1..k : Range(m, m + k)[i] = m + i
  <1>1. m + k - m = k /\ \A i \in 1..k : m + i \in Nat
    OBVIOUS
  <1>2. Range(m, m + k) = [i \in 1..k |-> m + i]
    BY <1>1 DEF Range
  <1> QED
    BY <1>1, <1>2

\* Bytes m + 1 to m + k behind a buffer.
LEMMA Appended ==
  ASSUME NEW b \in Seq(Nat), NEW m \in Nat, NEW k \in Nat
  PROVE  /\ b \o Range(m, m + k) \in Seq(Nat)
         /\ Len(b) \in Nat
         /\ Len(b \o Range(m, m + k)) = Len(b) + k
         /\ \A i \in 1..Len(b) : (b \o Range(m, m + k))[i] = b[i]
         /\ \A i \in 1..k : (b \o Range(m, m + k))[Len(b) + i] = m + i
  <1> DEFINE r == Range(m, m + k)
             c == b \o r
  <1>1. r \in Seq(Nat) /\ Len(r) = k /\ \A i \in 1..k : r[i] = m + i
    BY RangeOf
  <1>2. c = b \o r
    OBVIOUS
  <1> HIDE DEF r, c
  <1>3. c \in Seq(Nat) /\ Len(c) = Len(b) + k /\ Len(b) \in Nat
    <2>1. c \in Seq(Nat) /\ Len(b) \in Nat /\ Len(c) = Len(b) + Len(r)
      BY <1>1, <1>2, Joined
    <2> QED
      BY <1>1, <2>1
  <1>4. \A i \in 1..Len(b) : c[i] = b[i]
    BY <1>1, <1>2
  <1>5. ASSUME NEW i \in 1..k
        PROVE  c[Len(b) + i] = m + i
    <2>1. /\ Len(b) + i \in (Len(b) + 1)..(Len(b) + Len(r))
          /\ Len(b) + i - Len(b) = i
      BY <1>1, <1>3
    <2>2. c[Len(b) + i] = r[Len(b) + i - Len(b)]
      BY <1>1, <1>2, <1>3, <2>1
    <2> QED
      BY <1>1, <2>1, <2>2
  <1> QED
    BY <1>3, <1>4, <1>5 DEF c, r

\* A program's buffer and what its pipe may do matter only to the back-pressure.
LEMMA SameBuffers ==
  ASSUME FlowsShallow, BackPressure, UNCHANGED <<buffer, paused>>
  PROVE  FlowsShallow' /\ BackPressure'
  BY DEF FlowsShallow, BackPressure

\* A step that moves no bytes and opens no socket keeps their order.
LEMMA SameOrder ==
  ASSUME InOrder, UNCHANGED <<read, buffer, got, sent>>,
         \A s \in Sockets : life'[s] = "open" => life[s] = "open"
  PROVE  InOrder'
  BY DEF InOrder

-----------------------------------------------------------------------------
(* The bridge: every step keeps the invariant *)

\* Two fresh sockets.
LEMMA InitInv == Init => IndInv
  <1> SUFFICES ASSUME Init PROVE IndInv
    OBVIOUS
  <1>1. <<>> \in Seq(Nat) /\ Len(<<>>) = 0
    OBVIOUS
  <1>2. TypeOK
    <2>1. SocketsTypeOK
      BY DEF Init, SocketsTypeOK
    <2>2. {sent, read} \subseteq [Sockets -> Nat] /\ {buffer, got} \subseteq [Sockets -> Seq(Nat)]
      BY <1>1 DEF Init
    <2>3. piped \in BOOLEAN /\ cut \in BOOLEAN
      BY DEF Init
    <2> QED
      BY <2>1, <2>2, <2>3 DEF Init, TypeOK
  <1>3. BridgedFirst
    BY DEF Init, BridgedFirst
  <1>4. InOrder
    BY <1>1, OtherOf DEF Init, InOrder
  <1>5. EndsBehind /\ GoneIsDone
    BY <1>1, OtherOf DEF Init, EndsBehind, GoneIsDone
  <1>6. FlowsShallow /\ BackPressure
    BY <1>1, BufferAssumption DEF Init, FlowsShallow, BackPressure
  <1> QED
    BY <1>2, <1>3, <1>4, <1>5, <1>6 DEF IndInv

\* The program at s sends a byte.
LEMMA SendInv ==
  ASSUME IndInv, NEW s \in Sockets, Send(s)
  PROVE  IndInv'
  <1> USE DEF IndInv
  <1>1. TypeOK'
    BY DEF Send, TypeOK, SocketsTypeOK, bridgeVars
  <1>2. \A r \in Sockets : sent'[r] = IF r = s THEN sent[r] + 1 ELSE sent[r]
    BY DEF Send, TypeOK
  <1>3. BridgedFirst'
    BY DEF Send, BridgedFirst, bridgeVars
  <1>4. InOrder'
    BY <1>2 DEF Send, InOrder, TypeOK, bridgeVars
  <1>5. EndsBehind'
    BY <1>2 DEF Send, EndsBehind, bridgeVars
  <1>6. GoneIsDone'
    BY DEF Send, GoneIsDone, bridgeVars
  <1>7. FlowsShallow' /\ BackPressure'
    BY SameBuffers DEF Send
  <1> QED
    BY <1>1, <1>3, <1>4, <1>5, <1>6, <1>7

\* The program at s has finished sending.
LEMMA FinishInv ==
  ASSUME IndInv, NEW s \in Sockets, Finish(s)
  PROVE  IndInv'
  <1> USE DEF IndInv
  <1>1. TypeOK'
    BY DEF Finish, TypeOK, SocketsTypeOK, bridgeVars
  <1>2. BridgedFirst' /\ InOrder'
    BY DEF Finish, BridgedFirst, InOrder, bridgeVars
  <1>3. EndsBehind' /\ GoneIsDone'
    BY DEF Finish, EndsBehind, GoneIsDone, bridgeVars
  <1>4. FlowsShallow' /\ BackPressure'
    BY SameBuffers DEF Finish
  <1> QED
    BY <1>1, <1>2, <1>3, <1>4

\* What a flush moves: the first byte of the buffer is the next one to receive.
LEMMA Flushed ==
  ASSUME IndInv, NEW s \in Sockets, Flush(s)
  PROVE  /\ got' \in [Sockets -> Seq(Nat)] /\ buffer' \in [Sockets -> Seq(Nat)]
         /\ \A r \in Sockets \ {s} : got'[r] = got[r] /\ buffer'[r] = buffer[r]
         /\ Len(buffer[s]) \in Nat /\ Len(buffer[s]) > 0
         /\ Len(got'[s]) = Len(got[s]) + 1
         /\ Len(buffer'[s]) = Len(buffer[s]) - 1
         /\ \A i \in 1..Len(got'[s]) : got'[s][i] = i
         /\ \A i \in 1..Len(buffer'[s]) : buffer'[s][i] = Len(got'[s]) + i
         /\ \A r \in Sockets : Len(got'[r]) + Len(buffer'[r]) = Len(got[r]) + Len(buffer[r])
  <1> DEFINE b == buffer[s]
             g == got[s]
  <1>1. /\ b \in Seq(Nat) /\ g \in Seq(Nat) /\ b # <<>>
        /\ \A i \in 1..Len(g) : g[i] = i
        /\ \A i \in 1..Len(b) : b[i] = Len(g) + i
    BY DEF IndInv, TypeOK, InOrder, Flush
  <1>2. /\ got' = [got EXCEPT ![s] = Append(g, Head(b))]
        /\ buffer' = [buffer EXCEPT ![s] = Tail(b)]
        /\ got \in [Sockets -> Seq(Nat)] /\ buffer \in [Sockets -> Seq(Nat)]
    BY DEF IndInv, TypeOK, Flush
  <1> HIDE DEF b, g
  <1>3. Len(b) \in Nat /\ Len(b) > 0 /\ Head(b) = b[1] /\ b[1] = Len(g) + 1 /\ Len(g) \in Nat
    BY <1>1
  <1>4. /\ Append(g, Head(b)) \in Seq(Nat) /\ Len(Append(g, Head(b))) = Len(g) + 1
        /\ \A i \in 1..Len(g) : Append(g, Head(b))[i] = g[i]
        /\ Append(g, Head(b))[Len(g) + 1] = Len(g) + 1
    BY <1>1, <1>3
  <1>5. /\ Tail(b) \in Seq(Nat) /\ Len(Tail(b)) = Len(b) - 1
        /\ \A i \in 1..(Len(b) - 1) : Tail(b)[i] = b[i + 1]
    BY <1>1
  <1>6. /\ got'[s] = Append(g, Head(b)) /\ buffer'[s] = Tail(b)
        /\ got' \in [Sockets -> Seq(Nat)] /\ buffer' \in [Sockets -> Seq(Nat)]
    BY <1>2, <1>4, <1>5
  <1>7. \A i \in 1..(Len(g) + 1) : got'[s][i] = i
    BY <1>1, <1>3, <1>4, <1>6
  <1>8. \A i \in 1..(Len(b) - 1) : buffer'[s][i] = Len(g) + 1 + i
    BY <1>1, <1>3, <1>5, <1>6
  <1>9. \A r \in Sockets \ {s} : got'[r] = got[r] /\ buffer'[r] = buffer[r]
    BY <1>2
  <1>10. Len(got'[s]) = Len(g) + 1 /\ Len(buffer'[s]) = Len(b) - 1
    BY <1>4, <1>5, <1>6
  <1>11. Len(got'[s]) + Len(buffer'[s]) = Len(g) + Len(b)
    BY <1>1, <1>3, <1>10
  <1>12. \A r \in Sockets : Len(got'[r]) + Len(buffer'[r]) = Len(got[r]) + Len(buffer[r])
    BY <1>9, <1>11 DEF b, g
  <1> QED
    BY <1>3, <1>6, <1>7, <1>8, <1>9, <1>10, <1>12 DEF b, g

\* A byte leaves the buffer of s.
LEMMA FlushInv ==
  ASSUME IndInv, NEW s \in Sockets, Flush(s)
  PROVE  IndInv'
  <1> USE DEF IndInv
  <1>1. /\ life[s] = "open"
        /\ paused' = IF Len(buffer[s]) = 1 THEN paused \ {Other(s)} ELSE paused
        /\ UNCHANGED <<bridgeVars, sent, ended, read, eof, piped, cut, reading>>
    BY DEF Flush, Waiting
  <1>2. TypeOK'
    <2>1. paused' \subseteq paused
      BY <1>1
    <2>2. SocketsTypeOK'
      BY <1>1 DEF TypeOK, SocketsTypeOK, bridgeVars
    <2>3. got' \in [Sockets -> Seq(Nat)] /\ buffer' \in [Sockets -> Seq(Nat)]
      BY Flushed
    <2> QED
      BY <1>1, <2>1, <2>2, <2>3 DEF TypeOK
  <1>3. BridgedFirst'
    <2>1. ~(buffer[s] = <<>>)
      BY DEF Flush
    <2> QED
      BY <1>1, <2>1 DEF BridgedFirst, bridgeVars
  <1>4. InOrder'
    <2> SUFFICES ASSUME NEW r \in Sockets
                 PROVE  /\ read[r] <= sent[r]
                        /\ \A i \in 1..Len(got'[r]) : got'[r][i] = i
                        /\ \A i \in 1..Len(buffer'[r]) : buffer'[r][i] = Len(got'[r]) + i
                        /\ Len(got'[r]) + Len(buffer'[r]) <= read[Other(r)]
                        /\ life[r] = "open" => Len(got'[r]) + Len(buffer'[r]) = read[Other(r)]
      BY <1>1 DEF InOrder, bridgeVars
    <2>1. CASE r = s
      <3>1. /\ read[s] <= sent[s]
            /\ Len(got[s]) + Len(buffer[s]) = read[Other(s)]
        BY <1>1 DEF InOrder
      <3>2. /\ \A i \in 1..Len(got'[s]) : got'[s][i] = i
            /\ \A i \in 1..Len(buffer'[s]) : buffer'[s][i] = Len(got'[s]) + i
            /\ Len(got'[s]) + Len(buffer'[s]) = Len(got[s]) + Len(buffer[s])
        BY Flushed
      <3>3. read[Other(s)] \in Nat
        BY OtherOf DEF TypeOK
      <3>4. Len(got'[s]) + Len(buffer'[s]) = read[Other(s)]
        BY <3>1, <3>2
      <3>5. read[Other(s)] <= read[Other(s)]
        BY <3>3
      <3> QED
        BY <2>1, <3>1, <3>2, <3>4, <3>5
    <2>2. CASE r # s
      <3>1. got'[r] = got[r] /\ buffer'[r] = buffer[r]
        BY <2>2, Flushed
      <3> QED
        BY <3>1 DEF InOrder
    <2> QED
      BY <2>1, <2>2
  <1>5. s \notin eof
    BY <1>1 DEF EndsBehind, Flush
  <1>6. EndsBehind'
    BY <1>1, <1>5, Flushed DEF EndsBehind, bridgeVars
  <1>7. \A r \in Sockets : Len(got'[r]) + Len(buffer'[r]) = Len(got[r]) + Len(buffer[r])
    BY Flushed
  <1>8. GoneIsDone'
    BY <1>1, <1>5, <1>7, Flushed DEF GoneIsDone, bridgeVars
  <1>9. FlowsShallow' /\ BackPressure'
    <2> SUFFICES ASSUME NEW r \in Sockets
                 PROVE  /\ Other(r) \notin paused' => Len(buffer'[r]) < HighWater \/ Len(buffer'[r]) <= ChunkSize
                        /\ \/ Len(buffer'[r]) <= HighWater - 1 + ChunkSize
                           \/ Len(buffer'[r]) <= 2 * ChunkSize
      BY DEF FlowsShallow, BackPressure
    <2>1. CASE r = s
      <3>1. Len(buffer'[s]) = Len(buffer[s]) - 1 /\ Len(buffer[s]) \in Nat
        BY Flushed
      <3>2. Other(s) \notin paused' => Len(buffer'[s]) = 0 \/ Other(s) \notin paused
        BY <1>1, <3>1
      <3> QED
        <4>1. HighWater \in Nat \ {0} /\ ChunkSize \in Nat \ {0}
          BY BufferAssumption
        <4>2. Len(buffer'[s]) <= Len(buffer[s]) /\ Len(buffer'[s]) \in Nat
          BY <3>1, Flushed
        <4>3. \/ Len(buffer'[s]) <= HighWater - 1 + ChunkSize
              \/ Len(buffer'[s]) <= 2 * ChunkSize
          BY <3>1, <4>1, <4>2 DEF BackPressure
        <4>4. Other(s) \notin paused' => Len(buffer'[s]) < HighWater \/ Len(buffer'[s]) <= ChunkSize
          <5>1. CASE Len(buffer'[s]) = 0
            BY <4>1, <5>1
          <5>2. CASE Other(s) \notin paused
            <6>1. Len(buffer[s]) < HighWater \/ Len(buffer[s]) <= ChunkSize
              BY <5>2 DEF FlowsShallow
            <6> QED
              BY <3>1, <4>1, <4>2, <6>1
          <5> QED
            BY <3>2, <5>1, <5>2
        <4> QED
          BY <2>1, <4>3, <4>4
    <2>2. CASE r # s
      <3>1. r = Other(s) /\ Other(r) = s /\ s # Other(s)
        BY <2>2, OtherOf
      <3>2. s \in paused' <=> s \in paused
        BY <1>1, <3>1
      <3> QED
        BY <2>2, <3>1, <3>2, Flushed DEF FlowsShallow, BackPressure
    <2> QED
      BY <2>1, <2>2
  <1> QED
    BY <1>2, <1>3, <1>4, <1>6, <1>8, <1>9

\* The end behind the buffer of s is sent.
LEMMA FlushEndInv ==
  ASSUME IndInv, NEW s \in Sockets, FlushEnd(s)
  PROVE  IndInv'
  <1> USE DEF IndInv
  <1>1. TypeOK'
    BY DEF FlushEnd, TypeOK, SocketsTypeOK, bridgeVars
  <1>2. BridgedFirst' /\ InOrder'
    BY DEF FlushEnd, BridgedFirst, InOrder, bridgeVars
  <1>3. EndsBehind'
    BY DEF FlushEnd, EndsBehind, bridgeVars
  <1>4. GoneIsDone'
    BY DEF FlushEnd, GoneIsDone, bridgeVars
  <1>5. FlowsShallow' /\ BackPressure'
    BY SameBuffers DEF FlushEnd
  <1> QED
    BY <1>1, <1>2, <1>3, <1>4, <1>5

\* What the initial data leave in a buffer: they alone, if the socket is open.
LEMMA InitialIn ==
  ASSUME TypeOK, NEW s \in Sockets, buffer[s] = <<>>,
         NEW first \in [Sockets -> 0..ChunkSize]
  PROVE  LET b == Initial(first)[s] IN
         /\ b \in Seq(Nat) /\ Len(b) <= ChunkSize
         /\ life[s] # "open" => b = <<>>
         /\ life[s] = "open" => Len(b) = first[Other(s)] /\ \A i \in 1..Len(b) : b[i] = i
  <1> DEFINE n == first[Other(s)]
             w == Initial(first)[s]
             b == buffer[s]
             c == b \o Range(0, n)
  <1>1. n \in Nat /\ n <= ChunkSize /\ 0 + n = n /\ ChunkSize \in Nat /\ 0 \in Nat
    BY OtherOf, BufferAssumption
  <1>2. w = IF life[s] = "open" THEN c ELSE buffer[s]
    BY DEF Initial, Written, TypeOK
  <1>3. b \in Seq(Nat) /\ Len(b) = 0
    BY DEF TypeOK
  <1>4. c = b \o Range(0, 0 + n)
    BY <1>1
  <1> HIDE DEF n, b, c
  <1>5. c \in Seq(Nat) /\ Len(c) = Len(b) + n
    BY <1>1, <1>3, <1>4, Appended
  <1>6. \A i \in 1..n : c[Len(b) + i] = 0 + i
    <2>1. b \in Seq(Nat) /\ 0 \in Nat /\ n \in Nat
      BY <1>1, <1>3
    <2>2. \A i \in 1..n : (b \o Range(0, 0 + n))[Len(b) + i] = 0 + i
      BY <2>1, Appended
    <2> QED
      BY <1>4, <2>2
  <1>7. Len(c) = n
    BY <1>1, <1>3, <1>5
  <1>8. ASSUME NEW i \in 1..n PROVE c[i] = i
    <2>1. Len(b) + i = i /\ 0 + i = i
      BY <1>1, <1>3
    <2> QED
      BY <1>6, <2>1
  <1>9. w \in Seq(Nat) /\ Len(w) <= ChunkSize
    BY <1>1, <1>2, <1>3, <1>5, <1>7 DEF b
  <1> QED
    BY <1>2, <1>7, <1>8, <1>9 DEF n, b

\* bridgeSockets.
LEMMA BridgeInv ==
  ASSUME IndInv, Bridge
  PROVE  IndInv'
  <1> USE DEF IndInv
  <1>1. PICK first \in [Sockets -> 0..ChunkSize] :
          /\ \A s \in Sockets : first[s] <= sent[s]
          /\ read' = first /\ buffer' = Initial(first)
    BY DEF Bridge
  <1>2. /\ \A s \in Sockets : bridge[s] = None
        /\ bridge' = [s \in Sockets |-> Other(s)]
        /\ UNCHANGED <<life, hadError, readEnded, writeEnded,
                       sent, ended, got, eof, paused, cut, reading>>
    BY DEF Bridge
  <1>3. ASSUME NEW s \in Sockets
        PROVE  /\ got[s] = <<>> /\ buffer[s] = <<>> /\ s \notin writeEnded /\ s \notin readEnded
               /\ Other(s) \notin paused
    <2>1. bridge[s] # Other(s)
      BY <1>2, OtherOf, PairAssumption
    <2> QED
      BY <2>1 DEF BridgedFirst
  <1>4. ASSUME NEW s \in Sockets
        PROVE  /\ buffer'[s] \in Seq(Nat) /\ Len(buffer'[s]) \in Nat /\ Len(buffer'[s]) <= ChunkSize
               /\ life[s] # "open" => buffer'[s] = <<>>
               /\ life[s] = "open" =>
                    Len(buffer'[s]) = read'[Other(s)] /\ \A i \in 1..Len(buffer'[s]) : buffer'[s][i] = i
    <2>1. Initial(first)[s] \in Seq(Nat)
      BY <1>3, InitialIn
    <2> QED
      BY <1>1, <1>3, <2>1, InitialIn
  <1>5. \A s \in Sockets : read'[s] \in Nat /\ read'[s] <= sent[s] /\ read'[Other(s)] \in Nat
    BY <1>1, OtherOf
  <1>6. TypeOK'
    <2>1. SocketsTypeOK'
      BY <1>2, OtherOf DEF TypeOK, SocketsTypeOK
    <2>2. read' \in [Sockets -> Nat]
      BY <1>1
    <2>3. buffer' \in [Sockets -> Seq(Nat)]
      BY <1>1, <1>4 DEF Initial
    <2>4. piped' \in BOOLEAN
      BY DEF Bridge
    <2> QED
      BY <1>2, <2>1, <2>2, <2>3, <2>4 DEF TypeOK
  <1>7. BridgedFirst'
    BY <1>2 DEF BridgedFirst
  <1>8. Len(<<>>) = 0
    OBVIOUS
  <1>9. \A s \in Sockets : /\ Len(got[s]) = 0
                           /\ life[s] # "open" => Len(buffer'[s]) = 0
    BY <1>3, <1>4, <1>8
  <1>10. InOrder'
    <2> SUFFICES ASSUME NEW s \in Sockets
                 PROVE  /\ read'[s] <= sent[s]
                        /\ \A i \in 1..Len(got[s]) : got[s][i] = i
                        /\ \A i \in 1..Len(buffer'[s]) : buffer'[s][i] = Len(got[s]) + i
                        /\ Len(got[s]) + Len(buffer'[s]) <= read'[Other(s)]
                        /\ life[s] = "open" => Len(got[s]) + Len(buffer'[s]) = read'[Other(s)]
      BY <1>2 DEF InOrder
    <2> DEFINE b == Len(buffer'[s])
               r == read'[Other(s)]
    <2>1. b \in Nat /\ r \in Nat /\ Len(got[s]) = 0 /\ b <= r /\ (life[s] = "open" => b = r)
      BY <1>4, <1>5, <1>9
    <2>2. ASSUME NEW i \in 1..b PROVE buffer'[s][i] = 0 + i
      <3>1. life[s] = "open"
        BY <1>9
      <3> QED
        BY <1>4, <3>1
    <2> HIDE DEF b, r
    <2>3. 0 + b <= r /\ (life[s] = "open" => 0 + b = r)
      BY <2>1
    <2>4. \A i \in 1..Len(got[s]) : got[s][i] = i
      BY <1>9
    <2> QED
      BY <1>5, <2>1, <2>2, <2>3, <2>4 DEF b, r
  <1>11. EndsBehind'
    BY <1>2, <1>3, OtherOf DEF EndsBehind
  <1>12. GoneIsDone'
    <2> SUFFICES ASSUME ~cut, hadError = {}, NEW s \in Sockets
                 PROVE  /\ s \notin eof
                        /\ Len(got[s]) + Len(buffer'[s]) = read'[Other(s)]
                        /\ life[s] = "open"
      BY <1>2, <1>3 DEF GoneIsDone
    <2>1. life[s] = "open" /\ s \notin eof
      BY <1>3 DEF GoneIsDone
    <2>2. Len(got[s]) = 0 /\ Len(buffer'[s]) = read'[Other(s)] /\ Len(buffer'[s]) \in Nat
      BY <1>4, <1>9, <2>1
    <2> QED
      BY <2>1, <2>2
  <1>13. FlowsShallow' /\ BackPressure'
    BY <1>4, BufferAssumption DEF FlowsShallow, BackPressure
  <1> QED
    BY <1>6, <1>7, <1>10, <1>11, <1>12, <1>13

\* 'data' of s.
LEMMA DataInv ==
  ASSUME IndInv, NEW s \in Sockets, Data(s)
  PROVE  IndInv'
  <1> USE DEF IndInv
  <1> DEFINE o == Other(s)
  <1>1. PICK n \in 1..ChunkSize :
          /\ read[s] + n <= sent[s]
          /\ read' = [read EXCEPT ![s] = @ + n]
          /\ buffer' = Written(Other(s), Range(read[s], read[s] + n))
    BY DEF Data
  <1>2. /\ piped /\ life[s] = "open" /\ s \notin paused
        /\ paused' = IF Full(buffer'[Other(s)]) THEN paused \cup {s} ELSE paused
        /\ UNCHANGED <<bridgeVars, sent, ended, got, eof, piped, cut, reading>>
    BY DEF Data
  <1>3. /\ o \in Sockets /\ o # s /\ Other(o) = s /\ Sockets = {s, o}
        /\ \A r \in Sockets : r = s \/ r = o
    BY OtherOf
  <1> HIDE DEF o
  <1>4. \A r \in Sockets : bridge[r] = Other(r)
    BY <1>2 DEF BridgedFirst
  <1>5. /\ read[s] \in Nat /\ sent[s] \in Nat /\ n \in Nat /\ n > 0 /\ n <= ChunkSize
        /\ read'[s] = read[s] + n /\ read'[o] = read[o]
        /\ read' \in [Sockets -> Nat]
        /\ read[s] < sent[s] /\ read'[s] <= sent[s]
    BY <1>1, <1>3, BufferAssumption DEF TypeOK
  <1>6. s \notin readEnded /\ o \notin writeEnded /\ (life[o] = "open" => o \notin eof)
    <2>1. s \notin readEnded
      BY <1>5 DEF EndsBehind
    <2> QED
      BY <1>2, <1>3, <2>1 DEF EndsBehind
  <1>7. /\ buffer'[s] = buffer[s]
        /\ buffer'[o] = IF life[o] = "open" THEN buffer[o] \o Range(read[s], read[s] + n)
                                            ELSE buffer[o]
    BY <1>1, <1>3 DEF Written, TypeOK, o
  <1>8. buffer[o] \in Seq(Nat) /\ Len(buffer[o]) \in Nat /\ Len(got[o]) \in Nat
    BY <1>3 DEF TypeOK
  <1>9. /\ buffer[o] \o Range(read[s], read[s] + n) \in Seq(Nat)
        /\ Len(buffer[o] \o Range(read[s], read[s] + n)) = Len(buffer[o]) + n
        /\ \A i \in 1..Len(buffer[o]) :
             (buffer[o] \o Range(read[s], read[s] + n))[i] = buffer[o][i]
        /\ \A i \in 1..n :
             (buffer[o] \o Range(read[s], read[s] + n))[Len(buffer[o]) + i] = read[s] + i
    <2> HIDE DEF IndInv
    <2>1. read[s] \in Nat /\ n \in Nat /\ buffer[o] \in Seq(Nat)
      BY <1>5, <1>8
    <2> QED
      BY ONLY <2>1, Appended, Zenon
  <1>10. /\ buffer'[o] \in Seq(Nat)
         /\ life[o] = "open" => Len(buffer'[o]) = Len(buffer[o]) + n
         /\ life[o] # "open" => buffer'[o] = buffer[o]
    <2>1. /\ buffer[o] \o Range(read[s], read[s] + n) \in Seq(Nat)
          /\ Len(buffer[o] \o Range(read[s], read[s] + n)) = Len(buffer[o]) + n
      BY <1>9
    <2>2. CASE life[o] = "open"
      BY <1>7, <2>1, <2>2
    <2>3. CASE life[o] # "open"
      BY <1>7, <1>8, <2>3
    <2> QED
      BY <2>2, <2>3
  <1>11. TypeOK'
    <2>1. SocketsTypeOK'
      BY <1>2 DEF TypeOK, SocketsTypeOK, bridgeVars
    <2>2. buffer' \in [Sockets -> Seq(Nat)]
      BY <1>1, <1>3, <1>7, <1>10 DEF Written, TypeOK, o
    <2>3. paused' \in SUBSET Sockets
      BY <1>2 DEF TypeOK
    <2> QED
      BY <1>2, <1>5, <2>1, <2>2, <2>3 DEF TypeOK
  <1>12. BridgedFirst'
    BY <1>2, <1>4 DEF BridgedFirst, bridgeVars
  <1>13. /\ read[o] \in Nat /\ read[o] <= sent[o]
         /\ Len(got[o]) + Len(buffer[o]) <= read[s]
         /\ life[o] = "open" => Len(got[o]) + Len(buffer[o]) = read[s]
         /\ \A i \in 1..Len(buffer[o]) : buffer[o][i] = Len(got[o]) + i
    BY <1>3 DEF InOrder, TypeOK
  <1>14. ASSUME NEW i \in 1..Len(buffer'[o])
         PROVE  buffer'[o][i] = Len(got[o]) + i
    <2>1. CASE life[o] # "open"
      BY <1>10, <1>13, <2>1
    <2>2. CASE life[o] = "open" /\ i \in 1..Len(buffer[o])
      BY <1>7, <1>9, <1>13, <2>2
    <2>3. CASE life[o] = "open" /\ i \notin 1..Len(buffer[o])
      <3> DEFINE j == i - Len(buffer[o])
      <3>1. j \in 1..n /\ Len(buffer[o]) + j = i
        BY <1>5, <1>8, <1>10, <2>3
      <3> HIDE DEF j
      <3>2. buffer'[o][Len(buffer[o]) + j] = read[s] + j
        BY <1>7, <1>9, <2>3, <3>1
      <3>3. read[s] + j = Len(got[o]) + i
        <4>1. Len(got[o]) + Len(buffer[o]) = read[s]
          BY <1>13, <2>3
        <4> DEFINE g == Len(got[o])
                   l == Len(buffer[o])
        <4>2. g \in Nat /\ l \in Nat /\ g + l = read[s] /\ l + j = i
          BY <1>8, <3>1, <4>1
        <4>3. j \in Nat
          BY <1>5, <3>1
        <4> HIDE DEF g, l
        <4>4. read[s] + j = g + i
          BY <4>2, <4>3
        <4> QED
          BY <4>4 DEF g
      <3> QED
        BY <3>1, <3>2, <3>3
    <2> QED
      BY <2>1, <2>2, <2>3
  <1>15. /\ Len(got[o]) + Len(buffer'[o]) <= read'[s]
         /\ life[o] = "open" => Len(got[o]) + Len(buffer'[o]) = read'[s]
    <2> DEFINE g == Len(got[o])
               l == Len(buffer[o])
               m == Len(buffer'[o])
    <2>1. /\ g \in Nat /\ l \in Nat /\ g + l <= read[s]
          /\ life[o] = "open" => g + l = read[s] /\ m = l + n
          /\ life[o] # "open" => m = l
      BY <1>8, <1>10, <1>13
    <2> HIDE DEF g, l, m
    <2>2. g + m <= read'[s] /\ (life[o] = "open" => g + m = read'[s])
      BY <1>5, <2>1
    <2> QED
      BY <2>2 DEF g, m
  <1>16. InOrder'
    <2> SUFFICES ASSUME NEW r \in Sockets
                 PROVE  /\ read'[r] <= sent[r]
                        /\ \A i \in 1..Len(got[r]) : got[r][i] = i
                        /\ \A i \in 1..Len(buffer'[r]) : buffer'[r][i] = Len(got[r]) + i
                        /\ Len(got[r]) + Len(buffer'[r]) <= read'[Other(r)]
                        /\ life[r] = "open" => Len(got[r]) + Len(buffer'[r]) = read'[Other(r)]
      BY <1>2 DEF InOrder, bridgeVars
    <2>1. CASE r = o
      <3>1. \A i \in 1..Len(got[o]) : got[o][i] = i
        BY <1>3 DEF InOrder
      <3> QED
        BY <1>3, <1>5, <1>13, <1>14, <1>15, <2>1, <3>1
    <2>2. CASE r = s
      <3>1. Other(s) = o
        BY DEF o
      <3> QED
        BY <1>5, <1>7, <2>2, <3>1 DEF InOrder
    <2> QED
      BY <1>3, <2>1, <2>2
  <1>17. EndsBehind'
    <2> SUFFICES ASSUME NEW r \in Sockets
                 PROVE  /\ r \in readEnded => r \in ended /\ read'[r] = sent[r]
                        /\ r \in eof /\ life[r] = "open" => r \in writeEnded /\ buffer'[r] = <<>>
      BY <1>2 DEF EndsBehind, bridgeVars
    <2>1. CASE r = o
      BY <1>3, <1>5, <1>6, <2>1 DEF EndsBehind
    <2>2. CASE r = s
      BY <1>6, <1>7, <2>2 DEF EndsBehind
    <2> QED
      BY <1>3, <2>1, <2>2
  <1>18. GoneIsDone'
    <2> SUFFICES ASSUME ~cut, hadError = {}, NEW r \in Sockets
                 PROVE  /\ r \in writeEnded => Other(r) \in readEnded
                        /\ r \in eof => r \in writeEnded /\ buffer'[r] = <<>>
                        /\ Len(got[r]) + Len(buffer'[r]) = read'[Other(r)]
                        /\ life[r] # "open" => r \in eof \cap readEnded
      BY <1>2 DEF GoneIsDone, bridgeVars
    <2>1. o \notin eof /\ life[o] = "open"
      BY <1>3, <1>6 DEF GoneIsDone
    <2>2. CASE r = o
      BY <1>3, <1>6, <1>15, <2>1, <2>2
    <2>3. CASE r = s
      <3>1. Other(s) = o
        BY DEF o
      <3> QED
        BY <1>5, <1>7, <2>3, <3>1 DEF GoneIsDone
    <2> QED
      BY <1>3, <2>2, <2>3
  <1>19. paused' = IF Full(buffer'[o]) THEN paused \cup {s} ELSE paused
    BY <1>2 DEF o
  <1>20. HighWater \in Nat \ {0} /\ ChunkSize \in Nat \ {0} /\ Len(buffer'[o]) \in Nat
    BY <1>10, BufferAssumption
  <1>21. FlowsShallow'
    <2>1. s \notin paused' => Len(buffer'[o]) < HighWater
      BY <1>19, <1>20 DEF Full
    <2>2. o \notin paused' => o \notin paused
      BY <1>19
    <2>3. Other(s) = o
      BY DEF o
    <2> QED
      BY <1>3, <1>7, <2>1, <2>2, <2>3 DEF FlowsShallow
  <1>22. BackPressure'
    <2>1. Len(buffer[o]) < HighWater \/ Len(buffer[o]) <= ChunkSize
      BY <1>2, <1>3 DEF FlowsShallow
    <2>2. \/ Len(buffer'[o]) <= HighWater - 1 + ChunkSize
          \/ Len(buffer'[o]) <= 2 * ChunkSize
      <3>1. Len(buffer'[o]) = Len(buffer[o]) + n \/ Len(buffer'[o]) = Len(buffer[o])
        BY <1>10
      <3> DEFINE l == Len(buffer[o])
                 m == Len(buffer'[o])
      <3>2. /\ l \in Nat /\ m \in Nat /\ (m = l + n \/ m = l)
            /\ l < HighWater \/ l <= ChunkSize
        BY <1>8, <1>20, <2>1, <3>1
      <3> HIDE DEF l, m
      <3>3. m <= HighWater - 1 + ChunkSize \/ m <= 2 * ChunkSize
        BY <1>5, <1>20, <3>2
      <3> QED
        BY <3>3 DEF m
    <2> QED
      BY <1>3, <1>7, <2>2 DEF BackPressure
  <1> QED
    BY <1>11, <1>12, <1>16, <1>17, <1>18, <1>21, <1>22

\* 'end' of s: the pipe ends the other socket.
LEMMA EndInv ==
  ASSUME IndInv, NEW s \in Sockets, End(s)
  PROVE  IndInv'
  <1> USE DEF IndInv
  <1>1. /\ piped /\ s \in ended /\ read[s] = sent[s]
        /\ readEnded' = readEnded \cup {s}
        /\ writeEnded' = writeEnded \cup {p \in Sockets : p = bridge[s] /\ life[p] = "open"}
        /\ UNCHANGED <<life, hadError, bridge, byteVars>>
    BY DEF End, SocketEnds
  <1>2. \A r \in Sockets : bridge[r] = Other(r)
    BY <1>1 DEF BridgedFirst
  <1>3. TypeOK'
    BY <1>1 DEF TypeOK, SocketsTypeOK, byteVars
  <1>4. BridgedFirst' /\ InOrder'
    BY <1>1, <1>2 DEF BridgedFirst, InOrder, byteVars
  <1>5. \A r \in Sockets : r \in writeEnded' => r \in writeEnded \/ Other(r) = s
    BY <1>1, <1>2, OtherOf
  <1>6. EndsBehind'
    BY <1>1, <1>5 DEF EndsBehind, byteVars
  <1>7. GoneIsDone'
    BY <1>1, <1>5 DEF GoneIsDone, byteVars
  <1>8. FlowsShallow' /\ BackPressure'
    BY <1>1, SameBuffers DEF byteVars
  <1> QED
    BY <1>3, <1>4, <1>6, <1>7, <1>8

\* s is through and destroys itself.
LEMMA AutoDestroyInv ==
  ASSUME IndInv, NEW s \in Sockets, AutoDestroy(s)
  PROVE  IndInv'
  <1> USE DEF IndInv
  <1>1. /\ s \in eof \cap readEnded /\ life[s] = "open"
        /\ life' = [life EXCEPT ![s] = "destroyed"]
        /\ UNCHANGED <<hadError, readEnded, writeEnded, bridge, byteVars>>
    BY DEF AutoDestroy, SocketFinishes
  <1>2. \A r \in Sockets : life'[r] = IF r = s THEN "destroyed" ELSE life[r]
    BY <1>1 DEF TypeOK, SocketsTypeOK
  <1>3. TypeOK'
    BY <1>1 DEF TypeOK, SocketsTypeOK, byteVars
  <1>4. BridgedFirst' /\ InOrder'
    BY <1>1, <1>2, SameOrder DEF BridgedFirst, byteVars
  <1>5. EndsBehind'
    BY <1>1, <1>2, OtherOf DEF EndsBehind, byteVars
  <1>6. GoneIsDone'
    BY <1>1, <1>2 DEF GoneIsDone, byteVars
  <1>7. FlowsShallow' /\ BackPressure'
    BY <1>1, SameBuffers DEF byteVars
  <1> QED
    BY <1>3, <1>4, <1>5, <1>6, <1>7

\* A network error of s.
LEMMA FailInv ==
  ASSUME IndInv, NEW s \in Sockets, Fail(s)
  PROVE  IndInv'
  <1> USE DEF IndInv
  <1>1. /\ life[s] = "open"
        /\ life' = [life EXCEPT ![s] = "destroyed"]
        /\ hadError' = hadError \cup {s}
        /\ UNCHANGED <<readEnded, writeEnded, bridge, byteVars>>
    BY DEF Fail, SocketFails
  <1>2. \A r \in Sockets : life'[r] = IF r = s THEN "destroyed" ELSE life[r]
    BY <1>1 DEF TypeOK, SocketsTypeOK
  <1>3. TypeOK'
    BY <1>1 DEF TypeOK, SocketsTypeOK, byteVars
  <1>4. BridgedFirst' /\ InOrder'
    BY <1>1, <1>2, SameOrder DEF BridgedFirst, byteVars
  <1>5. EndsBehind'
    BY <1>1, <1>2, OtherOf DEF EndsBehind, byteVars
  <1>6. GoneIsDone'
    BY <1>1 DEF GoneIsDone
  <1>7. FlowsShallow' /\ BackPressure'
    BY <1>1, SameBuffers DEF byteVars
  <1> QED
    BY <1>3, <1>4, <1>5, <1>6, <1>7

\* 'close' of s: closePeer ends the other socket, or destroys it.
LEMMA CloseInv ==
  ASSUME IndInv, NEW s \in Sockets, Close(s)
  PROVE  IndInv'
  <1> USE DEF IndInv
  <1> DEFINE S == IF bridge[s] = None THEN {Other(s)} ELSE {}
             T == S \cup PeerToDestroy(s)
  <1>1. /\ life[s] = "destroyed"
        /\ life' = [Destroyed(T) EXCEPT ![s] = "closed"]
        /\ writeEnded' = writeEnded \cup PeerToEnd(s)
        /\ piped' = FALSE
        /\ UNCHANGED <<hadError, readEnded, bridge, sent, ended, read, buffer, got,
                       eof, paused, cut, reading>>
    BY DEF Close, SocketCloses
  <1>2. \A r \in Sockets :
          life'[r] = IF r = s THEN "closed"
                     ELSE IF r \in T /\ life[r] = "open" THEN "destroyed" ELSE life[r]
    BY <1>1 DEF Destroyed
  <1>3. \A r \in Sockets : r \in writeEnded' => r \in writeEnded \/ Other(r) = s
    <2>1. bridge[s] = Other(s) \/ bridge[s] = None
      BY DEF BridgedFirst
    <2>2. \A r \in PeerToEnd(s) : r = Other(s)
      BY <2>1, PairAssumption DEF PeerToEnd
    <2> QED
      BY <1>1, <2>2, OtherOf
  <1>4. TypeOK'
    <2>1. life' \in [Sockets -> {"new", "open", "destroyed", "closed"}]
      BY <1>1 DEF Destroyed, TypeOK, SocketsTypeOK
    <2>2. writeEnded' \in SUBSET Sockets
      BY <1>1 DEF PeerToEnd, TypeOK, SocketsTypeOK
    <2>3. SocketsTypeOK'
      BY <1>1, <2>1, <2>2 DEF TypeOK, SocketsTypeOK
    <2>4. piped' \in BOOLEAN
      BY <1>1
    <2> QED
      BY <1>1, <2>3, <2>4 DEF TypeOK
  <1>5. BridgedFirst'
    <2>1. CASE \A r \in Sockets : bridge[r] = Other(r)
      BY <1>1, <2>1 DEF BridgedFirst
    <2>2. CASE ~ \A r \in Sockets : bridge[r] = Other(r)
      <3>1. PeerToEnd(s) = {}
        BY <2>2, PairAssumption DEF BridgedFirst, PeerToEnd
      <3> QED
        BY <1>1, <2>2, <3>1 DEF BridgedFirst
    <2> QED
      BY <2>1, <2>2
  <1>6. InOrder'
    BY <1>1, <1>2, SameOrder
  <1>7. EndsBehind'
    <2> SUFFICES ASSUME NEW r \in Sockets
                 PROVE  /\ r \in readEnded => r \in ended /\ read[r] = sent[r]
                        /\ r \in writeEnded' => Other(r) \in readEnded \/ life'[Other(r)] = "closed"
                        /\ r \in eof /\ life'[r] = "open" => r \in writeEnded' /\ buffer[r] = <<>>
      BY <1>1 DEF EndsBehind
    <2>1. Other(r) \in Sockets
      BY OtherOf
    <2>2. \A q \in Sockets : life[q] = "closed" \/ q = s => life'[q] = "closed"
      BY <1>2
    <2>3. life'[r] = "open" => life[r] = "open"
      BY <1>2
    <2>4. r \in writeEnded => r \in writeEnded'
      BY <1>1
    <2> QED
      BY <1>3, <2>1, <2>2, <2>3, <2>4 DEF EndsBehind
  <1>8. GoneIsDone'
    <2> SUFFICES ASSUME ~cut, hadError = {}, NEW r \in Sockets
                 PROVE  /\ r \in writeEnded' => Other(r) \in readEnded
                        /\ r \in eof => r \in writeEnded' /\ buffer[r] = <<>>
                        /\ Len(got[r]) + Len(buffer[r]) = read[Other(r)]
                        /\ life'[r] # "open" => r \in eof \cap readEnded
      BY <1>1 DEF GoneIsDone
    <2>1. s \in eof \cap readEnded
      BY <1>1 DEF GoneIsDone
    <2>2. bridge[s] # None
      BY <2>1, OtherOf, PairAssumption DEF BridgedFirst
    <2>3. T = {}
      BY <2>2 DEF PeerToDestroy
    <2> QED
      BY <1>1, <1>2, <1>3, <2>1, <2>3 DEF GoneIsDone
  <1>9. FlowsShallow' /\ BackPressure'
    BY <1>1, SameBuffers
  <1> QED
    BY <1>4, <1>5, <1>6, <1>7, <1>8, <1>9

\* The owner destroys both sockets.
LEMMA DestroyBothInv ==
  ASSUME IndInv, DestroyBoth
  PROVE  IndInv'
  <1> USE DEF IndInv
  <1>1. /\ cut' = TRUE /\ life' = Destroyed(Sockets)
        /\ UNCHANGED <<hadError, readEnded, writeEnded, bridge,
                       sent, ended, read, buffer, got, eof, paused, piped, reading>>
    BY DEF DestroyBoth
  <1>2. \A r \in Sockets : life'[r] = IF life[r] = "open" THEN "destroyed" ELSE life[r]
    BY <1>1 DEF Destroyed
  <1>3. TypeOK'
    <2>1. life' \in [Sockets -> {"new", "open", "destroyed", "closed"}]
      BY <1>1 DEF Destroyed, TypeOK, SocketsTypeOK
    <2> QED
      BY <1>1, <2>1 DEF TypeOK, SocketsTypeOK
  <1>4. BridgedFirst' /\ InOrder'
    BY <1>1, <1>2, SameOrder DEF BridgedFirst
  <1>5. EndsBehind'
    BY <1>1, <1>2, OtherOf DEF EndsBehind
  <1>6. GoneIsDone'
    BY <1>1 DEF GoneIsDone
  <1>7. FlowsShallow' /\ BackPressure'
    BY <1>1, SameBuffers
  <1> QED
    BY <1>3, <1>4, <1>5, <1>6, <1>7

\* What is waiting for a program, what it has received and what was read for it fit
\* together at all times: no byte is lost, doubled or out of order on its way
\* through the pipes, and no end overtakes one.
THEOREM BridgeInvariant == Spec => []IndInv
  <1>1. IndInv /\ [Next]_vars => IndInv'
    <2> SUFFICES ASSUME IndInv, [Next]_vars
                 PROVE  IndInv'
      OBVIOUS
    <2>1. CASE Bridge
      BY <2>1, BridgeInv
    <2>2. CASE DestroyBoth
      BY <2>2, DestroyBothInv
    <2>3. ASSUME NEW s \in Sockets,
                 \/ Send(s) \/ Finish(s) \/ Flush(s) \/ FlushEnd(s)
                 \/ Data(s) \/ End(s) \/ AutoDestroy(s) \/ Fail(s) \/ Close(s)
          PROVE  IndInv'
      BY <2>3, SendInv, FinishInv, FlushInv, FlushEndInv, DataInv, EndInv,
         AutoDestroyInv, FailInv, CloseInv
    <2>4. CASE UNCHANGED vars
      BY <2>4 DEF vars, byteVars, bridgeVars, IndInv, TypeOK, SocketsTypeOK, BridgedFirst,
                  InOrder, EndsBehind, GoneIsDone, FlowsShallow, BackPressure
    <2> QED
      BY <2>1, <2>2, <2>3, <2>4 DEF Next
  <1> QED
    BY <1>1, InitInv, PTL DEF Spec

\* The bridge holds no more for a slow program than the high-water mark or the
\* initial data let in, and one chunk on top.
THEOREM BridgeHoldsLittle == Spec => []BackPressure
  <1>1. IndInv => BackPressure
    BY DEF IndInv
  <1> QED
    BY <1>1, BridgeInvariant, PTL

-----------------------------------------------------------------------------
(* The bridge never holds a stream up *)

\* A step that closes no more than it takes pipes away, opens nothing, and forwards
\* all it reads forgets nobody.
LEMMA SameWaiting ==
  ASSUME NoneForgotten, readEnded \subseteq Sockets,
         UNCHANGED <<buffer, paused, readEnded, bridge, piped>>,
         \A s \in Sockets : life'[s] = "open" => life[s] = "open",
         \A s \in Sockets : life[s] = "closed" => life'[s] = "closed",
         writeEnded \subseteq writeEnded'
  PROVE  NoneForgotten'
  <1>1. \A s \in readEnded : life'[Other(s)] = "open" => Other(s) \in writeEnded'
    BY OtherOf DEF NoneForgotten
  <1> QED
    BY <1>1 DEF NoneForgotten

\* The last byte before a waiting pipe wakes it.
LEMMA FlushWakes ==
  ASSUME IndInv, NoneForgotten, NEW s \in Sockets, Flush(s)
  PROVE  NoneForgotten'
  <1>1. UNCHANGED <<life, readEnded, writeEnded, bridge, piped>> /\ paused' = Waiting(s)
    BY DEF Flush, bridgeVars
  <1>2. ASSUME NEW r \in paused'
        PROVE  buffer'[Other(r)] # <<>>
    <2>1. r \in paused /\ r \in Sockets /\ (Len(buffer[s]) = 1 => r # Other(s))
      BY <1>1 DEF Waiting, IndInv, TypeOK
    <2>2. CASE Other(r) # s
      <3>1. buffer'[Other(r)] = buffer[Other(r)]
        BY <2>1, <2>2, OtherOf, Flushed DEF IndInv
      <3> QED
        BY <2>1, <3>1 DEF NoneForgotten
    <2>3. CASE Other(r) = s
      <3>1. Len(buffer[s]) # 1
        BY <2>1, <2>3, OtherOf
      <3>2. /\ Len(buffer'[s]) = Len(buffer[s]) - 1 /\ Len(buffer[s]) \in Nat
        BY Flushed DEF IndInv
      <3>3. Len(buffer'[s]) # 0
        BY <3>1, <3>2
      <3>4. Len(<<>>) = 0
        OBVIOUS
      <3> QED
        BY <2>3, <3>3, <3>4
    <2> QED
      BY <2>2, <2>3
  <1> QED
    BY <1>1, <1>2 DEF NoneForgotten

\* A pipe begins to wait only behind bytes it has just written.
LEMMA DataWaits ==
  ASSUME IndInv, NoneForgotten, NEW s \in Sockets, Data(s)
  PROVE  NoneForgotten'
  <1>1. /\ UNCHANGED <<life, readEnded, writeEnded, bridge, piped>>
        /\ paused' = IF Full(buffer'[Other(s)]) THEN paused \cup {s} ELSE paused
        /\ s \notin paused /\ paused \subseteq Sockets
        /\ \E n \in 1..ChunkSize : buffer' = Written(Other(s), Range(read[s], read[s] + n))
    BY DEF Data, bridgeVars, IndInv, TypeOK
  <1>2. buffer'[s] = buffer[s]
    BY <1>1, OtherOf DEF Written, IndInv, TypeOK
  <1>3. ASSUME NEW r \in paused'
        PROVE  buffer'[Other(r)] # <<>>
    <2>1. CASE r \in paused
      <3>1. Other(r) = s
        BY <1>1, <2>1, OtherOf
      <3> QED
        BY <1>2, <2>1, <3>1 DEF NoneForgotten
    <2>2. CASE r \notin paused
      <3>1. r = s /\ Len(buffer'[Other(s)]) >= HighWater
        BY <1>1, <2>2 DEF Full
      <3>2. Len(<<>>) = 0 /\ HighWater \in Nat \ {0}
        BY BufferAssumption
      <3>3. ~ (0 >= HighWater)
        BY <3>2
      <3> QED
        BY <3>1, <3>2, <3>3
    <2> QED
      BY <2>1, <2>2
  <1> QED
    BY <1>1, <1>3 DEF NoneForgotten

\* The end of s is forwarded.
LEMMA EndForwarded ==
  ASSUME IndInv, NoneForgotten, NEW s \in Sockets, End(s)
  PROVE  NoneForgotten'
  <1>1. /\ piped /\ readEnded' = readEnded \cup {s}
        /\ writeEnded' = writeEnded \cup {p \in Sockets : p = bridge[s] /\ life[p] = "open"}
        /\ UNCHANGED <<life, bridge, buffer, paused, piped>>
    BY DEF End, SocketEnds, byteVars
  <1>2. bridge[s] = Other(s) /\ Other(s) \in Sockets
    BY <1>1, OtherOf DEF IndInv, BridgedFirst
  <1>3. ASSUME NEW r \in readEnded', life[Other(r)] = "open"
        PROVE  Other(r) \in writeEnded'
    BY <1>1, <1>2, <1>3 DEF NoneForgotten
  <1> QED
    BY <1>1, <1>3 DEF NoneForgotten

\* 'close' takes the pipes away, of a bridge that has a closed socket then.
LEMMA CloseTells ==
  ASSUME IndInv, NoneForgotten, NEW s \in Sockets, Close(s)
  PROVE  NoneForgotten'
  <1>1. /\ life[s] = "destroyed" /\ life'[s] = "closed"
        /\ writeEnded' = writeEnded \cup PeerToEnd(s)
        /\ UNCHANGED <<readEnded, bridge, buffer, paused>>
    BY DEF Close, SocketCloses, Destroyed
  <1>2. \A r \in Sockets : life'[r] = "open" => life[r] = "open"
    BY DEF Close, SocketCloses, Destroyed
  <1>3. ASSUME NEW r \in readEnded, life'[Other(r)] = "open"
        PROVE  Other(r) \in writeEnded'
    <2>1. Other(r) \in Sockets
      BY OtherOf DEF IndInv, TypeOK, SocketsTypeOK
    <2> QED
      BY <1>1, <1>2, <1>3, <2>1 DEF NoneForgotten
  <1>4. \E r \in Sockets : life'[r] = "closed"
    BY <1>1
  <1> QED
    BY <1>1, <1>3, <1>4 DEF NoneForgotten

\* A socket is destroyed: by itself, by an error, or by the owner.
LEMMA DestroyedForgetsNone ==
  ASSUME IndInv, NoneForgotten, DestroyBoth \/ \E s \in Sockets : AutoDestroy(s) \/ Fail(s)
  PROVE  NoneForgotten'
  <1>1. \A r \in Sockets : /\ life'[r] = "open" => life[r] = "open"
                           /\ life[r] = "closed" => life'[r] = "closed"
    BY DEF DestroyBoth, Destroyed, AutoDestroy, SocketFinishes, Fail, SocketFails,
           IndInv, TypeOK, SocketsTypeOK
  <1>2. UNCHANGED <<buffer, paused, readEnded, writeEnded, bridge, piped>>
    BY DEF DestroyBoth, AutoDestroy, SocketFinishes, Fail, SocketFails, byteVars
  <1> QED
    BY <1>1, <1>2, SameWaiting DEF IndInv, TypeOK, SocketsTypeOK

LEMMA ForgetsNone == IndInv /\ NoneForgotten /\ [Next]_vars => NoneForgotten'
  <1> SUFFICES ASSUME IndInv, NoneForgotten, [Next]_vars
               PROVE  NoneForgotten'
    OBVIOUS
  <1>1. CASE Bridge
    <2>1. \A s \in Sockets : bridge[s] # Other(s)
      BY <1>1, OtherOf, PairAssumption DEF Bridge
    <2>2. readEnded = {} /\ paused = {} /\ UNCHANGED <<readEnded, paused>> /\ piped'
      BY <1>1, <2>1, PairAssumption DEF Bridge, IndInv, BridgedFirst, TypeOK, SocketsTypeOK
    <2> QED
      BY <2>2 DEF NoneForgotten
  <1>2. CASE DestroyBoth \/ \E s \in Sockets : AutoDestroy(s) \/ Fail(s)
    BY <1>2, DestroyedForgetsNone
  <1>3. ASSUME NEW s \in Sockets, Send(s) \/ Finish(s) \/ FlushEnd(s)
        PROVE  NoneForgotten'
    BY <1>3 DEF Send, Finish, FlushEnd, bridgeVars, NoneForgotten
  <1>4. ASSUME NEW s \in Sockets, Flush(s) \/ Data(s) \/ End(s) \/ Close(s)
        PROVE  NoneForgotten'
    BY <1>4, FlushWakes, DataWaits, EndForwarded, CloseTells
  <1>5. CASE UNCHANGED vars
    BY <1>5 DEF vars, byteVars, bridgeVars, NoneForgotten
  <1> QED
    BY <1>1, <1>2, <1>3, <1>4, <1>5 DEF Next

\* Who is still waiting for something while nothing broke finds it in the buffer,
\* or on its way there.
LEMMA NoneStalled == IndInv /\ NoneForgotten => NothingStalls
  <1> SUFFICES ASSUME IndInv, NoneForgotten, ~cut, hadError = {},
                      \E s \in Sockets : bridge[s] # None,
                      NEW s \in Sockets, s \notin eof, buffer[s] = <<>>, s \notin writeEnded,
                      Len(got[s]) < sent[Other(s)] \/ Other(s) \in ended
               PROVE  /\ piped /\ Other(s) \notin paused /\ life[Other(s)] = "open"
                      /\ \/ read[Other(s)] < sent[Other(s)]
                         \/ Other(s) \in ended \ readEnded
    BY DEF NothingStalls
  <1> DEFINE o == Other(s)
  <1>1. o \in Sockets /\ Other(o) = s /\ Sockets = {s, o}
    BY OtherOf
  <1> HIDE DEF o
  <1>2. life[s] = "open"
    BY DEF IndInv, GoneIsDone
  <1>3. o \notin readEnded
    BY <1>1, <1>2 DEF NoneForgotten
  <1>4. life[o] = "open"
    BY <1>1, <1>3 DEF IndInv, GoneIsDone
  <1>5. o \notin paused
    BY <1>1 DEF NoneForgotten
  <1>6. piped
    BY <1>1, <1>2, <1>4 DEF NoneForgotten, IndInv, BridgedFirst
  <1>7. CASE o \in ended
    BY <1>3, <1>4, <1>5, <1>6, <1>7 DEF o
  <1>8. CASE Len(got[s]) < sent[o]
    <2>1. /\ Len(got[s]) + Len(buffer[s]) = read[o] /\ Len(buffer[s]) = 0
          /\ Len(got[s]) \in Nat
      BY <1>2 DEF IndInv, InOrder, TypeOK, o
    <2>2. Len(got[s]) = read[o]
      BY <2>1
    <2> QED
      BY <1>4, <1>5, <1>6, <1>8, <2>2 DEF o
  <1> QED
    BY <1>7, <1>8 DEF o

\* While nothing broke, the bridge never is what holds a stream up: the next byte or
\* the end a program has to come can be sent, or a pipe can read it.
THEOREM BridgeNeverStalls == Spec => []NothingStalls
  <1>1. Init => NoneForgotten
    BY DEF Init, NoneForgotten
  <1>2. Spec => []NoneForgotten
    BY <1>1, ForgetsNone, BridgeInvariant, PTL DEF Spec
  <1> QED
    BY <1>2, NoneStalled, BridgeInvariant, PTL

-----------------------------------------------------------------------------
(* The bridge implements a connection *)

\* A stream that is in order is known by its length.
LEMMA BytesOf ==
  ASSUME NEW g \in Seq(Nat), \A i \in 1..Len(g) : g[i] = i
  PROVE  g = Stream!Bytes(Len(g))
  <1>1. Len(g) \in Nat /\ g = [i \in 1..Len(g) |-> g[i]]
    OBVIOUS
  <1>2. [i \in 1..Len(g) |-> g[i]] = [i \in 1..Len(g) |-> i]
    OBVIOUS
  <1> QED
    BY <1>1, <1>2 DEF Stream!Bytes

\* What a program has received are the first bytes the other one has sent.
LEMMA ReceivedInOrder ==
  ASSUME IndInv, NEW s \in Sockets
  PROVE  /\ got[s] = Stream!Bytes(Len(got[s])) /\ Len(got[s]) \in Nat
         /\ Stream!Far(s) = Other(s) /\ Other(s) \in Sockets
  <1>1. got[s] \in Seq(Nat) /\ \A i \in 1..Len(got[s]) : got[s][i] = i
    BY DEF IndInv, TypeOK, InOrder
  <1>2. got[s] = Stream!Bytes(Len(got[s]))
    BY <1>1, BytesOf
  <1> QED
    BY <1>1, <1>2, OtherOf DEF Stream!Far, Other

LEMMA InitStream == Init => Stream!Init
  BY DEF Init, Stream!Init

\* A step that neither moves bytes nor breaks anything.
LEMMA Unseen ==
  ASSUME UNCHANGED <<sent, ended, got, eof, cut, reading, hadError>>
  PROVE  UNCHANGED Stream!vars
  BY DEF Stream!vars

\* A byte leaves the buffer: one more arrives.
LEMMA FlushDelivers ==
  ASSUME IndInv, NEW s \in Sockets, Flush(s)
  PROVE  Stream!Deliver(s)
  <1> DEFINE o == Other(s)
             g == Len(got[s])
             n == g + 1
  <1>1. s \notin eof
    BY DEF IndInv, EndsBehind, Flush
  <1>2. g \in Nat /\ got[s] = Stream!Bytes(g) /\ Stream!Far(s) = o /\ o \in Sockets
    BY ReceivedInOrder
  <1>3. n \in 1..sent[o]
    <2>1. read[o] \in Nat /\ sent[o] \in Nat /\ read[o] <= sent[o]
      BY <1>2 DEF IndInv, TypeOK, InOrder
    <2> DEFINE b == Len(buffer[s])
    <2>2. b \in Nat /\ b > 0
      BY Flushed
    <2>3. g + b <= read[o]
      BY DEF IndInv, InOrder
    <2> HIDE DEF g, b, o
    <2> QED
      BY <1>2, <2>1, <2>2, <2>3
  <1>4. got'[s] = Stream!Bytes(n)
    <2>1. got'[s] \in Seq(Nat) /\ Len(got'[s]) = n /\ \A i \in 1..Len(got'[s]) : got'[s][i] = i
      BY Flushed
    <2> QED
      BY <2>1, BytesOf
  <1>5. got' = [got EXCEPT ![s] = got'[s]]
    BY DEF Flush, IndInv, TypeOK
  <1>6. got[s] \in {Stream!Bytes(k) : k \in 0..(n - 1)}
    <2>1. g \in 0..(n - 1)
      BY <1>2
    <2> QED
      BY <1>2, <2>1
  <1>7. UNCHANGED <<sent, ended, eof, cut \/ hadError # {}, reading>>
    BY DEF Flush, bridgeVars
  <1> HIDE DEF n, o
  <1> QED
    BY <1>1, <1>2, <1>3, <1>4, <1>5, <1>6, <1>7 DEF Stream!Deliver

\* The end behind the last byte; of a socket that is gone without a break, nothing.
LEMMA FlushEndTells ==
  ASSUME IndInv, NEW s \in Sockets, FlushEnd(s)
  PROVE  Stream!Eof(s)
  <1> DEFINE o == Other(s)
  <1>1. Stream!Far(s) = o /\ o \in Sockets /\ got[s] = Stream!Bytes(Len(got[s])) /\ Len(got[s]) \in Nat
    BY ReceivedInOrder
  <1>2. ASSUME ~cut, hadError = {}
        PROVE  o \in ended /\ got[s] = Stream!Bytes(sent[o])
    <2>1. life[s] = "open"
      BY <1>2 DEF IndInv, GoneIsDone, FlushEnd
    <2>2. s \in writeEnded /\ buffer[s] = <<>>
      BY <2>1 DEF FlushEnd
    <2>3. o \in readEnded /\ Len(got[s]) + Len(buffer[s]) = read[o]
      BY <1>2, <2>2 DEF IndInv, GoneIsDone
    <2>4. o \in ended /\ read[o] = sent[o]
      BY <1>1, <2>3 DEF IndInv, EndsBehind
    <2>5. Len(got[s]) = sent[o]
      BY <1>1, <2>2, <2>3, <2>4
    <2> QED
      BY <1>1, <2>4, <2>5
  <1>3. s \notin eof /\ eof' = eof \cup {s} /\ UNCHANGED <<sent, ended, got, cut \/ hadError # {}, reading>>
    BY DEF FlushEnd, bridgeVars
  <1> HIDE DEF o
  <1> QED
    BY <1>1, <1>2, <1>3 DEF Stream!Eof

LEMMA NextStream == IndInv /\ [Next]_vars => [Stream!Next]_Stream!vars
  <1> SUFFICES ASSUME IndInv, [Next]_vars PROVE [Stream!Next]_Stream!vars
    OBVIOUS
  <1>1. ASSUME NEW s \in Sockets, Send(s) PROVE Stream!Send(s)
    BY <1>1 DEF Send, bridgeVars, Stream!Send
  <1>2. ASSUME NEW s \in Sockets, Finish(s) PROVE Stream!Finish(s)
    BY <1>2 DEF Finish, bridgeVars, Stream!Finish
  <1>3. ASSUME NEW s \in Sockets, Flush(s) PROVE Stream!Deliver(s)
    BY <1>3, FlushDelivers
  <1>4. ASSUME NEW s \in Sockets, FlushEnd(s) PROVE Stream!Eof(s)
    BY <1>4, FlushEndTells
  <1>5. ASSUME NEW s \in Sockets, Data(s) \/ End(s) \/ AutoDestroy(s) \/ Close(s)
        PROVE  UNCHANGED Stream!vars
    <2>1. UNCHANGED <<sent, ended, got, eof, cut, reading, hadError>>
      BY <1>5 DEF Data, End, AutoDestroy, Close, SocketEnds, SocketFinishes,
                  SocketCloses, byteVars, bridgeVars
    <2> QED
      BY <2>1, Unseen
  <1>6. ASSUME NEW s \in Sockets, Fail(s) PROVE Stream!Break \/ UNCHANGED Stream!vars
    BY <1>6 DEF Fail, SocketFails, byteVars, Stream!Break, Stream!vars
  <1>7. CASE DestroyBoth
    <2>1. ~cut /\ cut' /\ UNCHANGED <<sent, ended, got, eof, reading, hadError>>
      BY <1>7 DEF DestroyBoth
    <2>2. CASE hadError = {}
      <3>1. ~(cut \/ hadError # {}) /\ (cut \/ hadError # {})' = TRUE
        BY <2>1, <2>2
      <3> QED
        BY <2>1, <3>1 DEF Stream!Break, Stream!Next
    <2>3. CASE hadError # {}
      <3>1. (cut \/ hadError # {})' = (cut \/ hadError # {})
        BY <2>1, <2>3
      <3> QED
        BY <2>1, <3>1 DEF Stream!vars
    <2> QED
      BY <2>2, <2>3
  <1>8. CASE UNCHANGED vars
    BY <1>8, Unseen DEF vars, bridgeVars, byteVars
  <1>9. CASE Bridge
    BY <1>9, Unseen DEF Bridge
  <1> QED
    BY <1>1, <1>2, <1>3, <1>4, <1>5, <1>6, <1>7, <1>8, <1>9 DEF Next, Stream!Next

\* The safety part of the refinement: in each direction the program receives what the
\* other one has sent, in order and from the first byte on, and is told of the end only
\* behind the last, unless the connection broke.
THEOREM StreamsCarried == Spec => StreamSteps
  BY InitStream, NextStream, BridgeInvariant, PTL DEF Spec, StreamSteps, Stream!Safe
=============================================================================
