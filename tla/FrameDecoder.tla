----------------------------- MODULE FrameDecoder -----------------------------
(***************************************************************************)
(* createDecoder (src/utils.js): cuts a byte stream that comes in chunks   *)
(* into frames, one per line, and stops at the first bad one.  Bytes are   *)
(* known by their position in the stream; a run of the loop is an action.  *)
(* Decryption is external: a frame is authentic if none of its bytes was   *)
(* forged and there is at least one.                                       *)
(***************************************************************************)
EXTENDS Integers

CONSTANTS
  Length,    \* bound: the bytes of the stream
  MaxFrame   \* MAX_CONTROL_FRAME_BYTES

ASSUME SizesAssumption == Length \in Nat /\ MaxFrame \in Nat

VARIABLES
  input,      \* the stream: "byte", "forged" or "newline" at each position
  firstOnly,  \* createFirstMessageDecoder
  passed,     \* bytes that have been passed to decode()
  offset,     \* bytes the loop has dealt with
  fragments,  \* positions of the bytes kept of an incomplete frame
  length,     \* how many they are
  stopped,
  invalid,    \* onInvalid was called
  frames,     \* the frames handed to onMessage, each as its positions
  remainder   \* the positions handed over with a first frame

given == <<input, firstOnly>>
decoderVars == <<given, passed, offset, fragments, length, stopped, invalid, frames, remainder>>

Bytes == 1..Length

DecoderTypeOK ==
  /\ input \in [Bytes -> {"byte", "forged", "newline"}]
  /\ firstOnly \in BOOLEAN /\ stopped \in BOOLEAN /\ invalid \in BOOLEAN
  /\ passed \in 0..Length
  /\ offset \in 0..passed
  /\ length \in 0..MaxFrame
  /\ fragments \subseteq Bytes
  /\ remainder \subseteq Bytes
  /\ \A f \in frames : f \subseteq Bytes

DecoderInit ==
  /\ input \in [Bytes -> {"byte", "forged", "newline"}]
  /\ firstOnly \in BOOLEAN
  /\ passed = 0 /\ offset = 0
  /\ fragments = {} /\ length = 0
  /\ stopped = FALSE /\ invalid = FALSE
  /\ frames = {} /\ remainder = {}

-----------------------------------------------------------------------------
\* crypt.decrypt does not return null.
Authentic(frame) == frame # {} /\ \A p \in frame : input[p] = "byte"

\* A frame that is too long or not authentic: for good.
Invalid ==
  /\ stopped' = TRUE /\ invalid' = TRUE
  /\ fragments' = {} /\ length' = 0
  /\ UNCHANGED <<given, passed, offset, frames, remainder>>

\* data.indexOf(0x0a, offset): the end of the line, within this chunk.
NewlineAt(e) ==
  /\ e \in (offset + 1)..passed
  /\ input[e] = "newline"
  /\ \A p \in (offset + 1)..(e - 1) : input[p] # "newline"

\* Fault: one byte more.
TooLong_F1(n) == n > MaxFrame + 1
TooLong(n) == n > MaxFrame

\* decode() is called with the next chunk.  A stopped decoder ignores it.
Decode ==
  /\ ~stopped /\ offset = passed
  /\ passed' \in (passed + 1)..Length
  /\ UNCHANGED <<given, offset, fragments, length, stopped, invalid, frames, remainder>>

Reading == ~stopped /\ offset < passed

\* No newline in the rest of the chunk: it is kept.
Keep ==
  /\ Reading /\ \A e \in (offset + 1)..passed : input[e] # "newline"
  /\ LET n == length + passed - offset IN
     IF TooLong(n)
     THEN Invalid
     ELSE /\ fragments' = fragments \cup (offset + 1)..passed
          /\ length' = n
          /\ offset' = passed
          /\ UNCHANGED <<given, passed, stopped, invalid, frames, remainder>>

\* The end of a line: its frame is complete.  A decoder of first messages stops
\* there, and what is left of the chunk belongs to somebody else.
Deliver(e) ==
  /\ Reading /\ NewlineAt(e)
  /\ LET frame == fragments \cup (offset + 1)..(e - 1) IN
     IF TooLong(length + e - 1 - offset) \/ ~Authentic(frame)
     THEN Invalid
     ELSE /\ frames' = frames \cup {frame}
          /\ fragments' = {} /\ length' = 0
          /\ offset' = e
          /\ stopped' = firstOnly
          /\ remainder' = IF firstOnly THEN (e + 1)..passed ELSE {}
          /\ UNCHANGED <<given, passed, invalid>>

DecoderNext == Decode \/ Keep \/ \E e \in Bytes : Deliver(e)

DecoderSpec == DecoderInit /\ [][DecoderNext]_decoderVars

-----------------------------------------------------------------------------
(* Properties *)

\* A line of the stream starts behind position b: its bytes up to e are one run.
LineFrom(b, e) ==
  /\ b = 0 \/ input[b] = "newline"
  /\ \A p \in (b + 1)..e : input[p] # "newline"

\* f is the line that the newline at q ends.
IsLine(f, q) ==
  /\ input[q] = "newline"
  /\ \E b \in 0..(q - 1) : LineFrom(b, q - 1) /\ f = (b + 1)..(q - 1)

Good(f) == Authentic(f) /\ \A p, q \in f : q - p < MaxFrame

\* However the stream is cut into chunks, the frames delivered are its lines up
\* to where the decoder is, all of them good.
DeliversLines ==
  /\ \A f \in frames : Good(f) /\ \E q \in 1..offset : IsLine(f, q)
  /\ \A q \in 1..offset : input[q] = "newline" => \E f \in frames : IsLine(f, q)

\* A decoder of first messages stops at the first one and hands over every byte
\* that came behind it.
HandsOverTheRest ==
  firstOnly /\ frames # {} =>
    /\ stopped
    /\ \A f, g \in frames : f = g
    /\ remainder = (offset + 1)..passed

\* It never keeps more of an unfinished line than a frame may have, nor anything
\* once it has stopped.
KeepsLittle ==
  /\ \A p, q \in fragments : q - p < MaxFrame
  /\ stopped => fragments = {}

\* It complains only of a stream that has a bad line: one that is complete and
\* not good, or already longer than a frame may be.
ComplainsRightly ==
  invalid => \E b \in 0..offset, e \in 1..passed :
    /\ LineFrom(b, e - 1)
    /\ IF input[e] = "newline" THEN ~Good((b + 1)..(e - 1)) ELSE e - b > MaxFrame

\* The decoder is right: frames, remainder, memory and complaints.
DecodesRightly ==
  DeliversLines /\ HandsOverTheRest /\ KeepsLittle /\ ComplainsRightly

-----------------------------------------------------------------------------
\* The inductive invariant: what is kept is the unfinished line up to the offset,
\* and `length` counts it; a decoder that has not stopped has nothing to say.
DecoderInv ==
  /\ DecoderTypeOK
  /\ ~stopped =>
       /\ length <= offset
       /\ LineFrom(offset - length, offset)
       /\ fragments = (offset - length + 1)..offset
       /\ ~invalid
       /\ firstOnly => frames = {}
  /\ stopped => fragments = {}
  /\ DeliversLines /\ HandsOverTheRest /\ ComplainsRightly
=============================================================================
