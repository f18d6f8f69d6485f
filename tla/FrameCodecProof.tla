-------------------------- MODULE FrameCodecProof --------------------------
(***************************************************************************)
(* The properties of FrameCodec, for all addresses, all octets of control  *)
(* and all masks of damage, while the other devices use standard frames.   *)
(***************************************************************************)
EXTENDS FrameCodec, BitLemmas

-----------------------------------------------------------------------------
(* The standard's encoding *)

(* All TPDUs that a standard frame can carry.                              *)
Payloads == {u \in Seq(Octet) : Len(u) \in 1 .. 16}

(* A message whose fields fit into a standard frame.                       *)
InRange(m) ==
    /\ m.src \in Nat /\ m.src < 256 * 256 /\ m.dst \in Nat /\ m.dst < 256 * 256
    /\ m.priority \in 0 .. 3 /\ m.hop \in 0 .. 7 /\ m.tpdu \in Payloads

(* The octets of flags, of a frame and of a repetition of it.              *)
Ctrl(m, r) == 144 + (IF r THEN 0 ELSE 32) + m.priority * 4
At(m) == (IF m.group THEN 128 ELSE 0) + m.hop * 16

(* The octets before the checksum.                                         *)
Body(m, r) ==
    <<Ctrl(m, r)>> \o << m.src \div 256, m.src % 256, m.dst \div 256, m.dst % 256 >>
        \o <<At(m) + (Len(m.tpdu) - 1)>> \o m.tpdu

(* The octets of a TPDU. *)
LEMMA PayloadFacts ==
  ASSUME NEW u \in Payloads
  PROVE  u \in Seq(Octet) /\ Len(u) \in 1 .. 16
  BY DEF Payloads

(* An octet that makes up the exclusive or to 0xff.                        *)
LEMMA SealedFacts ==
  ASSUME NEW s \in Seq(Octet)
  PROVE  /\ Sealed(s) \in Seq(Octet) /\ Len(Sealed(s)) = Len(s) + 1
         /\ \A i \in 1 .. Len(s) : Sealed(s)[i] = s[i]
         /\ Sealed(s)[Len(s) + 1] = 255 - Parity(s)
         /\ Parity(Sealed(s)) = 255
<1> DEFINE v == 255 - Parity(s)
<1>1. DOMAIN s = 1 .. Len(s) /\ Len(s) \in Nat
  BY LenProperties
<1>2. Parity(s) \in Octet
  BY <1>1, FS_Interval, ParityFacts
<1>3. v \in Octet
  BY <1>2, OctetRange
<1> HIDE DEF v
<1>4. Sealed(s) = Append(s, v)
  BY DEF Sealed, v
<1>5. /\ Sealed(s) \in Seq(Octet) /\ Len(Sealed(s)) = Len(s) + 1
      /\ \A i \in 1 .. Len(s) : Sealed(s)[i] = s[i]
      /\ Sealed(s)[Len(s) + 1] = v
  BY <1>1, <1>3, <1>4, AppendProperties
<1>6. Parity(Sealed(s)) \in Octet
  <2>1. DOMAIN Sealed(s) = 1 .. Len(s) + 1
    BY <1>5, LenProperties
  <2> QED
    BY <1>1, <2>1, FS_Interval, ParityFacts
<1>7. ASSUME NEW w \in Weights
      PROVE  Bit(Parity(Sealed(s)), w) = Bit(255, w)
  <2>1. Bit(v, w) = 1 - Bit(Parity(s), w)
    BY <1>2, Complement DEF v
  <2>2. Bit(Parity(Sealed(s)), w) = (Bit(Parity(s), w) + Bit(v, w)) % 2
    BY <1>3, <1>4, ParityAppend
  <2>3. Bit(Parity(s), w) \in {0, 1}
    BY <1>2, OctetRange, BitType
  <2>4. Bit(255, w) = 1
    BY DEF Weights, Bit
  <2> QED
    BY <2>1, <2>2, <2>3, <2>4
<1>8. Parity(Sealed(s)) = 255
  <2>1. 255 \in Octet
    BY DEF Octet
  <2> QED
    BY <1>6, <1>7, <2>1, SameBits
<1> QED
  BY <1>5, <1>8 DEF v

(* Where the fields are in the octets of a standard frame.                 *)
LEMMA BodyFacts ==
  ASSUME NEW m, InRange(m), NEW r
  PROVE  /\ Body(m, r) \in Seq(Octet) /\ Len(Body(m, r)) = 6 + Len(m.tpdu)
         /\ Body(m, r)[1] = Ctrl(m, r)
         /\ Body(m, r)[2] = m.src \div 256 /\ Body(m, r)[3] = m.src % 256
         /\ Body(m, r)[4] = m.dst \div 256 /\ Body(m, r)[5] = m.dst % 256
         /\ Body(m, r)[6] = At(m) + (Len(m.tpdu) - 1)
         /\ \A j \in 1 .. Len(m.tpdu) : Body(m, r)[6 + j] = m.tpdu[j]
         /\ Encoded("Standard", m, r) = Sealed(Body(m, r))
<1> DEFINE a == << m.src \div 256, m.src % 256, m.dst \div 256, m.dst % 256 >>
           lg == At(m) + (Len(m.tpdu) - 1)
           u == m.tpdu
<1>1. u \in Seq(Octet) /\ Len(u) \in 1 .. 16
  BY PayloadFacts DEF InRange
<1>2. Ctrl(m, r) \in Octet
  BY OctetRange DEF InRange, Ctrl
<1>3. lg \in Octet
  <2>1. At(m) \in 0 .. 240
    BY DEF InRange, At
  <2>2. \A x \in 0 .. 240, k \in 1 .. 16 : x + (k - 1) \in Octet
    BY OctetRange
  <2> QED
    BY <1>1, <2>1, <2>2
<1>4. a[1] \in Octet /\ a[2] \in Octet /\ a[3] \in Octet /\ a[4] \in Octet
  BY OctetRange DEF InRange
<1>5. a \in Seq(Octet) /\ Len(a) = 4
  BY <1>4
<1>6. /\ Encoded("Standard", m, r) = Sealed(Body(m, r))
  BY DEF Encoded, Body, Ctrl, At
<1>7. a[1] = m.src \div 256 /\ a[2] = m.src % 256 /\ a[3] = m.dst \div 256 /\ a[4] = m.dst % 256
  OBVIOUS
<1>8. Body(m, r) = <<Ctrl(m, r)>> \o a \o <<lg>> \o u
  BY DEF Body
<1> HIDE DEF a, lg, u
<1> DEFINE c == <<Ctrl(m, r)>>
           x == c \o a
           g == <<lg>>
           y == x \o g
<1>9. c \in Seq(Octet) /\ Len(c) = 1 /\ c[1] = Ctrl(m, r)
  BY <1>2
<1>10. g \in Seq(Octet) /\ Len(g) = 1 /\ g[1] = lg
  BY <1>3
<1>11. Body(m, r) = y \o u
  BY <1>8
<1> HIDE DEF c, g
<1>12. /\ x \in Seq(Octet) /\ Len(x) = 5 /\ x[1] = c[1]
       /\ x[2] = a[1] /\ x[3] = a[2] /\ x[4] = a[3] /\ x[5] = a[4]
  <2>1. x \in Seq(Octet) /\ Len(x) = 5
    <3>1. x \in Seq(Octet) /\ Len(x) = Len(c) + Len(a)
      BY <1>5, <1>9, ConcatProperties
    <3> QED
      BY <1>5, <1>9, <3>1
  <2>2. \A i \in 1 .. Len(c) + Len(a) :
           x[i] = IF i <= Len(c) THEN c[i] ELSE a[i - Len(c)]
    BY <1>5, <1>9, ConcatProperties
  <2> HIDE DEF x
  <2> QED
    BY <1>5, <1>9, <2>1, <2>2
<1> HIDE DEF x
<1>13. y \in Seq(Octet) /\ Len(y) = 6 /\ y[6] = g[1] /\ \A i \in 1 .. 5 : y[i] = x[i]
  <2>1. y \in Seq(Octet) /\ Len(y) = 6
    <3>1. y \in Seq(Octet) /\ Len(y) = Len(x) + Len(g)
      BY <1>10, <1>12, ConcatProperties
    <3> QED
      BY <1>10, <1>12, <3>1
  <2>2. \A i \in 1 .. Len(x) + Len(g) :
           y[i] = IF i <= Len(x) THEN x[i] ELSE g[i - Len(x)]
    BY <1>10, <1>12, ConcatProperties
  <2> HIDE DEF y
  <2> QED
    BY <1>10, <1>12, <2>1, <2>2
<1> HIDE DEF y
<1>14. /\ Body(m, r) \in Seq(Octet) /\ Len(Body(m, r)) = 6 + Len(u)
       /\ \A i \in 1 .. 6 : Body(m, r)[i] = y[i]
       /\ \A j \in 1 .. Len(u) : Body(m, r)[6 + j] = u[j]
  <2>1. Body(m, r) \in Seq(Octet) /\ Len(Body(m, r)) = 6 + Len(u)
    <3>1. y \o u \in Seq(Octet) /\ Len(y \o u) = Len(y) + Len(u)
      BY <1>1, <1>13, ConcatProperties
    <3> QED
      BY <1>11, <1>13, <3>1
  <2>2. \A i \in 1 .. 6 + Len(u) :
           Body(m, r)[i] = IF i <= 6 THEN y[i] ELSE u[i - 6]
    <3>1. \A i \in 1 .. Len(y) + Len(u) :
             (y \o u)[i] = IF i <= Len(y) THEN y[i] ELSE u[i - Len(y)]
      BY <1>1, <1>13, ConcatProperties
    <3> DEFINE z == y \o u
    <3> HIDE DEF z
    <3>2. \A i \in 1 .. 6 + Len(u) : z[i] = IF i <= 6 THEN y[i] ELSE u[i - 6]
      BY <1>13, <3>1 DEF z
    <3>3. Body(m, r) = z
      BY <1>11 DEF z
    <3> QED
      BY <3>2, <3>3
  <2>3. \A j \in 1 .. Len(u) : 6 + j \in 1 .. 6 + Len(u) /\ ~ (6 + j <= 6) /\ (6 + j) - 6 = j
    BY <1>1
  <2>4. \A i \in 1 .. 6 : i \in 1 .. 6 + Len(u)
    BY <1>1
  <2> QED
    BY <2>1, <2>2, <2>3, <2>4
<1>15. \A i \in 1 .. 5 : Body(m, r)[i] = x[i]
  BY <1>13, <1>14
<1>16. /\ Body(m, r)[1] = Ctrl(m, r)
       /\ Body(m, r)[2] = a[1] /\ Body(m, r)[3] = a[2]
       /\ Body(m, r)[4] = a[3] /\ Body(m, r)[5] = a[4]
  BY <1>9, <1>12, <1>15
<1>17. Body(m, r)[6] = lg
  BY <1>10, <1>13, <1>14
<1>18. lg = At(m) + (Len(u) - 1)
  BY DEF lg, u
<1> QED
  BY <1>6, <1>7, <1>14, <1>16, <1>17, <1>18, Zenon DEF u

(* A frame as a whole.                                                     *)
LEMMA EncodedFacts ==
  ASSUME NEW m, InRange(m), NEW r, NEW w, w = Encoded("Standard", m, r)
  PROVE  /\ w \in Seq(Octet) /\ Len(m.tpdu) \in 1 .. 16 /\ Len(w) = 7 + Len(m.tpdu)
         /\ Parity(w) = 255
         /\ w[1] = Ctrl(m, r)
         /\ w[2] = m.src \div 256 /\ w[3] = m.src % 256
         /\ w[4] = m.dst \div 256 /\ w[5] = m.dst % 256
         /\ w[6] = At(m) + (Len(m.tpdu) - 1)
         /\ \A j \in 1 .. Len(m.tpdu) : w[6 + j] = m.tpdu[j]
<1> DEFINE b == Body(m, r)
           n == Len(m.tpdu)
<1>1. n \in 1 .. 16
  BY PayloadFacts DEF InRange
<1>2. /\ b \in Seq(Octet) /\ Len(b) = 6 + n /\ w = Sealed(b)
      /\ b[1] = Ctrl(m, r) /\ b[2] = m.src \div 256 /\ b[3] = m.src % 256
      /\ b[4] = m.dst \div 256 /\ b[5] = m.dst % 256
      /\ b[6] = At(m) + (n - 1)
      /\ \A j \in 1 .. n : b[6 + j] = m.tpdu[j]
  BY BodyFacts
<1> HIDE DEF b
<1>3. /\ w \in Seq(Octet) /\ Len(w) = Len(b) + 1 /\ Parity(w) = 255
      /\ \A i \in 1 .. Len(b) : w[i] = b[i]
  <2>1. b \in Seq(Octet) /\ w = Sealed(b)
    BY <1>2
  <2>2. /\ Sealed(b) \in Seq(Octet) /\ Len(Sealed(b)) = Len(b) + 1
        /\ Parity(Sealed(b)) = 255
        /\ \A i \in 1 .. Len(b) : Sealed(b)[i] = b[i]
    BY <2>1, SealedFacts, SMTT(30)
  <2> QED
    BY <2>1, <2>2, SMTT(30)
<1> HIDE DEF n
<1>4. \A i \in 1 .. 6 : w[i] = b[i]
  BY <1>1, <1>2, <1>3
<1>5. \A j \in 1 .. n : w[6 + j] = b[6 + j]
  BY <1>1, <1>2, <1>3
<1> QED
  BY <1>1, <1>2, <1>3, <1>4, <1>5, SMTT(30) DEF n

-----------------------------------------------------------------------------
(* What the driver makes of octets *)

(* The control octets of standard frames start a frame.                    *)
LEMMA CtrlStarts ==
  ASSUME NEW m, InRange(m), NEW r
  PROVE  FrameType(Ctrl(m, r)) = "Standard"
<1>1. Ctrl(m, r) \in {144, 148, 152, 156, 176, 180, 184, 188}
  BY DEF InRange, Ctrl
<1>2. \A c \in {144, 148, 152, 156, 176, 180, 184, 188} : And(c, 211) = 144
  <2> SUFFICES ASSUME NEW c \in {144, 148, 152, 156, 176, 180, 184, 188}
               PROVE  And(c, 211) = 144
    OBVIOUS
  <2>1. /\ Bit(211, 1) = 1 /\ Bit(211, 2) = 1 /\ Bit(211, 4) = 0 /\ Bit(211, 8) = 0
        /\ Bit(211, 16) = 1 /\ Bit(211, 32) = 0 /\ Bit(211, 64) = 1 /\ Bit(211, 128) = 1
    BY DEF Bit
  <2>2. Bit(c, 1) = 0 /\ Bit(c, 2) = 0 /\ Bit(c, 16) = 1 /\ Bit(c, 64) = 0 /\ Bit(c, 128) = 1
    BY DEF Bit
  <2> QED
    BY <2>1, <2>2, AndIs DEF One
<1> QED
  BY <1>1, <1>2 DEF FrameType

(* There are two formats.                                                  *)
LEMMA FrameTypes ==
  ASSUME NEW c, FrameType(c) # "none"
  PROVE  FrameType(c) \in {"Standard", "Extended"}
  BY DEF FrameType

(* What is accepted has the exclusive or 0xff and the length that its      *)
(* length field says.                                                      *)
LEMMA AcceptedFacts ==
  ASSUME NEW u \in Seq(Octet), Len(u) <= 24, NEW F \in {"Standard", "Extended"},
         receive_frame(F, u).result = "Ok"
  PROVE  /\ Len(u) >= 8 /\ Parity(u) = 255
         /\ F = "Standard" => Len(u) = (u[6] % 16) + 8
         /\ F = "Extended" => Len(u) = (u[6] + 9) % 256
<1> DEFINE k == MAX_FRAME_SIZE(F)
           n == Len(u)
           d == [i \in 0 .. k - 1 |-> IF i < n THEN u[i + 1] ELSE 0]
<1>1. n \in Nat /\ k \in Nat /\ n <= k /\ k >= 24
  BY LenProperties DEF MAX_FRAME_SIZE
<1>2. (IF Len(u) < k THEN Len(u) ELSE k) = n
  BY <1>1
<1>3. ~ (n < HEADER_LENGTH(F)) /\ Accepts(F, n, d) /\ d[n] = checksum(d)
  BY <1>2 DEF receive_frame, Failed
<1>4. Parity(d) = Parity(u)
  BY <1>1, ParityPadded
<1> HIDE DEF d
<1>5. n >= 8 /\ n = length(F, d)
  BY <1>1, <1>3 DEF Accepts, MIN_FRAME_SIZE
<1>6. 5 \in DOMAIN d /\ d[5] = u[6] /\ u[6] \in Nat
  <2> HIDE DEF k, n
  <2>1. 6 \in 1 .. n /\ 5 \in 0 .. k - 1 /\ 5 < n
    BY <1>1, <1>5
  <2>2. u[6] \in Octet
    BY <2>1, ElementOfSeq DEF n
  <2> QED
    BY <2>1, <2>2, OctetRange DEF d
<1>7. n = IF F = "Standard" THEN ((u[6] % 16) + 8) % 256 ELSE (u[6] + 9) % 256
  BY <1>5, <1>6 DEF length, LengthSum, LG_FIELD, HEADER_LENGTH, CTRL_OFFSET
<1>8. F = "Standard" => n = (u[6] % 16) + 8
  BY <1>6, <1>7
<1>9. n < k
  BY <1>1, <1>6, <1>8 DEF MAX_FRAME_SIZE
<1>10. d[n] = 0
  BY <1>1, <1>9 DEF d
<1>11. Parity(u) \in Octet
  <2>1. DOMAIN u = 1 .. Len(u)
    BY LenProperties
  <2> QED
    BY <1>1, <2>1, FS_Interval, ParityFacts
<1>12. Parity(u) = 255
  BY <1>3, <1>4, <1>10, <1>11, OctetRange DEF checksum
<1> QED
  BY <1>5, <1>7, <1>8, <1>12

(* What has the right length and exclusive or is accepted, octet by octet: *)
(* the length is written where it already is.                              *)
LEMMA StandardAccepted ==
  ASSUME NEW u \in Seq(Octet), Len(u) \in 8 .. 23, Len(u) = (u[6] % 16) + 8, Parity(u) = 255
  PROVE  receive_frame("Standard", u)
           = [result |-> "Ok", format |-> "Standard",
              data |-> [i \in 0 .. Len(u) - 1 |-> u[i + 1]]]
<1> DEFINE n == Len(u)
           k == MAX_FRAME_SIZE("Standard")
           d == [i \in 0 .. k - 1 |-> IF i < n THEN u[i + 1] ELSE 0]
           e == [i \in 0 .. n - 1 |-> u[i + 1]]
<1>1. n \in 8 .. 23
  OBVIOUS
<1>2. n = (u[6] % 16) + 8
  OBVIOUS
<1>3. k = 24
  BY DEF MAX_FRAME_SIZE
<1>4. Parity(d) = 255
  <2>1. k \in Nat /\ Len(u) <= k
    BY <1>1, <1>3
  <2> HIDE DEF k
  <2> QED
    BY <2>1, ParityPadded
<1>5. \A i \in 1 .. n : u[i] \in Octet
  BY ElementOfSeq
<1>6. HEADER_LENGTH("Standard") = 7
      /\ MIN_FRAME_SIZE("Standard") = 8
  BY DEF MAX_FRAME_SIZE, HEADER_LENGTH, MIN_FRAME_SIZE, CTRL_OFFSET
<1>7. ~ SetLengthTraps("Standard")
  BY DEF SetLengthTraps
<1>8. (IF Len(u) < k THEN Len(u) ELSE k) = n
  BY <1>1, <1>3
<1> HIDE DEF n, k
<1>9. d[5] = u[6] /\ d[n] = 0 /\ DOMAIN d = 0 .. 23
  <2>1. DOMAIN d = 0 .. 23
    BY <1>3
  <2>2. 5 \in 0 .. k - 1 /\ 5 < n /\ n \in 0 .. k - 1 /\ ~ (n < n)
    BY <1>1, <1>3
  <2> QED
    BY <2>1, <2>2
<1> HIDE DEF d
<1>10. u[6] \in Octet /\ u[6] \in Nat
  BY <1>1, <1>5, OctetRange
<1>11. LengthSum("Standard", d) = n
  BY <1>2, <1>6, <1>9, <1>10 DEF LengthSum, LG_FIELD
<1>12. Accepts("Standard", n, d)
  <2>1. n % 256 = n /\ n >= 8 /\ n <= 24
    BY <1>1
  <2> QED
    BY <1>3, <1>6, <1>11, <2>1 DEF Accepts, length, k
<1>13. d[n] = checksum(d)
  BY <1>4, <1>9 DEF checksum
<1>14. set_length("Standard", d, n) = e
  <2>1. (n - 7 - 1) % 16 = u[6] % 16
    BY <1>1, <1>2, <1>10
  <2>2. OrAt(d, 5, u[6] % 16) = d
    <3>1. Or(d[5], u[6] % 16) = d[5]
      BY <1>9, <1>10, OrLowerHalf
    <3> QED
      BY <1>9, <3>1 DEF OrAt, d
  <2>3. set_length("Standard", d, n) = Resized(d, n)
    BY <1>6, <2>1, <2>2 DEF set_length, LG_FIELD
  <2>4. Resized(d, n) = e
    <3>1. \A i \in 0 .. n - 1 : i \in DOMAIN d /\ d[i] = u[i + 1]
      <4>1. \A i \in 0 .. n - 1 : i \in 0 .. k - 1 /\ i < n
        BY <1>1, <1>3
      <4> QED
        BY <1>3, <1>9, <4>1 DEF d
    <3> QED
      BY <3>1 DEF Resized
  <2> QED
    BY <2>3, <2>4
<1>15. /\ ~ (n < HEADER_LENGTH("Standard"))
       /\ ~ (n >= MIN_FRAME_SIZE("Standard") /\ LengthSum("Standard", d) > 255)
  BY <1>1, <1>6, <1>11
<1>16. receive_frame("Standard", u)
         = [result |-> "Ok", format |-> "Standard", data |-> e]
  <2> DEFINE nn == IF Len(u) < MAX_FRAME_SIZE("Standard")
                   THEN Len(u) ELSE MAX_FRAME_SIZE("Standard")
             dd == [i \in 0 .. MAX_FRAME_SIZE("Standard") - 1 |->
                      IF i < nn THEN u[i + 1] ELSE 0]
  <2>1. nn = n
    BY <1>8 DEF n, k
  <2>2. dd = d
    BY <2>1 DEF d, k
  <2>3. receive_frame("Standard", u)
          = IF nn < HEADER_LENGTH("Standard") THEN Failed("TimeoutError")
            ELSE IF nn >= MIN_FRAME_SIZE("Standard") /\ LengthSum("Standard", dd) > 255
                      /\ OverflowChecks
                 THEN Failed("trapped")
            ELSE IF ~Accepts("Standard", nn, dd) THEN Failed("InvalidLength")
            ELSE IF dd[nn] # checksum(dd) THEN Failed("Checksum")
            ELSE IF SetLengthTraps("Standard") /\ OverflowChecks THEN Failed("trapped")
            ELSE [result |-> "Ok", format |-> "Standard",
                  data |-> set_length("Standard", dd, nn)]
    BY DEF receive_frame
  <2> HIDE DEF nn, dd
  <2> QED
    BY <1>7, <1>12, <1>13, <1>14, <1>15, <2>1, <2>2, <2>3
<1> QED
  BY <1>16 DEF n

(* The octets that do not start a frame are skipped, and only those.       *)
LEMMA ReceivedFirst ==
  ASSUME NEW w \in Seq(Octet), Received(w).result = "Ok"
  PROVE  \E s \in 1 .. Len(w) :
           /\ FrameType(w[s]) # "none"
           /\ \A j \in 1 .. Len(w) : FrameType(w[j]) # "none" => s <= j
           /\ Received(w) = receive_frame(FrameType(w[s]), SubSeq(w, s, Len(w)))
<1> DEFINE starts == {i \in DOMAIN w : FrameType(w[i]) # "none"}
           first == CHOOSE i \in starts : \A j \in starts : i <= j
<1>1. DOMAIN w = 1 .. Len(w) /\ Len(w) \in Nat
  BY LenProperties
<1>2. starts # {}
  BY DEF Received, Failed
<1>3. starts \subseteq Nat
  BY <1>1
<1>4. Received(w) = receive_frame(FrameType(w[first]), SubSeq(w, first, Len(w)))
  BY <1>2 DEF Received
<1>5. \E i \in starts : \A j \in starts : i <= j
  BY <1>2, <1>3, SmallestExists
<1> HIDE DEF starts
<1>6. first \in starts /\ \A j \in starts : first <= j
  BY <1>5
<1> HIDE DEF first
<1> QED
  BY <1>1, <1>4, <1>6 DEF starts

(* If the first octet starts a frame, nothing is skipped.                  *)
LEMMA ReceivedAtOnce ==
  ASSUME NEW w \in Seq(Octet), w # <<>>, FrameType(w[1]) # "none"
  PROVE  Received(w) = receive_frame(FrameType(w[1]), w)
<1> DEFINE starts == {i \in DOMAIN w : FrameType(w[i]) # "none"}
           first == CHOOSE i \in starts : \A j \in starts : i <= j
<1>1. DOMAIN w = 1 .. Len(w) /\ Len(w) \in Nat \ {0}
  BY LenProperties, EmptySeq
<1>2. 1 \in starts /\ \A j \in starts : j \in Nat /\ 1 <= j
  BY <1>1
<1>3. Received(w) = receive_frame(FrameType(w[first]), SubSeq(w, first, Len(w)))
  BY <1>2 DEF Received
<1> HIDE DEF starts
<1>4. first \in starts /\ \A j \in starts : first <= j
  BY <1>2
<1>5. first = 1
  <2> HIDE DEF first
  <2> QED
    BY <1>2, <1>4
<1>6. SubSeq(w, 1, Len(w)) = w
  BY <1>1
<1> QED
  BY <1>3, <1>5, <1>6

-----------------------------------------------------------------------------
(* What is left of a damaged frame *)

(* A frame that stays one without its first octet had a zero there.        *)
LEMMA WithoutFirst ==
  ASSUME NEW s \in Seq(Octet), s # <<>>, Parity(s) = 255, Parity(Tail(s)) = 255
  PROVE  s[1] = 0
<1>1. s[1] \in Octet /\ 0 \in Octet
  <2>1. 1 \in 1 .. Len(s)
    BY EmptySeq, LenProperties
  <2>2. 0 \in Octet
    BY OctetRange
  <2> QED
    BY <2>1, <2>2, ElementOfSeq
<1>2. ASSUME NEW w \in Weights
      PROVE  Bit(s[1], w) = Bit(0, w)
  <2>1. Bit(255, w) = 1 /\ Bit(0, w) = 0
    BY DEF Weights, Bit
  <2>2. Bit(255, w) = (Bit(s[1], w) + Bit(255, w)) % 2
    BY ParityTail
  <2>3. Bit(s[1], w) \in {0, 1}
    BY <1>1, OctetRange, BitType
  <2> QED
    BY <2>1, <2>2, <2>3
<1> QED
  BY <1>1, <1>2, SameBits

(* One that stays one without its first two octets had the same in both.   *)
LEMMA WithoutTwo ==
  ASSUME NEW s \in Seq(Octet), Len(s) >= 2, Parity(s) = 255, Parity(Tail(Tail(s))) = 255
  PROVE  s[1] = s[2]
<1> DEFINE t == Tail(s)
<1>1. s # <<>> /\ Len(s) \in Nat
  BY LenProperties, EmptySeq
<1>2. t \in Seq(Octet) /\ Len(t) = Len(s) - 1 /\ t[1] = s[2]
  <2>1. t \in Seq(Octet) /\ Len(t) = Len(s) - 1 /\ \A i \in 1 .. Len(t) : t[i] = s[i + 1]
    BY <1>1, HeadTailProperties
  <2> HIDE DEF t
  <2> QED
    BY <1>1, <2>1
<1> HIDE DEF t
<1>3. t # <<>>
  BY <1>2, EmptySeq
<1>4. s[1] \in Octet /\ s[2] \in Octet
  BY <1>1, ElementOfSeq
<1>5. ASSUME NEW w \in Weights
      PROVE  Bit(s[1], w) = Bit(s[2], w)
  <2>1. Bit(255, w) = 1
    BY DEF Weights, Bit
  <2>2. Bit(Parity(s), w) = (Bit(s[1], w) + Bit(Parity(t), w)) % 2
    BY <1>1, ParityTail DEF t
  <2>3. Bit(Parity(t), w) = (Bit(t[1], w) + Bit(Parity(Tail(t)), w)) % 2
    BY <1>2, <1>3, ParityTail
  <2>4. Parity(Tail(t)) = 255
    BY DEF t
  <2>5. Bit(s[1], w) \in {0, 1} /\ Bit(s[2], w) \in {0, 1}
    BY <1>4, OctetRange, BitType
  <2>6. Bit(Parity(t), w) = (Bit(s[2], w) + 1) % 2
    BY <1>2, <2>1, <2>3, <2>4
  <2>7. 1 = (Bit(s[1], w) + ((Bit(s[2], w) + 1) % 2)) % 2
    BY <2>1, <2>2, <2>5, <2>6
  <2> QED
    BY <2>5, <2>7
<1> QED
  BY <1>4, <1>5, SameBits

(* The length field of a frame says its length, and its first octet starts *)
(* a frame of the standard format.                                         *)
LEMMA FrameFacts ==
  ASSUME NEW m, InRange(m), NEW r, NEW w, w = Encoded("Standard", m, r)
  PROVE  /\ w \in Seq(Octet) /\ Len(w) \in 8 .. 23 /\ w # <<>> /\ Parity(w) = 255
         /\ Len(w) = (w[6] % 16) + 8
         /\ FrameType(w[1]) = "Standard"
<1>1. w \in Seq(Octet) /\ Parity(w) = 255 /\ w[1] = Ctrl(m, r)
  BY EncodedFacts
<1>2. /\ Len(m.tpdu) \in 1 .. 16 /\ Len(w) = 7 + Len(m.tpdu)
      /\ w[6] = At(m) + (Len(m.tpdu) - 1)
  BY EncodedFacts
<1>3. Len(w) \in 8 .. 23
  <2>1. \A n \in 1 .. 16 : 7 + n \in 8 .. 23
    OBVIOUS
  <2> QED
    BY <1>2, <2>1
<1>4. (At(m) + (Len(m.tpdu) - 1)) % 16 = Len(m.tpdu) - 1
  <2>1. At(m) \in {16 * h : h \in 0 .. 15}
    <3>1. m.hop \in 0 .. 7 /\ m.hop + 8 \in 0 .. 15 /\ 128 + m.hop * 16 = 16 * (m.hop + 8)
      BY DEF InRange
    <3> QED
      BY <3>1 DEF At
  <2>2. \A h \in 0 .. 15, k \in 1 .. 16 : (16 * h + (k - 1)) % 16 = k - 1
    OBVIOUS
  <2> QED
    BY <1>2, <2>1, <2>2
<1>5. Len(w) = (w[6] % 16) + 8
  BY <1>2, <1>4
<1>6. w # <<>>
  BY <1>1, <1>3, EmptySeq
<1> QED
  BY <1>1, <1>3, <1>5, <1>6, CtrlStarts

(* Sequences that are the same from a place on have the same end.          *)
LEMMA SameEnds ==
  ASSUME NEW v \in Seq(Octet), NEW w \in Seq(Octet), Len(v) = Len(w),
         NEW s \in 1 .. Len(w), \A j \in s .. Len(w) : v[j] = w[j]
  PROVE  SubSeq(v, s, Len(v)) = SubSeq(w, s, Len(w))
<1> DEFINE n == Len(w)
<1>1. n \in Nat /\ s \in 1 .. n
  BY LenProperties
<1>2. \A i \in s .. n : v[i] \in Octet /\ w[i] \in Octet
  <2>1. \A i \in s .. n : i \in 1 .. n
    BY <1>1
  <2> QED
    BY <2>1, ElementOfSeq
<1> HIDE DEF n
<1>3. s \in Int /\ n \in Int /\ s <= n
  BY <1>1
<1>4. /\ SubSeq(v, s, n) \in Seq(Octet) /\ Len(SubSeq(v, s, n)) = n - s + 1
      /\ \A i \in 1 .. n - s + 1 : SubSeq(v, s, n)[i] = v[s + i - 1]
  BY <1>2, <1>3, SubSeqProperties
<1>5. /\ SubSeq(w, s, n) \in Seq(Octet) /\ Len(SubSeq(w, s, n)) = n - s + 1
      /\ \A i \in 1 .. n - s + 1 : SubSeq(w, s, n)[i] = w[s + i - 1]
  BY <1>2, <1>3, SubSeqProperties
<1>6. \A i \in 1 .. n - s + 1 : v[s + i - 1] = w[s + i - 1]
  <2>1. \A i \in 1 .. n - s + 1 : s + i - 1 \in s .. n
    BY <1>1
  <2> QED
    BY <2>1 DEF n
<1>7. SubSeq(v, s, n) = SubSeq(w, s, n)
  BY <1>4, <1>5, <1>6, SeqEqual
<1> QED
  BY <1>7 DEF n

(* What is accepted of an end of a frame, where the octets before it are    *)
(* skipped: at least three of them, and they cancel out.                   *)
TailAccepted(w, s) ==
    /\ s \in 4 .. Len(w) /\ Len(w) - s + 1 >= 8
    /\ SubSeq(w, s, Len(w)) \in Seq(Octet) /\ Len(SubSeq(w, s, Len(w))) = Len(w) - s + 1
    /\ \A i \in 1 .. Len(w) - s + 1 : SubSeq(w, s, Len(w))[i] = w[s + i - 1]
    /\ Parity(SubSeq(w, 1, s - 1)) = 0
    /\ FrameType(w[s]) \in {"Standard", "Extended"}
    /\ receive_frame(FrameType(w[s]), SubSeq(w, s, Len(w))).result = "Ok"

(* A frame's own control octet neither is zero nor is repeated by an octet  *)
(* that is skipped.                                                         *)
LEMMA FrameWithin ==
  ASSUME NEW m, InRange(m), NEW r, NEW w, w = Encoded("Standard", m, r),
         NEW s \in 2 .. Len(w), FrameType(w[s]) # "none",
         \A j \in 2 .. s - 1 : FrameType(w[j]) = "none",
         receive_frame(FrameType(w[s]), SubSeq(w, s, Len(w))).result = "Ok"
  PROVE  TailAccepted(w, s)
<1> DEFINE n == Len(w)
           u == SubSeq(w, s, n)
<1>1. w \in Seq(Octet) /\ Parity(w) = 255 /\ w[1] = Ctrl(m, r)
  BY EncodedFacts, SMTT(30)
<1>2. n \in 8 .. 23 /\ s \in 2 .. n
  BY FrameFacts
<1>3. \A i \in 1 .. n : w[i] \in Octet
  BY <1>1, ElementOfSeq
<1>4. w # <<>>
  BY <1>1, <1>2, EmptySeq
<1> HIDE DEF n
<1>5. u \in Seq(Octet) /\ Len(u) = n - s + 1 /\ \A i \in 1 .. n - s + 1 : u[i] = w[s + i - 1]
  <2>1. \A i \in s .. n : w[i] \in Octet
    BY <1>2, <1>3
  <2>2. s \in Int /\ n \in Int /\ s <= n
    BY <1>2
  <2> QED
    BY <2>1, <2>2, SubSeqProperties
<1> HIDE DEF u
<1>6. receive_frame(FrameType(w[s]), u).result = "Ok"
  BY DEF u, n
<1>7. Len(u) >= 8 /\ Parity(u) = 255
  <2>1. Len(u) <= 24
    BY <1>2, <1>5
  <2> QED
    BY <1>5, <1>6, <2>1, FrameTypes, AcceptedFacts, SMTT(30)
<1>8. CASE s = 2
  <2>1. u = Tail(w)
    BY <1>1, <1>4, <1>8, TailIsSubSeq DEF u, n
  <2>2. w[1] = 0
    BY <1>1, <1>4, <1>7, <2>1, WithoutFirst
  <2> QED
    BY <1>1, <2>2 DEF Ctrl, InRange
<1>9. CASE s = 3
  <2> DEFINE t == Tail(w)
             v == Tail(t)
  <2>1. t \in Seq(Octet) /\ Len(t) = n - 1 /\ \A i \in 1 .. Len(t) : t[i] = w[i + 1]
    BY <1>1, <1>4, HeadTailProperties DEF n
  <2> HIDE DEF t
  <2>2. Len(t) # 0
    BY <1>2, <2>1
  <2>3. t # <<>>
    BY <2>2, EmptySeq
  <2>4. v \in Seq(Octet) /\ Len(v) = Len(t) - 1 /\ \A i \in 1 .. Len(v) : v[i] = t[i + 1]
    BY <2>1, <2>3, HeadTailProperties
  <2> HIDE DEF v
  <2>5. v = u
    <3>1. Len(v) = n - 2 /\ Len(u) = n - 2
      BY <1>2, <1>5, <1>9, <2>1, <2>4
    <3>2. \A i \in 1 .. n - 2 : v[i] = u[i]
      BY <1>2, <1>5, <1>9, <2>1, <2>4, <3>1
    <3> QED
      BY <1>5, <2>4, <3>1, <3>2, SeqEqual
  <2>6. w[1] = w[2]
    <3>1. Len(w) >= 2
      BY <1>2 DEF n
    <3>2. Parity(Tail(Tail(w))) = 255
      BY <1>7, <2>5 DEF t, v
    <3> QED
      BY <1>1, <3>1, <3>2, WithoutTwo
  <2>7. FrameType(w[2]) = "none"
    BY <1>9
  <2>8. FrameType(w[1]) = "Standard"
    BY <1>1, CtrlStarts
  <2> QED
    BY <2>6, <2>7, <2>8
<1>10. CASE s \in 4 .. n
  <2>1. Parity(SubSeq(w, 1, s - 1)) = 0
    <3>1. SplitAt(w, s, SubSeq(w, 1, s - 1), u)
      BY Zenon DEF SplitAt, u, n
    <3>2. Parity(u) = Parity(w)
      BY <1>1, <1>7
    <3> QED
      BY <1>1, <3>1, <3>2, PrefixCancels
  <2>2. FrameType(w[s]) \in {"Standard", "Extended"}
    BY FrameTypes
  <2>3. n - s + 1 >= 8
    BY <1>5, <1>7
  <2> QED
    BY <1>5, <1>6, <1>10, <2>1, <2>2, <2>3, Zenon DEF TailAccepted, u, n
<1> QED
  BY <1>2, <1>8, <1>9, <1>10

(* The octets on the bus, from which run takes an end of what was sent.    *)
TailOf(v, w) ==
    \E s \in 4 .. Len(w) :
        /\ TailAccepted(w, s)
        /\ Received(v) = receive_frame(FrameType(w[s]), SubSeq(w, s, Len(w)))

(* An octet altered anywhere: the whole is no longer a frame.              *)
Whole(w) == w \in Seq(Octet) /\ Len(w) \in 8 .. 23 /\ Parity(w) = 255
Altered(v, w, i, k) == v = [w EXCEPT ![i] = Xor(@, k)]

(* Its exclusive or has changed. *)
LEMMA AlteredFacts ==
  ASSUME NEW w, Whole(w), NEW i \in DOMAIN w, NEW k \in Octet \ {0},
         NEW v, Altered(v, w, i, k)
  PROVE  /\ v \in Seq(Octet) /\ Len(v) = Len(w)
         /\ \A j \in 1 .. Len(w) : j # i => v[j] = w[j]
         /\ ~ (FrameType(v[1]) # "none" /\ Received(v).result = "Ok")
<1>1. w \in Seq(Octet) /\ Len(w) \in 8 .. 23 /\ Parity(w) = 255 /\ w # <<>>
  BY EmptySeq DEF Whole
<1>2. DOMAIN w = 1 .. Len(w) /\ IsFiniteSet(DOMAIN w) /\ w \in [DOMAIN w -> Octet]
  <2>1. DOMAIN w = 1 .. Len(w)
    BY <1>1, LenProperties
  <2>2. IsFiniteSet(DOMAIN w)
    <3>1. Len(w) \in Int
      BY <1>1, LenProperties
    <3> QED
      BY <2>1, <3>1, FS_Interval
  <2>3. \A j \in 1 .. Len(w) : w[j] \in Octet
    BY <1>1, ElementOfSeq
  <2>4. w \in [1 .. Len(w) -> Octet]
    BY <1>1, LenProperties
  <2> QED
    BY <2>1, <2>2, <2>4
<1>3. Xor(w[i], k) \in Octet /\ Xor(w[i], k) # w[i]
  <2>1. w[i] \in Octet
    BY <1>2
  <2> QED
    BY <2>1, XorChanges
<1>4. v = [w EXCEPT ![i] = Xor(w[i], k)]
  BY DEF Altered
<1>5. /\ v \in Seq(Octet) /\ Len(v) = Len(w)
      /\ \A j \in 1 .. Len(w) : j # i => v[j] = w[j]
  BY <1>1, <1>2, <1>3, <1>4, ExceptSeq
<1>6. Parity(v) # 255
  <2> DEFINE D == DOMAIN w
             x == Xor(w[i], k)
  <2>1. IsFiniteSet(D) /\ w \in [D -> Octet] /\ i \in D /\ x \in Octet /\ x # w[i]
    BY <1>2, <1>3
  <2>2. v = [w EXCEPT ![i] = x]
    BY <1>4
  <2> HIDE DEF D, x
  <2>3. Parity([w EXCEPT ![i] = x]) # Parity(w)
    BY <2>1, OneOctetAltered, Zenon
  <2>4. Parity(w) = 255
    BY <1>1, Zenon
  <2> QED
    BY <2>2, <2>3, <2>4, Zenon
<1>7. v # <<>>
  BY <1>1, <1>5, EmptySeq
<1>8. ~ (FrameType(v[1]) # "none" /\ Received(v).result = "Ok")
  <2> SUFFICES ASSUME FrameType(v[1]) # "none", Received(v).result = "Ok"
               PROVE  FALSE
    OBVIOUS
  <2>1. Received(v) = receive_frame(FrameType(v[1]), v)
    BY <1>5, <1>7, ReceivedAtOnce
  <2>2. receive_frame(FrameType(v[1]), v).result = "Ok"
    BY <2>1
  <2>3. Len(v) <= 24
    <3>1. \A n \in 8 .. 23 : n <= 24
      OBVIOUS
    <3> QED
      BY <1>1, <1>5, <3>1
  <2> QED
    <3>1. FrameType(v[1]) \in {"Standard", "Extended"}
      BY FrameTypes
    <3>2. v \in Seq(Octet)
      BY <1>5
    <3> QED
      BY <1>6, <2>2, <2>3, <3>1, <3>2, AcceptedFacts, Zenon
<1> QED
  BY <1>5, <1>8

(* A frame with one octet altered behind the first one is not accepted.    *)
LEMMA AlteredIsRejected ==
  ASSUME NEW m, InRange(m), NEW r, NEW w, w = Encoded("Standard", m, r),
         NEW i \in DOMAIN w, i # 1, NEW k \in Octet \ {0}, NEW v, Altered(v, w, i, k)
  PROVE  v \in Seq(Octet) /\ Received(v).result # "Ok"
<1>1. /\ w \in Seq(Octet) /\ Len(w) \in 8 .. 23 /\ Whole(w)
      /\ FrameType(w[1]) = "Standard"
  BY FrameFacts DEF Whole
<1>2. /\ v \in Seq(Octet) /\ \A j \in 1 .. Len(w) : j # i => v[j] = w[j]
      /\ ~ (FrameType(v[1]) # "none" /\ Received(v).result = "Ok")
  BY <1>1, AlteredFacts
<1>3. v[1] = w[1]
  BY <1>1, <1>2
<1> QED
  BY <1>1, <1>2, <1>3

(* Of one whose first octet is altered, nothing but an end is.              *)
LEMMA AlteredStart ==
  ASSUME NEW m, InRange(m), NEW r, NEW w, w = Encoded("Standard", m, r),
         NEW i \in DOMAIN w, i = 1, NEW k \in Octet \ {0}, NEW v, Altered(v, w, i, k)
  PROVE  v \in Seq(Octet) /\ (Received(v).result = "Ok" => TailOf(v, w))
<1>1. w \in Seq(Octet) /\ Len(w) \in 8 .. 23 /\ Whole(w)
  BY FrameFacts DEF Whole
<1>2. /\ v \in Seq(Octet) /\ Len(v) = Len(w) /\ \A j \in 1 .. Len(w) : j # i => v[j] = w[j]
      /\ ~ (FrameType(v[1]) # "none" /\ Received(v).result = "Ok")
  BY <1>1, AlteredFacts
<1> SUFFICES ASSUME Received(v).result = "Ok"
             PROVE  TailOf(v, w)
  BY <1>2
<1>3. PICK s \in 1 .. Len(v) :
         /\ FrameType(v[s]) # "none"
         /\ \A j \in 1 .. Len(v) : FrameType(v[j]) # "none" => s <= j
         /\ Received(v) = receive_frame(FrameType(v[s]), SubSeq(v, s, Len(v)))
  BY <1>2, ReceivedFirst
<1>4. s # 1
  BY <1>2, <1>3
<1>5. s \in 2 .. Len(w)
  BY <1>1, <1>2, <1>4
<1>6. \A j \in 2 .. Len(w) : v[j] = w[j]
  BY <1>1, <1>2
<1>7. FrameType(w[s]) # "none" /\ \A j \in 2 .. s - 1 : FrameType(w[j]) = "none"
  <2>1. \A j \in 2 .. s - 1 : j \in 1 .. Len(v) /\ j \in 2 .. Len(w) /\ ~ (s <= j)
    BY <1>1, <1>2, <1>5
  <2> QED
    BY <1>3, <1>5, <1>6, <2>1
<1>8. SubSeq(v, s, Len(v)) = SubSeq(w, s, Len(w))
  <2>1. \A j \in s .. Len(w) : v[j] = w[j]
    BY <1>1, <1>5, <1>6
  <2>2. s \in 1 .. Len(w)
    BY <1>1, <1>5
  <2>3. v \in Seq(Octet) /\ w \in Seq(Octet) /\ Len(v) = Len(w)
    BY <1>1, <1>2
  <2> QED
    BY <2>1, <2>2, <2>3, SameEnds, SMTT(30)
<1>9. FrameType(v[s]) = FrameType(w[s])
  BY <1>5, <1>6
<1>10. Received(v) = receive_frame(FrameType(w[s]), SubSeq(w, s, Len(w)))
  BY <1>3, <1>8, <1>9, Zenon
<1>11. receive_frame(FrameType(w[s]), SubSeq(w, s, Len(w))).result = "Ok"
  BY <1>10, Zenon
<1>12. TailAccepted(w, s)
  BY <1>5, <1>7, <1>11, FrameWithin
<1>13. s \in 4 .. Len(w)
  BY <1>12, Zenon DEF TailAccepted
<1> QED
  BY <1>10, <1>12, <1>13, Zenon DEF TailOf

(* Nor is more than an end accepted of one that has lost its first octet.  *)
LEMMA WithoutFirstOctet ==
  ASSUME NEW m, InRange(m), NEW r, NEW w, w = Encoded("Standard", m, r)
  PROVE  Tail(w) \in Seq(Octet) /\ (Received(Tail(w)).result = "Ok" => TailOf(Tail(w), w))
<1> DEFINE v == Tail(w)
<1>1. w \in Seq(Octet) /\ Len(w) \in 8 .. 23 /\ w # <<>>
  BY FrameFacts
<1>2. v \in Seq(Octet) /\ Len(v) = Len(w) - 1 /\ \A i \in 1 .. Len(v) : v[i] = w[i + 1]
  BY <1>1, HeadTailProperties
<1> HIDE DEF v
<1> SUFFICES ASSUME Received(v).result = "Ok"
             PROVE  TailOf(v, w)
  BY <1>2 DEF v
<1>3. PICK s \in 1 .. Len(v) :
         /\ FrameType(v[s]) # "none"
         /\ \A j \in 1 .. Len(v) : FrameType(v[j]) # "none" => s <= j
         /\ Received(v) = receive_frame(FrameType(v[s]), SubSeq(v, s, Len(v)))
  BY <1>2, ReceivedFirst
<1>4. s + 1 \in 2 .. Len(w) /\ v[s] = w[s + 1]
  BY <1>1, <1>2
<1>5. \A j \in 2 .. (s + 1) - 1 : FrameType(w[j]) = "none"
  <2> SUFFICES ASSUME NEW j \in 2 .. (s + 1) - 1
               PROVE  FrameType(w[j]) = "none"
    OBVIOUS
  <2>1. j - 1 \in 1 .. Len(v) /\ ~ (s <= j - 1) /\ (j - 1) + 1 = j
    BY <1>1, <1>2
  <2>2. v[j - 1] = w[(j - 1) + 1]
    BY <1>2, <2>1
  <2> QED
    BY <1>3, <2>1, <2>2
<1>6. SubSeq(v, s, Len(v)) = SubSeq(w, s + 1, Len(w))
  <2>1. /\ SubSeq(v, s, Len(v)) \in Seq(Octet) /\ Len(SubSeq(v, s, Len(v))) = Len(v) - s + 1
        /\ \A i \in 1 .. Len(v) - s + 1 : SubSeq(v, s, Len(v))[i] = v[s + i - 1]
    <3>1. \A i \in s .. Len(v) : v[i] \in Octet
      <4>1. \A i \in s .. Len(v) : i \in 1 .. Len(v)
        BY <1>1, <1>2
      <4> QED
        BY <1>2, <4>1, ElementOfSeq
    <3>2. s \in Int /\ Len(v) \in Int /\ s <= Len(v)
      BY <1>1, <1>2
    <3> QED
      BY <3>1, <3>2, SubSeqProperties
  <2>2. /\ SubSeq(w, s + 1, Len(w)) \in Seq(Octet)
        /\ Len(SubSeq(w, s + 1, Len(w))) = Len(w) - (s + 1) + 1
        /\ \A i \in 1 .. Len(w) - (s + 1) + 1 : SubSeq(w, s + 1, Len(w))[i] = w[s + 1 + i - 1]
    <3>1. \A i \in s + 1 .. Len(w) : w[i] \in Octet
      <4>1. \A i \in s + 1 .. Len(w) : i \in 1 .. Len(w)
        BY <1>1, <1>2
      <4> QED
        BY <1>1, <4>1, ElementOfSeq
    <3>2. s + 1 \in Int /\ Len(w) \in Int /\ s + 1 <= Len(w)
      BY <1>1, <1>2
    <3> QED
      BY <3>1, <3>2, SubSeqProperties
  <2>3. Len(v) - s + 1 = Len(w) - (s + 1) + 1
    BY <1>1, <1>2
  <2>4. \A i \in 1 .. Len(v) - s + 1 :
           SubSeq(v, s, Len(v))[i] = SubSeq(w, s + 1, Len(w))[i]
    <3> SUFFICES ASSUME NEW i \in 1 .. Len(v) - s + 1
                 PROVE  v[s + i - 1] = w[s + 1 + i - 1]
      BY <2>1, <2>2, <2>3
    <3>1. s + i - 1 \in 1 .. Len(v) /\ (s + i - 1) + 1 = s + 1 + i - 1
      BY <1>1, <1>2
    <3> QED
      BY <1>2, <3>1
  <2> QED
    BY <2>1, <2>2, <2>3, <2>4, SeqEqual
<1>7. Received(v) = receive_frame(FrameType(w[s + 1]), SubSeq(w, s + 1, Len(w)))
  BY <1>3, <1>4, <1>6, Zenon
<1>8. receive_frame(FrameType(w[s + 1]), SubSeq(w, s + 1, Len(w))).result = "Ok"
  BY <1>7, Zenon
<1>9. FrameType(w[s + 1]) # "none"
  BY <1>3, <1>4
<1>10. TailAccepted(w, s + 1)
  BY <1>4, <1>5, <1>8, <1>9, FrameWithin
<1>11. s + 1 \in 4 .. Len(w)
  BY <1>10, Zenon DEF TailAccepted
<1> QED
  BY <1>7, <1>10, <1>11, Zenon DEF TailOf

(* Nor one of another length than its length field says.                   *)
LEMMA WrongLengthIsRejected ==
  ASSUME NEW v \in Seq(Octet), Len(v) \in 7 .. 24, FrameType(v[1]) = "Standard",
         Len(v) # (v[6] % 16) + 8
  PROVE  Received(v).result # "Ok"
<1>1. FrameType(v[1]) # "none"
  OBVIOUS
<1>2. v # <<>>
  BY EmptySeq
<1>3. Received(v) = receive_frame("Standard", v)
  BY <1>1, <1>2, ReceivedAtOnce
<1>4. ASSUME receive_frame("Standard", v).result = "Ok"
      PROVE  FALSE
  <2>1. Len(v) <= 24
    <3>1. \A n \in 7 .. 24 : n <= 24
      OBVIOUS
    <3> QED
      BY <3>1
  <2>2. Len(v) = (v[6] % 16) + 8
    BY <1>4, <2>1, AcceptedFacts
  <2> QED
    BY <2>2
<1> QED
  BY <1>3, <1>4

-----------------------------------------------------------------------------
(* What is read from a frame that nobody damaged *)

(* A message has these fields and no others.                               *)
Proper(m) ==
    /\ m = [src |-> m.src, group |-> m.group, dst |-> m.dst,
            priority |-> m.priority, hop |-> m.hop, tpdu |-> m.tpdu]
    /\ m.group \in BOOLEAN

(* It arrives in a buffer of its own length.                               *)
LEMMA FrameArrives ==
  ASSUME NEW m, InRange(m), NEW r, NEW w, w = Encoded("Standard", m, r)
  PROVE  Received(w) = [result |-> "Ok", format |-> "Standard",
                        data |-> [i \in 0 .. Len(w) - 1 |-> w[i + 1]]]
<1>1. /\ w \in Seq(Octet) /\ Len(w) \in 8 .. 23 /\ w # <<>> /\ Parity(w) = 255
      /\ Len(w) = (w[6] % 16) + 8 /\ FrameType(w[1]) = "Standard"
  BY FrameFacts
<1>2. FrameType(w[1]) # "none"
  BY <1>1
<1>3. Received(w) = receive_frame("Standard", w)
  BY <1>1, <1>2, ReceivedAtOnce
<1> QED
  BY <1>1, <1>3, StandardAccepted

(* Two bits for the priority, beside the flag of a repetition.             *)
LEMMA PriorityField ==
  \A x \in 0 .. 3 : ((144 + x * 4) \div 4) % 4 = x /\ ((176 + x * 4) \div 4) % 4 = x
  OBVIOUS

(* Three bits for the hop count, one for the kind of address, four for the *)
(* length.                                                                 *)
FieldsOfAt(x, k) ==
    /\ (128 + x * 16 + k) \div 128 = 1 /\ (0 + x * 16 + k) \div 128 = 0
    /\ ((128 + x * 16 + k) \div 16) % 8 = x /\ ((0 + x * 16 + k) \div 16) % 8 = x

(* The three fields do not disturb each other.                             *)
LEMMA HopField ==
  ASSUME NEW x \in 0 .. 7, NEW k \in 0 .. 15
  PROVE  FieldsOfAt(x, k)
<1>1. (128 + x * 16 + k) \div 128 = 1 /\ (0 + x * 16 + k) \div 128 = 0
  OBVIOUS
<1>2. (128 + x * 16 + k) \div 16 = 8 + x /\ (0 + x * 16 + k) \div 16 = x
  OBVIOUS
<1>3. (8 + x) % 8 = x /\ x % 8 = x
  OBVIOUS
<1> QED
  BY <1>1, <1>2, <1>3 DEF FieldsOfAt

(* An address is put together again from its octets.                       *)
LEMMA AddressSplit ==
  \A a \in Nat : (a \div 256) * 256 + (a % 256) = a
  OBVIOUS

(* The length of a standard frame needs no cut to a u8.                    *)
LEMMA LengthField ==
  \A k \in 1 .. 16 : (7 + k) % 256 = 7 + k /\ (7 + k) - 7 = k
  OBVIOUS

(* The octets of a buffer, in the terms of the message.                    *)
Carries(d, m, r) ==
    /\ d[0] = Ctrl(m, r)
    /\ d[1] = m.src \div 256 /\ d[2] = m.src % 256
    /\ d[3] = m.dst \div 256 /\ d[4] = m.dst % 256
    /\ d[5] = At(m) + (Len(m.tpdu) - 1) /\ d[5] \in Nat
    /\ Len(m.tpdu) \in 1 .. 16 /\ (d[5] % 16) + 8 = 7 + Len(m.tpdu)
    /\ \A j \in 1 .. Len(m.tpdu) : d[5 + j] = m.tpdu[j]
    /\ DOMAIN d = 0 .. 6 + Len(m.tpdu)

(* The buffer of an undamaged frame has them. *)
LEMMA BufferFacts ==
  ASSUME NEW m, InRange(m), NEW r, NEW w, w = Encoded("Standard", m, r),
         NEW d, d = [i \in 0 .. Len(w) - 1 |-> w[i + 1]]
  PROVE  Carries(d, m, r)
<1> DEFINE p == Len(m.tpdu)
<1>1. w[1] = Ctrl(m, r) /\ w[2] = m.src \div 256 /\ w[3] = m.src % 256
  BY EncodedFacts
<1>2. w[4] = m.dst \div 256 /\ w[5] = m.dst % 256 /\ w[6] = At(m) + (p - 1)
  BY EncodedFacts
<1>3. p \in 1 .. 16 /\ Len(w) = 7 + p /\ w \in Seq(Octet)
  BY EncodedFacts
<1>4. \A j \in 1 .. p : w[6 + j] = m.tpdu[j]
  BY EncodedFacts
<1>5. Len(w) = (w[6] % 16) + 8
  BY FrameFacts
<1> HIDE DEF p
<1>6. \A i \in 0 .. 6 + p : d[i] = w[i + 1]
  BY <1>3
<1>7. DOMAIN d = 0 .. 6 + p
  BY <1>3
<1>8. /\ 0 \in 0 .. 6 + p /\ 1 \in 0 .. 6 + p /\ 2 \in 0 .. 6 + p /\ 3 \in 0 .. 6 + p
      /\ 4 \in 0 .. 6 + p /\ 5 \in 0 .. 6 + p
      /\ 0 + 1 = 1 /\ 1 + 1 = 2 /\ 2 + 1 = 3 /\ 3 + 1 = 4 /\ 4 + 1 = 5 /\ 5 + 1 = 6
      /\ \A j \in 1 .. p : 5 + j \in 0 .. 6 + p /\ (5 + j) + 1 = 6 + j
  BY <1>3
<1>9. /\ d[0] = w[1] /\ d[1] = w[2] /\ d[2] = w[3] /\ d[3] = w[4] /\ d[4] = w[5] /\ d[5] = w[6]
      /\ \A j \in 1 .. p : d[5 + j] = w[6 + j]
  <2>1. d[0] = w[1] /\ d[1] = w[2] /\ d[2] = w[3]
    BY <1>6, <1>8
  <2>2. d[3] = w[4] /\ d[4] = w[5] /\ d[5] = w[6]
    BY <1>6, <1>8
  <2>3. \A j \in 1 .. p : d[5 + j] = w[6 + j]
    BY <1>6, <1>8
  <2> QED
    BY <2>1, <2>2, <2>3
<1>10. w[6] \in Nat
  <2>1. 6 \in 1 .. Len(w)
    BY <1>3
  <2> QED
    BY <1>3, <2>1, ElementOfSeq, OctetRange
<1>11. (d[5] % 16) + 8 = 7 + p
  BY <1>3, <1>5, <1>9
<1>12. \A j \in 1 .. p : d[5 + j] = m.tpdu[j]
  BY <1>4, <1>9
<1>13. /\ d[0] = Ctrl(m, r) /\ d[1] = m.src \div 256 /\ d[2] = m.src % 256
       /\ d[3] = m.dst \div 256 /\ d[4] = m.dst % 256
  BY <1>1, <1>2, <1>9, SMTT(30)
<1>14. d[5] = At(m) + (p - 1) /\ d[5] \in Nat
  BY <1>2, <1>9, <1>10, Zenon
<1> QED
  BY <1>3, <1>7, <1>11, <1>12, <1>13, <1>14, Zenon DEF p, Carries

(* Every field is read as it was meant.                                    *)
LEMMA FieldsAreMeant ==
  ASSUME NEW m, InRange(m), Proper(m), NEW r, NEW d, Carries(d, m, r)
  PROVE  /\ Fields("Standard", d) = m
         /\ Cardinality(DOMAIN d) = length("Standard", d)
         /\ tpci_eight("Standard", d) = m.tpdu[1]
         /\ Len(m.tpdu) > 1 => d[APCI_OFFSET("Standard") + 1] = m.tpdu[2]
<1>1. /\ d[0] = Ctrl(m, r)
      /\ d[1] = m.src \div 256 /\ d[2] = m.src % 256
      /\ d[3] = m.dst \div 256 /\ d[4] = m.dst % 256
      /\ d[5] = At(m) + (Len(m.tpdu) - 1) /\ d[5] \in Nat
      /\ Len(m.tpdu) \in 1 .. 16 /\ (d[5] % 16) + 8 = 7 + Len(m.tpdu)
      /\ \A j \in 1 .. Len(m.tpdu) : d[5 + j] = m.tpdu[j]
      /\ DOMAIN d = 0 .. 6 + Len(m.tpdu)
  BY DEF Carries
<1> DEFINE p == Len(m.tpdu)
<1>2. m.tpdu \in Seq(Octet)
  BY PayloadFacts DEF InRange
<1>3. p \in 1 .. 16 /\ (d[5] % 16) + 8 = 7 + p /\ DOMAIN d = 0 .. 6 + p
      /\ \A j \in 1 .. p : d[5 + j] = m.tpdu[j]
  BY <1>1, Zenon
<1>4. m.tpdu = [j \in 1 .. p |-> m.tpdu[j]]
  BY <1>2
<1>5. d[5] = At(m) + (p - 1) /\ d[5] \in Nat
  BY <1>1, Zenon
<1> HIDE DEF p
<1>6. Cardinality(DOMAIN d) = 7 + p
  <2>1. 0 <= 6 + p /\ 6 + p - 0 + 1 = 7 + p /\ 6 + p \in Int /\ 0 \in Int
    BY <1>3
  <2> QED
    BY <1>3, <2>1, FS_Interval
<1>7. length("Standard", d) = 7 + p
  <2>1. LengthSum("Standard", d) = 7 + p
    <3>1. LengthSum("Standard", d) = (d[5] % 16) + 7 + 1
      BY DEF LengthSum, LG_FIELD, HEADER_LENGTH, CTRL_OFFSET
    <3>2. \A x \in Nat : x + 7 + 1 = x + 8
      OBVIOUS
    <3>3. d[5] % 16 \in Nat
      BY <1>5
    <3> QED
      BY <1>3, <3>1, <3>2, <3>3
  <2> QED
    BY <1>3, <2>1, LengthField DEF length
<1>8. src_addr("Standard", d) = m.src
  <2>1. (m.src \div 256) * 256 + (m.src % 256) = m.src
    <3>1. m.src \in Nat
      BY DEF InRange
    <3> QED
      BY <3>1, AddressSplit, Zenon
  <2> QED
    BY <1>1, <2>1 DEF src_addr, Address, SRC_ADDR_OFFSET, CTRL_OFFSET
<1>9. dst_addr("Standard", d).addr = m.dst
  <2>1. (m.dst \div 256) * 256 + (m.dst % 256) = m.dst
    <3>1. m.dst \in Nat
      BY DEF InRange
    <3> QED
      BY <3>1, AddressSplit, Zenon
  <2> QED
    BY <1>1, <2>1 DEF dst_addr, Address, DST_ADDR_OFFSET, CTRL_OFFSET
<1>10. priority(d) = m.priority
  <2>1. m.priority \in 0 .. 3
    BY DEF InRange
  <2>2. (Ctrl(m, r) \div 4) % 4 = m.priority
    BY <2>1, PriorityField DEF Ctrl
  <2> QED
    BY <1>1, <2>2 DEF priority, CTRL
<1>11. addr_type("Standard", d) = (IF m.group THEN 1 ELSE 0) /\ hop_count("Standard", d) = m.hop
  <2> DEFINE k == p - 1
  <2>1. k \in 0 .. 15
    BY <1>3
  <2> HIDE DEF k
  <2>2. m.hop \in 0 .. 7
    BY DEF InRange
  <2>3. d[5] = (IF m.group THEN 128 ELSE 0) + m.hop * 16 + k
    BY <1>5 DEF At, k
  <2>4. FieldsOfAt(m.hop, k)
    BY <2>1, <2>2, HopField
  <2>5. d[5] \div 128 = (IF m.group THEN 1 ELSE 0) /\ (d[5] \div 16) % 8 = m.hop
    <3>1. CASE m.group
      <4>1. d[5] = 128 + m.hop * 16 + k
        BY <2>3, <3>1
      <4>2. /\ (128 + m.hop * 16 + k) \div 128 = 1
            /\ ((128 + m.hop * 16 + k) \div 16) % 8 = m.hop
        BY <2>4 DEF FieldsOfAt
      <4>3. d[5] \div 128 = 1 /\ (d[5] \div 16) % 8 = m.hop
        BY <4>1, <4>2, Zenon
      <4> QED
        BY <3>1, <4>3, Zenon
    <3>2. CASE ~m.group
      <4>1. d[5] = 0 + m.hop * 16 + k
        BY <2>3, <3>2
      <4>2. /\ (0 + m.hop * 16 + k) \div 128 = 0
            /\ ((0 + m.hop * 16 + k) \div 16) % 8 = m.hop
        BY <2>4 DEF FieldsOfAt
      <4>3. d[5] \div 128 = 0 /\ (d[5] \div 16) % 8 = m.hop
        BY <4>1, <4>2, Zenon
      <4> QED
        BY <3>2, <4>3, Zenon
    <3> QED
      BY <3>1, <3>2
  <2> QED
    BY <2>5 DEF addr_type, hop_count, AT_FIELD, HOP_COUNT_FIELD
<1>12. dst_addr("Standard", d).group = m.group
  <2>1. m.group \in BOOLEAN
    BY Zenon DEF Proper
  <2>2. dst_addr("Standard", d).group = (addr_type("Standard", d) = 1)
    BY DEF dst_addr
  <2>3. CASE m.group = TRUE
    <3>1. addr_type("Standard", d) = 1
      BY <1>11, <2>3
    <3> QED
      BY <2>2, <2>3, <3>1, Zenon
  <2>4. CASE m.group = FALSE
    <3>1. addr_type("Standard", d) # 1
      BY <1>11, <2>4
    <3> QED
      BY <2>2, <2>4, <3>1, Zenon
  <2> QED
    BY <2>1, <2>3, <2>4, Zenon
<1>13. [i \in 1 .. length("Standard", d) - HEADER_LENGTH("Standard") |->
          d[TPCI_OFFSET("Standard") + i - 1]] = m.tpdu
  <2>1. HEADER_LENGTH("Standard") = 7 /\ TPCI_OFFSET("Standard") = 6
    BY DEF HEADER_LENGTH, TPCI_OFFSET, CTRL_OFFSET
  <2>2. (7 + p) - 7 = p /\ \A i \in 1 .. p : 6 + i - 1 = 5 + i
    <3>1. \A i \in Nat : 6 + i - 1 = 5 + i
      OBVIOUS
    <3>2. \A i \in 1 .. p : i \in Nat
      BY <1>3
    <3> QED
      BY <1>3, <3>1, <3>2, LengthField
  <2>3. [i \in 1 .. p |-> d[6 + i - 1]] = [i \in 1 .. p |-> m.tpdu[i]]
    BY <1>3, <2>2
  <2> QED
    BY <1>4, <1>7, <2>1, <2>2, <2>3
<1>14. Fields("Standard", d) = m
  BY <1>8, <1>9, <1>10, <1>11, <1>12, <1>13, Zenon DEF Fields, Proper
<1>15. tpci_eight("Standard", d) = m.tpdu[1] /\ (p > 1 => d[APCI_OFFSET("Standard") + 1] = m.tpdu[2])
  BY <1>3 DEF tpci_eight, TPCI_OFFSET, APCI_OFFSET, HEADER_LENGTH, CTRL_OFFSET
<1> QED
  BY <1>6, <1>7, <1>14, <1>15 DEF p

(* The layers take it for what the standard says.                          *)
LEMMA ClassIsExpected ==
  ASSUME NEW m, m.tpdu[1] \in Octet, NEW a, m.group => a = m.tpdu[2] /\ a \in Octet
  PROVE  Class(m.group, m.dst, m.tpdu[1], a) = Expected(m)
<1> DEFINE t == m.tpdu[1]
<1>1. t \in Nat /\ t <= 255
  BY OctetRange
<1>2. CASE ~m.group
  <2>1. Class(m.group, m.dst, t, a) = IF Individual(t) \in ToConnection THEN "connected" ELSE "other"
    <3>1. Network(m.group, m.dst) = "DataIndividual"
      BY <1>2 DEF Network
    <3>2. Transport("DataIndividual", t) = Individual(t)
      BY DEF Transport
    <3>3. Individual(t) # "DataGroup"
      BY DEF Individual
    <3>4. Application(Individual(t), t, a) = "ignored"
      BY <3>3 DEF Application
    <3> HIDE DEF t
    <3> QED
      BY <3>1, <3>2, <3>4 DEF Class
  <2>2. And3C(t) # 194 /\ And3C(t) # 196
    BY <1>1 DEF And3C
  <2>3. Individual(t) \in ToConnection <=> t \in 64 .. 129
    BY <1>1, <2>2 DEF Individual, ToConnection
  <2>4. Meaning(t) \in {"DataConnected", "Connect", "Disconnect"} <=> t \in 64 .. 129
    BY <1>1 DEF Meaning
  <2> QED
    BY <1>2, <2>1, <2>3, <2>4 DEF Expected
<1>3. CASE m.group
  <2>1. a = m.tpdu[2] /\ a \in Nat /\ a <= 255
    BY <1>3, OctetRange
  <2>2. CASE m.dst = 0
    <3>1. Transport("DataBroadcast", t) \notin ToConnection /\ Transport("DataBroadcast", t) # "DataGroup"
      BY DEF Transport, Broadcast, ToConnection
    <3>2. Class(m.group, m.dst, t, a) = "other"
      BY <1>3, <2>2, <3>1 DEF Class, Network, Application
    <3> QED
      BY <1>3, <2>2, <3>2 DEF Expected
  <2>3. CASE m.dst # 0
    <3>1. Transport("DataGroup", t) \notin ToConnection
      BY DEF Transport, Group, ToConnection
    <3>2. Transport("DataGroup", t) = "DataGroup" <=> t \div 4 = 0
      BY DEF Transport, Group, tpci_six
    <3>3. t \div 4 = 0 => (apci_four(t, a) = 0 <=> t = 0 /\ a < 64)
      <4> HIDE DEF t
      <4>1. t \div 4 = 0 => t \in 0 .. 3
        BY <1>1
      <4>2. \A x \in 0 .. 3, y \in 0 .. 255 :
               ((x % 4) * 256 + y) \div 64 = 0 <=> x = 0 /\ y < 64
        OBVIOUS
      <4>3. a \in 0 .. 255
        BY <2>1
      <4> QED
        BY <4>1, <4>2, <4>3 DEF apci_four
    <3>4. Class(m.group, m.dst, t, a)
            = IF Transport("DataGroup", t) = "DataGroup" /\ apci_four(t, a) = 0 THEN "read" ELSE "other"
      BY <1>3, <2>3, <3>1 DEF Class, Network, Application
    <3>5. t = 0 => t \div 4 = 0
      OBVIOUS
    <3> QED
      BY <1>3, <2>1, <2>3, <3>2, <3>3, <3>4, <3>5 DEF Expected
  <2> QED
    BY <2>2, <2>3
<1> QED
  BY <1>2, <1>3

-----------------------------------------------------------------------------
(* The frames that the device builds *)

(* A setter changes one octet of a buffer, an address two.                 *)
LEMMA OrAtFacts ==
  ASSUME NEW d, NEW i \in DOMAIN d, NEW v, NEW e, e = OrAt(d, i, v)
  PROVE  /\ DOMAIN e = DOMAIN d /\ e = [j \in DOMAIN d |-> e[j]]
         /\ e[i] = Or(d[i], v) /\ \A j \in DOMAIN d : j # i => e[j] = d[j]
  BY DEF OrAt

(* An address takes two octets and leaves the others alone.                *)
LEMMA SetAddrFacts ==
  ASSUME NEW d, NEW i \in DOMAIN d, i \in Nat, NEW k \in DOMAIN d, k = i + 1, NEW a,
         NEW e, e = set_addr(d, i, a)
  PROVE  /\ DOMAIN e = DOMAIN d /\ e = [j \in DOMAIN d |-> e[j]]
         /\ e[i] = a \div 256 /\ e[k] = a % 256
         /\ \A j \in DOMAIN d : j # i /\ j # k => e[j] = d[j]
<1> DEFINE x == [d EXCEPT ![i] = a \div 256]
<1>1. i # k
  OBVIOUS
<1>2. DOMAIN x = DOMAIN d /\ x[i] = a \div 256 /\ \A j \in DOMAIN d : j # i => x[j] = d[j]
  OBVIOUS
<1>3. e = [x EXCEPT ![k] = a % 256]
  BY DEF set_addr
<1> HIDE DEF x
<1>4. DOMAIN e = DOMAIN d /\ e = [j \in DOMAIN d |-> e[j]]
  BY <1>2, <1>3
<1>5. e[k] = a % 256 /\ \A j \in DOMAIN d : j # k => e[j] = x[j]
  BY <1>2, <1>3
<1> QED
  BY <1>1, <1>2, <1>4, <1>5

(* A new buffer is empty but for the format.                               *)
LEMMA NewFacts ==
  ASSUME NEW n \in {8, 24}, NEW d, d = new(n)
  PROVE  /\ DOMAIN d = 0 .. n - 1 /\ d = [j \in 0 .. n - 1 |-> d[j]]
         /\ d[0] = 144 /\ \A j \in 0 .. n - 1 : j # 0 => d[j] = 0
<1> DEFINE z == [i \in 0 .. n - 1 |-> 0]
           e == set_length("Standard", z, n)
<1>1. 0 \in Octet /\ 144 \in Octet
  BY OctetRange
<1>2. Or(0, 0) = 0 /\ Or(0, 144) = 144
  BY <1>1, OrZero
<1>3. (n - 7 - 1) % 16 = 0 /\ 5 \in 0 .. n - 1 /\ 0 \in 0 .. n - 1
  OBVIOUS
<1>4. OrAt(z, 5, 0) = z
  BY <1>2, <1>3 DEF OrAt
<1>5. e = Resized(z, n)
  BY <1>3, <1>4 DEF set_length, LG_FIELD, HEADER_LENGTH, CTRL_OFFSET
<1>6. Resized(z, n) = z
  BY DEF Resized
<1>7. d = OrAt(z, 0, 144)
  BY <1>5, <1>6 DEF new, CTRL
<1>8. DOMAIN z = 0 .. n - 1 /\ \A i \in 0 .. n - 1 : z[i] = 0
  OBVIOUS
<1> HIDE DEF z
<1> QED
  BY <1>2, <1>3, <1>7, <1>8, OrAtFacts

(* What is sent is the content of the buffer with its checksum.            *)
LEMMA SentIsSealed ==
  ASSUME NEW s \in Seq(Octet), NEW d, DOMAIN d = 0 .. Len(s), d = [j \in 0 .. Len(s) |-> d[j]],
         \A i \in 1 .. Len(s) : d[i - 1] = s[i], d[Len(s)] = 0
  PROVE  Sent(d) = Sealed(s)
<1> DEFINE n == Len(s)
           p == 255 - Parity(s)
<1>1. n \in Nat /\ DOMAIN s = 1 .. n
  BY LenProperties
<1> HIDE DEF n
<1>2. Cardinality(DOMAIN d) = n + 1
  <2>1. DOMAIN d = 0 .. n
    BY DEF n
  <2>2. 0 \in Int /\ n \in Int /\ 0 <= n /\ n - 0 + 1 = n + 1
    BY <1>1
  <2> QED
    BY <2>1, <2>2, FS_Interval
<1>3. Parity(d) = Parity(s)
  <2> DEFINE b == [i \in 0 .. (n + 1) - 1 |-> IF i < Len(s) THEN s[i + 1] ELSE 0]
  <2>1. n + 1 \in Nat /\ Len(s) <= n + 1
    BY <1>1 DEF n
  <2>2. Parity(b) = Parity(s)
    BY <2>1, ParityPadded
  <2>3. \A i \in 0 .. n : i < n => i + 1 \in 1 .. n /\ (i + 1) - 1 = i
    BY <1>1
  <2>4. \A i \in 0 .. n : d[i] = IF i < n THEN s[i + 1] ELSE 0
    <3>1. \A i \in 1 .. n : d[i - 1] = s[i]
      BY DEF n
    <3>2. d[n] = 0
      BY DEF n
    <3>3. \A i \in 0 .. n : i < n \/ i = n
      BY <1>1
    <3> QED
      BY <2>3, <3>1, <3>2, <3>3
  <2>5. b = [i \in 0 .. n |-> IF i < n THEN s[i + 1] ELSE 0]
    BY <1>1 DEF n
  <2>6. d = [i \in 0 .. n |-> d[i]]
    BY DEF n
  <2> HIDE DEF b
  <2>7. d = b
    BY <2>4, <2>5, <2>6
  <2> QED
    BY <2>2, <2>7
<1>4. p \in Octet
  <2>1. Parity(s) \in Octet
    BY <1>1, FS_Interval, ParityFacts
  <2> QED
    BY <2>1, OctetRange
<1>5. Sent(d) = [i \in 1 .. n + 1 |-> IF i < n + 1 THEN d[i - 1] ELSE p]
  BY <1>2, <1>3 DEF Sent, checksum
<1>6. Sealed(s) \in Seq(Octet) /\ Len(Sealed(s)) = n + 1
      /\ (\A i \in 1 .. n : Sealed(s)[i] = s[i]) /\ Sealed(s)[n + 1] = p
  BY SealedFacts DEF n
<1> HIDE DEF p
<1>7. Sealed(s) = [i \in 1 .. n + 1 |-> Sealed(s)[i]]
  BY <1>1, <1>6
<1>8. \A i \in 1 .. n + 1 : Sealed(s)[i] = IF i < n + 1 THEN d[i - 1] ELSE p
  <2>1. \A i \in 1 .. n : d[i - 1] = s[i]
    BY DEF n
  <2>2. \A i \in 1 .. n + 1 : (i < n + 1 /\ i \in 1 .. n) \/ (i = n + 1 /\ ~ (i < n + 1))
    BY <1>1
  <2> QED
    BY <1>6, <2>1, <2>2
<1> QED
  BY <1>5, <1>7, <1>8

(* A number in bits that are empty.                                        *)
LEMMA NumberAdded ==
  ASSUME NEW tpci \in {194, 129}, NEW seq \in 0 .. 7, tpci = 129 => seq = 0
  PROVE  Or(tpci, (seq % 8) * 4) = tpci + 4 * seq
<1>1. (seq % 8) * 4 = 4 * seq
  OBVIOUS
<1>2. CASE seq = 0
  <2>1. tpci \in Octet
    BY OctetRange
  <2> QED
    BY <1>1, <1>2, <2>1, OrZero
<1>3. CASE tpci = 194
  <2>1. 194 \in Octet /\ 4 * seq \in Octet
    BY OctetRange
  <2>2. Bit(194, 1) = 0 /\ Bit(194, 4) = 0 /\ Bit(194, 8) = 0 /\ Bit(194, 16) = 0 /\ Bit(194, 32) = 0
    BY DEF Bit
  <2>3. Bit(4 * seq, 2) = 0 /\ Bit(4 * seq, 64) = 0 /\ Bit(4 * seq, 128) = 0
    BY DEF Bit
  <2>4. \A w \in Weights : Bit(194, w) = 0 \/ Bit(4 * seq, w) = 0
    BY <2>2, <2>3 DEF Weights
  <2>5. Or(194, 4 * seq) = 194 + 4 * seq
    BY <2>1, <2>4, OrAdds
  <2> QED
    BY <1>1, <1>3, <2>5
<1> QED
  BY <1>2, <1>3

(* The content of a buffer is what the standard says.                      *)
IsBuffer(m, r, p, e) ==
    /\ DOMAIN e = 0 .. 6 + p /\ e = [j \in 0 .. 6 + p |-> e[j]]
    /\ e[0] = Ctrl(m, r)
    /\ e[1] = m.src \div 256 /\ e[2] = m.src % 256
    /\ e[3] = m.dst \div 256 /\ e[4] = m.dst % 256
    /\ e[5] = At(m) + (p - 1)
    /\ (\A j \in 1 .. p : e[5 + j] = m.tpdu[j]) /\ e[6 + p] = 0

(* Such a buffer is sent as the standard's encoding.                       *)
LEMMA BufferIsEncoded ==
  ASSUME NEW m, InRange(m), NEW r, NEW e, IsBuffer(m, r, Len(m.tpdu), e)
  PROVE  Sent(e) = Encoded("Standard", m, r)
<1> DEFINE s == Body(m, r)
           p == Len(m.tpdu)
<1>1. p \in 1 .. 16
  BY PayloadFacts DEF InRange
<1>2. s \in Seq(Octet) /\ Len(s) = 6 + p /\ Encoded("Standard", m, r) = Sealed(s)
  BY BodyFacts
<1>3. /\ s[1] = e[0] /\ s[2] = e[1] /\ s[3] = e[2] /\ s[4] = e[3] /\ s[5] = e[4]
      /\ s[6] = e[5]
  <2>1. /\ s[1] = Ctrl(m, r) /\ s[2] = m.src \div 256 /\ s[3] = m.src % 256
        /\ s[4] = m.dst \div 256 /\ s[5] = m.dst % 256
        /\ s[6] = At(m) + (p - 1)
    BY BodyFacts
  <2> HIDE DEF s
  <2> QED
    BY <2>1 DEF IsBuffer
<1>4. \A j \in 1 .. p : s[6 + j] = e[5 + j]
  <2>1. \A j \in 1 .. p : s[6 + j] = m.tpdu[j]
    BY BodyFacts
  <2>2. \A j \in 1 .. p : e[5 + j] = m.tpdu[j]
    BY DEF IsBuffer
  <2> HIDE DEF s, p
  <2> QED
    BY <2>1, <2>2
<1> HIDE DEF s
<1>5. \A i \in 1 .. 6 + p : e[i - 1] = s[i]
  <2> SUFFICES ASSUME NEW i \in 1 .. 6 + p
               PROVE  e[i - 1] = s[i]
    OBVIOUS
  <2>1. CASE i \in {1, 2, 3, 4, 5, 6}
    BY <1>3, <2>1
  <2>2. CASE i \notin {1, 2, 3, 4, 5, 6}
    <3>1. i - 6 \in 1 .. p /\ 6 + (i - 6) = i /\ 5 + (i - 6) = i - 1
      BY <1>1, <2>2
    <3>2. s[6 + (i - 6)] = e[5 + (i - 6)]
      BY <1>4, <3>1
    <3> QED
      BY <3>1, <3>2
  <2> QED
    BY <2>1, <2>2
<1>6. /\ DOMAIN e = 0 .. Len(s) /\ e = [j \in 0 .. Len(s) |-> e[j]] /\ e[Len(s)] = 0
      /\ \A i \in 1 .. Len(s) : e[i - 1] = s[i]
  BY <1>2, <1>5 DEF IsBuffer
<1>7. Sent(e) = Sealed(s)
  BY <1>2, <1>6, SentIsSealed
<1> QED
  BY <1>2, <1>7

(* The buffer of send_response_frame.                                      *)
LEMMA ControlBuffer ==
  ASSUME NEW dst \in Nat, NEW tpci \in {194, 129}, NEW seq \in 0 .. 7,
         tpci = 129 => seq = 0, NEW d7, d7 = response_frame(dst, seq, tpci)
  PROVE  /\ DOMAIN d7 = 0 .. 7 /\ d7 = [j \in 0 .. 7 |-> d7[j]]
         /\ d7[0] = 144 /\ d7[1] = ADDRESS \div 256 /\ d7[2] = ADDRESS % 256
         /\ d7[3] = dst \div 256 /\ d7[4] = dst % 256 /\ d7[5] = 112
         /\ d7[6] = tpci + 4 * seq /\ d7[7] = 0
<1> DEFINE d0 == new(8)
           d1 == OrAt(d0, 0, 0)
           d2 == OrAt(d1, 5, 0)
           d3 == set_addr(d2, 3, dst)
           d4 == set_addr(d3, 1, ADDRESS)
           d5 == OrAt(d4, 5, 112)
           d6 == [d5 EXCEPT ![6] = tpci]
<1>1. d7 = OrAt(d6, 6, (seq % 8) * 4)
  <2>1. 0 * 4 = 0 /\ (7 % 8) * 16 = 112
    OBVIOUS
  <2> QED
    BY <2>1 DEF response_frame, MIN_FRAME_SIZE, set_priority, set_dst_addr, set_src_addr,
         set_hop_count, set_tpci_eight, set_tpci_seq, CTRL, AT_FIELD, HOP_COUNT_FIELD,
         SRC_ADDR_OFFSET, DST_ADDR_OFFSET, TPCI_OFFSET, HEADER_LENGTH, CTRL_OFFSET
<1>2. /\ 0 \in 0 .. 7 /\ 1 \in 0 .. 7 /\ 2 \in 0 .. 7 /\ 3 \in 0 .. 7 /\ 4 \in 0 .. 7
      /\ 5 \in 0 .. 7 /\ 6 \in 0 .. 7 /\ 7 \in 0 .. 7
      /\ 1 \in Nat /\ 2 = 1 + 1 /\ 3 \in Nat /\ 4 = 3 + 1
  OBVIOUS
<1>3. Or(144, 0) = 144 /\ Or(0, 0) = 0 /\ Or(0, 112) = 112
  <2>1. 144 \in Octet /\ 0 \in Octet /\ 112 \in Octet
    BY OctetRange
  <2> QED
    BY <2>1, OrZero
<1>4. Or(tpci, (seq % 8) * 4) = tpci + 4 * seq
  BY NumberAdded
<1>5. DOMAIN d0 = 0 .. 7 /\ d0[0] = 144 /\ \A j \in 0 .. 7 : j # 0 => d0[j] = 0
  BY NewFacts
<1> HIDE DEF d0
<1>6. DOMAIN d1 = 0 .. 7 /\ d1[0] = 144 /\ \A j \in 0 .. 7 : j # 0 => d1[j] = 0
  <2>1. DOMAIN d1 = 0 .. 7 /\ d1[0] = Or(144, 0) /\ \A j \in 0 .. 7 : j # 0 => d1[j] = d0[j]
    BY <1>2, <1>5, OrAtFacts
  <2> HIDE DEF d1
  <2> QED
    BY <1>3, <1>5, <2>1
<1> HIDE DEF d1
<1>7. DOMAIN d2 = 0 .. 7 /\ d2[0] = 144 /\ \A j \in 0 .. 7 : j # 0 => d2[j] = 0
  <2>1. /\ DOMAIN d2 = 0 .. 7 /\ d2[5] = Or(d1[5], 0)
        /\ \A j \in 0 .. 7 : j # 5 => d2[j] = d1[j]
    BY <1>2, <1>6, OrAtFacts
  <2> HIDE DEF d2
  <2> QED
    BY <1>2, <1>3, <1>6, <2>1
<1> HIDE DEF d2
<1>8. /\ DOMAIN d3 = 0 .. 7 /\ d3[3] = dst \div 256 /\ d3[4] = dst % 256
       /\ \A j \in 0 .. 7 : j # 3 /\ j # 4 => d3[j] = d2[j]
  <2>1. 3 \in DOMAIN d2 /\ 4 \in DOMAIN d2
    BY <1>2, <1>7
  <2>2. /\ DOMAIN d3 = DOMAIN d2 /\ d3[3] = dst \div 256 /\ d3[4] = dst % 256
        /\ \A j \in DOMAIN d2 : j # 3 /\ j # 4 => d3[j] = d2[j]
    BY <1>2, <2>1, SetAddrFacts
  <2> QED
    BY <1>7, <2>2
<1> HIDE DEF d3
<1>9. /\ DOMAIN d4 = 0 .. 7 /\ d4[1] = ADDRESS \div 256 /\ d4[2] = ADDRESS % 256
       /\ \A j \in 0 .. 7 : j # 1 /\ j # 2 => d4[j] = d3[j]
  <2>1. 1 \in DOMAIN d3 /\ 2 \in DOMAIN d3
    BY <1>2, <1>8
  <2>2. /\ DOMAIN d4 = DOMAIN d3 /\ d4[1] = ADDRESS \div 256 /\ d4[2] = ADDRESS % 256
        /\ \A j \in DOMAIN d3 : j # 1 /\ j # 2 => d4[j] = d3[j]
    <3>1. d4 = [d3 EXCEPT ![1] = ADDRESS \div 256, ![2] = ADDRESS % 256]
      BY DEF set_addr
    <3> HIDE DEF d4
    <3> QED
      BY <2>1, <3>1
  <2> QED
    BY <1>8, <2>2
<1> HIDE DEF d4
<1>10. /\ DOMAIN d5 = 0 .. 7 /\ d5[5] = Or(d4[5], 112)
       /\ \A j \in 0 .. 7 : j # 5 => d5[j] = d4[j]
  BY <1>2, <1>9, OrAtFacts
<1> HIDE DEF d5
<1>11. DOMAIN d6 = 0 .. 7 /\ d6[6] = tpci /\ \A j \in 0 .. 7 : j # 6 => d6[j] = d5[j]
  BY <1>2, <1>10
<1> HIDE DEF d6
<1>12. /\ DOMAIN d7 = 0 .. 7 /\ d7 = [j \in 0 .. 7 |-> d7[j]] /\ d7[6] = Or(d6[6], (seq % 8) * 4)
       /\ \A j \in 0 .. 7 : j # 6 => d7[j] = d6[j]
  BY <1>1, <1>2, <1>11, OrAtFacts
<1>13. /\ d7[0] = 144 /\ d7[1] = ADDRESS \div 256 /\ d7[2] = ADDRESS % 256
       /\ d7[3] = dst \div 256 /\ d7[4] = dst % 256 /\ d7[5] = 112
       /\ d7[6] = tpci + 4 * seq /\ d7[7] = 0
  BY <1>2, <1>3, <1>4, <1>7, <1>8, <1>9, <1>10, <1>11, <1>12
<1> QED
  BY <1>12, <1>13

(* What the device means by a frame of its connection. *)
IsControl(m, dst, tpci, seq) ==
    /\ m.src = ADDRESS /\ ~m.group /\ m.dst = dst /\ m.priority = 0 /\ m.hop = 7
    /\ m.tpdu = <<tpci + 4 * seq>>

(* send_response_frame sends the T_ACK with the number, and T_Disconnect.  *)
LEMMA ControlIsMeant ==
  ASSUME NEW dst \in Nat, NEW tpci \in {194, 129}, NEW seq \in 0 .. 7,
         tpci = 129 => seq = 0, NEW m, InRange(m), IsControl(m, dst, tpci, seq),
         NEW r, Ctrl(m, r) = 144 + m.priority * 4
  PROVE  Sent(response_frame(dst, seq, tpci)) = Encoded("Standard", m, r)
<1>1. /\ m.src = ADDRESS /\ ~m.group /\ m.dst = dst /\ m.priority = 0 /\ m.hop = 7
      /\ m.tpdu = <<tpci + 4 * seq>>
  BY DEF IsControl
<1> USE <1>1
<1> DEFINE e == response_frame(dst, seq, tpci)
           v == tpci + 4 * seq
<1>2. /\ DOMAIN e = 0 .. 7 /\ e = [j \in 0 .. 7 |-> e[j]]
      /\ e[0] = 144 /\ e[1] = ADDRESS \div 256 /\ e[2] = ADDRESS % 256
      /\ e[3] = dst \div 256 /\ e[4] = dst % 256 /\ e[5] = 112
      /\ e[6] = v /\ e[7] = 0
  BY ControlBuffer
<1> HIDE DEF e, v
<1>3. Len(m.tpdu) = 1 /\ m.tpdu[1] = v
  BY DEF v
<1>4. Ctrl(m, r) = 144 /\ At(m) + (1 - 1) = 112
  BY DEF Ctrl, At
<1>5. 6 + 1 = 7 /\ 5 + 1 = 6 /\ \A j \in 1 .. 1 : j = 1
  OBVIOUS
<1>6. /\ DOMAIN e = 0 .. 6 + 1 /\ e = [j \in 0 .. 6 + 1 |-> e[j]]
      /\ e[5] = At(m) + (1 - 1) /\ (\A j \in 1 .. 1 : e[5 + j] = m.tpdu[j]) /\ e[6 + 1] = 0
  BY <1>2, <1>3, <1>4, <1>5
<1>7. /\ e[0] = Ctrl(m, r) /\ e[1] = m.src \div 256 /\ e[2] = m.src % 256
      /\ e[3] = m.dst \div 256 /\ e[4] = m.dst % 256
  BY <1>2, <1>4
<1>8. IsBuffer(m, r, 1, e)
  BY <1>6, <1>7, Zenon DEF IsBuffer
<1>9. Sent(e) = Encoded("Standard", m, r)
  BY <1>3, <1>8, BufferIsEncoded
<1> QED
  BY <1>9 DEF e

(* What the setters of a response put together, bit by bit.                *)
LEMMA ResponseBits ==
  ASSUME NEW x \in 0 .. 3, NEW k \in {1, 2}
  PROVE  /\ Or(x, 64) = 64 + x /\ Or(144, x * 4) = 144 + x * 4
         /\ Or(k, 112) = 112 + k /\ Or(112 + k, 128) = 240 + k
<1>1. /\ x \in Octet /\ 64 \in Octet /\ 144 \in Octet /\ x * 4 \in Octet
      /\ k \in Octet /\ 112 \in Octet /\ 112 + k \in Octet /\ 128 \in Octet
  BY OctetRange
<1>2. Or(x, 64) = x + 64
  <2>1. \A w \in Weights : Bit(x, w) = 0 \/ Bit(64, w) = 0
    <3>1. Bit(64, 1) = 0 /\ Bit(64, 2) = 0
      BY DEF Bit
    <3>2. Bit(x, 4) = 0 /\ Bit(x, 8) = 0 /\ Bit(x, 16) = 0 /\ Bit(x, 32) = 0
          /\ Bit(x, 64) = 0 /\ Bit(x, 128) = 0
      BY DEF Bit
    <3> QED
      BY <3>1, <3>2 DEF Weights
  <2> QED
    BY <1>1, <2>1, OrAdds
<1>3. Or(144, x * 4) = 144 + x * 4
  <2>1. \A w \in Weights : Bit(144, w) = 0 \/ Bit(x * 4, w) = 0
    <3>1. Bit(144, 1) = 0 /\ Bit(144, 2) = 0 /\ Bit(144, 4) = 0 /\ Bit(144, 8) = 0
      BY DEF Bit
    <3>2. Bit(x * 4, 16) = 0 /\ Bit(x * 4, 32) = 0 /\ Bit(x * 4, 64) = 0 /\ Bit(x * 4, 128) = 0
      BY DEF Bit
    <3> QED
      BY <3>1, <3>2 DEF Weights
  <2> QED
    BY <1>1, <2>1, OrAdds
<1>4. Or(k, 112) = k + 112
  <2>1. \A w \in Weights : Bit(k, w) = 0 \/ Bit(112, w) = 0
    <3>1. Bit(112, 1) = 0 /\ Bit(112, 2) = 0
      BY DEF Bit
    <3>2. Bit(k, 4) = 0 /\ Bit(k, 8) = 0 /\ Bit(k, 16) = 0 /\ Bit(k, 32) = 0
          /\ Bit(k, 64) = 0 /\ Bit(k, 128) = 0
      BY DEF Bit
    <3> QED
      BY <3>1, <3>2 DEF Weights
  <2> QED
    BY <1>1, <2>1, OrAdds
<1>5. Or(112 + k, 128) = (112 + k) + 128
  <2>1. \A w \in Weights : Bit(112 + k, w) = 0 \/ Bit(128, w) = 0
    <3>1. Bit(128, 1) = 0 /\ Bit(128, 2) = 0 /\ Bit(128, 4) = 0 /\ Bit(128, 8) = 0
          /\ Bit(128, 16) = 0 /\ Bit(128, 32) = 0 /\ Bit(128, 64) = 0
      BY DEF Bit
    <3>2. Bit(112 + k, 128) = 0
      BY DEF Bit
    <3> QED
      BY <3>1, <3>2 DEF Weights
  <2> QED
    BY <1>1, <2>1, OrAdds
<1>6. (112 + k) + 128 = 240 + k /\ k + 112 = 112 + k /\ x + 64 = 64 + x
  OBVIOUS
<1> QED
  BY <1>2, <1>3, <1>4, <1>5, <1>6

(* The buffer of a response, from the one with the value at its place.     *)
LEMMA ResponseBuffer ==
  ASSUME NEW k \in {1, 2}, NEW x \in 0 .. 3, NEW y, k = 1 => y = 0, NEW p \in 0 .. 3,
         NEW b, DOMAIN b = 0 .. 23, b[0] = 144, b[7] = x, b[8] = y,
         \A j \in 0 .. 23 : j \notin {0, 7, 8} => b[j] = 0,
         NEW e, e = info_frame(set_hop_count(set_priority(
                      set_apci_four(set_length("Standard", b, 8 + k), 1), p), 7))
  PROVE  /\ DOMAIN e = 0 .. 7 + k /\ e = [j \in 0 .. 7 + k |-> e[j]]
         /\ e[0] = 144 + p * 4 /\ e[1] = ADDRESS \div 256 /\ e[2] = ADDRESS % 256
         /\ e[3] = Answered \div 256 /\ e[4] = Answered % 256 /\ e[5] = 240 + k
         /\ e[6] = 0 /\ e[7] = 64 + x /\ e[8] = y /\ (k = 2 => e[9] = 0)
<1> DEFINE D == 0 .. 7 + k
           d1 == set_length("Standard", b, 8 + k)
           d2 == OrAt(d1, 6, 0)
           d3 == OrAt(d2, 7, 64)
           d4 == OrAt(d3, 0, p * 4)
           d5 == OrAt(d4, 5, 112)
           d6 == OrAt(d5, 5, 128)
           d7 == set_addr(d6, 3, Answered)
           d8 == set_addr(d7, 1, ADDRESS)
<1>1. e = OrAt(d8, 6, 0)
  <2>1. 1 \div 4 = 0 /\ (1 % 4) * 64 = 64 /\ (7 % 8) * 16 = 112 /\ 0 * 4 = 0 /\ 6 + 1 = 7
    OBVIOUS
  <2>2. /\ APCI_OFFSET("Standard") = 6 /\ TPCI_OFFSET("Standard") = 6 /\ AT_FIELD("Standard") = 5
        /\ HOP_COUNT_FIELD("Standard") = 5 /\ SRC_ADDR_OFFSET("Standard") = 1
        /\ DST_ADDR_OFFSET("Standard") = 3 /\ CTRL = 0
    BY DEF CTRL, AT_FIELD, HOP_COUNT_FIELD, SRC_ADDR_OFFSET, DST_ADDR_OFFSET, TPCI_OFFSET,
           APCI_OFFSET, HEADER_LENGTH, CTRL_OFFSET
  <2> HIDE DEF d1
  <2>3. set_apci_four(d1, 1) = d3
    BY <2>1, <2>2 DEF set_apci_four
  <2>4. set_priority(d3, p) = d4
    BY <2>2 DEF set_priority
  <2>5. set_hop_count(d4, 7) = d5
    BY <2>1, <2>2 DEF set_hop_count
  <2>6. set_src_addr(set_dst_addr(d5, TRUE, Answered), ADDRESS) = d8
    BY <2>2 DEF set_src_addr, set_dst_addr
  <2>7. set_tpci_six(d8, 0) = OrAt(d8, 6, 0)
    BY <2>1, <2>2 DEF set_tpci_six
  <2>8. e = info_frame(set_hop_count(set_priority(set_apci_four(d1, 1), p), 7))
    BY DEF d1
  <2> HIDE DEF d3, d4, d5, d8
  <2> QED
    BY <2>3, <2>4, <2>5, <2>6, <2>7, <2>8 DEF info_frame
<1>2. /\ 0 \in D /\ 1 \in D /\ 2 \in D /\ 3 \in D /\ 4 \in D /\ 5 \in D /\ 6 \in D
      /\ 7 \in D /\ 8 \in D /\ (k = 2 => 9 \in D) /\ \A j \in D : j \in 0 .. 23
  OBVIOUS
<1>3. /\ DOMAIN d1 = D /\ d1[0] = 144 /\ d1[5] = k /\ d1[7] = x /\ d1[8] = y
      /\ \A j \in D : j \notin {0, 5, 7, 8} => d1[j] = 0
  <2>1. (8 + k - 7 - 1) % 16 = k /\ (8 + k) - 1 = 7 + k
    OBVIOUS
  <2> DEFINE b1 == OrAt(b, 5, k)
  <2>2. d1 = Resized(b1, 8 + k)
    BY <2>1 DEF set_length, LG_FIELD, HEADER_LENGTH, CTRL_OFFSET
  <2>3. 5 \in DOMAIN b /\ b[5] = 0
    OBVIOUS
  <2>4. /\ DOMAIN b1 = 0 .. 23 /\ b1[5] = Or(0, k)
        /\ \A j \in 0 .. 23 : j # 5 => b1[j] = b[j]
    BY <2>3, OrAtFacts
  <2>5. Or(0, k) = k
    <3>1. k \in Octet
      BY OctetRange
    <3> QED
      BY <3>1, OrZero
  <2> HIDE DEF b1
  <2>6. Resized(b1, 8 + k) = [i \in D |-> b1[i]]
    BY <1>2, <2>1, <2>4 DEF Resized
  <2> HIDE DEF d1, D
  <2>7. DOMAIN d1 = D /\ \A j \in D : d1[j] = b1[j]
    BY <2>2, <2>6
  <2> QED
    BY <1>2, <2>4, <2>5, <2>7
<1> HIDE DEF d1, D
<1>4. /\ Or(0, 0) = 0 /\ Or(x, 64) = 64 + x /\ Or(144, p * 4) = 144 + p * 4
      /\ Or(k, 112) = 112 + k /\ Or(112 + k, 128) = 240 + k
  <2>1. 0 \in Octet
    BY OctetRange
  <2> QED
    BY <2>1, OrZero, ResponseBits
<1>5. DOMAIN d2 = D /\ d2[6] = Or(d1[6], 0) /\ \A j \in D : j # 6 => d2[j] = d1[j]
  BY <1>2, <1>3, OrAtFacts
<1> HIDE DEF d2
<1>6. DOMAIN d3 = D /\ d3[7] = Or(d2[7], 64) /\ \A j \in D : j # 7 => d3[j] = d2[j]
  BY <1>2, <1>5, OrAtFacts
<1> HIDE DEF d3
<1>7. DOMAIN d4 = D /\ d4[0] = Or(d3[0], p * 4) /\ \A j \in D : j # 0 => d4[j] = d3[j]
  BY <1>2, <1>6, OrAtFacts
<1> HIDE DEF d4
<1>8. DOMAIN d5 = D /\ d5[5] = Or(d4[5], 112) /\ \A j \in D : j # 5 => d5[j] = d4[j]
  BY <1>2, <1>7, OrAtFacts
<1> HIDE DEF d5
<1>9. DOMAIN d6 = D /\ d6[5] = Or(d5[5], 128) /\ \A j \in D : j # 5 => d6[j] = d5[j]
  BY <1>2, <1>8, OrAtFacts
<1> HIDE DEF d6
<1>10. /\ DOMAIN d7 = D /\ d7[3] = Answered \div 256 /\ d7[4] = Answered % 256
       /\ \A j \in D : j # 3 /\ j # 4 => d7[j] = d6[j]
  <2>1. d7 = [d6 EXCEPT ![3] = Answered \div 256, ![4] = Answered % 256]
    BY DEF set_addr
  <2> HIDE DEF d7
  <2> QED
    BY <1>2, <1>9, <2>1
<1> HIDE DEF d7
<1>11. /\ DOMAIN d8 = D /\ d8[1] = ADDRESS \div 256 /\ d8[2] = ADDRESS % 256
       /\ \A j \in D : j # 1 /\ j # 2 => d8[j] = d7[j]
  <2>1. d8 = [d7 EXCEPT ![1] = ADDRESS \div 256, ![2] = ADDRESS % 256]
    BY DEF set_addr
  <2> HIDE DEF d8
  <2> QED
    BY <1>2, <1>10, <2>1
<1> HIDE DEF d8
<1>12. /\ DOMAIN e = D /\ e = [j \in D |-> e[j]] /\ e[6] = Or(d8[6], 0)
       /\ \A j \in D : j # 6 => e[j] = d8[j]
  BY <1>1, <1>2, <1>11, OrAtFacts
<1>13. e[0] = 144 + p * 4
  BY <1>2, <1>3, <1>4, <1>5, <1>6, <1>7, <1>8, <1>9, <1>10, <1>11, <1>12
<1>14. /\ e[1] = ADDRESS \div 256 /\ e[2] = ADDRESS % 256
       /\ e[3] = Answered \div 256 /\ e[4] = Answered % 256
  BY <1>2, <1>10, <1>11, <1>12
<1>15. e[5] = 240 + k
  BY <1>2, <1>3, <1>4, <1>5, <1>6, <1>7, <1>8, <1>9, <1>10, <1>11, <1>12
<1>16. e[6] = 0
  BY <1>2, <1>3, <1>4, <1>5, <1>6, <1>7, <1>8, <1>9, <1>10, <1>11, <1>12
<1>17. e[7] = 64 + x
  BY <1>2, <1>3, <1>4, <1>5, <1>6, <1>7, <1>8, <1>9, <1>10, <1>11, <1>12
<1>18. e[8] = y /\ (k = 2 => e[9] = 0)
  BY <1>2, <1>3, <1>4, <1>5, <1>6, <1>7, <1>8, <1>9, <1>10, <1>11, <1>12
<1> QED
  BY <1>12, <1>13, <1>14, <1>15, <1>16, <1>17, <1>18 DEF D

(* The buffer of a value of one or two bits, and of one of an octet.       *)
LEMMA ShortBuffer ==
  ASSUME NEW dp, NEW x \in 0 .. 3, NEW p \in 0 .. 3,
         (dp.type = "B1" /\ x = dp.value % 2) \/ (dp.type = "B2" /\ x = dp.value % 4),
         NEW e, e = info_frame(to_transport(dp, p))
  PROVE  /\ DOMAIN e = 0 .. 8 /\ e = [j \in 0 .. 8 |-> e[j]]
         /\ e[0] = 144 + p * 4 /\ e[1] = ADDRESS \div 256 /\ e[2] = ADDRESS % 256
         /\ e[3] = Answered \div 256 /\ e[4] = Answered % 256 /\ e[5] = 241
         /\ e[6] = 0 /\ e[7] = 64 + x /\ e[8] = 0
<1> DEFINE z == new(24)
           b == write(dp, z, 7)
<1>1. DOMAIN z = 0 .. 23 /\ z[0] = 144 /\ \A j \in 0 .. 23 : j # 0 => z[j] = 0
  BY NewFacts
<1>2. from_datapoint(dp) = set_length("Standard", b, 8 + 1)
  <2>1. byte_length(dp) = 0
    BY DEF byte_length
  <2>2. /\ MAX_FRAME_SIZE("Standard") = 24 /\ APCI_OFFSET("Standard") = 6
        /\ HEADER_LENGTH("Standard") = 7
    BY DEF MAX_FRAME_SIZE, APCI_OFFSET, HEADER_LENGTH, CTRL_OFFSET
  <2>3. 6 + 1 + 0 = 7 /\ 7 + 1 + 0 + 1 = 8 + 1
    OBVIOUS
  <2> HIDE DEF z
  <2> QED
    BY <2>1, <2>2, <2>3 DEF from_datapoint, z
<1> HIDE DEF z
<1>3. b = OrAt(z, 7, x)
  BY DEF write
<1>4. Or(0, x) = x
  <2>1. x \in Octet
    BY OctetRange
  <2> QED
    BY <2>1, OrZero
<1> HIDE DEF b
<1>5. /\ DOMAIN b = 0 .. 23 /\ b[7] = Or(z[7], x)
      /\ \A j \in 0 .. 23 : j # 7 => b[j] = z[j]
  <2>1. 7 \in DOMAIN z
    BY <1>1
  <2>2. /\ DOMAIN b = DOMAIN z /\ b[7] = Or(z[7], x)
        /\ \A j \in DOMAIN z : j # 7 => b[j] = z[j]
    BY <1>3, <2>1, OrAtFacts
  <2> QED
    BY <1>1, <2>2
<1>6. /\ b[0] = 144 /\ b[7] = x /\ b[8] = 0
      /\ \A j \in 0 .. 23 : j \notin {0, 7, 8} => b[j] = 0
  BY <1>1, <1>4, <1>5
<1>7. e = info_frame(set_hop_count(set_priority(
              set_apci_four(set_length("Standard", b, 8 + 1), 1), p), 7))
  BY <1>2 DEF to_transport
<1>8. /\ DOMAIN e = 0 .. 7 + 1 /\ e = [j \in 0 .. 7 + 1 |-> e[j]]
      /\ e[0] = 144 + p * 4 /\ e[1] = ADDRESS \div 256 /\ e[2] = ADDRESS % 256
      /\ e[3] = Answered \div 256 /\ e[4] = Answered % 256 /\ e[5] = 240 + 1
      /\ e[6] = 0 /\ e[7] = 64 + x /\ e[8] = 0
  BY <1>5, <1>6, <1>7, ResponseBuffer, SMTT(30)
<1> QED
  BY <1>8

(* The buffer of a value of an octet: it has one octet more.               *)
LEMMA LongBuffer ==
  ASSUME NEW dp, NEW p \in 0 .. 3, dp.type = "U8", NEW e, e = info_frame(to_transport(dp, p))
  PROVE  /\ DOMAIN e = 0 .. 9 /\ e = [j \in 0 .. 9 |-> e[j]]
         /\ e[0] = 144 + p * 4 /\ e[1] = ADDRESS \div 256 /\ e[2] = ADDRESS % 256
         /\ e[3] = Answered \div 256 /\ e[4] = Answered % 256 /\ e[5] = 242
         /\ e[6] = 0 /\ e[7] = 64 + 0 /\ e[8] = dp.value /\ e[9] = 0
<1> DEFINE z == new(24)
           b == write(dp, z, 8)
<1>1. DOMAIN z = 0 .. 23 /\ z[0] = 144 /\ \A j \in 0 .. 23 : j # 0 => z[j] = 0
  BY NewFacts
<1>2. from_datapoint(dp) = set_length("Standard", b, 8 + 2)
  <2>1. byte_length(dp) = 1
    BY DEF byte_length
  <2>2. /\ MAX_FRAME_SIZE("Standard") = 24 /\ APCI_OFFSET("Standard") = 6
        /\ HEADER_LENGTH("Standard") = 7
    BY DEF MAX_FRAME_SIZE, APCI_OFFSET, HEADER_LENGTH, CTRL_OFFSET
  <2>3. 6 + 1 + 1 = 8 /\ 7 + 1 + 1 + 1 = 8 + 2
    OBVIOUS
  <2> HIDE DEF z
  <2> QED
    BY <2>1, <2>2, <2>3 DEF from_datapoint, z
<1> HIDE DEF z
<1>3. b = [z EXCEPT ![8] = dp.value]
  BY DEF write
<1> HIDE DEF b
<1>4. /\ DOMAIN b = 0 .. 23 /\ b[0] = 144 /\ b[7] = 0 /\ b[8] = dp.value
      /\ \A j \in 0 .. 23 : j \notin {0, 7, 8} => b[j] = 0
  BY <1>1, <1>3
<1>5. e = info_frame(set_hop_count(set_priority(
              set_apci_four(set_length("Standard", b, 8 + 2), 1), p), 7))
  BY <1>2 DEF to_transport
<1>6. /\ DOMAIN e = 0 .. 7 + 2 /\ e = [j \in 0 .. 7 + 2 |-> e[j]]
      /\ e[0] = 144 + p * 4 /\ e[1] = ADDRESS \div 256 /\ e[2] = ADDRESS % 256
      /\ e[3] = Answered \div 256 /\ e[4] = Answered % 256 /\ e[5] = 240 + 2
      /\ e[6] = 0 /\ e[7] = 64 + 0 /\ e[8] = dp.value /\ e[9] = 0
  BY <1>4, <1>5, ResponseBuffer
<1> QED
  BY <1>6

(* A value as it is transferred: in the octet of the APCI, or after it.     *)
Holds(dp, v, u) ==
    \/ dp.type = "B1" /\ v = dp.value % 2 /\ v \in 0 .. 3 /\ u = <<0, 64 + v>>
    \/ dp.type = "B2" /\ v = dp.value % 4 /\ v \in 0 .. 3 /\ u = <<0, 64 + v>>
    \/ dp.type = "U8" /\ v = dp.value /\ u = <<0, 64, v>>

(* What the device means by a response. *)
IsResponse(m, dp, p, v) ==
    /\ m.src = ADDRESS /\ m.group /\ m.dst = Answered /\ m.priority = p /\ m.hop = 7
    /\ Holds(dp, v, m.tpdu)

(* GroupReadResponse, through the layers, sends the value that is meant.   *)
LEMMA ResponseIsMeant ==
  ASSUME NEW dp, NEW p \in 0 .. 3, NEW v \in Octet,
         NEW m, InRange(m), IsResponse(m, dp, p, v),
         NEW r, Ctrl(m, r) = 144 + m.priority * 4
  PROVE  Sent(info_frame(to_transport(dp, p))) = Encoded("Standard", m, r)
<1>1. /\ m.src = ADDRESS /\ m.group /\ m.dst = Answered /\ m.priority = p /\ m.hop = 7
      /\ \/ dp.type = "B1" /\ v = dp.value % 2 /\ v \in 0 .. 3 /\ m.tpdu = <<0, 64 + v>>
         \/ dp.type = "B2" /\ v = dp.value % 4 /\ v \in 0 .. 3 /\ m.tpdu = <<0, 64 + v>>
         \/ dp.type = "U8" /\ v = dp.value /\ m.tpdu = <<0, 64, v>>
  BY DEF IsResponse, Holds
<1> USE <1>1
<1> DEFINE e == info_frame(to_transport(dp, p))
<1>2. Ctrl(m, r) = 144 + p * 4 /\ At(m) = 240
  BY DEF Ctrl, At
<1>3. CASE dp.type \in {"B1", "B2"}
  <2>1. v \in 0 .. 3 /\ m.tpdu = <<0, 64 + v>>
        /\ ((dp.type = "B1" /\ v = dp.value % 2) \/ (dp.type = "B2" /\ v = dp.value % 4))
    BY <1>3
  <2>2. /\ DOMAIN e = 0 .. 8 /\ e = [j \in 0 .. 8 |-> e[j]]
        /\ e[0] = 144 + p * 4 /\ e[1] = ADDRESS \div 256 /\ e[2] = ADDRESS % 256
        /\ e[3] = Answered \div 256 /\ e[4] = Answered % 256 /\ e[5] = 241
        /\ e[6] = 0 /\ e[7] = 64 + v /\ e[8] = 0
    BY <2>1, ShortBuffer
  <2> HIDE DEF e
  <2>3. Len(m.tpdu) = 2 /\ m.tpdu[1] = 0 /\ m.tpdu[2] = 64 + v
    BY <2>1
  <2>4. 6 + 2 = 8 /\ 5 + 1 = 6 /\ 5 + 2 = 7 /\ 240 + (2 - 1) = 241 /\ \A j \in 1 .. 2 : j = 1 \/ j = 2
    OBVIOUS
  <2>5. /\ DOMAIN e = 0 .. 6 + 2 /\ e = [j \in 0 .. 6 + 2 |-> e[j]]
        /\ e[5] = At(m) + (2 - 1) /\ (\A j \in 1 .. 2 : e[5 + j] = m.tpdu[j]) /\ e[6 + 2] = 0
    BY <1>2, <2>2, <2>3, <2>4
  <2>6. /\ e[0] = Ctrl(m, r) /\ e[1] = m.src \div 256 /\ e[2] = m.src % 256
        /\ e[3] = m.dst \div 256 /\ e[4] = m.dst % 256
    BY <1>2, <2>2
  <2>7. IsBuffer(m, r, 2, e)
    BY <2>5, <2>6, Zenon DEF IsBuffer
  <2>8. Sent(e) = Encoded("Standard", m, r)
    BY <2>3, <2>7, BufferIsEncoded
  <2> QED
    BY <2>8 DEF e
<1>4. CASE dp.type = "U8"
  <2>1. v = dp.value /\ m.tpdu = <<0, 64, v>>
    BY <1>4
  <2>2. /\ DOMAIN e = 0 .. 9 /\ e = [j \in 0 .. 9 |-> e[j]]
        /\ e[0] = 144 + p * 4 /\ e[1] = ADDRESS \div 256 /\ e[2] = ADDRESS % 256
        /\ e[3] = Answered \div 256 /\ e[4] = Answered % 256 /\ e[5] = 242
        /\ e[6] = 0 /\ e[7] = 64 + 0 /\ e[8] = v /\ e[9] = 0
    BY <1>4, <2>1, LongBuffer
  <2> HIDE DEF e
  <2>3. Len(m.tpdu) = 3 /\ m.tpdu[1] = 0 /\ m.tpdu[2] = 64 /\ m.tpdu[3] = v
    BY <2>1
  <2>4. /\ 6 + 3 = 9 /\ 5 + 1 = 6 /\ 5 + 2 = 7 /\ 5 + 3 = 8 /\ 240 + (3 - 1) = 242 /\ 64 + 0 = 64
        /\ \A j \in 1 .. 3 : j = 1 \/ j = 2 \/ j = 3
    OBVIOUS
  <2>5. /\ DOMAIN e = 0 .. 6 + 3 /\ e = [j \in 0 .. 6 + 3 |-> e[j]]
        /\ e[5] = At(m) + (3 - 1) /\ (\A j \in 1 .. 3 : e[5 + j] = m.tpdu[j]) /\ e[6 + 3] = 0
    BY <1>2, <2>2, <2>3, <2>4
  <2>6. /\ e[0] = Ctrl(m, r) /\ e[1] = m.src \div 256 /\ e[2] = m.src % 256
        /\ e[3] = m.dst \div 256 /\ e[4] = m.dst % 256
    BY <1>2, <2>2
  <2>7. IsBuffer(m, r, 3, e)
    BY <2>5, <2>6, Zenon DEF IsBuffer
  <2>8. Sent(e) = Encoded("Standard", m, r)
    BY <2>3, <2>7, BufferIsEncoded
  <2> QED
    BY <2>8 DEF e
<1> QED
  BY <1>3, <1>4

-----------------------------------------------------------------------------
(* What the environment puts in *)

(* An individual address has two octets.                                   *)
LEMMA AddressRange ==
  /\ \A a \in Individuals : a \in Nat /\ a < 256 * 256
  /\ ADDRESS \in Nat /\ ADDRESS < 256 * 256 /\ Answered \in Nat /\ Answered < 256 * 256
<1>1. \A a \in Individuals : a \in Nat /\ a < 256 * 256
  BY InputAssumption
<1>2. /\ ADDRESS \in Nat /\ ADDRESS < 256 * 256
      /\ Answered \in Nat /\ Answered < 256 * 256
  BY DEF ADDRESS, Answered
<1> QED
  BY <1>1, <1>2

(* TPDUs of one, two and three octets. *)
LEMMA ShortPayloads ==
  ASSUME NEW a \in Octet, NEW b \in Octet, NEW c \in Octet
  PROVE  <<a>> \in Payloads /\ <<a, b>> \in Payloads /\ <<a, b, c>> \in Payloads
<1>1. /\ <<a>> \in Seq(Octet) /\ Len(<<a>>) = 1
      /\ <<a, b>> \in Seq(Octet) /\ Len(<<a, b>>) = 2
      /\ <<a, b, c>> \in Seq(Octet) /\ Len(<<a, b, c>>) = 3
  OBVIOUS
<1>2. 1 \in 1 .. 16 /\ 2 \in 1 .. 16 /\ 3 \in 1 .. 16
  OBVIOUS
<1> QED
  BY <1>1, <1>2 DEF Payloads

(* What the other devices send is within what the lemmas are about.        *)
LEMMA TpdusArePayloads == \A u \in Tpdus : u \in Payloads
  BY InputAssumption, Zenon DEF Payloads

(* So are their headers. *)
LEMMA HeadersInRange == \A h \in Headers : h.priority \in 0 .. 3 /\ h.hop \in 0 .. 7
<1> SUFFICES ASSUME NEW h \in Headers
             PROVE  h.priority \in 0 .. 3 /\ h.hop \in 0 .. 7
  OBVIOUS
<1>1. h \in [priority : 0 .. 3, hop : 0 .. 7, repeated : BOOLEAN]
  BY InputAssumption, Zenon
<1> QED
  BY <1>1, Zenon

-----------------------------------------------------------------------------
(* What is sent is what is meant *)

(* The octets are those of a message, which is within the limits.          *)
Faithful(m, w, r) == InRange(m) /\ Proper(m) /\ w = Encoded("Standard", m, r)

(* A message by its fields. *)
Message(src, group, dst, p, h, u) ==
    [src |-> src, group |-> group, dst |-> dst, priority |-> p, hop |-> h, tpdu |-> u]

(* Its fields can be read back. *)
LEMMA MessageFields ==
  ASSUME NEW src, NEW group \in BOOLEAN, NEW dst, NEW p, NEW h, NEW u,
         NEW m, m = Message(src, group, dst, p, h, u)
  PROVE  /\ m.src = src /\ m.group = group /\ m.dst = dst
         /\ m.priority = p /\ m.hop = h /\ m.tpdu = u /\ Proper(m)
<1>1. /\ m.src = src /\ m.group = group /\ m.dst = dst
      /\ m.priority = p /\ m.hop = h /\ m.tpdu = u
  BY Zenon DEF Message
<1>2. m = [src |-> m.src, group |-> m.group, dst |-> m.dst,
           priority |-> m.priority, hop |-> m.hop, tpdu |-> m.tpdu]
  BY <1>1, Zenon DEF Message
<1> QED
  BY <1>1, <1>2, Zenon DEF Proper

(* It is within the limits if its fields are. *)
LEMMA MessageInRange ==
  ASSUME NEW src \in Nat, src < 256 * 256, NEW group \in BOOLEAN,
         NEW dst \in Nat, dst < 256 * 256,
         NEW p \in 0 .. 3, NEW h \in 0 .. 7, NEW u \in Payloads,
         NEW m, m = Message(src, group, dst, p, h, u)
  PROVE  InRange(m) /\ Proper(m)
<1>1. /\ m.src = src /\ m.group = group /\ m.dst = dst
      /\ m.priority = p /\ m.hop = h /\ m.tpdu = u /\ Proper(m)
  BY MessageFields
<1> QED
  BY <1>1, Zenon DEF InRange

(* What the device means by a response is within the limits. *)
LEMMA ResponseMessage ==
  ASSUME NEW dp, NEW p \in 0 .. 3, NEW v \in Octet, NEW u, Holds(dp, v, u),
         NEW g \in BOOLEAN, g, NEW h, h = 7,
         NEW m, m = Message(ADDRESS, g, Answered, p, h, u)
  PROVE  InRange(m) /\ Proper(m) /\ IsResponse(m, dp, p, v)
<1>1. u \in Payloads
  <2>1. 0 \in Octet /\ 64 \in Octet /\ \A x \in 0 .. 3 : 64 + x \in Octet
    BY OctetRange
  <2>2. (v \in 0 .. 3 /\ u = <<0, 64 + v>>) \/ u = <<0, 64, v>>
    BY DEF Holds
  <2>3. CASE v \in 0 .. 3 /\ u = <<0, 64 + v>>
    <3>1. 64 + v \in Octet
      BY <2>1, <2>3
    <3> QED
      BY <2>1, <2>3, <3>1, ShortPayloads
  <2>4. CASE u = <<0, 64, v>>
    BY <2>1, <2>4, ShortPayloads
  <2> QED
    BY <2>3, <2>4, <2>2
<1>2. /\ ADDRESS \in Nat /\ ADDRESS < 256 * 256
      /\ Answered \in Nat /\ Answered < 256 * 256
  BY AddressRange
<1>3. h \in 0 .. 7
  OBVIOUS
<1>4. InRange(m) /\ Proper(m)
  BY <1>1, <1>2, <1>3, MessageInRange, Zenon
<1>5. m.src = ADDRESS /\ m.group = g /\ m.dst = Answered /\ m.priority = p /\ m.hop = h
      /\ m.tpdu = u
  BY Zenon DEF Message
<1>6. IsResponse(m, dp, p, v)
  BY <1>5, Zenon DEF IsResponse
<1> QED
  BY <1>4, <1>6, Zenon

(* What it means by a frame of its connection is within the limits too. *)
LEMMA ControlMessage ==
  ASSUME NEW dst \in Individuals, NEW tpci \in {194, 129}, NEW seq \in 0 .. 7,
         tpci = 129 => seq = 0, NEW g \in BOOLEAN, ~g, NEW h, h = 7,
         NEW p, p = 0, NEW u, u = <<tpci + 4 * seq>>,
         NEW m, m = Message(ADDRESS, g, dst, p, h, u)
  PROVE  InRange(m) /\ Proper(m) /\ IsControl(m, dst, tpci, seq)
<1>1. u \in Payloads
  <2>1. tpci + 4 * seq \in Octet
    BY OctetRange
  <2> QED
    BY <2>1, ShortPayloads
<1>2. /\ ADDRESS \in Nat /\ ADDRESS < 256 * 256
      /\ dst \in Nat /\ dst < 256 * 256
  BY AddressRange
<1>3. h \in 0 .. 7 /\ p \in 0 .. 3
  OBVIOUS
<1>4. InRange(m) /\ Proper(m)
  BY <1>1, <1>2, <1>3, MessageInRange
<1>5. m.src = ADDRESS /\ m.group = g /\ m.dst = dst /\ m.priority = p /\ m.hop = h
      /\ m.tpdu = u
  BY Zenon DEF Message
<1>6. IsControl(m, dst, tpci, seq)
  BY <1>5, Zenon DEF IsControl
<1> QED
  BY <1>4, <1>6, Zenon

(* The flag of a repetition is set in what the device sends. *)
LEMMA FlagSet ==
  ASSUME NEW m, NEW r, r = TRUE
  PROVE  Ctrl(m, r) = 144 + m.priority * 4
<1>1. \A x : 144 + 0 + x = 144 + x
  OBVIOUS
<1> QED
  BY <1>1 DEF Ctrl

(* GroupReadResponse sends the value that it means. *)
LEMMA SendsResponseFaithfully ==
  ASSUME NEW p \in 0 .. 3, NEW dp, NEW x \in Octet,
         dp = B1(x) \/ dp = B2(x) \/ dp = U8(x),
         SendsResponse(dp, p)
  PROVE  Faithful(meant', sent', own')
<1> DEFINE v == CASE dp.type = "B1" -> dp.value % 2
                  [] dp.type = "B2" -> dp.value % 4
                  [] OTHER -> dp.value
           u == IF dp.type = "U8" THEN <<0, 64, v>> ELSE <<0, 64 + v>>
<1>1. /\ meant' = Message(ADDRESS, TRUE, Answered, p, 7, u)
      /\ sent' = Sent(info_frame(to_transport(dp, p)))
  BY Zenon DEF SendsResponse, Message
<1>2. own' = TRUE
  BY Zenon DEF SendsResponse
<1>3. v \in Octet /\ Holds(dp, v, u)
  <2>1. x % 2 \in 0 .. 3 /\ x % 4 \in 0 .. 3 /\ x % 2 \in Octet /\ x % 4 \in Octet
    BY OctetRange
  <2>2. CASE dp = B1(x)
    <3>1. dp.type = "B1" /\ dp.value = x
      BY <2>2 DEF B1
    <3> QED
      BY <2>1, <3>1 DEF Holds
  <2>3. CASE dp = B2(x)
    <3>1. dp.type = "B2" /\ dp.value = x
      BY <2>3 DEF B2
    <3> QED
      BY <2>1, <3>1 DEF Holds
  <2>4. CASE dp = U8(x)
    <3>1. dp.type = "U8" /\ dp.value = x
      BY <2>4 DEF U8
    <3> QED
      BY <3>1 DEF Holds
  <2> QED
    BY <2>2, <2>3, <2>4
<1> HIDE DEF u, v
<1>4. InRange(meant') /\ Proper(meant') /\ IsResponse(meant', dp, p, v)
  <2> DEFINE g == TRUE
             h == 7
  <2>1. g \in BOOLEAN /\ g /\ h = 7
    OBVIOUS
  <2>2. meant' = Message(ADDRESS, g, Answered, p, h, u)
    BY <1>1, Zenon
  <2> HIDE DEF g, h
  <2> QED
    BY <1>3, <2>1, <2>2, ResponseMessage
<1>5. Ctrl(meant', own') = 144 + meant'.priority * 4
  BY <1>2, FlagSet, Zenon
<1>6. Sent(info_frame(to_transport(dp, p))) = Encoded("Standard", meant', own')
  BY <1>3, <1>4, <1>5, ResponseIsMeant
<1> QED
  BY <1>1, <1>4, <1>6, Zenon DEF Faithful

(* send_response_frame sends the number that it means. *)
LEMMA SendsControlFaithfully ==
  ASSUME NEW dst \in Individuals, NEW tpci \in {194, 129}, NEW seq \in 0 .. 7,
         SendsControl(dst, tpci, seq)
  PROVE  Faithful(meant', sent', own')
<1> DEFINE u == <<tpci + 4 * seq>>
<1>1. /\ meant' = Message(ADDRESS, FALSE, dst, 0, 7, u)
      /\ sent' = Sent(response_frame(dst, seq, tpci))
  BY Zenon DEF SendsControl, Message
<1>2. own' = TRUE
  BY Zenon DEF SendsControl
<1>3. tpci = 129 => seq = 0
  BY DEF SendsControl
<1> HIDE DEF u
<1>4. InRange(meant') /\ Proper(meant') /\ IsControl(meant', dst, tpci, seq)
  <2> DEFINE g == FALSE
             p == 0
             h == 7
  <2>1. g \in BOOLEAN /\ ~g /\ p = 0 /\ h = 7 /\ u = <<tpci + 4 * seq>>
    BY DEF u
  <2>2. meant' = Message(ADDRESS, g, dst, p, h, u)
    BY <1>1, Zenon
  <2> HIDE DEF g, p, h
  <2> QED
    BY <1>3, <2>1, <2>2, ControlMessage
<1>5. Ctrl(meant', own') = 144 + meant'.priority * 4
  BY <1>2, FlagSet, ZenonT(30)
<1>6. dst \in Nat
  BY AddressRange
<1>7. Sent(response_frame(dst, seq, tpci)) = Encoded("Standard", meant', own')
  BY <1>3, <1>4, <1>5, <1>6, ControlIsMeant
<1> QED
  BY <1>1, <1>4, <1>7, Zenon DEF Faithful

(* A standard frame of another device. *)
LEMMA OtherSendsFaithfully ==
  ASSUME NEW h \in Headers, NEW src \in Individuals, NEW group \in BOOLEAN, NEW dst,
         (dst \in Individuals) \/ (dst \in {0, Answered}), NEW tpdu \in Tpdus,
         OtherSends("Standard", h, src, group, dst, tpdu)
  PROVE  Faithful(meant', sent', h.repeated)
<1>1. meant' = Message(src, group, dst, h.priority, h.hop, tpdu)
  BY Zenon DEF OtherSends, Message
<1>2. sent' = Encoded("Standard", meant', h.repeated)
  BY Zenon DEF OtherSends
<1>3. src \in Nat /\ src < 256 * 256
  BY AddressRange
<1>4. dst \in Nat /\ dst < 256 * 256
  BY AddressRange
<1>5. tpdu \in Payloads
  BY TpdusArePayloads
<1>6. h.priority \in 0 .. 3 /\ h.hop \in 0 .. 7
  BY HeadersInRange, Zenon
<1>7. InRange(meant') /\ Proper(meant')
  <2> DEFINE a == h.priority
             b == h.hop
  <2>1. meant' = Message(src, group, dst, a, b, tpdu)
    BY <1>1
  <2>2. a \in 0 .. 3 /\ b \in 0 .. 7
    BY <1>6
  <2> HIDE DEF a, b
  <2> QED
    BY <1>3, <1>4, <1>5, <2>1, <2>2, MessageInRange
<1> QED
  BY <1>2, <1>7, Zenon DEF Faithful

(* Nor is a frame accepted that has lost its last octet.                   *)
LEMMA WithoutLastIsRejected ==
  ASSUME NEW m, InRange(m), NEW r, NEW w, w = Encoded("Standard", m, r),
         NEW v, v = SubSeq(w, 1, Len(w) - 1)
  PROVE  v \in Seq(Octet) /\ Received(v).result # "Ok"
<1>1. /\ w \in Seq(Octet) /\ Len(w) \in 8 .. 23
      /\ Len(w) = (w[6] % 16) + 8 /\ FrameType(w[1]) = "Standard"
  BY FrameFacts
<1>2. \A n \in 8 .. 23 : /\ n - 1 \in 7 .. 24 /\ n - 1 # n /\ 1 <= n - 1 /\ n - 1 - 1 + 1 = n - 1
                         /\ 1 \in 1 .. n - 1 /\ 6 \in 1 .. n - 1 /\ 1 .. n - 1 \subseteq 1 .. n
                         /\ n \in Int /\ n - 1 \in Int
  OBVIOUS
<1> DEFINE n == Len(w)
           k == n - 1
<1>3. /\ n \in 8 .. 23 /\ k \in 7 .. 24 /\ k # n /\ 1 <= k /\ k - 1 + 1 = k
      /\ 1 \in 1 .. k /\ 6 \in 1 .. k /\ 1 .. k \subseteq 1 .. n /\ k \in Int
  BY <1>1, <1>2
<1>4. \A i \in 1 .. n : w[i] \in Octet
  BY <1>1, ElementOfSeq
<1> HIDE DEF k
<1>5. \A i \in 1 .. k : w[i] \in Octet
  BY <1>3, <1>4
<1>6. v = SubSeq(w, 1, k)
  BY DEF k
<1> HIDE DEF n
<1>7. /\ v \in Seq(Octet) /\ Len(v) = IF 1 <= k THEN k - 1 + 1 ELSE 0
      /\ \A i \in 1 .. k - 1 + 1 : v[i] = w[1 + i - 1]
  BY <1>3, <1>5, <1>6, SubSeqProperties, SMTT(30)
<1>8. Len(v) = k /\ v[1] = w[1] /\ v[6] = w[6]
  BY <1>3, <1>7
<1>9. v \in Seq(Octet) /\ Len(v) \in 7 .. 24 /\ Len(v) # Len(w)
  BY <1>3, <1>7, <1>8 DEF n
<1>10. FrameType(v[1]) = "Standard" /\ Len(v) # (v[6] % 16) + 8
  BY <1>1, <1>8, <1>9, Zenon
<1>11. Received(v).result # "Ok"
  BY <1>9, <1>10, WrongLengthIsRejected
<1> QED
  BY <1>7, <1>11

(* Nor one with an octet too many. *)
LEMMA WithOneMoreIsRejected ==
  ASSUME NEW m, InRange(m), NEW r, NEW w, w = Encoded("Standard", m, r),
         NEW b \in Octet
  PROVE  Append(w, b) \in Seq(Octet) /\ Received(Append(w, b)).result # "Ok"
<1> DEFINE v == Append(w, b)
<1>1. /\ w \in Seq(Octet) /\ Len(w) \in 8 .. 23
      /\ Len(w) = (w[6] % 16) + 8 /\ FrameType(w[1]) = "Standard"
  BY FrameFacts
<1>2. v \in Seq(Octet) /\ Len(v) = Len(w) + 1 /\ \A i \in 1 .. Len(w) : v[i] = w[i]
  BY <1>1, AppendProperties
<1> HIDE DEF v
<1>3. Len(v) \in 7 .. 24 /\ Len(v) # Len(w) /\ 1 \in 1 .. Len(w) /\ 6 \in 1 .. Len(w)
  <2>1. \A n \in 8 .. 23 : n + 1 \in 7 .. 24 /\ n + 1 # n /\ 1 \in 1 .. n /\ 6 \in 1 .. n
    OBVIOUS
  <2> QED
    BY <1>1, <1>2, <2>1
<1>4. v[1] = w[1] /\ v[6] = w[6]
  BY <1>2, <1>3
<1>5. v \in Seq(Octet) /\ Len(v) \in 7 .. 24 /\ Len(v) # Len(w)
  BY <1>2, <1>3
<1>6. Received(v).result # "Ok"
  <2>1. FrameType(v[1]) = "Standard" /\ Len(v) # (v[6] % 16) + 8
    BY <1>1, <1>4, <1>5, Zenon
  <2> QED
    BY <1>5, <2>1, WrongLengthIsRejected
<1> QED
  BY <1>2, <1>6 DEF v

-----------------------------------------------------------------------------
(* The invariant *)

(* The setters and getters disagree about the extended format, which only  *)
(* other devices would send.                                               *)
StandardOnly == "Extended" \notin Formats

(* A frame is damaged on the bus or not at all. *)
Flags ==
    /\ stage \in {"idle", "wire", "received"} /\ own \in BOOLEAN
    /\ damage \in {"none", "start", "rest"}
    /\ stage = "idle" => damage = "none"

(* What is sent is the encoding of what was meant, and stays so undamaged. *)
Intact ==
    /\ stage # "idle" => \E r \in BOOLEAN : Faithful(meant, sent, r)
    /\ damage = "none" => wire = sent

(* What was damaged will not be accepted, but for an end of it, even before *)
(* it is received.                                                          *)
Spoilt ==
    /\ damage # "none" => wire \in Seq(Octet)
    /\ damage = "rest" => Received(wire).result # "Ok"
    /\ damage = "start" /\ Received(wire).result = "Ok" => TailOf(wire, sent)

(* The result is that of the octets that are still on the bus. *)
Taken == stage = "received" => received = Received(wire)

(* With these, what is received is decided when it is sent or damaged. *)
IInv == /\ Flags
        /\ stage = "idle" => wire = <<>>
        /\ Intact /\ Spoilt /\ Taken

(* Nothing has been sent yet. *)
LEMMA InitInvariant == Init => IInv
<1> SUFFICES ASSUME Init
             PROVE  IInv
  OBVIOUS
<1>1. stage = "idle" /\ own = FALSE /\ damage = "none" /\ sent = <<>> /\ wire = <<>>
  BY Zenon DEF Init
<1>2. stage # "received" /\ damage # "start" /\ damage # "rest"
  BY <1>1
<1> QED
  BY <1>1, <1>2, Zenon DEF IInv, Flags, Intact, Spoilt, Taken

(* A frame that is sent is what is meant. *)
LEMMA SentInvariant ==
  ASSUME IInv, stage = "idle", stage' = "wire", own' \in BOOLEAN, damage' = damage,
         wire' = sent', NEW r \in BOOLEAN, Faithful(meant', sent', r)
  PROVE  IInv'
<1>1. damage' = "none"
  BY DEF IInv, Flags
<1>2. stage' # "idle" /\ stage' # "received" /\ damage' # "start" /\ damage' # "rest"
  BY <1>1
<1> QED
  BY <1>1, <1>2, Zenon DEF IInv, Flags, Intact, Spoilt, Taken

(* What is damaged is not accepted, but for an end of it. *)
LEMMA DamageInvariant ==
  ASSUME IInv, NEW w, NEW where \in {"start", "rest"}, Damage(w, where), w \in Seq(Octet),
         where = "rest" => Received(w).result # "Ok",
         where = "start" /\ Received(w).result = "Ok" => TailOf(w, sent)
  PROVE  IInv'
<1>1. /\ stage = "wire" /\ stage' = stage /\ own' = own /\ damage' = where /\ wire' = w
      /\ meant' = meant /\ sent' = sent
  BY Zenon DEF Damage
<1>2. stage' = "wire" /\ own' \in BOOLEAN
  BY <1>1, Zenon DEF IInv, Flags
<1>3. stage' # "received" /\ stage # "idle" /\ stage' # "idle" /\ damage' # "none"
  BY <1>1
<1>4. Flags'
  BY <1>1, <1>2, <1>3, Zenon DEF Flags
<1>5. Intact'
  BY <1>1, <1>3, Zenon DEF IInv, Intact
<1>6. Spoilt'
  BY <1>1, Zenon DEF Spoilt
<1> QED
  BY <1>2, <1>3, <1>4, <1>5, <1>6, Zenon DEF IInv, Taken

(* Each action keeps the invariant. *)
LEMMA NextInvariant ==
  ASSUME StandardOnly, IInv, [Next]_vars
  PROVE  IInv'
<1>1. ASSUME NEW p \in 0 .. 3, NEW dp, NEW x \in Octet,
             dp = B1(x) \/ dp = B2(x) \/ dp = U8(x), SendsResponse(dp, p)
      PROVE  IInv'
  <2>1. /\ stage = "idle" /\ stage' = "wire" /\ own' = TRUE /\ damage' = damage
        /\ wire' = sent'
    BY <1>1, Zenon DEF SendsResponse
  <2>2. Faithful(meant', sent', own')
    BY <1>1, SendsResponseFaithfully
  <2> QED
    BY <2>1, <2>2, SentInvariant, Zenon
<1>2. ASSUME NEW dst \in Individuals, NEW tpci \in {194, 129}, NEW seq \in 0 .. 7,
             SendsControl(dst, tpci, seq)
      PROVE  IInv'
  <2>1. /\ stage = "idle" /\ stage' = "wire" /\ own' = TRUE /\ damage' = damage
        /\ wire' = sent'
    BY <1>2, Zenon DEF SendsControl
  <2>2. Faithful(meant', sent', own')
    BY <1>2, SendsControlFaithfully
  <2> QED
    BY <2>1, <2>2, SentInvariant, Zenon
<1>3. ASSUME NEW F \in Formats, NEW h \in Headers, NEW src \in Individuals,
             NEW group \in BOOLEAN, NEW dst,
             (dst \in Individuals) \/ (dst \in {0, Answered}), NEW tpdu \in Tpdus,
             OtherSends(F, h, src, group, dst, tpdu)
      PROVE  IInv'
  <2>1. /\ stage = "idle" /\ stage' = "wire" /\ own' = FALSE /\ damage' = damage
        /\ wire' = sent'
    BY <1>3, Zenon DEF OtherSends
  <2>2. F = "Standard"
    BY InputAssumption, Zenon DEF StandardOnly
  <2>3. OtherSends("Standard", h, src, group, dst, tpdu)
    BY <1>3, <2>2, Zenon
  <2>4. Faithful(meant', sent', h.repeated)
    BY <1>3, <2>3, OtherSendsFaithfully
  <2>5. h.repeated \in BOOLEAN
    <3>1. h \in [priority : 0 .. 3, hop : 0 .. 7, repeated : BOOLEAN]
      BY InputAssumption, Zenon
    <3> QED
      BY <3>1, Zenon
  <2> QED
    BY <2>1, <2>4, <2>5, SentInvariant, Zenon
<1>4. ASSUME NEW w, NEW where, Damage(w, where)
      PROVE  /\ stage = "wire" /\ damage = "none" /\ wire = sent
             /\ \E r : InRange(meant) /\ sent = Encoded("Standard", meant, r)
  <2>1. stage = "wire" /\ damage = "none"
    BY <1>4, Zenon DEF Damage
  <2>2. stage # "idle"
    BY <2>1
  <2> QED
    BY <2>1, <2>2, Zenon DEF IInv, Intact, Faithful
<1>5. CASE AltersOctet
  <2>1. PICK i \in DOMAIN wire, k \in Masks :
           Damage([wire EXCEPT ![i] = Xor(@, k)], IF i = 1 THEN "start" ELSE "rest")
    BY <1>5, Zenon DEF AltersOctet
  <2> DEFINE v == [wire EXCEPT ![i] = Xor(@, k)]
             where == IF i = 1 THEN "start" ELSE "rest"
  <2>2. Damage(v, where)
    BY <2>1, Zenon
  <2>3. wire = sent
    BY <1>4, <2>2
  <2>4. PICK r : InRange(meant) /\ sent = Encoded("Standard", meant, r)
    BY <1>4, <2>2
  <2>5. k \in Octet \ {0}
    BY InputAssumption, Zenon
  <2>6. Altered(v, sent, i, k) /\ i \in DOMAIN sent
    BY <2>3, Zenon DEF Altered
  <2>7. CASE i = 1
    <3>1. v \in Seq(Octet) /\ (Received(v).result = "Ok" => TailOf(v, sent))
      <4> HIDE DEF v
      <4> QED
        BY <2>4, <2>5, <2>6, <2>7, AlteredStart, Zenon
    <3>2. where = "start" /\ where # "rest"
      BY <2>7
    <3> HIDE DEF v, where
    <3> QED
      BY <2>2, <3>1, <3>2, DamageInvariant, Zenon
  <2>8. CASE i # 1
    <3>1. v \in Seq(Octet) /\ Received(v).result # "Ok"
      <4> HIDE DEF v
      <4> QED
        BY <2>4, <2>5, <2>6, <2>8, AlteredIsRejected, Zenon
    <3>2. where = "rest" /\ where # "start"
      BY <2>8
    <3> HIDE DEF v, where
    <3> QED
      BY <2>2, <3>1, <3>2, DamageInvariant, Zenon
  <2> QED
    BY <2>7, <2>8
<1>6. CASE LosesFirst
  <2> DEFINE v == Tail(wire)
             where == "start"
  <2>1. Damage(v, where)
    BY <1>6 DEF LosesFirst
  <2>2. PICK r : InRange(meant) /\ sent = Encoded("Standard", meant, r)
    BY <1>4, <2>1
  <2>3. v = Tail(sent)
    BY <1>4, <2>1
  <2>4. v \in Seq(Octet) /\ (Received(v).result = "Ok" => TailOf(v, sent))
    BY <2>2, <2>3, WithoutFirstOctet
  <2>5. where \in {"start", "rest"} /\ where # "rest"
    OBVIOUS
  <2> HIDE DEF v, where
  <2> QED
    BY <2>1, <2>4, <2>5, DamageInvariant, Zenon
<1>7. CASE LosesLast
  <2> DEFINE v == SubSeq(wire, 1, Len(wire) - 1)
             where == "rest"
  <2>1. Damage(v, where)
    BY <1>7 DEF LosesLast
  <2>2. PICK r : InRange(meant) /\ sent = Encoded("Standard", meant, r)
    BY <1>4, <2>1
  <2>3. v = SubSeq(sent, 1, Len(sent) - 1)
    BY <1>4, <2>1
  <2>4. v \in Seq(Octet) /\ Received(v).result # "Ok"
    BY <2>2, <2>3, WithoutLastIsRejected
  <2>5. where \in {"start", "rest"} /\ where # "start"
    OBVIOUS
  <2> HIDE DEF v, where
  <2> QED
    BY <2>1, <2>4, <2>5, DamageInvariant, Zenon
<1>8. CASE GainsOctet
  <2>1. PICK b \in {0, 139} : Damage(Append(wire, b), "rest")
    BY <1>8 DEF GainsOctet
  <2> DEFINE v == Append(wire, b)
             where == "rest"
  <2>2. Damage(v, where)
    BY <2>1
  <2>3. PICK r : InRange(meant) /\ sent = Encoded("Standard", meant, r)
    BY <1>4, <2>2
  <2>4. v = Append(sent, b)
    BY <1>4, <2>2
  <2>5. b \in Octet
    BY OctetRange
  <2>6. v \in Seq(Octet) /\ Received(v).result # "Ok"
    BY <2>3, <2>4, <2>5, WithOneMoreIsRejected
  <2>7. where \in {"start", "rest"} /\ where # "start"
    OBVIOUS
  <2> HIDE DEF v, where
  <2> QED
    BY <2>2, <2>6, <2>7, DamageInvariant, SMTT(30)
<1>9. CASE Receives
  <2>1. /\ stage = "wire" /\ stage' = "received" /\ received' = Received(wire)
        /\ own' = own /\ damage' = damage /\ meant' = meant /\ sent' = sent /\ wire' = wire
    BY <1>9, Zenon DEF Receives
  <2>2. stage # "idle" /\ stage' # "idle"
    BY <2>1
  <2>3. Flags'
    BY <2>1, <2>2, Zenon DEF IInv, Flags
  <2>4. Intact' /\ Spoilt' /\ Taken'
    BY <2>1, <2>2, Zenon DEF IInv, Intact, Spoilt, Taken
  <2> QED
    BY <2>2, <2>3, <2>4, Zenon DEF IInv
<1>10. CASE UNCHANGED vars
  BY <1>10, Zenon DEF vars, IInv, Flags, Intact, Spoilt, Taken
<1>11. \A n \in {0, 1, 2, 3, 127, 255} : n \in Octet
  BY OctetRange
<1>12. CASE \E p \in 0 .. 3 :
              \/ \E v \in {0, 1} : SendsResponse(B1(v), p)
              \/ \E v \in {0, 1, 2, 3, 255} : SendsResponse(B2(v), p)
              \/ \E v \in {0, 1, 127, 255} : SendsResponse(U8(v), p)
  <2>1. PICK p \in 0 .. 3 :
              \/ \E v \in {0, 1} : SendsResponse(B1(v), p)
              \/ \E v \in {0, 1, 2, 3, 255} : SendsResponse(B2(v), p)
              \/ \E v \in {0, 1, 127, 255} : SendsResponse(U8(v), p)
    BY <1>12
  <2>2. CASE \E v \in {0, 1} : SendsResponse(B1(v), p)
    BY <1>1, <1>11, <2>2
  <2>3. CASE \E v \in {0, 1, 2, 3, 255} : SendsResponse(B2(v), p)
    BY <1>1, <1>11, <2>3
  <2>4. CASE \E v \in {0, 1, 127, 255} : SendsResponse(U8(v), p)
    BY <1>1, <1>11, <2>4
  <2> QED
    BY <2>1, <2>2, <2>3, <2>4
<1>13. CASE \E dst \in Individuals, tpci \in {194, 129}, seq \in 0 .. 7 :
               SendsControl(dst, tpci, seq)
  BY <1>2, <1>13
<1>14. CASE \E F \in Formats, h \in Headers, src \in Individuals, tpdu \in Tpdus :
              \/ \E dst \in Individuals : OtherSends(F, h, src, FALSE, dst, tpdu)
              \/ \E dst \in {0, Answered} : OtherSends(F, h, src, TRUE, dst, tpdu)
  BY <1>3, <1>14, Zenon
<1> QED
  BY <1>5, <1>6, <1>7, <1>8, <1>9, <1>10, <1>12, <1>13, <1>14, Zenon DEF Next

(* Every state is within the invariant. *)
LEMMA Invariant ==
  ASSUME StandardOnly
  PROVE  Spec => []IInv
<1>1. Init => IInv
  BY InitInvariant
<1>2. IInv /\ [Next]_vars => IInv'
  BY NextInvariant
<1> QED
  BY <1>1, <1>2, PTL DEF Spec

-----------------------------------------------------------------------------
(* The theorems *)

(* What receive_frame_int hands on from an undamaged frame.                *)
LEMMA ReceivedFrame ==
  ASSUME NEW m, NEW w, NEW r, Faithful(m, w, r)
  PROVE  /\ w \in Seq(Octet)
         /\ Received(w).result = "Ok" /\ Received(w).format = "Standard"
         /\ Fields("Standard", Received(w).data) = m
         /\ Cardinality(DOMAIN Received(w).data) = length("Standard", Received(w).data)
         /\ tpci_eight("Standard", Received(w).data) = m.tpdu[1]
         /\ Len(m.tpdu) > 1 => Received(w).data[APCI_OFFSET("Standard") + 1] = m.tpdu[2]
<1> DEFINE d == [i \in 0 .. Len(w) - 1 |-> w[i + 1]]
<1>1. InRange(m) /\ Proper(m) /\ w = Encoded("Standard", m, r)
  BY Zenon DEF Faithful
<1>2. Received(w) = [result |-> "Ok", format |-> "Standard", data |-> d]
  BY <1>1, FrameArrives
<1>3. w \in Seq(Octet)
  BY <1>1, FrameFacts
<1>4. d = [i \in 0 .. Len(w) - 1 |-> w[i + 1]]
  OBVIOUS
<1> HIDE DEF d
<1>5. Carries(d, m, r)
  BY <1>1, <1>4, BufferFacts
<1>6. /\ Fields("Standard", d) = m
      /\ Cardinality(DOMAIN d) = length("Standard", d)
      /\ tpci_eight("Standard", d) = m.tpdu[1]
      /\ Len(m.tpdu) > 1 => d[APCI_OFFSET("Standard") + 1] = m.tpdu[2]
  BY <1>1, <1>5, FieldsAreMeant, Zenon
<1>7. Received(w).result = "Ok" /\ Received(w).format = "Standard" /\ Received(w).data = d
  BY <1>2
<1> QED
  BY <1>3, <1>6, <1>7, Zenon

(* What the device puts on the bus is what the standard says for what it   *)
(* means, whatever formats the other devices use.                          *)
THEOREM DeviceSendsWhatIsMeant == Spec => []SendsWhatIsMeant
<1>1. Init => SendsWhatIsMeant
  BY Zenon DEF Init, SendsWhatIsMeant
<1>2. SendsWhatIsMeant /\ [Next]_vars => SendsWhatIsMeant'
  <2> SUFFICES ASSUME SendsWhatIsMeant, [Next]_vars
               PROVE  SendsWhatIsMeant'
    OBVIOUS
  <2>1. ASSUME Faithful(meant', sent', own'), own' = TRUE
        PROVE  SendsWhatIsMeant'
    BY <2>1, Zenon DEF Faithful, SendsWhatIsMeant
  <2>2. ASSUME NEW p \in 0 .. 3, NEW dp, NEW x \in Octet,
               dp = B1(x) \/ dp = B2(x) \/ dp = U8(x), SendsResponse(dp, p)
        PROVE  SendsWhatIsMeant'
    <3>1. Faithful(meant', sent', own')
      BY <2>2, SendsResponseFaithfully
    <3>2. own' = TRUE
      BY <2>2, Zenon DEF SendsResponse
    <3> QED
      BY <2>1, <3>1, <3>2
  <2>3. CASE \E dst \in Individuals, tpci \in {194, 129}, seq \in 0 .. 7 :
                SendsControl(dst, tpci, seq)
    <3>1. Faithful(meant', sent', own')
      BY <2>3, SendsControlFaithfully
    <3>2. own' = TRUE
      BY <2>3, Zenon DEF SendsControl
    <3> QED
      BY <2>1, <3>1, <3>2
  <2>4. ASSUME NEW F, NEW h, NEW src, NEW group, NEW dst, NEW tpdu,
               OtherSends(F, h, src, group, dst, tpdu)
        PROVE  SendsWhatIsMeant'
    BY <2>4, Zenon DEF OtherSends, SendsWhatIsMeant
  <2>5. ASSUME NEW w, NEW where, Damage(w, where)
        PROVE  SendsWhatIsMeant'
    BY <2>5, Zenon DEF Damage, SendsWhatIsMeant
  <2>6. CASE Receives
    <3>1. stage' # "wire"
      BY <2>6 DEF Receives
    <3> QED
      BY <3>1, Zenon DEF SendsWhatIsMeant
  <2>7. CASE UNCHANGED vars
    BY <2>7, Zenon DEF vars, SendsWhatIsMeant
  <2>8. \A n \in {0, 1, 2, 3, 127, 255} : n \in Octet
    BY OctetRange
  <2>9. CASE \E p \in 0 .. 3 :
                \/ \E v \in {0, 1} : SendsResponse(B1(v), p)
                \/ \E v \in {0, 1, 2, 3, 255} : SendsResponse(B2(v), p)
                \/ \E v \in {0, 1, 127, 255} : SendsResponse(U8(v), p)
    <3>1. PICK p \in 0 .. 3 :
                \/ \E v \in {0, 1} : SendsResponse(B1(v), p)
                \/ \E v \in {0, 1, 2, 3, 255} : SendsResponse(B2(v), p)
                \/ \E v \in {0, 1, 127, 255} : SendsResponse(U8(v), p)
      BY <2>9
    <3>2. CASE \E v \in {0, 1} : SendsResponse(B1(v), p)
      BY <2>2, <2>8, <3>2
    <3>3. CASE \E v \in {0, 1, 2, 3, 255} : SendsResponse(B2(v), p)
      BY <2>2, <2>8, <3>3
    <3>4. CASE \E v \in {0, 1, 127, 255} : SendsResponse(U8(v), p)
      BY <2>2, <2>8, <3>4
    <3> QED
      BY <3>1, <3>2, <3>3, <3>4
  <2>10. CASE AltersOctet \/ LosesFirst \/ LosesLast \/ GainsOctet
    BY <2>5, <2>10, Zenon DEF AltersOctet, LosesFirst, LosesLast, GainsOctet
  <2>11. CASE \E F \in Formats, h \in Headers, src \in Individuals, tpdu \in Tpdus :
                \/ \E dst \in Individuals : OtherSends(F, h, src, FALSE, dst, tpdu)
                \/ \E dst \in {0, Answered} : OtherSends(F, h, src, TRUE, dst, tpdu)
    BY <2>4, <2>11, Zenon
  <2> QED
    BY <2>3, <2>6, <2>7, <2>9, <2>10, <2>11, Zenon DEF Next
<1> QED
  BY <1>1, <1>2, PTL DEF Spec

(* What is accepted of an end keeps its octets, but for the length of the  *)
(* extended format, which is written although it is there.                 *)
LEMMA AcceptedOctets ==
  ASSUME NEW u \in Seq(Octet), Len(u) \in 8 .. 23, NEW F \in {"Standard", "Extended"},
         receive_frame(F, u).result = "Ok"
  PROVE  /\ receive_frame(F, u).format = F
         /\ DOMAIN receive_frame(F, u).data = 0 .. Len(u) - 1
         /\ Cardinality(DOMAIN receive_frame(F, u).data) = Len(u)
         /\ \A i \in 0 .. Len(u) - 1 :
               receive_frame(F, u).data[i] = u[i + 1] \/ (F = "Extended" /\ i = LG_FIELD)
<1> DEFINE n == Len(u)
           k == MAX_FRAME_SIZE(F)
           d == [i \in 0 .. k - 1 |-> IF i < n THEN u[i + 1] ELSE 0]
<1>1. \A x \in 8 .. 23 : /\ x \in Nat /\ 0 \in Int /\ x - 1 \in Int /\ 0 <= x - 1
                         /\ x - 1 - 0 + 1 = x /\ x <= 24 /\ x < 263
                         /\ 5 \in 0 .. x - 1 /\ \A i \in 0 .. x - 1 : i \in 0 .. 262 /\ i < x
  OBVIOUS
<1>2. n \in 8 .. 23 /\ Len(u) <= 24
  BY <1>1
<1>3. Cardinality(0 .. n - 1) = n
  <2> HIDE DEF n
  <2> QED
    BY <1>1, <1>2, FS_Interval
<1>4. CASE F = "Standard"
  <2>1. Len(u) = (u[6] % 16) + 8 /\ Parity(u) = 255
    BY <1>2, <1>4, AcceptedFacts
  <2> DEFINE e == [i \in 0 .. Len(u) - 1 |-> u[i + 1]]
  <2>2. receive_frame(F, u) = [result |-> "Ok", format |-> "Standard", data |-> e]
    BY <1>4, <2>1, StandardAccepted
  <2>3. DOMAIN e = 0 .. n - 1 /\ \A i \in 0 .. n - 1 : e[i] = u[i + 1]
    OBVIOUS
  <2> HIDE DEF e
  <2>4. receive_frame(F, u).format = F /\ receive_frame(F, u).data = e
    BY <1>4, <2>2
  <2> QED
    BY <1>3, <2>3, <2>4
<1>5. CASE F = "Extended"
  <2>1. k = 263
    BY <1>5 DEF MAX_FRAME_SIZE
  <2>2. (IF Len(u) < MAX_FRAME_SIZE(F) THEN Len(u) ELSE MAX_FRAME_SIZE(F)) = n
    <3>1. n < k
      BY <1>1, <1>2, <2>1
    <3> QED
      BY <3>1
  <2> DEFINE e == set_length(F, d, n)
  <2>3. receive_frame(F, u).format = F /\ receive_frame(F, u).data = e
    BY <2>2 DEF receive_frame, Failed
  <2>4. \E x : e = Resized([d EXCEPT ![5] = x], n)
    BY <1>5 DEF set_length, LG_FIELD
  <2>5. PICK x : e = Resized([d EXCEPT ![5] = x], n)
    BY <2>4
  <2> HIDE DEF e
  <2>6. DOMAIN e = 0 .. n - 1
    BY <2>5 DEF Resized
  <2>7. ASSUME NEW i \in 0 .. n - 1, i # 5
        PROVE  e[i] = u[i + 1]
    <3>1. i \in 0 .. k - 1 /\ i < n
      <4>1. k - 1 = 262
        BY <2>1
      <4> HIDE DEF n, k
      <4> QED
        BY <1>1, <1>2, <4>1
    <3>2. i \in DOMAIN [d EXCEPT ![5] = x] /\ [d EXCEPT ![5] = x][i] = u[i + 1]
      BY <2>7, <3>1
    <3> QED
      BY <2>5, <3>2 DEF Resized
  <2> QED
    BY <1>3, <1>5, <2>3, <2>6, <2>7 DEF LG_FIELD
<1> QED
  BY <1>4, <1>5

(* So do the octets of an end of what was sent.                            *)
LEMMA TailOctets ==
  ASSUME NEW w \in Seq(Octet), Len(w) \in 8 .. 23, NEW v, TailOf(v, w)
  PROVE  \E s \in 4 .. Len(w) :
            /\ Len(w) - s + 1 >= 8
            /\ Parity(SubSeq(w, 1, s - 1)) = 0
            /\ Cardinality(DOMAIN Received(v).data) = Len(w) - s + 1
            /\ \A i \in DOMAIN Received(v).data :
                  Received(v).data[i] = w[s + i]
                      \/ (Received(v).format = "Extended" /\ i = LG_FIELD)
            /\ Received(v).format = "Standard" =>
                  Cardinality(DOMAIN Received(v).data) = length("Standard", Received(v).data)
<1>1. PICK s \in 4 .. Len(w) :
         /\ TailAccepted(w, s)
         /\ Received(v) = receive_frame(FrameType(w[s]), SubSeq(w, s, Len(w)))
  BY Zenon DEF TailOf
<1> DEFINE n == Len(w)
           u == SubSeq(w, s, n)
           F == FrameType(w[s])
           d == Received(v).data
<1>2. /\ n - s + 1 >= 8 /\ u \in Seq(Octet) /\ Len(u) = n - s + 1
      /\ \A i \in 1 .. n - s + 1 : u[i] = w[s + i - 1]
      /\ Parity(SubSeq(w, 1, s - 1)) = 0
      /\ F \in {"Standard", "Extended"} /\ receive_frame(F, u).result = "Ok"
  BY <1>1, Zenon DEF TailAccepted
<1>3. s \in 4 .. n /\ n \in 8 .. 23
  OBVIOUS
<1>4. Received(v) = receive_frame(F, u)
  BY <1>1
<1> HIDE DEF u, F, n
<1>5. Len(u) \in 8 .. 23
  BY <1>2, <1>3
<1>6. /\ receive_frame(F, u).format = F
      /\ DOMAIN receive_frame(F, u).data = 0 .. Len(u) - 1
      /\ Cardinality(DOMAIN receive_frame(F, u).data) = Len(u)
      /\ \A i \in 0 .. Len(u) - 1 :
            receive_frame(F, u).data[i] = u[i + 1] \/ (F = "Extended" /\ i = LG_FIELD)
  BY <1>2, <1>5, AcceptedOctets
<1>7. /\ Received(v).format = F /\ DOMAIN d = 0 .. Len(u) - 1 /\ Cardinality(DOMAIN d) = Len(u)
      /\ \A i \in 0 .. Len(u) - 1 : d[i] = u[i + 1] \/ (F = "Extended" /\ i = LG_FIELD)
  BY <1>4, <1>6, Zenon
<1> HIDE DEF d
<1>8. ASSUME NEW i \in DOMAIN d
      PROVE  d[i] = w[s + i] \/ (F = "Extended" /\ i = LG_FIELD)
  <2>1. i \in 0 .. Len(u) - 1 /\ i + 1 \in 1 .. n - s + 1 /\ s + (i + 1) - 1 = s + i
    BY <1>2, <1>3, <1>5, <1>7
  <2>2. u[i + 1] = w[s + (i + 1) - 1]
    BY <1>2, <2>1
  <2> QED
    BY <1>7, <2>1, <2>2
<1>9. ASSUME F = "Standard"
      PROVE  Cardinality(DOMAIN d) = length("Standard", d)
  <2> DEFINE x == Len(u)
  <2>0. x \in 8 .. 23
    BY <1>5
  <2> HIDE DEF x
  <2>1. x <= 24 /\ 5 \in 0 .. x - 1 /\ 5 + 1 = 6 /\ 6 \in 1 .. x
    BY <2>0
  <2>2. Len(u) = (u[6] % 16) + 8
    BY <1>2, <1>9, <2>1, AcceptedFacts DEF x
  <2>3. 5 \in 0 .. Len(u) - 1 /\ 5 + 1 = 6 /\ 6 \in 1 .. Len(u)
    BY <2>1 DEF x
  <2>4. d[5] = u[6]
    <3>1. F # "Extended"
      BY <1>9
    <3> QED
      BY <1>7, <2>3, <3>1
  <2>5. u[6] \in Nat
    BY <1>2, <2>3, ElementOfSeq, OctetRange
  <2>6. LengthSum("Standard", d) = (d[5] % 16) + 7 + 1
    BY DEF LengthSum, LG_FIELD, HEADER_LENGTH, CTRL_OFFSET
  <2>7. \A y \in Nat : ((y % 16) + 7 + 1) % 256 = (y % 16) + 8
    OBVIOUS
  <2>8. length("Standard", d) = (u[6] % 16) + 8
    BY <2>4, <2>5, <2>6, <2>7 DEF length
  <2> QED
    BY <1>7, <2>2, <2>8
<1> QED
  BY <1>2, <1>3, <1>7, <1>8, <1>9, Zenon DEF d, n

(* What the bus holds, where something has been sent.                      *)
LEMMA SentFacts ==
  ASSUME IInv, stage = "received"
  PROVE  /\ received = Received(wire)
         /\ sent \in Seq(Octet) /\ Len(sent) \in 8 .. 23 /\ Len(sent) = 7 + Len(meant.tpdu)
         /\ Len(meant.tpdu) \in 1 .. 16
<1>1. stage # "idle"
  OBVIOUS
<1>2. PICK r \in BOOLEAN : Faithful(meant, sent, r)
  BY <1>1, Zenon DEF IInv, Intact
<1>3. InRange(meant) /\ sent = Encoded("Standard", meant, r)
  BY <1>2, Zenon DEF Faithful
<1>4. sent \in Seq(Octet) /\ Len(sent) \in 8 .. 23
  BY <1>3, FrameFacts
<1>5. Len(sent) = 7 + Len(meant.tpdu) /\ Len(meant.tpdu) \in 1 .. 16
  BY <1>3, EncodedFacts
<1>6. received = Received(wire)
  BY Zenon DEF IInv, Taken
<1> QED
  BY <1>4, <1>5, <1>6

(* Octets stay octets, and the buffer of a standard frame is as long as its *)
(* length field says, even when it is an end of a damaged frame.            *)
THEOREM TypeCorrect ==
  ASSUME StandardOnly
  PROVE  Spec => []TypeOK
<1>1. IInv => TypeOK
  <2> SUFFICES ASSUME IInv
               PROVE  TypeOK
    OBVIOUS
  <2>1. /\ stage \in {"idle", "wire", "received"} /\ own \in BOOLEAN
        /\ damage \in {"none", "start", "rest"}
        /\ stage = "idle" => wire = <<>>
    BY Zenon DEF IInv, Flags
  <2>2. Intact /\ Spoilt /\ Taken
    BY Zenon DEF IInv
  <2>3. wire \in Seq(Octet)
    <3>1. CASE stage = "idle"
      <4>1. wire = <<>>
        BY <2>1, <3>1, Zenon
      <4> QED
        BY <4>1
    <3>2. CASE damage # "none"
      BY <2>2, <3>2, Zenon DEF Spoilt
    <3>3. CASE stage # "idle" /\ damage = "none"
      <4>1. wire = sent /\ \E r \in BOOLEAN : Faithful(meant, sent, r)
        BY <2>2, <3>3, Zenon DEF Intact
      <4> QED
        BY <4>1, ReceivedFrame, Zenon
    <3> QED
      BY <3>1, <3>2, <3>3, Zenon
  <2>4. \A i \in DOMAIN wire : wire[i] \in Octet
    BY <2>3, LenProperties, ElementOfSeq
  <2>5. ASSUME Arrived, received.format = "Standard"
        PROVE  Cardinality(DOMAIN received.data) = length("Standard", received.data)
    <3>1. stage = "received" /\ received = Received(wire) /\ Received(wire).result = "Ok"
      BY <2>2, <2>5, Zenon DEF Arrived, Taken
    <3>2. damage # "rest"
      BY <2>2, <3>1, Zenon DEF Spoilt
    <3>3. CASE damage = "none"
      <4>1. stage # "idle"
        BY <3>1
      <4>2. wire = sent /\ \E r \in BOOLEAN : Faithful(meant, sent, r)
        BY <2>2, <3>3, <4>1, Zenon DEF Intact
      <4>3. Cardinality(DOMAIN Received(wire).data) = length("Standard", Received(wire).data)
        BY <4>2, ReceivedFrame, Zenon
      <4> QED
        BY <3>1, <4>3, Zenon
    <3>4. CASE damage = "start"
      <4>1. TailOf(wire, sent)
        BY <2>2, <3>1, <3>4, Zenon DEF Spoilt
      <4>2. sent \in Seq(Octet) /\ Len(sent) \in 8 .. 23
        BY <3>1, SentFacts
      <4>3. Received(wire).format = "Standard" =>
               Cardinality(DOMAIN Received(wire).data) = length("Standard", Received(wire).data)
        BY <4>1, <4>2, TailOctets, Zenon
      <4> QED
        BY <2>5, <3>1, <4>3, Zenon
    <3>5. damage \in {"none", "start", "rest"}
      BY <2>1, Zenon
    <3> QED
      BY <3>2, <3>3, <3>4, <3>5
  <2> DEFINE T == Cardinality(DOMAIN received.data) = length("Standard", received.data)
  <2>6. Arrived /\ received.format = "Standard" => T
    BY <2>5, Zenon
  <2> HIDE DEF T
  <2>7. /\ stage \in {"idle", "wire", "received"} /\ own \in BOOLEAN
        /\ damage \in {"none", "start", "rest"}
    BY <2>1, Zenon
  <2> QED
    BY <2>4, <2>6, <2>7, Zenon DEF TypeOK, T
<1> QED
  BY <1>1, Invariant, PTL

(* Every field of an undamaged standard frame is read as its sender meant  *)
(* it, for all addresses, priorities, hop counts and TPDUs.                *)
THEOREM FramesMakeTheRoundTrip ==
  ASSUME StandardOnly
  PROVE  Spec => []RoundTrip
<1>1. IInv => RoundTrip
  <2> SUFFICES ASSUME IInv, stage = "received", damage = "none"
               PROVE  Arrived /\ Fields(received.format, received.data) = meant
    BY Zenon DEF RoundTrip
  <2>1. wire = sent /\ \E r \in BOOLEAN : Faithful(meant, sent, r)
    <3>1. stage # "idle"
      OBVIOUS
    <3> QED
      BY <3>1, Zenon DEF IInv, Intact
  <2>2. received = Received(wire)
    BY Zenon DEF IInv, Taken
  <2>3. /\ Received(wire).result = "Ok" /\ Received(wire).format = "Standard"
        /\ Fields("Standard", Received(wire).data) = meant
    BY <2>1, ReceivedFrame, Zenon
  <2> QED
    BY <2>2, <2>3, Zenon DEF Arrived
<1> QED
  BY <1>1, Invariant, PTL

(* One octet altered by any mask, one lost at either end or one too many:  *)
(* the checks of receive_frame_int leave none of these frames through,     *)
(* whatever octets they hold, unless the damage is to the first octet of   *)
(* one with four octets of TPDU or more.                                   *)
THEOREM DamageIsSeen ==
  ASSUME StandardOnly
  PROVE  Spec => []DamagedIsRejected
<1>1. IInv => DamagedIsRejected
  <2> SUFFICES ASSUME IInv, Arrived
               PROVE  /\ damage # "rest"
                      /\ damage = "start" => ~(Len(meant.tpdu) < 4)
    BY Zenon DEF DamagedIsRejected
  <2>1. stage = "received" /\ received.result = "Ok"
    BY Zenon DEF Arrived
  <2>2. received = Received(wire) /\ sent \in Seq(Octet) /\ Len(sent) \in 8 .. 23
        /\ Len(sent) = 7 + Len(meant.tpdu) /\ Len(meant.tpdu) \in 1 .. 16
    BY <2>1, SentFacts
  <2>3. damage # "rest"
    BY <2>1, <2>2, Zenon DEF IInv, Spoilt
  <2>4. ASSUME damage = "start"
        PROVE  ~(Len(meant.tpdu) < 4)
    <3>1. TailOf(wire, sent)
      BY <2>1, <2>2, <2>4, Zenon DEF IInv, Spoilt
    <3>2. \E s \in 4 .. Len(sent) : Len(sent) - s + 1 >= 8
      BY <2>2, <3>1, TailOctets, Zenon
    <3> QED
      BY <2>2, <3>2
  <2> QED
    BY <2>3, <2>4
<1> QED
  BY <1>1, Invariant, PTL

(* What is accepted of a frame whose first octet was damaged is an end of  *)
(* it, octet for octet, and what is skipped cancels out in the checksum.   *)
THEOREM OnlyTailsAreAccepted ==
  ASSUME StandardOnly
  PROVE  Spec => []OnlyTailsPass
<1>1. IInv => OnlyTailsPass
  <2> SUFFICES ASSUME IInv, Arrived, damage = "start"
               PROVE  \E s \in 4 .. Len(sent) :
                        /\ Parity(SubSeq(sent, 1, s - 1)) = 0
                        /\ Cardinality(DOMAIN received.data) = Len(sent) - s + 1
                        /\ \A i \in DOMAIN received.data :
                              received.data[i] = sent[s + i]
                                  \/ (received.format = "Extended" /\ i = LG_FIELD)
    BY Zenon DEF OnlyTailsPass
  <2>1. stage = "received" /\ received.result = "Ok"
    BY Zenon DEF Arrived
  <2>2. received = Received(wire) /\ sent \in Seq(Octet) /\ Len(sent) \in 8 .. 23
    BY <2>1, SentFacts
  <2>3. TailOf(wire, sent)
    BY <2>1, <2>2, Zenon DEF IInv, Spoilt
  <2> QED
    BY <2>2, <2>3, TailOctets, Zenon
<1> QED
  BY <1>1, Invariant, PTL

(* What the layers take an undamaged frame for is what the standard says.  *)
THEOREM FramesAreUnderstood ==
  ASSUME StandardOnly
  PROVE  Spec => []Understood
<1>1. IInv => Understood
  <2> SUFFICES ASSUME IInv, Arrived, damage = "none", meant.group => Len(meant.tpdu) > 1
               PROVE  Class(Fields(received.format, received.data).group,
                            Fields(received.format, received.data).dst,
                            tpci_eight(received.format, received.data),
                            received.data[APCI_OFFSET(received.format) + 1]) = Expected(meant)
    BY Zenon DEF Understood
  <2>1. stage = "received" /\ received = Received(wire)
    BY Zenon DEF Arrived, IInv, Taken
  <2>2. wire = sent /\ \E r \in BOOLEAN : Faithful(meant, sent, r)
    <3>1. stage # "idle"
      BY <2>1
    <3> QED
      BY <3>1, Zenon DEF IInv, Intact
  <2> DEFINE d == Received(wire).data
             a == d[APCI_OFFSET("Standard") + 1]
  <2>3. /\ Received(wire).format = "Standard" /\ Fields("Standard", d) = meant
        /\ tpci_eight("Standard", d) = meant.tpdu[1]
        /\ Len(meant.tpdu) > 1 => a = meant.tpdu[2]
    BY <2>2, ReceivedFrame, Zenon
  <2> HIDE DEF a
  <2>4. meant.tpdu[1] \in Octet /\ (Len(meant.tpdu) > 1 => meant.tpdu[2] \in Octet)
    <3>1. meant.tpdu \in Payloads
      BY <2>2, Zenon DEF Faithful, InRange
    <3>2. meant.tpdu \in Seq(Octet) /\ Len(meant.tpdu) \in 1 .. 16
      BY <3>1, PayloadFacts
    <3> QED
      BY <3>2, ElementOfSeq
  <2>5. Class(meant.group, meant.dst, meant.tpdu[1], a) = Expected(meant)
    BY <2>3, <2>4, ClassIsExpected
  <2> QED
    BY <2>1, <2>3, <2>5, Zenon DEF a
<1> QED
  BY <1>1, Invariant, PTL

=============================================================================
