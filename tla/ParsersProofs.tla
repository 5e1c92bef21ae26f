---------------------------- MODULE ParsersProofs ----------------------------
(***************************************************************************)
(* Proofs about the functions without state, for inputs of every size: the *)
(* frame codec, the search for a JSON field and its value, the two forms   *)
(* of a timestamp, parse_url and the latency percentiles.                  *)
(***************************************************************************)
EXTENDS Parsers, FiniteSetTheorems, TLAPS

(***************************************************************************)
(* The frame codec.                                                        *)
(***************************************************************************)

(* Dividing off a byte and putting it back.                                *)
LEMMA ByteSplit ==
  ASSUME NEW x \in Nat
  PROVE  /\ x \div 256 \in Nat /\ x % 256 \in 0 .. 255
         /\ 256 * (x \div 256) + (x % 256) = x
OBVIOUS

(* The shifts of a length, one byte at a time.                             *)
LEMMA ShiftedSteps ==
  ASSUME NEW len \in Nat
  PROVE  /\ Shifted(len)[0] = len
         /\ \A n \in 1 .. 7 : Shifted(len)[n] = Shifted(len)[n - 1] \div 256
<1> DEFINE F(g) == [n \in 0 .. 7 |-> IF n = 0 THEN len ELSE g[n - 1] \div 256]
           w1 == len \div 256
           w2 == w1 \div 256
           w3 == w2 \div 256
           w4 == w3 \div 256
           w5 == w4 \div 256
           w6 == w5 \div 256
           w7 == w6 \div 256
           g0 == [n \in 0 .. 7 |->
                    IF n = 0 THEN len ELSE << w1, w2, w3, w4, w5, w6, w7 >>[n]]
<1>1. g0 = F(g0)
  <2> HIDE DEF w1, w2, w3, w4, w5, w6, w7
  <2>1. ASSUME NEW n \in 0 .. 7
        PROVE  g0[n] = IF n = 0 THEN len ELSE g0[n - 1] \div 256
    BY DEF w1, w2, w3, w4, w5, w6, w7
  <2> QED
    BY <2>1
<1> HIDE DEF g0
<1>2. \E g : g = F(g)
  BY <1>1
<1>3. Shifted(len) = CHOOSE g : g = F(g)
  BY DEF Shifted
<1>4. Shifted(len) = F(Shifted(len))
  <2> HIDE DEF F
  <2> QED
    BY <1>2, <1>3, Zenon
<1> QED
  BY <1>4

(* What is left of a length after n shifts is a number, and a byte put     *)
(* back gives what was left before.                                        *)
LEMMA ShiftedBytes ==
  ASSUME NEW len \in Nat
  PROVE  /\ \A n \in 0 .. 7 : Shifted(len)[n] \in Nat
         /\ \A n \in 1 .. 7 : 256 * Shifted(len)[n] + (Shifted(len)[n - 1] % 256)
                                = Shifted(len)[n - 1]
<1> DEFINE s == Shifted(len)
<1>1. s[0] \in Nat /\ \A n \in 1 .. 7 : s[n] = s[n - 1] \div 256
  BY ShiftedSteps
<1> HIDE DEF s
<1>2. \A n \in 1 .. 7 : s[n - 1] \in Nat => s[n] \in Nat
  BY <1>1, ByteSplit
<1>3. s[1] \in Nat /\ s[2] \in Nat /\ s[3] \in Nat
  BY <1>1, <1>2
<1>4. s[4] \in Nat /\ s[5] \in Nat /\ s[6] \in Nat /\ s[7] \in Nat
  BY <1>2, <1>3
<1>5. \A n \in 0 .. 7 : s[n] \in Nat
  BY <1>1, <1>3, <1>4
<1>6. \A n \in 1 .. 7 : 256 * s[n] + (s[n - 1] % 256) = s[n - 1]
  BY <1>1, <1>5, ByteSplit
<1> QED
  BY <1>5, <1>6 DEF s

(* ntohs and __builtin_bswap64 undo the byte order of an extended length   *)
(* that fits its two or eight bytes.                                       *)
LEMMA BigEndianBack ==
  ASSUME NEW len \in Nat, NEW n \in {2, 8}, Shifted(len)[n - 1] < 256
  PROVE  FromBigEndian(BigEndian(n, len)) = len
<1> DEFINE s == Shifted(len)
           bytes == BigEndian(n, len)
           F(g) == [k \in 0 .. n |-> IF k = 0 THEN 0 ELSE 256 * g[k - 1] + bytes[k]]
           left == [k \in 0 .. n |-> IF k = 0 THEN 0 ELSE s[n - k]]
           value == CHOOSE g : g = F(g)
<1>0. n \in 2 .. 8 /\ n - 1 \in 0 .. 7 /\ n - n = 0
  OBVIOUS
<1>1. \A k \in 1 .. 7 : 256 * s[k] + (s[k - 1] % 256) = s[k - 1]
  BY ShiftedBytes
<1>a. \A k \in 0 .. 7 : s[k] \in Nat
  BY ShiftedBytes
<1>b. s[n - n] = len
  BY <1>0, ShiftedSteps
<1>c. s[n - 1] \in 0 .. 255
  <2>1. PICK m \in 0 .. 7 : m = n - 1
    BY <1>0
  <2>2. s[m] \in Nat /\ s[m] < 256
    BY <1>a, <2>1
  <2> QED
    BY <2>1, <2>2
<1>2. Len(bytes) = n /\ \A k \in 1 .. n : bytes[k] = s[n - k] % 256
  BY DEF BigEndian
<1>3. FromBigEndian(bytes) = value[n]
  BY <1>2 DEF FromBigEndian
<1> HIDE DEF s, bytes
<1>4. ASSUME NEW k \in 1 .. n
      PROVE  left[k] = 256 * left[k - 1] + bytes[k]
  <2>1. CASE k = 1
    <3>1. s[n - 1] % 256 = s[n - 1]
      BY <1>c
    <3>2. left[1] = s[n - 1] /\ left[0] = 0 /\ bytes[1] = s[n - 1] % 256
      BY <1>0, <1>2
    <3> HIDE DEF left
    <3>3. left[1] = 256 * left[0] + bytes[1]
      BY <3>1, <3>2, <1>c
    <3>4. k - 1 = 0
      BY <2>1
    <3> QED
      BY <2>1, <3>3, <3>4
  <2>2. CASE k > 1
    <3>1. n - k + 1 \in 1 .. 7 /\ (n - k + 1) - 1 = n - k /\ n - (k - 1) = n - k + 1
      BY <2>2
    <3>2. 256 * s[n - k + 1] + (s[n - k] % 256) = s[n - k]
      BY <3>1, <1>1
    <3>3. left[k] = s[n - k] /\ left[k - 1] = s[n - k + 1]
      BY <2>2, <3>1
    <3> QED
      BY <3>2, <3>3, <1>2
  <2> QED
    BY <2>1, <2>2
<1>5. left = F(left)
  <2>1. \A k \in 0 .. n : left[k] = F(left)[k]
    <3>1. left[0] = F(left)[0]
      BY <1>0
    <3>2. \A k \in 1 .. n : F(left)[k] = 256 * left[k - 1] + bytes[k]
      <4> HIDE DEF left
      <4> QED
        BY <1>0
    <3> HIDE DEF F, left
    <3>3. \A k \in 1 .. n : left[k] = F(left)[k]
      BY <1>4, <3>2
    <3> QED
      BY <3>1, <3>3, <1>0
  <2> HIDE DEF F
  <2>2. F(left) = [k \in 0 .. n |-> F(left)[k]]
    BY DEF F
  <2> QED
    BY <2>1, <2>2
<1> HIDE DEF left
<1>6. \E g : g = F(g)
  BY <1>5
<1>7. value = F(value)
  BY <1>6, Zenon
<1> HIDE DEF value
<1>8. value[0] = left[0] /\ \A k \in 1 .. n : value[k - 1] = left[k - 1] => value[k] = left[k]
  <2>1. left[0] = 0
    BY <1>0 DEF left
  <2>2. value[0] = 0 /\ \A k \in 1 .. n : value[k] = 256 * value[k - 1] + bytes[k]
    BY <1>0, <1>7
  <2> QED
    BY <2>1, <2>2, <1>4
<1>9. value[1] = left[1] /\ value[2] = left[2]
  BY <1>8
<1>10. value[n] = left[n]
  <2>1. CASE n = 2
    BY <2>1, <1>9
  <2>2. CASE n = 8
    <3>1. value[3] = left[3] /\ value[4] = left[4] /\ value[5] = left[5]
      BY <2>2, <1>8, <1>9
    <3>2. value[6] = left[6] /\ value[7] = left[7] /\ value[8] = left[8]
      BY <2>2, <3>1, <1>8
    <3> QED
      BY <2>2, <3>2
  <2> QED
    BY <2>1, <2>2
<1>11. left[n] = len
  <2>1. left[n] = s[n - n]
    BY <1>0 DEF left
  <2> QED
    BY <2>1, <1>b
<1> QED
  BY <1>3, <1>10, <1>11 DEF bytes

(* Sequences of the same elements are the same.                            *)
LEMMA SameSeq ==
  ASSUME NEW S, NEW a \in Seq(S), NEW b \in Seq(S), Len(a) = Len(b),
         \A i \in 1 .. Len(a) : a[i] = b[i]
  PROVE  a = b
OBVIOUS

(* How many bytes an extended length takes, and what announces them.       *)
Extended(len) == IF len < 126 THEN 0 ELSE IF len < 65536 THEN 2 ELSE 8
Code(len) == IF len < 126 THEN len ELSE IF len < 65536 THEN 126 ELSE 127

(* An extended length is a sequence of as many numbers.                    *)
LEMMA BigEndianSeq ==
  ASSUME NEW len \in Nat, NEW n \in 0 .. 8
  PROVE  BigEndian(n, len) \in Seq(Nat) /\ Len(BigEndian(n, len)) = n
<1> DEFINE b == BigEndian(n, len)
<1>1. \A k \in 1 .. n : b[k] \in Nat
  <2> SUFFICES ASSUME NEW k \in 1 .. n PROVE b[k] \in Nat
    OBVIOUS
  <2>1. n - k \in 0 .. 7
    OBVIOUS
  <2>2. PICK x \in Nat : x = Shifted(len)[n - k]
    BY <2>1, ShiftedBytes
  <2>3. b[k] = x % 256
    BY <2>2 DEF BigEndian
  <2> QED
    BY <2>2, <2>3, ByteSplit
<1>2. b = [k \in 1 .. n |-> b[k]]
  BY DEF BigEndian
<1> HIDE DEF b
<1>3. b \in [1 .. n -> Nat]
  BY <1>1, <1>2
<1>4. b \in Seq(Nat) /\ Len(b) = n
  BY <1>3
<1> QED
  BY <1>4 DEF b

(* A sequence put behind one element.                                      *)
LEMMA HeadAndTail ==
  ASSUME NEW x \in Nat, NEW b \in Seq(Nat)
  PROVE  Head(<< x >> \o b) = x /\ Tail(<< x >> \o b) = b
<1>1. << x >> \o b \in Seq(Nat) /\ Len(<< x >> \o b) = 1 + Len(b)
  OBVIOUS
<1>2. Head(<< x >> \o b) = x
  OBVIOUS
<1>3. PICK t \in Seq(Nat) : t = Tail(<< x >> \o b)
  BY <1>1
<1>4. Len(t) = Len(b) /\ \A i \in 1 .. Len(b) : t[i] = b[i]
  BY <1>1, <1>3
<1>5. t = b
  BY <1>4, SameSeq
<1> QED
  BY <1>2, <1>3, <1>5

(* The length field: its first byte, and the extended length behind it.    *)
LEMMA LengthFieldShape ==
  ASSUME NEW len \in Nat
  PROVE  /\ Head(LengthField(len)) = Code(len)
         /\ Tail(LengthField(len)) = BigEndian(Extended(len), len)
<1>1. CASE len < 126
  <2>1. LengthField(len) = << len >>
    BY <1>1 DEF LengthField
  <2>2. BigEndian(0, len) \in Seq(Nat) /\ Len(BigEndian(0, len)) = 0
    BY BigEndianSeq
  <2>3. BigEndian(0, len) = << >>
    BY <2>2
  <2> QED
    BY <1>1, <2>1, <2>3 DEF Code, Extended
<1>2. CASE len >= 126 /\ len < 65536
  <2>1. LengthField(len) = << 126 >> \o BigEndian(2, len)
    BY <1>2 DEF LengthField
  <2>2. PICK b \in Seq(Nat) : b = BigEndian(2, len) /\ Len(b) = 2
    BY BigEndianSeq
  <2>3. Head(<< 126 >> \o b) = 126 /\ Tail(<< 126 >> \o b) = b
    BY HeadAndTail
  <2> QED
    BY <1>2, <2>1, <2>2, <2>3 DEF Code, Extended
<1>3. CASE len >= 65536
  <2>1. LengthField(len) = << 127 >> \o BigEndian(8, len)
    BY <1>3 DEF LengthField
  <2>2. PICK b \in Seq(Nat) : b = BigEndian(8, len) /\ Len(b) = 8
    BY BigEndianSeq
  <2>3. Head(<< 127 >> \o b) = 127 /\ Tail(<< 127 >> \o b) = b
    BY HeadAndTail
  <2> QED
    BY <1>3, <2>1, <2>2, <2>3 DEF Code, Extended
<1> QED
  BY <1>1, <1>2, <1>3

(* The header: what its first two bytes are, where the extended length is, *)
(* and how long it is.                                                     *)
LEMMA HeaderShape ==
  ASSUME NEW f \in Frames
  PROVE  LET h == FrameHeader(f)
             n == Extended(f.payload_len)
         IN  /\ h \in Seq(Nat)
             /\ Len(h) = 2 + n + (IF f.mask THEN 4 ELSE 0)
             /\ h[1] = 128 + f.opcode
             /\ h[2] = (IF f.mask THEN 128 ELSE 0) + Code(f.payload_len)
             /\ SubSeq(h, 3, 2 + n) = BigEndian(n, f.payload_len)
<1> DEFINE h == FrameHeader(f)
           len == f.payload_len
           n == Extended(len)
           bit == IF f.mask THEN 128 ELSE 0
<1>1. len \in Nat /\ f.opcode \in 0 .. 15 /\ f.mask \in BOOLEAN
  BY OpcodeAssumption, LenAssumption, Zenon DEF Frames
<1>2. n \in 0 .. 8 /\ Code(len) \in 0 .. 127
  BY <1>1 DEF Extended, Code
<1>3. PICK b \in Seq(Nat) : b = BigEndian(n, len) /\ Len(b) = n
  BY <1>1, <1>2, BigEndianSeq, Zenon
<1>4. PICK key \in Seq(Nat) : /\ key = (IF f.mask THEN MaskingKey ELSE << >>)
                              /\ Len(key) = (IF f.mask THEN 4 ELSE 0)
  <2>1. CASE f.mask
    <3>1. MaskingKey \in Seq(Nat) /\ Len(MaskingKey) = 4
      BY DEF MaskingKey
    <3> QED
      BY <2>1, <3>1
  <2>2. CASE ~f.mask
    <3>1. << >> \in Seq(Nat) /\ Len(<< >>) = 0
      OBVIOUS
    <3>2. /\ << >> = (IF f.mask THEN MaskingKey ELSE << >>)
          /\ 0 = (IF f.mask THEN 4 ELSE 0)
      BY <2>2, Zenon
    <3> QED
      BY <3>1, <3>2, Zenon
  <2> QED
    BY <2>1, <2>2
<1>5. PICK x \in Nat, y \in Nat : x = 128 + f.opcode /\ y = bit + Code(len)
  <2>1. 128 + f.opcode \in Nat /\ Code(len) \in Nat
    <3>1. PICK o \in 0 .. 15 : o = f.opcode
      BY <1>1
    <3>2. 128 + o \in Nat
      OBVIOUS
    <3>3. Code(len) \in Nat
      BY <1>1 DEF Code
    <3> QED
      BY <3>1, <3>2, <3>3
  <2>2. bit \in Nat
    OBVIOUS
  <2>3. bit + Code(len) \in Nat
    BY <2>1, <2>2
  <2> QED
    BY <2>1, <2>3
<1>6. h = (<< x, y >> \o b) \o key
  BY <1>1, <1>3, <1>4, <1>5, LengthFieldShape, Zenon DEF FrameHeader
<1> HIDE DEF h, n, bit
<1>7. /\ h \in Seq(Nat) /\ Len(h) = 2 + n + Len(key)
      /\ h[1] = x /\ h[2] = y
      /\ \A i \in 1 .. n : h[2 + i] = b[i]
  <2>1. PICK c \in Seq(Nat) : /\ c = << x, y >> \o b /\ Len(c) = 2 + n /\ c[1] = x /\ c[2] = y
                              /\ \A i \in 1 .. n : c[2 + i] = b[i]
    <3>1. << x, y >> \in Seq(Nat) /\ Len(<< x, y >>) = 2
      OBVIOUS
    <3>2. /\ << x, y >> \o b \in Seq(Nat) /\ Len(<< x, y >> \o b) = 2 + Len(b)
          /\ (<< x, y >> \o b)[1] = x /\ (<< x, y >> \o b)[2] = y
      BY <3>1
    <3>3. \A i \in 1 .. Len(b) : (<< x, y >> \o b)[2 + i] = b[i]
      BY <3>1
    <3> QED
      BY <3>2, <3>3, <1>3, Zenon
  <2>2. h = c \o key
    BY <2>1, <1>6
  <2>3. h \in Seq(Nat) /\ Len(h) = Len(c) + Len(key) /\ \A i \in 1 .. Len(c) : h[i] = c[i]
    BY <2>2
  <2>4. h[1] = c[1] /\ h[2] = c[2]
    BY <2>1, <2>3, <1>2
  <2>5. ASSUME NEW i \in 1 .. n PROVE h[2 + i] = b[i]
    <3>1. 2 + i \in 1 .. Len(c)
      BY <2>1, <1>2
    <3> QED
      BY <3>1, <2>1, <2>3, Zenon
  <2> QED
    BY <2>1, <2>3, <2>4, <2>5
<1>8. SubSeq(h, 3, 2 + n) = b
  <2>1. SubSeq(h, 3, 2 + n) \in Seq(Nat) /\ Len(SubSeq(h, 3, 2 + n)) = n
    BY <1>2, <1>7
  <2>2. \A i \in 1 .. n : SubSeq(h, 3, 2 + n)[i] = b[i]
    BY <1>2, <1>7
  <2> QED
    BY <2>1, <2>2, <1>3, SameSeq, Zenon
<1> QED
  BY <1>3, <1>4, <1>5, <1>7, <1>8 DEF h, n, bit

(* What neon_parse_ws_frame makes of the first m bytes of a frame and what *)
(* follows it: an error below two bytes, a frame as soon as all of it is   *)
(* there, and else it waits.                                               *)
LEMMA ParseFrame ==
  ASSUME NEW f \in Frames, NEW m \in Nat
  PROVE  LET h == FrameHeader(f)
         IN  neon_parse_ws_frame(SubSeq(h, 1, IF m < Len(h) THEN m ELSE Len(h)), m) =
               IF m < 2 THEN Error
               ELSE IF m < FrameSize(f) THEN NeedMore
               ELSE [result |-> 0, opcode |-> f.opcode, mask |-> f.mask,
                     payload_len |-> f.payload_len, header_size |-> Len(h)]
<1> DEFINE h == FrameHeader(f)
           cut == IF m < Len(h) THEN m ELSE Len(h)
           data == SubSeq(h, 1, cut)
           code == data[2] % 128
           extended == CASE code = 126 -> 2 [] code = 127 -> 8 [] OTHER -> 0
           mask == data[2] \div 128 = 1
           header == 2 + extended + (IF mask THEN 4 ELSE 0)
           payload_len == IF extended = 0 THEN code
                          ELSE FromBigEndian(SubSeq(data, 3, 2 + extended))
           found == [result |-> 0, opcode |-> data[1] % 16, mask |-> mask,
                     payload_len |-> payload_len, header_size |-> header]
           known == [result |-> 0, opcode |-> f.opcode, mask |-> f.mask,
                     payload_len |-> f.payload_len, header_size |-> Len(h)]
           wanted == IF m < 2 THEN Error ELSE IF m < FrameSize(f) THEN NeedMore ELSE known
<1> SUFFICES neon_parse_ws_frame(data, m) = wanted
  OBVIOUS
<1> HIDE DEF known
<1>1. neon_parse_ws_frame(data, m) =
        CASE m < 2 -> Error
          [] m >= 2 /\ m < 2 + extended -> NeedMore
          [] m >= 2 + extended /\ m < header -> NeedMore
          [] m >= header /\ m < header + payload_len -> NeedMore
          [] OTHER -> found
  BY DEF neon_parse_ws_frame
<1>2. f.mask \in BOOLEAN /\ FrameSize(f) = Len(h) + f.payload_len
  BY DEF Frames, FrameSize
<1>3. PICK len \in Nat, o \in 0 .. 15 : len = f.payload_len /\ o = f.opcode
  BY OpcodeAssumption, LenAssumption, Zenon DEF Frames
<1>4. PICK n \in {0, 2, 8}, c \in 0 .. 127 : n = Extended(len) /\ c = Code(len)
  BY DEF Extended, Code
<1>5. PICK bit \in {0, 128}, k \in {0, 4} :
        bit = (IF f.mask THEN 128 ELSE 0) /\ k = (IF f.mask THEN 4 ELSE 0)
  OBVIOUS
<1>6. /\ h \in Seq(Nat) /\ Len(h) = 2 + n + k
      /\ h[1] = 128 + o /\ h[2] = bit + c
      /\ SubSeq(h, 3, 2 + n) = BigEndian(n, len)
  BY <1>3, <1>4, <1>5, HeaderShape, Zenon
<1>9. PICK size \in Nat : size = Len(h) /\ size >= 2 + n /\ size >= 2
  <2>1. 2 + n + k \in Nat /\ 2 + n + k >= 2 + n /\ 2 + n + k >= 2
    OBVIOUS
  <2>2. Len(h) = 2 + n + k
    BY <1>6
  <2> HIDE DEF h
  <2> QED
    BY <2>1, <2>2
<1> HIDE DEF h
<1>7. CASE m < 2
  <2> HIDE DEF data, code, payload_len, found
  <2>1. extended \in {0, 2, 8}
    OBVIOUS
  <2> HIDE DEF extended, mask
  <2>2. header \in Nat /\ header >= 2
    BY <2>1
  <2> HIDE DEF header
  <2>3. neon_parse_ws_frame(data, m) = Error
    BY <2>1, <2>2, <1>1, <1>7
  <2> QED
    BY <2>3, <1>7
<1>8. CASE m >= 2
  <2>1. cut \in 2 .. Len(h)
    <3>1. cut = IF m < size THEN m ELSE size
      BY <1>9
    <3> HIDE DEF cut
    <3>2. cut \in 2 .. size
      BY <3>1, <1>8, <1>9
    <3> QED
      BY <3>2, <1>9
  <2>2. data \in Seq(Nat) /\ Len(data) = cut /\ \A i \in 1 .. cut : data[i] = h[i]
    <3> HIDE DEF cut
    <3> QED
      BY <2>1, <1>6
  <2>3. data[1] = 128 + o /\ data[2] = bit + c
    <3> HIDE DEF cut, data
    <3> QED
      BY <2>1, <2>2, <1>6
  <2> HIDE DEF data
  <2>4. code = c /\ data[1] % 16 = o
    BY <2>3, <1>5
  <2>5. mask = f.mask
    <3>1. mask <=> bit = 128
      BY <2>3, <1>5
    <3>2. f.mask <=> bit = 128
      BY <1>5
    <3> QED
      BY <3>1, <3>2, <1>2
  <2> HIDE DEF code, mask
  <2>6. extended = n
    BY <2>4, <1>4 DEF Extended, Code
  <2> HIDE DEF extended
  <2>7. header = Len(h)
    BY <2>5, <2>6, <1>5, <1>6
  <2> HIDE DEF header
  <2>8. CASE m < Len(h)
    <3> HIDE DEF payload_len, found
    <3>1. neon_parse_ws_frame(data, m) = NeedMore
      BY <1>1, <1>4, <1>8, <2>6, <2>7, <2>8
    <3>2. m < FrameSize(f)
      <4>1. m < size + len
        BY <1>9, <2>8
      <4> QED
        BY <4>1, <1>2, <1>3, <1>9
    <3> QED
      BY <3>1, <3>2, <1>8
  <2>9. CASE m >= Len(h)
    <3>1. data = h
      <4>1. cut = Len(h)
        BY <2>9, <1>6
      <4> QED
        BY <4>1, <2>2, <1>6, SameSeq
    <3>2. payload_len = len
      <4>1. CASE n = 0
        BY <4>1, <2>4, <2>6, <1>4 DEF Extended, Code
      <4>2. CASE n = 2
        <5>1. len < 65536
          BY <4>2, <1>4 DEF Extended
        <5>2. Shifted(len)[1] < 256
          <6>1. Shifted(len)[1] = len \div 256
            BY ShiftedSteps
          <6> QED
            BY <6>1, <5>1
        <5>3. FromBigEndian(BigEndian(2, len)) = len
          BY <5>2, BigEndianBack
        <5>4. SubSeq(data, 3, 2 + extended) = BigEndian(2, len)
          BY <4>2, <3>1, <2>6, <1>6
        <5>5. extended # 0
          BY <4>2, <2>6
        <5> QED
          BY <5>3, <5>4, <5>5, Zenon
      <4>3. CASE n = 8
        <5>1. Shifted(len)[7] < 256
          <6>1. len \in PayloadLens
            BY <1>3 DEF Frames
          <6>2. Shifted(len)[7] < 128 /\ Shifted(len)[7] \in Nat
            BY <6>1, LenFits, ShiftedBytes
          <6> QED
            BY <6>2
        <5>2. FromBigEndian(BigEndian(8, len)) = len
          BY <5>1, BigEndianBack
        <5>3. SubSeq(data, 3, 2 + extended) = BigEndian(8, len)
          BY <4>3, <3>1, <2>6, <1>6
        <5>4. extended # 0
          BY <4>3, <2>6
        <5> QED
          BY <5>2, <5>3, <5>4, Zenon
      <4> QED
        BY <4>1, <4>2, <4>3, <1>4
    <3> HIDE DEF payload_len
    <3>3. found = known
      BY <3>2, <2>4, <2>5, <2>7, <1>3 DEF known
    <3> HIDE DEF found
    <3>4. neon_parse_ws_frame(data, m) = IF m < Len(h) + len THEN NeedMore ELSE found
      <4>1. header = size /\ extended = n /\ payload_len = len
        BY <1>9, <2>6, <2>7, <3>2
      <4>2. m >= size
        BY <1>9, <2>9
      <4>3. neon_parse_ws_frame(data, m) = IF m < size + len THEN NeedMore ELSE found
        BY <4>1, <4>2, <1>1, <1>8, <1>9
      <4> QED
        BY <4>3, <1>9
    <3> QED
      BY <3>3, <3>4, <1>2, <1>3, <1>8
  <2> QED
    BY <2>8, <2>9, <1>6
<1> QED
  BY <1>7, <1>8

(* The frame on its way is one of the frames, some bytes of it are there.  *)
FrameInv == sentFrame \in Frames /\ arrived \in Nat

(* Every step of the codec keeps it.                                       *)
LEMMA FrameInvHolds == ParsersSpec => []FrameInv
<1>1. ParsersInit => FrameInv
  BY DEF ParsersInit, Init, FrameInv
<1>2. FrameInv /\ [ParsersNext]_parsersVars => FrameInv'
  <2> SUFFICES ASSUME FrameInv, [ParsersNext]_parsersVars PROVE FrameInv'
    OBVIOUS
  <2>1. CASE Arrive
    <3>1. PICK n \in Cuts : n > arrived /\ arrived' = n /\ sentFrame' = sentFrame
      BY <2>1 DEF Arrive
    <3>2. n \in Int
      BY DEF Cuts
    <3> QED
      BY <3>1, <3>2 DEF FrameInv
  <2>2. CASE Consume
    BY <2>2 DEF Consume, FrameInv
  <2>3. CASE UNCHANGED vars
    BY <2>3 DEF vars, FrameInv
  <2>4. ParsersNext => Arrive \/ Consume \/ UNCHANGED vars
    BY DEF ParsersNext, Frame, Next, MoreText, SomeUrl, SomeWindow, SomeRead
  <2> QED
    BY <2>1, <2>2, <2>3, <2>4 DEF parsersVars
<1> QED
  BY <1>1, <1>2, PTL DEF ParsersSpec

(* For every opcode and every payload length below 2^63, masked or not:    *)
(* neon_parse_ws_frame reports a frame exactly when its last byte has      *)
(* arrived, and reports what websocket_send, websocket_send_pong or        *)
(* check_heartbeat put into the header.                                    *)
THEOREM FramesRoundTrip == ParsersSpec => []RoundTrip
<1>1. FrameInv => RoundTrip
  <2> SUFFICES ASSUME FrameInv PROVE RoundTrip
    OBVIOUS
  <2> DEFINE h == FrameHeader(sentFrame)
             size == FrameSize(sentFrame)
             known == [result |-> 0, opcode |-> sentFrame.opcode, mask |-> sentFrame.mask,
                       payload_len |-> sentFrame.payload_len, header_size |-> Len(h)]
  <2>1. Parsed = IF arrived < 2 THEN Error ELSE IF arrived < size THEN NeedMore ELSE known
    BY ParseFrame DEF FrameInv, Parsed, Data
  <2>2. Error.result # 0 /\ NeedMore.result # 0
    BY DEF Error, NeedMore
  <2>3. known.result = 0
    OBVIOUS
  <2>4. size \in Nat /\ size >= 2 /\ arrived \in Nat
    <3>1. PICK len \in Nat : len = sentFrame.payload_len
      BY LenAssumption, Zenon DEF FrameInv, Frames
    <3>2. Len(h) = 2 + Extended(len) + (IF sentFrame.mask THEN 4 ELSE 0)
      BY <3>1, HeaderShape DEF FrameInv
    <3>3. Extended(len) \in Nat
      BY DEF Extended
    <3> HIDE DEF h
    <3>4. Len(h) \in Nat /\ Len(h) >= 2
      BY <3>2, <3>3
    <3> QED
      BY <3>1, <3>4 DEF FrameSize, FrameInv, h
  <2> HIDE DEF size
  <2>5. Parsed.result = 0 <=> arrived >= size
    <3> HIDE DEF known
    <3> QED
      BY <2>1, <2>2, <2>3, <2>4
  <2>6. Parsed.result = 0 => Parsed = known
    BY <2>1, <2>2
  <2> QED
    BY <2>5, <2>6 DEF RoundTrip, size
<1> QED
  BY <1>1, FrameInvHolds, PTL

(***************************************************************************)
(* Induction over numbers, as a statement about a set of them, and the     *)
(* functions that recursion over numbers defines.                          *)
(***************************************************************************)

(* Induction over the naturals, for a set that holds what is to be shown.  *)
LEMMA NatInduct ==
  ASSUME NEW T, T \subseteq Nat, 0 \in T, \A n \in T : n + 1 \in T
  PROVE  T = Nat
<1> DEFINE U == Nat \ T
<1> SUFFICES ASSUME U # {} PROVE FALSE
  BY Zenon
<1>1. PICK x \in U : \A y \in U : ~ (<<y, x>> \in OpToRel(<, Nat))
  <2>1. U \subseteq Nat
    OBVIOUS
  <2> QED
    BY <2>1, NatLessThanWellFounded, WFMin, Zenon
<1>2. x \in Nat /\ x # 0 /\ x - 1 \in Nat
  OBVIOUS
<1>3. x - 1 \in T
  <2>1. x - 1 < x /\ << x - 1, x >> \in Nat \X Nat
    BY <1>2
  <2>2. << x - 1, x >> \in OpToRel(<, Nat)
    BY <2>1 DEF OpToRel
  <2> QED
    BY <1>1, <1>2, <2>2, Zenon
<1>4. (x - 1) + 1 = x
  BY <1>2
<1> QED
  BY <1>3, <1>4

(* A function on 0 .. N is given by its first value and by what each value *)
(* makes of the one before.                                                *)
Recurses(g, N, S, x0, step) ==
  /\ g \in [0 .. N -> S] /\ g[0] = x0
  /\ \A n \in 1 .. N : g[n] = step[<< n, g[n - 1] >>]

(* Such a function exists.                                                 *)
LEMMA RecursionExists ==
  ASSUME NEW N \in Nat, NEW S, NEW x0 \in S, NEW step \in [(1 .. N) \X S -> S]
  PROVE  \E g : Recurses(g, N, S, x0, step)
<1> DEFINE Good(g, m) == /\ g \in [0 .. m -> S] /\ g[0] = x0
                         /\ \A n \in 1 .. m : g[n] = step[<< n, g[n - 1] >>]
           T == {m \in Nat : m <= N => \E g : Good(g, m)}
<1>1. 0 \in T
  <2>1. Good([n \in 0 .. 0 |-> x0], 0)
    OBVIOUS
  <2> QED
    BY <2>1, Zenon
<1>2. ASSUME NEW m \in T PROVE m + 1 \in T
  <2> SUFFICES ASSUME m + 1 <= N PROVE \E g : Good(g, m + 1)
    OBVIOUS
  <2>1. PICK g : Good(g, m)
    OBVIOUS
  <2> DEFINE next == step[<< m + 1, g[m] >>]
             h == [n \in 0 .. m + 1 |-> IF n = m + 1 THEN next ELSE g[n]]
  <2>2. g[m] \in S /\ m + 1 \in 1 .. N
    BY <2>1
  <2>3. next \in S
    BY <2>2
  <2> HIDE DEF next
  <2>4. h \in [0 .. m + 1 -> S] /\ h[0] = x0
    BY <2>1, <2>3
  <2>5. ASSUME NEW n \in 1 .. m + 1 PROVE h[n] = step[<< n, h[n - 1] >>]
    <3>1. h[n - 1] = g[n - 1]
      OBVIOUS
    <3>2. CASE n = m + 1
      <4>1. n - 1 = m /\ h[n] = next
        BY <3>2
      <4> QED
        BY <3>1, <3>2, <4>1, Zenon DEF next
    <3>3. CASE n # m + 1
      <4>1. n \in 1 .. m /\ h[n] = g[n]
        BY <3>3
      <4> QED
        BY <3>1, <4>1, <2>1
    <3> QED
      BY <3>2, <3>3
  <2> HIDE DEF h
  <2> QED
    BY <2>4, <2>5
<1>3. T = Nat
  <2> HIDE DEF Good
  <2> QED
    BY <1>1, <1>2, NatInduct, Zenon
<1>4. \E g : Good(g, N)
  <2> HIDE DEF Good
  <2> QED
    BY <1>3
<1> QED
  BY <1>4, Zenon DEF Recurses

(***************************************************************************)
(* The extraction of JSON fields.                                          *)
(***************************************************************************)

(* The blocks of the vector version leave out only a field name that ends  *)
(* the text: both versions find the same places, and go on alike.          *)
LEMMA SameStarts ==
  ASSUME NEW S, NEW json \in Seq(S), ~MatchesAt(json, Len(json) - pattern_len)
  PROVE  NeonStarts(json) = ScalarStarts(json)
<1>1. pattern_len \in Nat
  BY DEF pattern_len, SearchPattern
<1>2. ASSUME NEW i \in 0 .. Len(json) - 1, MatchesAt(json, i)
      PROVE  i < Len(json) - pattern_len
  <2>1. i + pattern_len <= Len(json)
    BY <1>2 DEF MatchesAt
  <2>2. i # Len(json) - pattern_len
    BY <1>2
  <2> QED
    BY <1>1, <2>1, <2>2
<1> QED
  BY <1>2 DEF NeonStarts, ScalarStarts

(* The text is put together from characters.                               *)
Chars == {Quote, Backslash, "f", ":", ",", Space, "x"}
JsonInv == parser = "json" => Text \in Seq(Chars)

(* The tokens are text.                                                    *)
LEMMA TokensAreText == Tokens \subseteq Seq(Chars)
  BY DEF Tokens, SearchPattern, Chars

(* Adding a token keeps it.                                                *)
LEMMA JsonInvHolds == ParsersSpec => []JsonInv
<1>1. ParsersInit => JsonInv
  BY DEF ParsersInit, JsonInv, Text
<1>2. JsonInv /\ [ParsersNext]_parsersVars => JsonInv'
  <2> SUFFICES ASSUME JsonInv, [ParsersNext]_parsersVars, parser' = "json"
               PROVE  Text' \in Seq(Chars)
    BY DEF JsonInv
  <2>1. CASE MoreText
    <3>1. PICK t \in Tokens : input' = [text |-> input.text \o t, tokens |-> input.tokens + 1]
      BY <2>1, Zenon DEF MoreText
    <3>2. input.text \in Seq(Chars) /\ t \in Seq(Chars)
      BY <2>1, TokensAreText DEF MoreText, JsonInv, Text
    <3> QED
      BY <3>1, <3>2 DEF Text
  <2>2. CASE UNCHANGED <<parser, input>>
    BY <2>2 DEF JsonInv, Text
  <2>3. ParsersNext => MoreText \/ UNCHANGED <<parser, input>>
    BY DEF ParsersNext, Frame, SomeUrl, SomeWindow, SomeRead
  <2> QED
    BY <2>1, <2>2, <2>3 DEF parsersVars
<1> QED
  BY <1>1, <1>2, PTL DEF ParsersSpec

(* For every block size and every text that is long enough to hold the     *)
(* field's name and does not end with it: neon_parse_json_market_data      *)
(* and scalar_parse_json_market_data return the same.                      *)
THEOREM JsonVersionsAlike == ParsersSpec => []JsonVersionsAgree
<1>1. JsonInv => JsonVersionsAgree
  BY SameStarts DEF JsonInv, JsonVersionsAgree, Agree, neon_parse_json_market_data,
                    scalar_parse_json_market_data
<1> QED
  BY <1>1, JsonInvHolds, PTL

(***************************************************************************)
(* The inputs of the other functions are the ones they are given.          *)
(***************************************************************************)

InputInv ==
  input # << >> =>
    /\ parser = "url" => input \in Urls
    /\ parser = "latency" => input \in Windows
    /\ parser = "stamp" => input \in Reads

(* Every step keeps it.                                                    *)
LEMMA InputInvHolds == ParsersSpec => []InputInv
<1>1. ParsersInit => InputInv
  BY DEF ParsersInit, InputInv
<1>2. InputInv /\ [ParsersNext]_parsersVars => InputInv'
  <2> SUFFICES ASSUME InputInv, [ParsersNext]_parsersVars PROVE InputInv'
    OBVIOUS
  <2>1. CASE SomeUrl
    BY <2>1 DEF SomeUrl, InputInv
  <2>2. CASE SomeWindow
    BY <2>2 DEF SomeWindow, InputInv
  <2>3. CASE SomeRead
    BY <2>3 DEF SomeRead, InputInv
  <2>4. CASE MoreText
    BY <2>4 DEF MoreText, InputInv
  <2>5. CASE UNCHANGED <<parser, input>>
    BY <2>5 DEF InputInv
  <2>6. Frame => UNCHANGED <<parser, input>>
    BY DEF Frame
  <2> QED
    BY <2>1, <2>2, <2>3, <2>4, <2>5, <2>6 DEF ParsersNext, parsersVars
<1> QED
  BY <1>1, <1>2, PTL DEF ParsersSpec

(***************************************************************************)
(* Timestamps.                                                             *)
(***************************************************************************)

(* Products are ordered like their factors.                                *)
LEMMA ProductsOrdered ==
  ASSUME NEW x \in Int, NEW y \in Int, NEW b \in Nat, x <= y
  PROVE  x * b \in Int /\ y * b \in Int /\ x * b <= y * b
<1>1. PICK d \in Nat : y = x + d
  <2>1. y - x \in Nat /\ y = x + (y - x)
    OBVIOUS
  <2> QED
    BY <2>1
<1>2. y * b = x * b + d * b /\ d * b \in Nat /\ x * b \in Int
  BY <1>1
<1> QED
  BY <1>2

(* A quotient, by what its product with the divisor lies between.          *)
LEMMA QuotientBetween ==
  ASSUME NEW a \in Nat, NEW b \in Nat \ {0}
  PROVE  a \div b \in Nat /\ (a \div b) * b <= a /\ a < (a \div b) * b + b
OBVIOUS

(* Bounds of a quotient.                                                   *)
LEMMA QuotientAtLeast ==
  ASSUME NEW a \in Nat, NEW b \in Nat \ {0}, NEW k \in Int, k * b <= a
  PROVE  k <= a \div b
<1>1. PICK q \in Nat : q = a \div b /\ q * b <= a /\ a < q * b + b
  BY QuotientBetween
<1>2. k * b < (q + 1) * b
  BY <1>1
<1>3. q + 1 <= k => (q + 1) * b <= k * b
  BY ProductsOrdered
<1> QED
  BY <1>1, <1>2, <1>3

(* An upper bound of a quotient.                                           *)
LEMMA QuotientAtMost ==
  ASSUME NEW a \in Nat, NEW b \in Nat \ {0}, NEW k \in Int, a < (k + 1) * b
  PROVE  a \div b <= k
<1>1. PICK q \in Nat : q = a \div b /\ q * b <= a /\ a < q * b + b
  BY QuotientBetween
<1>2. k + 1 <= q => (k + 1) * b <= q * b
  BY ProductsOrdered
<1>3. q * b \in Int /\ (k + 1) * b \in Int
  OBVIOUS
<1> QED
  BY <1>1, <1>2, <1>3

(* The clock starts at 0 and counts nanoseconds.                           *)
LEMMA ClockReads ==
  ASSUME NEW t \in Nat
  PROVE  /\ get_time_ns(t) \in Nat /\ get_time_ns(0) = 0
         /\ get_time_ns(t) * denom <= t * numer
         /\ t * numer < get_time_ns(t) * denom + denom
<1>1. t * numer \in Nat /\ denom \in Nat \ {0} /\ 0 * numer = 0
  BY TimebaseAssumption
<1>2. 0 \div denom = 0
  BY <1>1
<1> QED
  BY <1>1, <1>2, QuotientBetween DEF get_time_ns

(* The conversion of a timestamp into ticks: it is never ahead of the      *)
(* clock, and converting back gives the timestamp, with an error that the  *)
(* two roundings explain.                                                  *)
LEMMA TicksNameTheMoment ==
  ASSUME NEW ns \in Nat, NEW now \in Nat
  PROVE  LET ticks == NicTicks(ns, now)
         IN  /\ ticks \in Nat /\ ticks <= now
             /\ ns <= get_time_ns(now) =>
                  get_time_ns(ticks) - ns \in 0 .. 1 + numer \div denom
<1> DEFINE ticks == NicTicks(ns, now)
           now_ns == get_time_ns(now)
           allowed == 1 + numer \div denom
<1>1. numer \in Nat \ {0} /\ denom \in Nat \ {0}
  BY TimebaseAssumption
<1>2. now_ns \in Nat /\ now_ns * denom <= now * numer /\ now * numer < now_ns * denom + denom
  BY ClockReads
<1>3. /\ numer \div denom \in Nat /\ allowed \in Nat
      /\ numer < (numer \div denom) * denom + denom
  BY <1>1, QuotientBetween
<1> HIDE DEF now_ns
<1>4. CASE ~(ns <= now_ns /\ now_ns > 0)
  <2>1. ticks = now
    BY <1>4 DEF NicTicks, now_ns
  <2>2. ns <= now_ns => get_time_ns(now) - ns = 0
    BY <1>2, <1>4 DEF now_ns
  <2> QED
    BY <2>1, <2>2, <1>3 DEF now_ns
<1>5. CASE ns <= now_ns /\ now_ns > 0
  <2>1. PICK age \in Nat : age = now_ns - ns
    BY <1>2, <1>5
  <2>2. age * denom \in Nat
    BY <1>1
  <2>3. PICK d \in Nat : /\ d = (age * denom) \div numer
                         /\ d * numer <= age * denom /\ age * denom < d * numer + numer
    BY <2>2, <1>1, QuotientBetween
  <2>4. ticks = IF now > d THEN now - d ELSE 0
    BY <1>5, <2>1, <2>3 DEF NicTicks, now_ns
  <2>5. age * denom = now_ns * denom - ns * denom
    BY <2>1, <1>1, <1>2
  <2> DEFINE N == now * numer
             D == d * numer
             W == now_ns * denom
             V == ns * denom
  <2>6. N \in Nat /\ D \in Nat /\ W \in Nat /\ V \in Nat
    BY <1>1, <1>2
  <2>7. /\ W <= N /\ N < W + denom
        /\ D <= W - V /\ W - V < D + numer
    BY <1>2, <2>3, <2>5
  <2>8. CASE now > d
    <3>1. PICK t \in Nat : t = now - d /\ ticks = t
      BY <2>4, <2>8
    <3>2. t * numer = N - D
      BY <3>1, <1>1
    <3>3. t * numer \in Nat /\ V <= t * numer
      <4> HIDE DEF N, D, W, V
      <4>1. V <= N - D /\ N - D \in Nat
        BY <2>6, <2>7
      <4> QED
        BY <3>2, <4>1
    <3>4. ns <= get_time_ns(t)
      BY <3>3, <1>1, QuotientAtLeast DEF get_time_ns
    <3>5. t * numer < (ns + allowed + 1) * denom
      <4>1. PICK q \in Nat : q = numer \div denom
        BY <1>3
      <4>2. (ns + allowed + 1) * denom = V + denom + (q * denom + denom)
        BY <4>1, <1>1
      <4>3. q * denom \in Nat /\ numer < q * denom + denom
        BY <4>1, <1>1, <1>3
      <4> HIDE DEF N, D, W, V, allowed
      <4>4. N - D < V + denom + (q * denom + denom)
        BY <2>6, <2>7, <4>3, <1>1
      <4> QED
        BY <3>2, <4>2, <4>4
    <3>6. get_time_ns(t) <= ns + allowed
      <4> HIDE DEF allowed
      <4>1. ns + allowed \in Int
        BY <1>3
      <4> QED
        BY <3>3, <3>5, <4>1, <1>1, QuotientAtMost DEF get_time_ns
    <3>7. get_time_ns(t) \in Nat
      BY ClockReads
    <3> HIDE DEF allowed
    <3>8. get_time_ns(t) - ns \in 0 .. allowed
      BY <3>4, <3>6, <3>7, <1>3
    <3>9. t <= now
      BY <3>1
    <3> QED
      BY <3>1, <3>8, <3>9 DEF allowed
  <2>9. CASE ~(now > d)
    <3>1. ticks = 0
      BY <2>4, <2>9
    <3>2. N <= D
      BY <2>9, <1>1, ProductsOrdered
    <3>3. V = 0
      <4> HIDE DEF N, D, W, V
      <4> QED
        BY <2>6, <2>7, <3>2
    <3>4. ns = 0
      <4>1. ns >= 1 => 1 * denom <= ns * denom
        BY <1>1, ProductsOrdered
      <4> QED
        BY <4>1, <3>3, <1>1
    <3>5. get_time_ns(0) = 0
      BY ClockReads
    <3> HIDE DEF allowed
    <3>6. get_time_ns(ticks) - ns \in 0 .. allowed
      BY <3>1, <3>4, <3>5, <1>3
    <3> QED
      BY <3>1, <3>6 DEF allowed
  <2> QED
    BY <2>8, <2>9
<1> QED
  BY <1>4, <1>5

(* For every timebase, every time of arrival and of reading, and every     *)
(* offset of the clock of the kernel's timestamps: the ticks that io_read  *)
(* and ssl_read_func store next to the nanoseconds name the same moment.   *)
THEOREM StampFormsAlike == ParsersSpec => []StampFormsAgree
<1>1. InputInv => StampFormsAgree
  <2> SUFFICES ASSUME InputInv, parser = "stamp", input # << >>, NEW s \in Stamps
               PROVE  /\ s.ticks <= input.read
                      /\ s.ns <= get_time_ns(input.read) =>
                           get_time_ns(s.ticks) - s.ns \in 0 .. 1 + numer \div denom
    BY DEF StampFormsAgree
  <2>1. input \in Reads
    BY DEF InputInv
  <2>2. PICK now \in Nat, arrival \in Nat, offset \in Nat :
          now = input.read /\ arrival = input.arrival /\ offset = input.offset
    <3>1. input.read \in 1 .. MaxTicks /\ input.arrival \in 0 .. MaxTicks
      BY <2>1 DEF Reads
    <3>2. input.offset \in Nat
      BY <2>1, OffsetAssumption, Zenon DEF Reads
    <3>3. input.read \in Nat /\ input.arrival \in Nat
      BY <3>1
    <3> QED
      BY <3>2, <3>3
  <2>3. get_time_ns(now) \in Nat /\ get_time_ns(arrival) \in Nat /\ get_time_ns(0) = 0
    BY ClockReads
  <2>4. PICK at \in Nat : at = ArrivalNs
    BY <2>2, <2>3 DEF ArrivalNs
  <2>5. 1 + numer \div denom \in Nat
    BY TimebaseAssumption, QuotientBetween
  <2>6. CASE s = NoStamp
    BY <2>2, <2>3, <2>5, <2>6 DEF NoStamp
  <2>7. CASE s = [ns |-> get_time_ns(now), ticks |-> now]
    BY <2>2, <2>3, <2>5, <2>7
  <2>8. CASE \E ns \in Nat : s = [ns |-> ns, ticks |-> NicTicks(ns, now)]
    <3>1. PICK ns \in Nat : s = [ns |-> ns, ticks |-> NicTicks(ns, now)]
      BY <2>8
    <3>2. s.ns = ns /\ s.ticks = NicTicks(ns, now)
      BY <3>1
    <3> QED
      BY <3>2, <2>2, TicksNameTheMoment, Zenon
  <2>9. NicNs(input.kind, at) \in Nat
    <3>1. PICK m \in Nat \ {0} : m = Micro
      BY TimebaseAssumption
    <3>2. at % m \in 0 .. at
      <4>1. at = m * (at \div m) + (at % m) /\ at % m \in Nat
        OBVIOUS
      <4>2. m * (at \div m) \in Nat
        BY QuotientBetween
      <4> QED
        BY <4>1, <4>2
    <3> QED
      BY <3>1, <3>2 DEF NicNs
  <2>10. \/ s = NoStamp
         \/ s = [ns |-> get_time_ns(now), ticks |-> now]
         \/ \E ns \in Nat : s = [ns |-> ns, ticks |-> NicTicks(ns, now)]
    BY <2>2, <2>4, <2>9 DEF Stamps, IoStamp, SslStamp
  <2> QED
    BY <2>6, <2>7, <2>8, <2>10
<1> QED
  BY <1>1, InputInvHolds, PTL

(***************************************************************************)
(* parse_url.                                                              *)
(***************************************************************************)

(* The smallest of a set of numbers.                                       *)
LEMMA MinIs ==
  ASSUME NEW T, NEW x \in T, T \subseteq Int, \A y \in T : x <= y
  PROVE  Min(T) = x
<1>1. Min(T) \in T /\ \A y \in T : Min(T) <= y
  BY Zenon DEF Min
<1>2. PICK m \in Int : m = Min(T)
  BY <1>1, Zenon
<1>3. m <= x /\ x <= m /\ x \in Int
  BY <1>1, <1>2
<1> QED
  BY <1>2, <1>3

(* A set of naturals that is not empty has a least member.                 *)
LEMMA MinExists ==
  ASSUME NEW T, T \subseteq Nat, T # {}
  PROVE  Min(T) \in T /\ \A y \in T : Min(T) <= y
<1>1. PICK x \in T : \A y \in T : ~ (<<y, x>> \in OpToRel(<, Nat))
  BY NatLessThanWellFounded, WFMin, Zenon
<1>2. ASSUME NEW y \in T PROVE x <= y
  <2>1. y < x => <<y, x>> \in OpToRel(<, Nat)
    BY DEF OpToRel
  <2>2. ~(y < x) /\ x \in Nat /\ y \in Nat
    BY <2>1, <1>1, Zenon
  <2> QED
    BY <2>2
<1>3. \E z \in T : \A y \in T : z <= y
  BY <1>2
<1> QED
  BY <1>3, Zenon DEF Min

(* The smaller of two.                                                     *)
LEMMA MinOfTwo ==
  ASSUME NEW x \in Int, NEW y \in Int
  PROVE  Min({x, y}) = IF x <= y THEN x ELSE y
<1>1. CASE x <= y
  BY <1>1, MinIs
<1>2. CASE ~(x <= y)
  BY <1>2, MinIs
<1> QED
  BY <1>1, <1>2

(* strchr finds the first c, the end without one, and nothing before the   *)
(* first place where a c may be.                                           *)
LEMMA BeforeIs ==
  ASSUME NEW S, NEW url \in Seq(S), NEW c, NEW k \in 0 .. Len(url),
         \A i \in 1 .. k : url[i] # c, k = Len(url) \/ url[k + 1] = c
  PROVE  Before(url, c) = k
<1> DEFINE T == {Len(url)} \cup {i \in 0 .. Len(url) - 1 : url[i + 1] = c}
<1>1. k \in T /\ T \subseteq Int
  OBVIOUS
<1>2. ASSUME NEW y \in T PROVE k <= y
  <2>1. CASE y = Len(url)
    BY <2>1
  <2>2. CASE y \in 0 .. Len(url) - 1 /\ url[y + 1] = c
    <3>1. y + 1 \notin 1 .. k
      BY <2>2
    <3> QED
      BY <2>2, <3>1
  <2> QED
    BY <2>1, <2>2
<1> HIDE DEF T
<1>3. Min(T) = k
  BY <1>1, <1>2, MinIs, Zenon
<1> QED
  BY <1>3 DEF Before, T

(* Nothing found before a place: the first is not before it.               *)
LEMMA BeforeAtLeast ==
  ASSUME NEW S, NEW url \in Seq(S), NEW c, NEW k \in 0 .. Len(url),
         \A i \in 1 .. k : url[i] # c
  PROVE  Before(url, c) \in k .. Len(url)
<1> DEFINE T == {Len(url)} \cup {i \in 0 .. Len(url) - 1 : url[i + 1] = c}
<1>1. T \subseteq Nat /\ Len(url) \in T
  OBVIOUS
<1>2. ASSUME NEW y \in T PROVE k <= y
  <2>1. CASE y = Len(url)
    BY <2>1
  <2>2. CASE y \in 0 .. Len(url) - 1 /\ url[y + 1] = c
    <3>1. y + 1 \notin 1 .. k
      BY <2>2
    <3> QED
      BY <2>2, <3>1
  <2> QED
    BY <2>1, <2>2
<1> HIDE DEF T
<1>3. Min(T) \in T /\ Min(T) <= Len(url)
  BY <1>1, MinExists, Zenon
<1> QED
  BY <1>1, <1>2, <1>3 DEF Before, T

(* Two sequences in a row.                                                 *)
LEMMA TwoParts ==
  ASSUME NEW S, NEW a \in Seq(S), NEW b \in Seq(S)
  PROVE  /\ a \o b \in Seq(S) /\ Len(a \o b) = Len(a) + Len(b)
         /\ \A i \in 1 .. Len(a) : (a \o b)[i] = a[i]
         /\ \A i \in 1 .. Len(b) : (a \o b)[Len(a) + i] = b[i]
<1>1. a \o b \in Seq(S) /\ Len(a \o b) = Len(a) + Len(b)
  OBVIOUS
<1>2. \A i \in 1 .. Len(a) : (a \o b)[i] = a[i]
  OBVIOUS
<1>3. \A i \in 1 .. Len(b) : (a \o b)[Len(a) + i] = b[i]
  OBVIOUS
<1> QED
  BY <1>1, <1>2, <1>3

(* Three sequences in a row: where the elements of each are.               *)
LEMMA ThreeParts ==
  ASSUME NEW S, NEW a \in Seq(S), NEW b \in Seq(S), NEW c \in Seq(S)
  PROVE  LET w == a \o b \o c
             ab == Len(a) + Len(b)
         IN  /\ w \in Seq(S) /\ Len(w) = ab + Len(c)
             /\ \A i \in 1 .. Len(a) : w[i] = a[i]
             /\ \A i \in 1 .. Len(b) : w[Len(a) + i] = b[i]
             /\ \A i \in 1 .. Len(c) : w[ab + i] = c[i]
<1> DEFINE x == a \o b
           w == x \o c
<1>1. /\ x \in Seq(S) /\ Len(x) = Len(a) + Len(b)
      /\ \A i \in 1 .. Len(a) : x[i] = a[i]
      /\ \A i \in 1 .. Len(b) : x[Len(a) + i] = b[i]
  BY TwoParts
<1> HIDE DEF x
<1>2. /\ w \in Seq(S) /\ Len(w) = Len(x) + Len(c)
      /\ \A i \in 1 .. Len(x) : w[i] = x[i]
      /\ \A i \in 1 .. Len(c) : w[Len(x) + i] = c[i]
  <2>1. x \in Seq(S)
    BY <1>1
  <2> QED
    BY <2>1, TwoParts
<1> HIDE DEF w
<1>3. \A i \in 1 .. Len(a) : w[i] = a[i]
  BY <1>1, <1>2
<1>4. ASSUME NEW i \in 1 .. Len(b) PROVE w[Len(a) + i] = b[i]
  <2>1. Len(a) + i \in 1 .. Len(x)
    BY <1>1
  <2> QED
    BY <2>1, <1>1, <1>2
<1>5. w = a \o b \o c
  BY Zenon DEF w, x
<1> QED
  BY <1>1, <1>2, <1>3, <1>4, <1>5

(* A part of a sequence that is known element by element.                  *)
LEMMA PartIs ==
  ASSUME NEW S, NEW w \in Seq(S), NEW b \in Seq(S), NEW m \in Nat,
         m + Len(b) <= Len(w), \A i \in 1 .. Len(b) : w[m + i] = b[i]
  PROVE  SubSeq(w, m + 1, m + Len(b)) = b
<1> DEFINE p == SubSeq(w, m + 1, m + Len(b))
<1>1. p \in Seq(S) /\ Len(p) = Len(b)
  OBVIOUS
<1>2. ASSUME NEW i \in 1 .. Len(b) PROVE p[i] = b[i]
  <2>1. p[i] = w[m + i]
    OBVIOUS
  <2> QED
    BY <2>1
<1> HIDE DEF p
<1>3. p = b
  BY <1>1, <1>2, SameSeq
<1> QED
  BY <1>3 DEF p

(* The parts of a URL as parse_url meets them.                             *)
Characters == {"h", ":", "/", "?"} \cup Digits
UrlParts(host, port, path) ==
  /\ host \in Seq(Characters) /\ port \in Seq(Characters) /\ path \in Seq(Characters)
  /\ \A i \in 1 .. Len(host) : host[i] = "h"
  /\ Len(port) > 0 => port[1] = ":"
  /\ \A i \in 2 .. Len(port) : port[i] \in Digits
  /\ Len(path) > 0 => path[1] \in {"/", "?"}

(* The parts of the URLs have this shape.                                  *)
LEMMA UrlPartsOf ==
  ASSUME NEW u \in Urls
  PROVE  UrlParts(u.host, u.port, u.path) /\ u.use_ssl \in BOOLEAN
<1>1. ASSUME NEW C, C \subseteq Characters, NEW n, NEW w \in Strings(C, n)
      PROVE  /\ w \in Seq(Characters) /\ Len(w) \in Nat
             /\ \A i \in 1 .. Len(w) : w[i] \in C
  <2>1. PICK k \in 0 .. n : w \in [1 .. k -> C]
    BY DEF Strings
  <2>2. k \in Nat
    BY <2>1
  <2>3. w \in Seq(C) /\ Len(w) = k
    BY <2>1, <2>2
  <2> QED
    BY <1>1, <2>1, <2>2, <2>3
<1>2. u.host \in Seq(Characters) /\ \A i \in 1 .. Len(u.host) : u.host[i] = "h"
  <2>1. u.host \in Strings({"h"}, MaxPart) /\ {"h"} \subseteq Characters
    BY DEF Urls, Hosts, Characters
  <2>2. u.host \in Seq(Characters) /\ \A i \in 1 .. Len(u.host) : u.host[i] \in {"h"}
    BY <2>1, <1>1, Zenon
  <2> QED
    BY <2>2
<1>3. /\ u.port \in Seq(Characters)
      /\ Len(u.port) > 0 => u.port[1] = ":"
      /\ \A i \in 2 .. Len(u.port) : u.port[i] \in Digits
  <2>1. CASE u.port = << >>
    BY <2>1
  <2>2. CASE \E d \in Strings(Digits, MaxPart) : u.port = << ":" >> \o d
    <3>1. PICK d \in Strings(Digits, MaxPart) : u.port = << ":" >> \o d
      BY <2>2
    <3>2. d \in Seq(Characters) /\ \A i \in 1 .. Len(d) : d[i] \in Digits
      BY <1>1 DEF Characters
    <3>3. << ":" >> \in Seq(Characters) /\ Len(<< ":" >>) = 1 /\ << ":" >>[1] = ":"
      BY DEF Characters
    <3>4. /\ u.port \in Seq(Characters) /\ Len(u.port) = 1 + Len(d) /\ u.port[1] = ":"
          /\ \A i \in 1 .. Len(d) : u.port[1 + i] = d[i]
      BY <3>1, <3>2, <3>3, TwoParts
    <3>5. ASSUME NEW i \in 2 .. Len(u.port) PROVE u.port[i] \in Digits
      <4>1. i - 1 \in 1 .. Len(d) /\ 1 + (i - 1) = i
        BY <3>2, <3>4
      <4> QED
        BY <4>1, <3>2, <3>4, Zenon
    <3> QED
      BY <3>4, <3>5
  <2>3. u.port \in Ports
    BY DEF Urls
  <2> QED
    BY <2>1, <2>2, <2>3, Zenon DEF Ports
<1>4. /\ u.path \in Seq(Characters)
      /\ Len(u.path) > 0 => u.path[1] \in {"/", "?"}
  <2>1. CASE u.path = << >>
    BY <2>1
  <2>2. ASSUME NEW c \in {"/", "?"}, u.path \in PathsWith(c)
        PROVE  u.path \in Seq(Characters) /\ u.path[1] = c
    <3>1. PICK p \in Strings({"/", "?", ":", "1"}, MaxPart) : u.path = << c >> \o p
      BY <2>2, Zenon DEF PathsWith
    <3>2. p \in Seq(Characters)
      <4>1. {"/", "?", ":", "1"} \subseteq Characters
        BY DEF Characters, Digits
      <4> QED
        BY <4>1, <1>1
    <3>3. << c >> \in Seq(Characters) /\ Len(<< c >>) = 1 /\ << c >>[1] = c
      BY DEF Characters
    <3> QED
      BY <3>1, <3>2, <3>3, TwoParts
  <2>3. u.path \in Paths
    BY DEF Urls
  <2>4. u.path = << >> \/ u.path \in PathsWith("/") \/ u.path \in PathsWith("?")
    BY <2>3, Zenon DEF Paths
  <2> QED
    BY <2>1, <2>2, <2>4
<1>5. u.use_ssl \in BOOLEAN
  BY DEF Urls
<1> QED
  BY <1>2, <1>3, <1>4, <1>5 DEF UrlParts

(* Where parse_url finds the end of the host and port, and the colon: any  *)
(* colon, slash or question mark of the path lies behind.                  *)
LEMMA UrlPlaces ==
  ASSUME NEW host, NEW port, NEW path, UrlParts(host, port, path)
  PROVE  LET url == host \o port \o path
             p == Len(host) + Len(port)
         IN  /\ HostEnd(url) = p
             /\ Len(port) > 0 => Before(url, ":") = Len(host)
             /\ Len(port) = 0 => Before(url, ":") \in p .. Len(url)
<1> DEFINE url == host \o port \o path
           h == Len(host)
           p == h + Len(port)
<1>1. host \in Seq(Characters) /\ port \in Seq(Characters) /\ path \in Seq(Characters)
  BY DEF UrlParts
<1>2. /\ url \in Seq(Characters) /\ Len(url) = p + Len(path)
      /\ \A i \in 1 .. h : url[i] = host[i]
      /\ \A i \in 1 .. Len(port) : url[h + i] = port[i]
      /\ \A i \in 1 .. Len(path) : url[p + i] = path[i]
  BY <1>1, ThreeParts
<1>3. h \in Nat /\ Len(port) \in Nat /\ Len(path) \in Nat /\ p \in 0 .. Len(url) /\ h \in 0 .. Len(url)
  BY <1>1, <1>2
<1> HIDE DEF url
<1>4. \A i \in 1 .. h : url[i] = "h"
  BY <1>2 DEF UrlParts
<1>5. Len(port) > 0 => url[h + 1] = ":"
  <2>1. Len(port) > 0 => 1 \in 1 .. Len(port)
    BY <1>3
  <2> QED
    BY <2>1, <1>2 DEF UrlParts
<1>6. ASSUME NEW i \in h + 2 .. p PROVE url[i] \in Digits
  <2>1. i - h \in 1 .. Len(port) /\ i - h \in 2 .. Len(port) /\ h + (i - h) = i
    BY <1>3
  <2>2. url[i] = port[i - h] /\ port[i - h] \in Digits
    BY <2>1, <1>2, Zenon DEF UrlParts
  <2> QED
    BY <2>2
<1>7. ASSUME NEW i \in 1 .. p PROVE url[i] \notin {"/", "?"}
  <2>1. CASE i <= h
    BY <2>1, <1>3, <1>4
  <2>2. CASE i = h + 1
    BY <2>2, <1>3, <1>5
  <2>3. CASE i > h + 1
    <3>1. i \in h + 2 .. p
      BY <2>3, <1>3
    <3> QED
      BY <3>1, <1>6 DEF Digits
  <2> QED
    BY <2>1, <2>2, <2>3, <1>3
<1>8. /\ Before(url, "/") \in p .. Len(url)
      /\ Before(url, "?") \in p .. Len(url)
  BY <1>2, <1>3, <1>7, BeforeAtLeast, Zenon
<1>9. Before(url, "/") = p \/ Before(url, "?") = p
  <2>1. CASE Len(path) = 0
    BY <2>1, <1>2, <1>3, <1>8
  <2>2. CASE Len(path) > 0
    <3>1. url[p + 1] = path[1] /\ path[1] \in {"/", "?"}
      <4>1. 1 \in 1 .. Len(path)
        BY <2>2, <1>3
      <4> QED
        BY <4>1, <2>2, <1>2 DEF UrlParts
    <3>2. url[p + 1] = "/" => Before(url, "/") = p
      BY <1>2, <1>3, <1>7, BeforeIs, Zenon
    <3>3. url[p + 1] = "?" => Before(url, "?") = p
      BY <1>2, <1>3, <1>7, BeforeIs, Zenon
    <3> QED
      BY <3>1, <3>2, <3>3
  <2> QED
    BY <2>1, <2>2, <1>3
<1>10. HostEnd(url) = p
  <2>1. PICK x \in p .. Len(url), y \in p .. Len(url) :
          x = Before(url, "/") /\ y = Before(url, "?")
    BY <1>8
  <2>2. Min({x, y}) = p
    BY <2>1, <1>3, <1>9, MinOfTwo
  <2> QED
    BY <2>1, <2>2 DEF HostEnd
<1>11. \A i \in 1 .. h : url[i] # ":"
  BY <1>4
<1>12. Len(port) > 0 => Before(url, ":") = h
  BY <1>2, <1>3, <1>5, <1>11, BeforeIs, Zenon
<1>13. Len(port) = 0 => Before(url, ":") \in p .. Len(url)
  <2>1. Len(port) = 0 => p = h
    BY <1>3
  <2>2. Before(url, ":") \in h .. Len(url)
    BY <1>2, <1>3, <1>11, BeforeAtLeast, Zenon
  <2> QED
    BY <2>1, <2>2
<1> QED
  BY <1>10, <1>12, <1>13 DEF url

(* parse_url takes apart what was put together.                            *)
LEMMA PartsFound ==
  ASSUME NEW use_ssl, NEW a, NEW b, NEW c, UrlParts(a, b, c)
  PROVE  parse_url(use_ssl, a \o b \o c) =
           LET path == IF c = << >> THEN << "/" >> ELSE c IN
           IF Len(a) >= host_len \/ Len(path) >= path_len THEN Invalid
           ELSE [result |-> 0, use_ssl |-> use_ssl, host |-> a, path |-> path,
                 port |-> IF Len(b) < 2 THEN Default(use_ssl)
                          ELSE atoi(SubSeq(Tail(b), 1, Min({PortLen, Len(b) - 1})))]
<1>0. PICK h \in Nat, n \in Nat, k \in Nat, most \in Nat \ {0} :
        h = Len(a) /\ n = Len(b) /\ k = Len(c) /\ most = PortLen
  <2>1. Len(a) \in Nat /\ Len(b) \in Nat /\ Len(c) \in Nat
    BY DEF UrlParts
  <2> QED
    BY <2>1, UrlAssumption
<1> DEFINE url == a \o b \o c
           host_end == HostEnd(url)
           colon == Before(url, ":")
           host == SubSeq(url, 1, Min({colon, host_end}))
           port == SubSeq(url, colon + 2, Min({host_end, colon + 1 + PortLen}))
           path == IF host_end < Len(url) THEN SubSeq(url, host_end + 1, Len(url)) ELSE << "/" >>
           number == IF colon < host_end /\ port # << >> THEN atoi(port) ELSE Default(use_ssl)
           wantedPath == IF c = << >> THEN << "/" >> ELSE c
           digits == SubSeq(Tail(b), 1, Min({PortLen, Len(b) - 1}))
           wanted == IF Len(b) < 2 THEN Default(use_ssl) ELSE atoi(digits)
<1>2. a \in Seq(Characters) /\ b \in Seq(Characters) /\ c \in Seq(Characters)
  BY DEF UrlParts
<1>3. /\ host_end = h + n
      /\ n > 0 => colon = h
      /\ n = 0 => colon \in h + n .. Len(url)
  BY <1>0, UrlPlaces
<1>4. /\ url \in Seq(Characters) /\ Len(url) = h + n + k
      /\ \A i \in 1 .. h : url[i] = a[i]
      /\ \A i \in 1 .. n : url[h + i] = b[i]
      /\ \A i \in 1 .. k : url[(h + n) + i] = c[i]
  <2>1. /\ url \in Seq(Characters) /\ Len(url) = (Len(a) + Len(b)) + Len(c)
        /\ \A i \in 1 .. Len(a) : url[i] = a[i]
        /\ \A i \in 1 .. Len(b) : url[Len(a) + i] = b[i]
        /\ \A i \in 1 .. Len(c) : url[(Len(a) + Len(b)) + i] = c[i]
    BY <1>2, ThreeParts
  <2> QED
    BY <1>0, <2>1
<1> HIDE DEF url, host_end, colon
<1>5. host = a
  <2>1. Min({colon, host_end}) = h
    <3>1. CASE n > 0
      BY <3>1, <1>2, <1>3, MinOfTwo
    <3>2. CASE n = 0
      <4>1. host_end \in Int /\ colon \in Int /\ host_end = h /\ h <= colon
        BY <3>2, <1>2, <1>3
      <4> QED
        BY <4>1, MinOfTwo
    <3> QED
      BY <3>1, <3>2, <1>2
  <2>2. 0 + 1 = 1 /\ 0 + h = h /\ h <= Len(url) /\ \A i \in 1 .. h : url[0 + i] = a[i]
    BY <1>2, <1>4
  <2>3. SubSeq(url, 0 + 1, 0 + h) = a
    <3>1. SubSeq(url, 0 + 1, 0 + Len(a)) = a
      BY <2>2, <1>0, <1>2, <1>4, PartIs
    <3> QED
      BY <3>1, <1>0
  <2> QED
    BY <2>1, <2>2, <2>3, Zenon
<1>6. path = wantedPath
  <2>1. CASE k = 0
    <3>1. c = << >>
      BY <2>1, <1>0, <1>2
    <3>2. ~(host_end < Len(url))
      BY <2>1, <1>2, <1>3, <1>4
    <3> QED
      BY <3>1, <3>2
  <2>2. CASE k > 0
    <3>1. c # << >>
      BY <2>2, <1>0
    <3>2. host_end < Len(url) /\ host_end \in Nat /\ Len(url) = host_end + k
      BY <2>2, <1>2, <1>3, <1>4
    <3>3. SubSeq(url, host_end + 1, host_end + k) = c
      <4>1. host_end + Len(c) <= Len(url) /\ \A i \in 1 .. Len(c) : url[host_end + i] = c[i]
        BY <3>2, <1>0, <1>3, <1>4
      <4>2. SubSeq(url, host_end + 1, host_end + Len(c)) = c
        BY <3>2, <4>1, <1>2, <1>4, PartIs
      <4> QED
        BY <4>2, <1>0
    <3> QED
      BY <3>1, <3>2, <3>3
  <2> QED
    BY <2>1, <2>2, <1>2
<1>7. number = wanted
  <2>1. CASE n = 0
    <3>1. ~(colon < host_end)
      BY <2>1, <1>2, <1>3
    <3> QED
      BY <2>1, <3>1, <1>0
  <2>2. CASE n > 0
    <3>1. PICK m \in Nat : m = (IF n - 1 <= most THEN n - 1 ELSE most)
      BY <2>2, <1>2
    <3>2. Min({host_end, colon + 1 + PortLen}) = h + 1 + m
      <4>1. host_end = h + n /\ colon + 1 + PortLen = h + 1 + most
        BY <2>2, <1>0, <1>3
      <4>2. Min({h + n, h + 1 + most}) = IF h + n <= h + 1 + most THEN h + n ELSE h + 1 + most
        BY <1>2, MinOfTwo
      <4> QED
        BY <4>1, <4>2, <3>1
    <3>3. Min({PortLen, Len(b) - 1}) = m
      <4>1. Min({most, n - 1}) = IF most <= n - 1 THEN most ELSE n - 1
        BY <2>2, <1>2, MinOfTwo
      <4> QED
        BY <4>1, <3>1, <1>0
    <3>4. /\ Tail(b) \in Seq(Characters) /\ Len(Tail(b)) = n - 1
          /\ \A i \in 1 .. n - 1 : Tail(b)[i] = b[i + 1]
      BY <2>2, <1>0, <1>2
    <3>5. /\ digits \in Seq(Characters) /\ Len(digits) = m
          /\ \A i \in 1 .. m : digits[i] = b[i + 1]
      <4>1. m <= n - 1
        BY <3>1, <1>2, <2>2
      <4>2. digits = SubSeq(Tail(b), 1, m)
        BY <3>3, Zenon
      <4>3. PICK t \in Seq(Characters) : t = Tail(b) /\ Len(t) = n - 1
        BY <3>4, Zenon
      <4>4. /\ SubSeq(t, 1, m) \in Seq(Characters) /\ Len(SubSeq(t, 1, m)) = m
            /\ \A i \in 1 .. m : SubSeq(t, 1, m)[i] = t[i]
        BY <4>1, <4>3
      <4>5. ASSUME NEW i \in 1 .. m PROVE digits[i] = b[i + 1]
        <5>1. i \in 1 .. n - 1
          BY <4>1
        <5>2. t[i] = b[i + 1]
          BY <5>1, <3>4, <4>3
        <5>3. SubSeq(t, 1, m)[i] = t[i]
          BY <4>4
        <5> QED
          BY <5>2, <5>3, <4>2, <4>3, Zenon
      <4> QED
        BY <4>2, <4>3, <4>4, <4>5, Zenon
    <3>6. port = digits
      <4>1. h + 1 + m <= Len(url)
        BY <3>1, <2>2, <1>2, <1>4
      <4>2. ASSUME NEW i \in 1 .. m PROVE url[h + 1 + i] = digits[i]
        <5>1. i + 1 \in 1 .. n /\ h + (i + 1) = h + 1 + i
          BY <3>1, <2>2, <1>2
        <5> QED
          BY <5>1, <3>5, <1>4, Zenon
      <4> HIDE DEF digits
      <4>3. SubSeq(url, h + 1 + 1, h + 1 + m) = digits
        BY <4>1, <4>2, <3>5, <1>2, <1>4, PartIs
      <4>4. colon + 2 = h + 1 + 1
        BY <2>2, <1>2, <1>3
      <4> QED
        BY <4>3, <4>4, <3>2, Zenon
    <3>7. colon < host_end
      BY <2>2, <1>2, <1>3
    <3>8. port # << >> <=> n >= 2
      <4>1. m = 0 <=> n < 2
        BY <3>1, <2>2, <1>2
      <4>2. port # << >> <=> m # 0
        <5> HIDE DEF port, digits
        <5>1. port = << >> <=> Len(port) = 0
          BY <3>5, <3>6
        <5> QED
          BY <5>1, <3>5, <3>6
      <4> HIDE DEF port
      <4> QED
        BY <4>1, <4>2
    <3> HIDE DEF port, digits
    <3> QED
      BY <3>6, <3>7, <3>8, <1>0
  <2>3. n = 0 \/ n > 0
    OBVIOUS
  <2> HIDE DEF number, wanted
  <2> QED
    BY <2>1, <2>2, <2>3
<1>8. parse_url(use_ssl, url) =
        IF Len(host) >= host_len \/ Len(path) >= path_len THEN Invalid
        ELSE [result |-> 0, use_ssl |-> use_ssl, host |-> host, path |-> path,
              port |-> number]
  BY DEF parse_url, host_end, colon
<1> HIDE DEF host, path, number, wanted, wantedPath
<1>9. parse_url(use_ssl, url) =
        IF Len(a) >= host_len \/ Len(wantedPath) >= path_len THEN Invalid
        ELSE [result |-> 0, use_ssl |-> use_ssl, host |-> a, path |-> wantedPath,
              port |-> wanted]
  BY <1>5, <1>6, <1>7, <1>8
<1> QED
  BY <1>9 DEF url, wanted, wantedPath

(* For hosts, ports and paths of every length, and every size of the       *)
(* buffers: parse_url finds the parts that the URL was put together from,  *)
(* whatever colons, slashes and question marks the path contains, and      *)
(* refuses exactly the host and the path that do not fit.                  *)
THEOREM UrlsSplitBack == ParsersSpec => []UrlSplitsBack
<1>1. ASSUME NEW u \in Urls PROVE SplitsBack(u)
  <2>1. UrlParts(u.host, u.port, u.path)
    BY UrlPartsOf
  <2> QED
    BY <2>1, PartsFound, Zenon DEF SplitsBack, Composed
<1>2. InputInv => UrlSplitsBack
  BY <1>1 DEF InputInv, UrlSplitsBack
<1> QED
  BY <1>2, InputInvHolds, PTL

(***************************************************************************)
(* The percentiles of the latencies.                                       *)
(***************************************************************************)

(* t has the samples of s in another order: f says where each sample of t  *)
(* was in s, g undoes f.                                                   *)
Undoes(D, f, g) == f \in [D -> D] /\ g \in [D -> D] /\ \A i \in D : g[f[i]] = i /\ f[g[i]] = i
Rearranged(D, s, t) ==
  \E f, g \in [D -> D] :
    Undoes(D, f, g) /\ \A i \in D : t[i] = s[f[i]] /\ s[i] = t[g[i]]

(* The order they are in is one of them.                                   *)
LEMMA RearrangedSame ==
  ASSUME NEW D, NEW s
  PROVE  Rearranged(D, s, s)
<1> DEFINE f == [i \in D |-> i]
<1>1. f \in [D -> D] /\ Undoes(D, f, f) /\ \A i \in D : s[i] = s[f[i]]
  BY DEF Undoes
<1> QED
  BY <1>1 DEF Rearranged

(* Rearranging what is rearranged.                                         *)
LEMMA RearrangedTwice ==
  ASSUME NEW D, NEW s, NEW t, NEW u, Rearranged(D, s, t), Rearranged(D, t, u)
  PROVE  Rearranged(D, s, u)
<1>1. PICK f1 \in [D -> D], g1 \in [D -> D] :
        Undoes(D, f1, g1) /\ \A i \in D : t[i] = s[f1[i]] /\ s[i] = t[g1[i]]
  BY DEF Rearranged
<1>2. PICK f2 \in [D -> D], g2 \in [D -> D] :
        Undoes(D, f2, g2) /\ \A i \in D : u[i] = t[f2[i]] /\ t[i] = u[g2[i]]
  BY Zenon DEF Rearranged
<1> DEFINE f == [i \in D |-> f1[f2[i]]]
           g == [i \in D |-> g2[g1[i]]]
<1>3. f \in [D -> D] /\ g \in [D -> D]
  OBVIOUS
<1>4. ASSUME NEW i \in D
      PROVE  g[f[i]] = i /\ f[g[i]] = i /\ u[i] = s[f[i]] /\ s[i] = u[g[i]]
  <2>1. f[i] = f1[f2[i]] /\ g[i] = g2[g1[i]] /\ f2[i] \in D /\ g1[i] \in D
    OBVIOUS
  <2>2. g[f[i]] = g2[g1[f1[f2[i]]]] /\ f[g[i]] = f1[f2[g2[g1[i]]]]
    BY <2>1, <1>3
  <2>3. g1[f1[f2[i]]] = f2[i] /\ f2[g2[g1[i]]] = g1[i]
    BY <2>1, <1>1, <1>2 DEF Undoes
  <2>4. g2[f2[i]] = i /\ f1[g1[i]] = i
    BY <1>1, <1>2 DEF Undoes
  <2>5. u[i] = t[f2[i]] /\ t[f2[i]] = s[f1[f2[i]]]
    BY <2>1, <1>1, <1>2
  <2>6. s[i] = t[g1[i]] /\ t[g1[i]] = u[g2[g1[i]]]
    BY <2>1, <1>1, <1>2
  <2> QED
    BY <2>1, <2>2, <2>3, <2>4, <2>5, <2>6
<1> HIDE DEF f, g
<1>5. Undoes(D, f, g)
  BY <1>3, <1>4 DEF Undoes
<1>6. \A i \in D : u[i] = s[f[i]] /\ s[i] = u[g[i]]
  BY <1>4
<1> QED
  BY <1>3, <1>5, <1>6, Zenon DEF Rearranged

(* A comparison of the inner loop: the samples are the same, the larger of *)
(* the two comes last, and no other moves.                                 *)
LEMMA SwapRearranges ==
  ASSUME NEW N \in Nat, NEW s \in [0 .. N - 1 -> Nat], NEW j \in 0 .. N - 2
  PROVE  LET t == Swap(s, j)
         IN  /\ t \in [0 .. N - 1 -> Nat]
             /\ Rearranged(0 .. N - 1, s, t)
             /\ \A i \in 0 .. N - 1 : i # j /\ i # j + 1 => t[i] = s[i]
             /\ t[j] <= t[j + 1]
             /\ t[j] \in {s[j], s[j + 1]} /\ t[j + 1] \in {s[j], s[j + 1]}
             /\ s[j] <= t[j + 1]
<1> DEFINE D == 0 .. N - 1
           t == Swap(s, j)
<1>1. j \in D /\ j + 1 \in D /\ j # j + 1
  OBVIOUS
<1>2. CASE ~(s[j] > s[j + 1])
  <2>1. t = s
    BY <1>2 DEF Swap
  <2>2. s[j] \in Nat /\ s[j + 1] \in Nat
    BY <1>1
  <2> HIDE DEF t
  <2>3. t[j] <= t[j + 1]
    BY <1>2, <2>1, <2>2
  <2> QED
    BY <2>1, <2>3, RearrangedSame DEF t
<1>3. CASE s[j] > s[j + 1]
  <2> DEFINE f == [i \in D |-> IF i = j THEN j + 1 ELSE IF i = j + 1 THEN j ELSE i]
  <2>1. t = [s EXCEPT ![j] = s[j + 1], ![j + 1] = s[j]]
    BY <1>3 DEF Swap
  <2>2. s[j] \in Nat /\ s[j + 1] \in Nat
    BY <1>1
  <2> HIDE DEF t
  <2>3. /\ t \in [D -> Nat] /\ t[j] = s[j + 1] /\ t[j + 1] = s[j]
        /\ \A i \in D : i # j /\ i # j + 1 => t[i] = s[i]
    BY <2>1, <2>2, <1>1
  <2>4. f \in [D -> D]
    BY <1>1
  <2>5. ASSUME NEW i \in D
        PROVE  f[f[i]] = i /\ t[i] = s[f[i]] /\ s[i] = t[f[i]]
    <3>1. CASE i = j
      BY <3>1, <2>3, <1>1
    <3>2. CASE i = j + 1
      BY <3>2, <2>3, <1>1
    <3>3. CASE i # j /\ i # j + 1
      BY <3>3, <2>3, <1>1
    <3> QED
      BY <3>1, <3>2, <3>3
  <2> HIDE DEF f
  <2>6. Undoes(D, f, f)
    BY <2>4, <2>5 DEF Undoes
  <2>7. Rearranged(D, s, t)
    BY <2>4, <2>5, <2>6, Zenon DEF Rearranged
  <2>8. t[j] <= t[j + 1] /\ s[j] <= t[j + 1]
    BY <2>2, <2>3, <1>3
  <2> QED
    BY <2>3, <2>7, <2>8 DEF t
<1> QED
  BY <1>2, <1>3

(* What the inner loop makes of s after its first n comparisons: the       *)
(* largest of the samples up to n is at n, those after n are where they    *)
(* were, and nothing from after n came before.                             *)
Bubbled(N, s, n, t) ==
  /\ t \in [0 .. N - 1 -> Nat]
  /\ Rearranged(0 .. N - 1, s, t)
  /\ \A i \in 0 .. N - 1 : i > n => t[i] = s[i]
  /\ \A i \in 0 .. n : t[i] <= t[n]
  /\ \A i \in 0 .. n : \E c \in 0 .. n : t[i] = s[c]

(* One more comparison.                                                    *)
LEMMA BubbledStep ==
  ASSUME NEW N \in Nat, NEW s \in [0 .. N - 1 -> Nat], NEW n \in 0 .. N - 2,
         NEW t, Bubbled(N, s, n, t)
  PROVE  Bubbled(N, s, n + 1, Swap(t, n))
<1> DEFINE D == 0 .. N - 1
<1>1. PICK u : u = Swap(t, n)
  OBVIOUS
<1>2. t \in [D -> Nat] /\ Rearranged(D, s, t)
  BY DEF Bubbled
<1>3. /\ u \in [D -> Nat]
      /\ Rearranged(D, t, u)
      /\ \A i \in D : i # n /\ i # n + 1 => u[i] = t[i]
      /\ u[n] <= u[n + 1]
      /\ u[n] \in {t[n], t[n + 1]} /\ u[n + 1] \in {t[n], t[n + 1]}
      /\ t[n] <= u[n + 1]
  BY <1>1, <1>2, SwapRearranges, Zenon
<1>4. Rearranged(D, s, u)
  BY <1>2, <1>3, RearrangedTwice
<1>5. ASSUME NEW i \in D, i > n + 1 PROVE u[i] = s[i]
  <2>1. i > n /\ i # n /\ i # n + 1
    BY <1>5
  <2> QED
    BY <2>1, <1>3 DEF Bubbled
<1>6. ASSUME NEW i \in 0 .. n + 1 PROVE u[i] <= u[n + 1]
  <2>1. u[n + 1] \in Nat /\ t[n] \in Nat
    BY <1>2, <1>3
  <2>2. CASE i < n
    <3>1. i \in D /\ i \in 0 .. n /\ i # n /\ i # n + 1
      BY <2>2
    <3>2. u[i] = t[i] /\ t[i] <= t[n] /\ t[i] \in Nat
      BY <3>1, <1>2, <1>3 DEF Bubbled
    <3> QED
      BY <3>2, <2>1, <1>3
  <2>3. CASE i = n
    BY <2>3, <1>3
  <2>4. CASE i = n + 1
    BY <2>4, <2>1
  <2> QED
    BY <2>2, <2>3, <2>4
<1>7. ASSUME NEW i \in 0 .. n + 1 PROVE \E c \in 0 .. n + 1 : u[i] = s[c]
  <2>1. ASSUME NEW k \in 0 .. n + 1 PROVE \E c \in 0 .. n + 1 : t[k] = s[c]
    <3>1. CASE k \in 0 .. n
      <4>1. PICK c \in 0 .. n : t[k] = s[c]
        BY <3>1, Zenon DEF Bubbled
      <4> QED
        BY <4>1
    <3>2. CASE k = n + 1
      BY <3>2 DEF Bubbled
    <3> QED
      BY <3>1, <3>2
  <2>2. \E k \in 0 .. n + 1 : u[i] = t[k]
    <3>1. n \in 0 .. n + 1 /\ n + 1 \in 0 .. n + 1
      OBVIOUS
    <3>2. CASE i = n \/ i = n + 1
      BY <3>1, <3>2, <1>3
    <3>3. CASE i # n /\ i # n + 1
      <4>1. i \in D
        OBVIOUS
      <4>2. u[i] = t[i]
        BY <3>3, <4>1, <1>3
      <4> QED
        BY <4>2
    <3> QED
      BY <3>2, <3>3
  <2> QED
    BY <2>1, <2>2, Zenon
<1> QED
  BY <1>1, <1>3, <1>4, <1>5, <1>6, <1>7 DEF Bubbled

(* One run of the inner loop, by induction over its comparisons.           *)
LEMMA PassBubbles ==
  ASSUME NEW N \in Nat, NEW s \in [0 .. N - 1 -> Nat], NEW n \in 0 .. N - 1
  PROVE  Bubbled(N, s, n, Pass(s, n))
<1> DEFINE S == [0 .. N - 1 -> Nat]
           step == [p \in (1 .. n) \X S |-> Swap(p[2], p[1] - 1)]
           Loop(b) == [j \in 0 .. n |-> IF j = 0 THEN s ELSE Swap(b[j - 1], j - 1)]
           bubble == CHOOSE b : b = Loop(b)
<1>1. ASSUME NEW j \in 1 .. n, NEW t \in S PROVE Swap(t, j - 1) \in S
  <2>1. j - 1 \in 0 .. N - 2
    OBVIOUS
  <2> QED
    BY <2>1, SwapRearranges
<1>2. step \in [(1 .. n) \X S -> S]
  BY <1>1, Zenon
<1>3. PICK g : Recurses(g, n, S, s, step)
  <2> HIDE DEF step, S
  <2>1. s \in S /\ n \in Nat
    BY DEF S
  <2> QED
    BY <1>2, <2>1, RecursionExists, Zenon
<1>4. g = Loop(g)
  <2>1. ASSUME NEW j \in 0 .. n PROVE g[j] = Loop(g)[j]
    <3>1. CASE j = 0
      BY <3>1, <1>3 DEF Recurses
    <3>2. CASE j # 0
      <4>1. j \in 1 .. n /\ g[j - 1] \in S
        BY <3>2, <1>3 DEF Recurses
      <4> QED
        BY <4>1, <3>2, <1>3, Zenon DEF Recurses
    <3> QED
      BY <3>1, <3>2
  <2>2. g = [j \in 0 .. n |-> g[j]]
    <3> HIDE DEF S, step
    <3> QED
      BY <1>3 DEF Recurses
  <2> HIDE DEF S, step
  <2> QED
    BY <2>1, <2>2, Zenon
<1>5. bubble = Loop(bubble)
  <2> HIDE DEF Loop
  <2> QED
    BY <1>4
<1>6. Pass(s, n) = bubble[n]
  BY DEF Pass
<1> HIDE DEF bubble
<1>7. bubble[0] = s /\ \A j \in 1 .. n : bubble[j] = Swap(bubble[j - 1], j - 1)
  <2>1. bubble[0] = s
    <3>1. Loop(bubble)[0] = s
      OBVIOUS
    <3> HIDE DEF Loop
    <3> QED
      BY <3>1, <1>5
  <2>2. ASSUME NEW j \in 1 .. n PROVE bubble[j] = Swap(bubble[j - 1], j - 1)
    <3>1. Loop(bubble)[j] = Swap(bubble[j - 1], j - 1)
      OBVIOUS
    <3> HIDE DEF Loop
    <3> QED
      BY <3>1, <1>5
  <2> QED
    BY <2>1, <2>2
<1> DEFINE T == {j \in Nat : j <= n => Bubbled(N, s, j, bubble[j])}
<1>8. 0 \in T
  <2>1. \A i \in 0 .. 0 : i = 0
    OBVIOUS
  <2>2. Bubbled(N, s, 0, s)
    BY <2>1, RearrangedSame DEF Bubbled
  <2> QED
    BY <1>7, <2>2
<1>9. ASSUME NEW j \in T PROVE j + 1 \in T
  <2> SUFFICES ASSUME j + 1 <= n PROVE Bubbled(N, s, j + 1, bubble[j + 1])
    OBVIOUS
  <2>1. j \in 0 .. N - 2 /\ j + 1 \in 1 .. n /\ (j + 1) - 1 = j /\ j <= n
    OBVIOUS
  <2>2. bubble[j + 1] = Swap(bubble[j], j)
    BY <2>1, <1>7
  <2>3. Bubbled(N, s, j, bubble[j])
    BY <2>1
  <2> QED
    BY <2>1, <2>2, <2>3, BubbledStep
<1>10. T = Nat
  <2> HIDE DEF T
  <2>1. T \subseteq Nat
    BY DEF T
  <2> QED
    BY <2>1, <1>8, <1>9, NatInduct, Zenon
<1>11. Bubbled(N, s, n, bubble[n])
  <2>1. n \in Nat /\ n <= n
    OBVIOUS
  <2> QED
    BY <2>1, <1>10
<1> QED
  BY <1>6, <1>11

(* The samples s after n runs of the inner loop: the last n are in their   *)
(* final place.                                                            *)
TailSorted(N, s, n, t) ==
  /\ t \in [0 .. N - 1 -> Nat]
  /\ Rearranged(0 .. N - 1, s, t)
  /\ \A a \in N - n .. N - 1 : \A b \in 0 .. a : t[b] <= t[a]

(* One more run of the inner loop.                                         *)
LEMMA TailStep ==
  ASSUME NEW N \in Nat, NEW s \in [0 .. N - 1 -> Nat], NEW n \in 0 .. N - 1,
         NEW t, TailSorted(N, s, n, t)
  PROVE  TailSorted(N, s, n + 1, Pass(t, N - (n + 1)))
<1> DEFINE D == 0 .. N - 1
           m == N - (n + 1)
<1>1. PICK u : u = Pass(t, m)
  OBVIOUS
<1>2. m \in D /\ m \in Nat /\ N - n = m + 1 /\ N - (n + 1) = m
  OBVIOUS
<1>3. t \in [D -> Nat] /\ Rearranged(D, s, t)
  BY DEF TailSorted
<1>4. Bubbled(N, t, m, u)
  BY <1>1, <1>2, <1>3, PassBubbles, Zenon
<1> HIDE DEF m
<1>5. u \in [D -> Nat] /\ Rearranged(D, s, u)
  BY <1>3, <1>4, RearrangedTwice DEF Bubbled
<1>6. ASSUME NEW a \in m .. N - 1, NEW b \in 0 .. a PROVE u[b] <= u[a]
  <2>1. CASE a = m
    BY <2>1, <1>4, Zenon DEF Bubbled
  <2>2. CASE a # m
    <3>1. a \in D /\ a > m /\ b \in D /\ a \in m + 1 .. N - 1
      BY <2>2, <1>2
    <3>2. u[a] = t[a]
      BY <3>1, <1>4 DEF Bubbled
    <3>3. \A c \in 0 .. a : t[c] <= t[a]
      BY <3>1, <1>2 DEF TailSorted
    <3>4. CASE b > m
      <4>1. u[b] = t[b]
        BY <3>1, <3>4, <1>4 DEF Bubbled
      <4> QED
        BY <4>1, <3>2, <3>3
    <3>5. CASE ~(b > m)
      <4>1. b \in 0 .. m
        BY <3>5, <1>2
      <4>2. PICK c \in 0 .. m : u[b] = t[c]
        BY <4>1, <1>4 DEF Bubbled
      <4>3. c \in 0 .. a
        BY <3>1, <1>2
      <4> QED
        BY <4>2, <4>3, <3>2, <3>3
    <3> QED
      BY <3>4, <3>5
  <2> QED
    BY <2>1, <2>2
<1>7. Pass(t, N - (n + 1)) = u
  BY <1>1, <1>2
<1> QED
  BY <1>2, <1>5, <1>6, <1>7 DEF TailSorted

(* The bubble sort sorts: the same samples, none before a smaller one.     *)
LEMMA BubbleSortSorts ==
  ASSUME NEW N \in Nat \ {0}, NEW s \in [0 .. N - 1 -> Nat]
  PROVE  LET t == BubbleSort(s, N)
         IN  /\ t \in [0 .. N - 1 -> Nat]
             /\ Rearranged(0 .. N - 1, s, t)
             /\ \A a \in 0 .. N - 1 : \A b \in 0 .. a : t[b] <= t[a]
<1> DEFINE S == [0 .. N - 1 -> Nat]
           step == [p \in (1 .. N - 1) \X S |-> Pass(p[2], N - p[1])]
           Loop(r) == [i \in 0 .. N - 1 |-> IF i = 0 THEN s ELSE Pass(r[i - 1], N - i)]
           pass == CHOOSE r : r = Loop(r)
<1>1. ASSUME NEW i \in 1 .. N - 1, NEW t \in S PROVE Pass(t, N - i) \in S
  <2>1. N - i \in 0 .. N - 1
    OBVIOUS
  <2> QED
    BY <2>1, PassBubbles, Zenon DEF Bubbled
<1>2. step \in [(1 .. N - 1) \X S -> S]
  BY <1>1, Zenon
<1>3. PICK g : Recurses(g, N - 1, S, s, step)
  <2> HIDE DEF step, S
  <2>1. s \in S /\ N - 1 \in Nat
    BY DEF S
  <2> QED
    BY <1>2, <2>1, RecursionExists, Zenon
<1>4. g = Loop(g)
  <2>1. ASSUME NEW i \in 0 .. N - 1 PROVE g[i] = Loop(g)[i]
    <3>1. CASE i = 0
      BY <3>1, <1>3 DEF Recurses
    <3>2. CASE i # 0
      <4>1. i \in 1 .. N - 1 /\ g[i - 1] \in S
        BY <3>2, <1>3 DEF Recurses
      <4> QED
        BY <4>1, <3>2, <1>3, Zenon DEF Recurses
    <3> QED
      BY <3>1, <3>2
  <2>2. g = [i \in 0 .. N - 1 |-> g[i]]
    <3> HIDE DEF S, step
    <3> QED
      BY <1>3 DEF Recurses
  <2> HIDE DEF S, step
  <2> QED
    BY <2>1, <2>2, Zenon
<1>5. pass = Loop(pass)
  <2> HIDE DEF Loop
  <2> QED
    BY <1>4
<1>6. BubbleSort(s, N) = pass[N - 1]
  BY DEF BubbleSort
<1> HIDE DEF pass
<1>7. pass[0] = s /\ \A i \in 1 .. N - 1 : pass[i] = Pass(pass[i - 1], N - i)
  <2>1. pass[0] = s
    <3>1. Loop(pass)[0] = s
      OBVIOUS
    <3> HIDE DEF Loop
    <3> QED
      BY <3>1, <1>5
  <2>2. ASSUME NEW i \in 1 .. N - 1 PROVE pass[i] = Pass(pass[i - 1], N - i)
    <3>1. Loop(pass)[i] = Pass(pass[i - 1], N - i)
      OBVIOUS
    <3> HIDE DEF Loop
    <3> QED
      BY <3>1, <1>5
  <2> QED
    BY <2>1, <2>2
<1> DEFINE T == {i \in Nat : i <= N - 1 => TailSorted(N, s, i, pass[i])}
<1>8. 0 \in T
  <2>1. TailSorted(N, s, 0, s)
    BY RearrangedSame DEF TailSorted
  <2> QED
    BY <1>7, <2>1
<1>9. ASSUME NEW i \in T PROVE i + 1 \in T
  <2> SUFFICES ASSUME i + 1 <= N - 1 PROVE TailSorted(N, s, i + 1, pass[i + 1])
    OBVIOUS
  <2>1. i \in 0 .. N - 1 /\ i + 1 \in 1 .. N - 1 /\ (i + 1) - 1 = i /\ i <= N - 1
    OBVIOUS
  <2>2. pass[i + 1] = Pass(pass[i], N - (i + 1))
    BY <2>1, <1>7
  <2>3. TailSorted(N, s, i, pass[i])
    BY <2>1
  <2> QED
    BY <2>1, <2>2, <2>3, TailStep
<1>10. T = Nat
  <2> HIDE DEF T
  <2>1. T \subseteq Nat
    BY DEF T
  <2> QED
    BY <2>1, <1>8, <1>9, NatInduct, Zenon
<1>11. TailSorted(N, s, N - 1, pass[N - 1])
  <2>1. N - 1 \in Nat /\ N - 1 <= N - 1
    OBVIOUS
  <2> QED
    BY <2>1, <1>10
<1>12. PICK t : t = BubbleSort(s, N)
  OBVIOUS
<1>13. TailSorted(N, s, N - 1, t)
  BY <1>6, <1>11, <1>12
<1>14. ASSUME NEW a \in 0 .. N - 1, NEW b \in 0 .. a PROVE t[b] <= t[a]
  <2>1. t \in [0 .. N - 1 -> Nat]
    BY <1>13 DEF TailSorted
  <2>2. CASE a = 0
    BY <2>1, <2>2
  <2>3. CASE a # 0
    <3>1. a \in N - (N - 1) .. N - 1
      BY <2>3
    <3> QED
      BY <3>1, <1>13 DEF TailSorted
  <2> QED
    BY <2>2, <2>3
<1> QED
  BY <1>12, <1>13, <1>14 DEF TailSorted

(* The sample at k of the sorted ones: at most k samples are below it, at  *)
(* least k + 1 are not above it.                                           *)
LEMMA SortedRanks ==
  ASSUME NEW N \in Nat \ {0}, NEW s \in [0 .. N - 1 -> Nat], NEW t \in [0 .. N - 1 -> Nat],
         Rearranged(0 .. N - 1, s, t),
         \A a \in 0 .. N - 1 : \A b \in 0 .. a : t[b] <= t[a],
         NEW k \in 0 .. N - 1
  PROVE  /\ Cardinality({i \in 0 .. N - 1 : s[i] < t[k]}) <= k
         /\ Cardinality({i \in 0 .. N - 1 : s[i] <= t[k]}) > k
<1> DEFINE D == 0 .. N - 1
           Below == {i \in D : s[i] < t[k]}
           UpTo == {i \in D : s[i] <= t[k]}
<1>1. PICK f \in [D -> D], g \in [D -> D] :
        Undoes(D, f, g) /\ \A i \in D : t[i] = s[f[i]] /\ s[i] = t[g[i]]
  BY Zenon DEF Rearranged
<1>2. IsFiniteSet(0 .. k - 1) /\ Cardinality(0 .. k - 1) = k
  <2>1. 0 \in Int /\ k - 1 \in Int
    OBVIOUS
  <2>2. IsFiniteSet(0 .. k - 1) /\ Cardinality(0 .. k - 1) = IF 0 > k - 1 THEN 0 ELSE k - 1 - 0 + 1
    BY <2>1, FS_Interval, Zenon
  <2> QED
    BY <2>2
<1>3. IsFiniteSet(0 .. k) /\ Cardinality(0 .. k) = k + 1
  <2>1. 0 \in Int /\ k \in Int
    OBVIOUS
  <2>2. IsFiniteSet(0 .. k) /\ Cardinality(0 .. k) = IF 0 > k THEN 0 ELSE k - 0 + 1
    BY <2>1, FS_Interval, Zenon
  <2> QED
    BY <2>2
<1>4. IsFiniteSet(D)
  <2>1. 0 \in Int /\ N - 1 \in Int
    OBVIOUS
  <2> QED
    BY <2>1, FS_Interval
<1>5. Cardinality(Below) <= k
  <2> DEFINE h == [i \in Below |-> g[i]]
  <2>1. ASSUME NEW i \in Below PROVE h[i] \in 0 .. k - 1
    <3>1. g[i] \in D /\ h[i] = g[i] /\ t[g[i]] < t[k]
      BY <1>1
    <3>2. t[g[i]] \in Nat /\ t[k] \in Nat
      BY <3>1, Zenon
    <3>3. PICK j \in D : j = g[i]
      BY <3>1
    <3>4. ~(k \in 0 .. j)
      <4>1. SUFFICES ASSUME k \in 0 .. j PROVE FALSE
        OBVIOUS
      <4>2. t[k] <= t[j] /\ t[j] < t[k]
        BY <4>1, <3>1, <3>3
      <4>3. t[j] \in Nat
        BY <3>3
      <4> QED
        BY <4>2, <4>3, <3>2
    <3> QED
      BY <3>1, <3>3, <3>4
  <2>2. ASSUME NEW i \in Below, NEW j \in Below, h[i] = h[j] PROVE i = j
    <3>1. i \in D /\ j \in D /\ g[i] = g[j]
      BY <2>2
    <3> QED
      BY <3>1, <1>1 DEF Undoes
  <2>3. h \in Injection(Below, 0 .. k - 1)
    <3>1. h \in [Below -> 0 .. k - 1] /\ DOMAIN h = Below
      BY <2>1
    <3> HIDE DEF h, Below
    <3> QED
      BY <2>2, <3>1, Zenon DEF Injection, IsInjective
  <2> HIDE DEF h, Below
  <2>4. Cardinality(Below) <= Cardinality(0 .. k - 1)
    BY <2>3, <1>2, FS_Injection
  <2> QED
    BY <2>4, <1>2
<1>6. ASSUME NEW i \in 0 .. k PROVE i \in D
  OBVIOUS
<1>7. Cardinality(UpTo) > k
  <2> DEFINE h == [i \in 0 .. k |-> f[i]]
  <2>1. ASSUME NEW i \in 0 .. k PROVE h[i] \in UpTo
    <3>1. i \in D
      BY <1>6
    <3>2. h[i] = f[i] /\ f[i] \in D
      BY <3>1, Zenon
    <3>3. s[f[i]] = t[i] /\ t[i] <= t[k]
      BY <3>1, <1>1, Zenon
    <3> QED
      BY <3>2, <3>3, Zenon
  <2>2. ASSUME NEW i \in 0 .. k, NEW j \in 0 .. k, h[i] = h[j] PROVE i = j
    <3>1. i \in D /\ j \in D
      BY <1>6, Zenon
    <3>2. f[i] = f[j]
      BY <2>2
    <3> QED
      BY <3>1, <3>2, <1>1 DEF Undoes
  <2>3. h \in Injection(0 .. k, UpTo)
    <3>1. h \in [0 .. k -> UpTo] /\ DOMAIN h = 0 .. k
      BY <2>1, Zenon
    <3> HIDE DEF h, UpTo
    <3> QED
      BY <2>2, <3>1, Zenon DEF Injection, IsInjective
  <2>4. IsFiniteSet(UpTo) /\ Cardinality(UpTo) \in Nat
    <3>1. UpTo \in SUBSET D
      OBVIOUS
    <3> HIDE DEF UpTo, D
    <3> QED
      BY <3>1, <1>4, FS_Subset, FS_CardinalityType
  <2> HIDE DEF h, UpTo
  <2>5. Cardinality(0 .. k) <= Cardinality(UpTo)
    BY <2>3, <2>4, FS_Injection
  <2> QED
    BY <2>4, <2>5, <1>3
<1> QED
  BY <1>5, <1>7

(* The rank of p99 is an index of the samples: the cap of the code at the  *)
(* last one is never needed.                                               *)
LEMMA RankInside ==
  ASSUME NEW n \in Nat \ {0}
  PROVE  /\ P50Idx(n) = n \div 2 /\ n \div 2 \in 0 .. n - 1
         /\ P99Idx(n) = (n * P99Num) \div P99Den
         /\ (n * P99Num) \div P99Den \in 0 .. n - 1
<1>1. P99Num \in Nat /\ P99Den \in Nat \ {0} /\ P99Num + 1 <= P99Den
  BY PercentileAssumption
<1>2. PICK m \in Nat : m = n * P99Num
  BY <1>1
<1>3. m < ((n - 1) + 1) * P99Den
  <2>1. (n - 1) + 1 = n
    OBVIOUS
  <2>2. n * P99Num + n <= n * P99Den
    <3>1. PICK d \in Nat : P99Den = P99Num + 1 + d
      <4>1. P99Den - (P99Num + 1) \in Nat /\ P99Den = P99Num + 1 + (P99Den - (P99Num + 1))
        BY <1>1
      <4> QED
        BY <4>1
    <3>2. n * P99Den = n * P99Num + n + n * d
      BY <3>1, <1>1
    <3>3. n * d \in Nat /\ n * P99Num \in Nat
      BY <1>1
    <3> QED
      BY <3>2, <3>3
  <2>3. m + n <= n * P99Den /\ n * P99Den \in Nat
    BY <2>2, <1>1, <1>2
  <2> QED
    BY <2>1, <2>3
<1>4. m \div P99Den <= n - 1
  BY <1>1, <1>3, QuotientAtMost
<1>5. m \div P99Den \in Nat
  BY <1>1, QuotientBetween
<1>6. m \div P99Den \in 0 .. n - 1 /\ ~(m \div P99Den >= n)
  BY <1>4, <1>5
<1> QED
  BY <1>2, <1>6 DEF P50Idx, P99Idx

(* calculate_latency_percentiles: p50 and p99 of every window have the     *)
(* ranks their names promise, among the samples as they came.              *)
THEOREM PercentilesAreRanked == ParsersSpec => []PercentilesRanked
<1>1. InputInv => PercentilesRanked
  <2> SUFFICES ASSUME InputInv, parser = "latency", input # << >>
               PROVE  LET n == Cardinality(DOMAIN input)
                          p == calculate_latency_percentiles(input, n)
                      IN  IsRanked(p.p50, n \div 2) /\ IsRanked(p.p99, (n * P99Num) \div P99Den)
    BY DEF PercentilesRanked
  <2>1. PICK n \in Nat \ {0} : input \in [0 .. n - 1 -> Nat]
    BY DEF InputInv, Windows
  <2>2. Cardinality(DOMAIN input) = n /\ DOMAIN input = 0 .. n - 1
    <3>1. DOMAIN input = 0 .. n - 1 /\ 0 \in Int /\ n - 1 \in Int
      BY <2>1
    <3>2. Cardinality(0 .. n - 1) = IF 0 > n - 1 THEN 0 ELSE n - 1 - 0 + 1
      BY <3>1, FS_Interval
    <3> QED
      BY <3>1, <3>2
  <2>3. PICK t : t = BubbleSort(input, n)
    OBVIOUS
  <2>4. /\ t \in [0 .. n - 1 -> Nat]
        /\ Rearranged(0 .. n - 1, input, t)
        /\ \A a \in 0 .. n - 1 : \A b \in 0 .. a : t[b] <= t[a]
    BY <2>1, <2>3, BubbleSortSorts
  <2>5. ASSUME NEW k \in 0 .. n - 1 PROVE IsRanked(t[k], k)
    <3>1. /\ Cardinality({i \in 0 .. n - 1 : input[i] < t[k]}) <= k
          /\ Cardinality({i \in 0 .. n - 1 : input[i] <= t[k]}) > k
      BY <2>1, <2>4, SortedRanks, Zenon
    <3> QED
      BY <3>1, <2>2 DEF IsRanked
  <2>6. calculate_latency_percentiles(input, n) =
          [p50 |-> t[n \div 2], p99 |-> t[(n * P99Num) \div P99Den]]
    <3>1. n # 0
      OBVIOUS
    <3> QED
      BY <3>1, <2>3, RankInside, Zenon DEF calculate_latency_percentiles
  <2>7. IsRanked(t[n \div 2], n \div 2) /\
        IsRanked(t[(n * P99Num) \div P99Den], (n * P99Num) \div P99Den)
    BY <2>5, RankInside
  <2> QED
    BY <2>2, <2>6, <2>7
<1> QED
  BY <1>1, InputInvHolds, PTL

(***************************************************************************)
(* The value of a JSON field.                                              *)
(***************************************************************************)

(* Loops that go forward over the text: what they return at i is i where   *)
(* they stop, and what they return at a later place elsewhere.             *)
Advances(N, stop, next) ==
  N \in stop /\ \A i \in 0 .. N : i \notin stop => next[i] \in i + 1 .. N
Scans(N, stop, next, e) ==
  e = [i \in 0 .. N |-> IF i \in stop THEN i ELSE e[next[i]]]

(* Such a loop is known by where it stops and how it moves on: induction   *)
(* over the distance to the end.                                           *)
LEMMA ScansAlike ==
  ASSUME NEW N \in Nat, NEW stop, NEW next, Advances(N, stop, next),
         NEW e, Scans(N, stop, next, e), NEW g, Scans(N, stop, next, g)
  PROVE  e = g
<1> DEFINE T == {d \in Nat : \A i \in 0 .. N : i >= N - d => e[i] = g[i]}
<1>1. ASSUME NEW i \in 0 .. N
      PROVE  /\ e[i] = IF i \in stop THEN i ELSE e[next[i]]
             /\ g[i] = IF i \in stop THEN i ELSE g[next[i]]
  <2>1. ASSUME NEW h, Scans(N, stop, next, h)
        PROVE  h[i] = IF i \in stop THEN i ELSE h[next[i]]
    <3>1. [j \in 0 .. N |-> IF j \in stop THEN j ELSE h[next[j]]][i]
            = IF i \in stop THEN i ELSE h[next[i]]
      BY Zenon
    <3> QED
      BY <3>1, <2>1, Zenon DEF Scans
  <2> QED
    BY <2>1
<1>2. 0 \in T
  <2>1. ASSUME NEW i \in 0 .. N, i >= N - 0 PROVE e[i] = g[i]
    <3>1. i = N
      BY <2>1
    <3> QED
      BY <3>1, <1>1, Zenon DEF Advances
  <2> QED
    BY <2>1
<1>3. ASSUME NEW d \in T PROVE d + 1 \in T
  <2> SUFFICES ASSUME NEW i \in 0 .. N, i >= N - (d + 1) PROVE e[i] = g[i]
    OBVIOUS
  <2>1. CASE i \in stop
    BY <2>1, <1>1, Zenon
  <2>2. CASE i \notin stop
    <3>1. next[i] \in i + 1 .. N
      BY <2>2 DEF Advances
    <3>2. next[i] \in 0 .. N /\ next[i] >= N - d
      BY <3>1
    <3>3. e[next[i]] = g[next[i]]
      BY <3>2
    <3> QED
      BY <2>2, <3>3, <1>1, Zenon
  <2> QED
    BY <2>1, <2>2
<1>4. T = Nat
  <2> HIDE DEF T
  <2>1. T \subseteq Nat
    BY DEF T
  <2> QED
    BY <2>1, <1>2, <1>3, NatInduct, Zenon
<1>5. N \in T
  BY <1>4
<1>6. \A i \in 0 .. N : e[i] = g[i]
  BY <1>5
<1>7. e = [i \in 0 .. N |-> e[i]] /\ g = [i \in 0 .. N |-> g[i]]
  BY DEF Scans
<1> QED
  BY <1>6, <1>7

(* The first of the places in E, the end of the text without one.          *)
FirstOf(E, N) == Min(E \cup {N})

(* It is at i if i is one of them, and never before i.                     *)
LEMMA FirstOfIs ==
  ASSUME NEW N \in Nat, NEW i \in 0 .. N, NEW E, E \subseteq i .. N - 1
  PROVE  /\ FirstOf(E, N) \in i .. N
         /\ i \in E => FirstOf(E, N) = i
         /\ E = {} => FirstOf(E, N) = N
<1>1. E \cup {N} \subseteq Nat /\ E \cup {N} # {} /\ E \cup {N} \subseteq Int
  OBVIOUS
<1>2. FirstOf(E, N) \in E \cup {N}
  BY <1>1, MinExists, Zenon DEF FirstOf
<1>3. FirstOf(E, N) \in i .. N
  <2>1. E \cup {N} \subseteq i .. N
    OBVIOUS
  <2> QED
    BY <2>1, <1>2, Zenon
<1>4. ASSUME i \in E PROVE FirstOf(E, N) = i
  <2>1. i \in E \cup {N} /\ \A y \in E \cup {N} : i <= y
    BY <1>4
  <2> QED
    BY <2>1, <1>1, MinIs, Zenon DEF FirstOf
<1>5. ASSUME E = {} PROVE FirstOf(E, N) = N
  BY <1>2, <1>5
<1> QED
  BY <1>3, <1>4, <1>5

(* A loop that goes on byte by byte stops at the first place in Stops.     *)
LEMMA StepwiseStops ==
  ASSUME NEW N \in Nat, NEW Stops, Stops \subseteq 0 .. N - 1
  PROVE  LET e == CHOOSE e : e = [i \in 0 .. N |-> IF i < N /\ i \notin Stops
                                                  THEN e[i + 1] ELSE i]
         IN  \A i \in 0 .. N : e[i] = FirstOf({q \in i .. N - 1 : q \in Stops}, N)
<1> DEFINE F(h) == [i \in 0 .. N |-> IF i < N /\ i \notin Stops THEN h[i + 1] ELSE i]
           E(i) == {q \in i .. N - 1 : q \in Stops}
           stop == Stops \cup {N}
           next == [i \in 0 .. N |-> i + 1]
           g == [i \in 0 .. N |-> FirstOf(E(i), N)]
<1>1. ASSUME NEW h PROVE F(h) = [i \in 0 .. N |-> IF i \in stop THEN i ELSE h[next[i]]]
  <2>1. ASSUME NEW i \in 0 .. N
        PROVE  (IF i < N /\ i \notin Stops THEN h[i + 1] ELSE i)
                 = IF i \in stop THEN i ELSE h[next[i]]
    OBVIOUS
  <2> HIDE DEF stop, next
  <2> QED
    BY <2>1
<1>2. Scans(N, stop, next, g)
  <2>1. ASSUME NEW i \in 0 .. N
        PROVE  FirstOf(E(i), N) = IF i \in stop THEN i ELSE g[next[i]]
    <3>1. E(i) \subseteq i .. N - 1
      OBVIOUS
    <3>2. CASE i \in Stops
      <4>1. i \in E(i) /\ i \in stop
        BY <3>2
      <4> HIDE DEF E, stop
      <4> QED
        BY <4>1, <3>1, FirstOfIs
    <3>3. CASE i = N
      <4>1. E(i) = {} /\ i \in stop
        BY <3>3
      <4> HIDE DEF E, stop
      <4> QED
        BY <4>1, <3>1, <3>3, FirstOfIs
    <3>4. CASE i \notin Stops /\ i # N
      <4>1. i \notin stop /\ next[i] = i + 1 /\ i + 1 \in 0 .. N
        BY <3>4
      <4>2. E(i) = E(i + 1)
        BY <3>4
      <4>3. g[i + 1] = FirstOf(E(i + 1), N)
        BY <4>1
      <4> HIDE DEF E, stop, next, g
      <4> QED
        BY <4>1, <4>2, <4>3, Zenon
    <3> QED
      BY <3>2, <3>3, <3>4
  <2>2. ASSUME NEW i \in 0 .. N PROVE g[i] = IF i \in stop THEN i ELSE g[next[i]]
    BY <2>1, Zenon
  <2>3. g = [i \in 0 .. N |-> g[i]]
    OBVIOUS
  <2> HIDE DEF g, stop, next
  <2>4. g = [i \in 0 .. N |-> IF i \in stop THEN i ELSE g[next[i]]]
    BY <2>2, <2>3
  <2> QED
    BY <2>4, Zenon DEF Scans
<1>3. Advances(N, stop, next)
  BY DEF Advances
<1> DEFINE e == CHOOSE h : h = F(h)
<1>4. Scans(N, stop, next, e)
  <2> HIDE DEF F, stop, next, g
  <2>1. g = F(g)
    BY <1>1, <1>2, Zenon DEF Scans
  <2>2. e = F(e)
    BY <2>1, Zenon
  <2> HIDE DEF e
  <2> QED
    BY <1>1, <2>2, Zenon DEF Scans
<1>5. e = g
  <2> HIDE DEF stop, next, g, e
  <2> QED
    BY <1>2, <1>3, <1>4, ScansAlike
<1>6. \A i \in 0 .. N : g[i] = FirstOf(E(i), N)
  OBVIOUS
<1>7. \A i \in 0 .. N : e[i] = FirstOf(E(i), N)
  <2> HIDE DEF e, g, E
  <2> QED
    BY <1>5, <1>6, Zenon
<1> QED
  BY <1>7, Zenon

(* The two characters that matter in a string are not the same.            *)
LEMMA QuoteIsNoBackslash == Quote # Backslash
BY Zenon DEF Quote, Backslash

(* A quote closes the string that begins with it.                          *)
LEMMA ClosesAtOnce ==
  ASSUME NEW json, NEW i \in Nat
  PROVE  Closes(json, i, i) <=> Char(json, i) = Quote
<1>1. ASSUME Char(json, i) = Quote PROVE Closes(json, i, i)
  <2>1. /\ 0 \in 0 .. i - i /\ 0 % 2 = 0 /\ ~(i - 0 - 1 >= i)
        /\ \A j \in i - 0 .. i - 1 : Char(json, j) = Backslash
    OBVIOUS
  <2> QED
    BY <2>1, <1>1 DEF Closes
<1> QED
  BY <1>1 DEF Closes

(* What closes a string does not depend on a character in front of it that *)
(* is no backslash.                                                        *)
LEMMA ClosesBehind ==
  ASSUME NEW json, NEW i \in Nat, Char(json, i) # Backslash, NEW q \in Nat, q > i
  PROVE  Closes(json, i, q) <=> Closes(json, i + 1, q)
<1>1. ASSUME Closes(json, i, q) PROVE Closes(json, i + 1, q)
  <2>1. Char(json, q) = Quote
    BY <1>1 DEF Closes
  <2>2. PICK k \in 0 .. q - i :
          /\ k % 2 = 0
          /\ \A j \in q - k .. q - 1 : Char(json, j) = Backslash
          /\ q - k - 1 >= i => Char(json, q - k - 1) # Backslash
    BY <1>1 DEF Closes
  <2>3. k # q - i
    <3>1. SUFFICES ASSUME k = q - i PROVE FALSE
      OBVIOUS
    <3>2. i \in q - k .. q - 1
      BY <3>1
    <3> QED
      BY <3>2, <2>2
  <2>4. k \in 0 .. q - (i + 1) /\ (q - k - 1 >= i + 1 => q - k - 1 >= i)
    BY <2>3
  <2> QED
    BY <2>1, <2>2, <2>4 DEF Closes
<1>2. ASSUME Closes(json, i + 1, q) PROVE Closes(json, i, q)
  <2>1. Char(json, q) = Quote
    BY <1>2 DEF Closes
  <2>2. PICK k \in 0 .. q - (i + 1) :
          /\ k % 2 = 0
          /\ \A j \in q - k .. q - 1 : Char(json, j) = Backslash
          /\ q - k - 1 >= i + 1 => Char(json, q - k - 1) # Backslash
    BY <1>2 DEF Closes
  <2>3. k \in 0 .. q - i
    OBVIOUS
  <2>4. Char(json, q - k - 1) # Backslash
    <3>1. q - k - 1 = i \/ q - k - 1 >= i + 1
      OBVIOUS
    <3> QED
      BY <3>1, <2>2
  <2> QED
    BY <2>1, <2>2, <2>3, <2>4 DEF Closes
<1> QED
  BY <1>1, <1>2

(* Nor on a backslash in front of it with what it protects.                *)
LEMMA ClosesBehindEscape ==
  ASSUME NEW json, NEW i \in Nat, Char(json, i) = Backslash, NEW q \in Nat, q > i
  PROVE  /\ Closes(json, i, q) => q # i + 1
         /\ q >= i + 2 => (Closes(json, i, q) <=> Closes(json, i + 2, q))
<1>1. ASSUME Closes(json, i, q)
      PROVE  q # i + 1 /\ Closes(json, i + 2, q)
  <2>1. Char(json, q) = Quote
    BY <1>1 DEF Closes
  <2>2. PICK k \in 0 .. q - i :
          /\ k % 2 = 0
          /\ \A j \in q - k .. q - 1 : Char(json, j) = Backslash
          /\ q - k - 1 >= i => Char(json, q - k - 1) # Backslash
    BY <1>1 DEF Closes
  <2>3. k # q - i - 1
    <3>1. SUFFICES ASSUME k = q - i - 1 PROVE FALSE
      OBVIOUS
    <3>2. q - k - 1 = i
      BY <3>1
    <3> QED
      BY <3>2, <2>2
  <2>4. q # i + 1
    BY <2>2, <2>3
  <2>5. CASE k <= q - (i + 2)
    <3>1. k \in 0 .. q - (i + 2) /\ (q - k - 1 >= i + 2 => q - k - 1 >= i)
      BY <2>5
    <3> QED
      BY <3>1, <2>1, <2>2, <2>4 DEF Closes
  <2>6. CASE k = q - i
    <3> DEFINE m == k - 2
    <3>1. m \in 0 .. q - (i + 2) /\ m % 2 = 0 /\ ~(q - m - 1 >= i + 2)
      BY <2>2, <2>4, <2>6
    <3>2. \A j \in q - m .. q - 1 : j \in q - k .. q - 1
      OBVIOUS
    <3> HIDE DEF m
    <3> QED
      BY <3>1, <3>2, <2>1, <2>2, <2>4 DEF Closes
  <2> QED
    BY <2>3, <2>5, <2>6
<1>2. ASSUME q >= i + 2, Closes(json, i + 2, q) PROVE Closes(json, i, q)
  <2>1. Char(json, q) = Quote
    BY <1>2 DEF Closes
  <2>2. PICK k \in 0 .. q - (i + 2) :
          /\ k % 2 = 0
          /\ \A j \in q - k .. q - 1 : Char(json, j) = Backslash
          /\ q - k - 1 >= i + 2 => Char(json, q - k - 1) # Backslash
    BY <1>2 DEF Closes
  <2>3. CASE Char(json, q - k - 1) # Backslash
    <3>1. k \in 0 .. q - i
      OBVIOUS
    <3> QED
      BY <3>1, <2>1, <2>2, <2>3 DEF Closes
  <2>4. CASE Char(json, q - k - 1) = Backslash
    <3> DEFINE m == k + 2
    <3>1. q - k - 1 = i + 1
      BY <2>2, <2>4
    <3>2. m \in 0 .. q - i /\ m % 2 = 0 /\ ~(q - m - 1 >= i) /\ q - m = i
      BY <3>1, <2>2
    <3>3. ASSUME NEW j \in q - m .. q - 1 PROVE Char(json, j) = Backslash
      <4>1. j = i \/ j = q - k - 1 \/ j \in q - k .. q - 1
        BY <3>1, <3>2
      <4> QED
        BY <4>1, <2>2, <2>4
    <3> HIDE DEF m
    <3> QED
      BY <3>2, <3>3, <2>1 DEF Closes
  <2> QED
    BY <2>3, <2>4
<1> QED
  BY <1>1, <1>2

(* Where the string that begins at i can end.                              *)
Closings(json, i) == {q \in i .. Len(json) - 1 : Closes(json, i, q)}

(* The loop over a string moves on to where the same places close it.      *)
LEMMA ClosingsShift ==
  ASSUME NEW S, NEW json \in Seq(S), NEW i \in 0 .. Len(json) - 1, Char(json, i) # Quote
  PROVE  IF i + 1 < Len(json) /\ Char(json, i) = Backslash
         THEN Closings(json, i) = Closings(json, i + 2)
         ELSE Closings(json, i) = Closings(json, i + 1)
<1>1. PICK N \in Nat : N = Len(json)
  OBVIOUS
<1>2. i \in Nat /\ i < N
  BY <1>1
<1>3. ~Closes(json, i, i)
  BY <1>2, ClosesAtOnce
<1>4. CASE Char(json, i) # Backslash
  <2>1. ASSUME NEW q \in i .. N - 1, q # i
        PROVE  Closes(json, i, q) <=> Closes(json, i + 1, q)
    <3>1. q \in Nat /\ q > i
      BY <1>2, <2>1
    <3> QED
      BY <3>1, <1>2, <1>4, ClosesBehind
  <2>2. Closings(json, i) = Closings(json, i + 1)
    BY <1>1, <1>2, <1>3, <2>1 DEF Closings
  <2> QED
    BY <2>2, <1>4
<1>5. CASE Char(json, i) = Backslash /\ i + 1 < N
  <2>1. ASSUME NEW q \in i .. N - 1, Closes(json, i, q) PROVE q >= i + 2
    <3>1. q \in Nat /\ (q > i \/ q = i)
      BY <1>2
    <3>2. q # i
      BY <2>1, <1>3
    <3>3. q # i + 1
      BY <3>1, <3>2, <2>1, <1>2, <1>5, ClosesBehindEscape
    <3> QED
      BY <3>1, <3>2, <3>3, <1>2
  <2>2. ASSUME NEW q \in i .. N - 1, q >= i + 2
        PROVE  Closes(json, i, q) <=> Closes(json, i + 2, q)
    <3>1. q \in Nat /\ q > i
      BY <1>2, <2>2
    <3> QED
      BY <3>1, <2>2, <1>2, <1>5, ClosesBehindEscape
  <2>3. Closings(json, i) = Closings(json, i + 2)
    BY <1>1, <1>2, <2>1, <2>2 DEF Closings
  <2> QED
    BY <2>3, <1>1, <1>5
<1>6. CASE Char(json, i) = Backslash /\ i + 1 >= N
  <2>1. \A q \in i .. N - 1 : q = i
    BY <1>2, <1>6
  <2>2. Closings(json, i) = {} /\ Closings(json, i + 1) = {}
    BY <2>1, <1>1, <1>2, <1>3, <1>6 DEF Closings
  <2> QED
    BY <2>2, <1>1, <1>6
<1> QED
  BY <1>1, <1>4, <1>5, <1>6

(* The loop over a string ends at the quote that closes it.                *)
LEMMA StringEndIs ==
  ASSUME NEW S, NEW json \in Seq(S), NEW from \in 0 .. Len(json)
  PROVE  StringEnd(json, from) = FirstOf(Closings(json, from), Len(json))
<1>1. PICK N \in Nat : N = Len(json)
  OBVIOUS
<1> DEFINE F(h) == [i \in 0 .. Len(json) |->
                      CASE i = Len(json) -> i
                        [] i < Len(json) /\ Char(json, i) = Quote -> i
                        [] i + 1 < Len(json) /\ Char(json, i) = Backslash -> h[i + 2]
                        [] OTHER -> h[i + 1]]
           stop == {i \in 0 .. N : i = N \/ Char(json, i) = Quote}
           next == [i \in 0 .. N |-> IF i + 1 < N /\ Char(json, i) = Backslash
                                     THEN i + 2 ELSE i + 1]
           g == [i \in 0 .. N |-> FirstOf(Closings(json, i), N)]
           end == CHOOSE h : h = F(h)
<1>2. ASSUME NEW h PROVE F(h) = [i \in 0 .. N |-> IF i \in stop THEN i ELSE h[next[i]]]
  <2>1. ASSUME NEW i \in 0 .. N
        PROVE  F(h)[i] = IF i \in stop THEN i ELSE h[next[i]]
    <3>1. F(h)[i] = CASE i = N -> i
                      [] i < N /\ Char(json, i) = Quote -> i
                      [] i + 1 < N /\ Char(json, i) = Backslash -> h[i + 2]
                      [] OTHER -> h[i + 1]
      BY <1>1
    <3>2. CASE i = N
      <4>1. i \in stop /\ ~(i < N) /\ ~(i + 1 < N)
        BY <3>2
      <4> HIDE DEF F, stop, next
      <4> QED
        BY <3>1, <3>2, <4>1
    <3>3. CASE i < N /\ Char(json, i) = Quote
      <4>1. i \in stop /\ i # N /\ Char(json, i) # Backslash
        BY <3>3, QuoteIsNoBackslash
      <4> HIDE DEF F, stop, next
      <4> QED
        BY <3>1, <3>3, <4>1
    <3>4. CASE i < N /\ Char(json, i) # Quote /\ i + 1 < N /\ Char(json, i) = Backslash
      <4>1. i \notin stop /\ i # N /\ next[i] = i + 2
        BY <3>4
      <4> HIDE DEF F, stop, next
      <4> QED
        BY <3>1, <3>4, <4>1
    <3>5. CASE i < N /\ Char(json, i) # Quote /\ ~(i + 1 < N /\ Char(json, i) = Backslash)
      <4>1. i \notin stop /\ i # N /\ next[i] = i + 1
        BY <3>5
      <4> HIDE DEF F, stop, next
      <4> QED
        BY <3>1, <3>5, <4>1
    <3>6. i = N \/ i < N
      OBVIOUS
    <3> QED
      BY <3>2, <3>3, <3>4, <3>5, <3>6
  <2>2. F(h) = [i \in 0 .. N |-> F(h)[i]]
    BY <1>1
  <2> HIDE DEF F, stop, next
  <2> QED
    BY <2>1, <2>2
<1>3. Advances(N, stop, next)
  BY DEF Advances
<1>4. Scans(N, stop, next, g)
  <2>1. ASSUME NEW i \in 0 .. N
        PROVE  FirstOf(Closings(json, i), N) = IF i \in stop THEN i ELSE g[next[i]]
    <3>1. Closings(json, i) \subseteq i .. N - 1
      BY <1>1 DEF Closings
    <3>2. CASE i = N
      <4>1. Closings(json, i) = {} /\ i \in stop
        BY <3>1, <3>2
      <4> HIDE DEF stop
      <4> QED
        BY <4>1, <3>1, <3>2, FirstOfIs
    <3>3. CASE i < N /\ Char(json, i) = Quote
      <4>1. i \in stop /\ i \in i .. N - 1 /\ i \in Nat
        BY <3>3
      <4>2. i \in Closings(json, i)
        BY <4>1, <3>3, <1>1, ClosesAtOnce DEF Closings
      <4> HIDE DEF stop
      <4> QED
        BY <4>1, <4>2, <3>1, FirstOfIs
    <3>4. CASE i < N /\ Char(json, i) # Quote
      <4>1. i \notin stop /\ i \in 0 .. Len(json) - 1 /\ next[i] \in 0 .. N
        BY <3>4, <1>1
      <4>2. Closings(json, i) = Closings(json, next[i])
        BY <4>1, <3>4, <1>1, ClosingsShift
      <4>3. g[next[i]] = FirstOf(Closings(json, next[i]), N)
        BY <4>1
      <4> HIDE DEF stop, next, g
      <4> QED
        BY <4>1, <4>2, <4>3, Zenon
    <3>5. i = N \/ i < N
      OBVIOUS
    <3> QED
      BY <3>2, <3>3, <3>4, <3>5
  <2>2. ASSUME NEW i \in 0 .. N PROVE g[i] = IF i \in stop THEN i ELSE g[next[i]]
    BY <2>1, Zenon
  <2>3. g = [i \in 0 .. N |-> g[i]]
    OBVIOUS
  <2> HIDE DEF g, stop, next
  <2>4. g = [i \in 0 .. N |-> IF i \in stop THEN i ELSE g[next[i]]]
    BY <2>2, <2>3
  <2> QED
    BY <2>4, Zenon DEF Scans
<1>5. Scans(N, stop, next, end)
  <2> HIDE DEF F, stop, next, g
  <2>1. g = F(g)
    BY <1>2, <1>4, Zenon DEF Scans
  <2>2. end = F(end)
    BY <2>1, Zenon
  <2> HIDE DEF end
  <2> QED
    BY <1>2, <2>2, Zenon DEF Scans
<1>6. StringEnd(json, from) = end[from]
  BY Zenon DEF StringEnd
<1>7. end = g
  <2> HIDE DEF stop, next, g, end
  <2> QED
    BY <1>3, <1>4, <1>5, ScansAlike
<1>8. g[from] = FirstOf(Closings(json, from), N) /\ from \in 0 .. N
  BY <1>1
<1> HIDE DEF g, end
<1> QED
  BY <1>1, <1>6, <1>7, <1>8, Zenon

(* The loop over the blanks stays in the text.                             *)
LEMMA SkipBlanksStays ==
  ASSUME NEW S, NEW json \in Seq(S), NEW from \in 0 .. Len(json)
  PROVE  SkipBlanks(json, from) \in 0 .. Len(json)
<1>1. PICK N \in Nat : N = Len(json)
  OBVIOUS
<1> DEFINE Stops == {i \in 0 .. N - 1 : Char(json, i) \notin Blanks}
           F(h) == [i \in 0 .. Len(json) |->
                      IF i < Len(json) /\ Char(json, i) \in Blanks THEN h[i + 1] ELSE i]
           G(h) == [i \in 0 .. N |-> IF i < N /\ i \notin Stops THEN h[i + 1] ELSE i]
<1>2. ASSUME NEW h PROVE F(h) = G(h)
  BY <1>1
<1>3. SkipBlanks(json, from) = (CHOOSE h : h = F(h))[from]
  BY Zenon DEF SkipBlanks
<1>4. (CHOOSE h : h = F(h)) = CHOOSE h : h = G(h)
  <2> HIDE DEF F, G
  <2> QED
    BY <1>2, Zenon
<1>5. \A i \in 0 .. N :
        (CHOOSE h : h = G(h))[i] = FirstOf({q \in i .. N - 1 : q \in Stops}, N)
  <2>1. Stops \subseteq 0 .. N - 1
    OBVIOUS
  <2> HIDE DEF Stops
  <2> QED
    BY <2>1, StepwiseStops, Zenon
<1>6. from \in 0 .. N
  BY <1>1
<1>7. FirstOf({q \in from .. N - 1 : q \in Stops}, N) \in from .. N
  <2>1. {q \in from .. N - 1 : q \in Stops} \subseteq from .. N - 1
    OBVIOUS
  <2> HIDE DEF Stops
  <2> QED
    BY <2>1, <1>6, FirstOfIs
<1>8. SkipBlanks(json, from) \in from .. N
  <2> HIDE DEF F, G, Stops
  <2> QED
    BY <1>3, <1>4, <1>5, <1>6, <1>7, Zenon
<1> QED
  BY <1>1, <1>6, <1>8

(* The loop over a value without quotes ends at the first delimiter.       *)
LEMMA BareEndIs ==
  ASSUME NEW S, NEW json \in Seq(S), NEW from \in 0 .. Len(json)
  PROVE  BareEnd(json, from)
           = FirstOf({q \in from .. Len(json) - 1 : Char(json, q) \in Delimiters}, Len(json))
<1>1. PICK N \in Nat : N = Len(json)
  OBVIOUS
<1> DEFINE Stops == {i \in 0 .. N - 1 : Char(json, i) \in Delimiters}
           F(h) == [i \in 0 .. Len(json) |->
                      IF i < Len(json) /\ Char(json, i) \notin Delimiters THEN h[i + 1] ELSE i]
           G(h) == [i \in 0 .. N |-> IF i < N /\ i \notin Stops THEN h[i + 1] ELSE i]
<1>2. ASSUME NEW h PROVE F(h) = G(h)
  BY <1>1
<1>3. BareEnd(json, from) = (CHOOSE h : h = F(h))[from]
  BY Zenon DEF BareEnd
<1>4. (CHOOSE h : h = F(h)) = CHOOSE h : h = G(h)
  <2> HIDE DEF F, G
  <2> QED
    BY <1>2, Zenon
<1>5. \A i \in 0 .. N :
        (CHOOSE h : h = G(h))[i] = FirstOf({q \in i .. N - 1 : q \in Stops}, N)
  <2>1. Stops \subseteq 0 .. N - 1
    OBVIOUS
  <2> HIDE DEF Stops
  <2> QED
    BY <2>1, StepwiseStops, Zenon
<1>6. from \in 0 .. N
  BY <1>1
<1>7. {q \in from .. N - 1 : q \in Stops}
        = {q \in from .. Len(json) - 1 : Char(json, q) \in Delimiters}
  BY <1>1, <1>6
<1> HIDE DEF F, G, Stops
<1>8. BareEnd(json, from) = FirstOf({q \in from .. N - 1 : q \in Stops}, N)
  BY <1>3, <1>4, <1>5, <1>6, Zenon
<1> QED
  BY <1>1, <1>7, <1>8, Zenon

(* What is behind the field's name is a value, wherever the name is found. *)
LEMMA ExtractsValue ==
  ASSUME NEW S, NEW json \in Seq(S), NEW starts, starts # {},
         starts \subseteq {i \in 0 .. Len(json) - 1 : MatchesAt(json, i)}
  PROVE  IsValue(json, Extract(json, starts))
<1>1. PICK first : first = Min(starts)
  OBVIOUS
<1>2. first \in starts
  <2>1. starts \subseteq Nat
    OBVIOUS
  <2> QED
    BY <2>1, <1>1, MinExists, Zenon
<1>3. pattern_len \in Nat
  BY DEF pattern_len, SearchPattern
<1>4. first + pattern_len \in 0 .. Len(json)
  BY <1>2, <1>3 DEF MatchesAt
<1>5. PICK at \in 0 .. Len(json) : at = SkipBlanks(json, first + pattern_len)
  BY <1>4, SkipBlanksStays
<1>6. PICK string \in BOOLEAN : string = (at < Len(json) /\ Char(json, at) = Quote)
  BY Zenon
<1>7. PICK from \in 0 .. Len(json) : from = IF string THEN at + 1 ELSE at
  <2>1. CASE string
    <3>1. at + 1 \in 0 .. Len(json)
      <4>1. at < Len(json)
        BY <2>1, <1>6, Zenon
      <4>2. PICK N \in Nat : N = Len(json)
        OBVIOUS
      <4> QED
        BY <4>1, <4>2
    <3> QED
      BY <3>1, <2>1, Zenon
  <2>2. CASE ~string
    BY <2>2, Zenon
  <2> QED
    BY <2>1, <2>2
<1>8. PICK to : to = IF string THEN StringEnd(json, from) ELSE BareEnd(json, from)
  OBVIOUS
<1>9. PICK v : v = Extract(json, starts)
  OBVIOUS
<1>10. v = [result |-> 0, string |-> string, from |-> from,
            len |-> Min({to - from, value_buf_size - 1})]
  BY <1>1, <1>5, <1>6, <1>7, <1>8, <1>9, Zenon DEF Extract
<1>11. /\ v.string = string /\ v.from = from
       /\ v.len = Min({to - from, value_buf_size - 1})
  BY <1>10, Zenon
<1> DEFINE Ends == {q \in from .. Len(json) - 1 :
                      IF string THEN Closes(json, from, q) ELSE Char(json, q) \in Delimiters}
<1>12. to = Min(Ends \cup {Len(json)})
  <2>1. CASE string
    <3>1. Ends = Closings(json, from)
      BY <2>1 DEF Closings
    <3>2. to = FirstOf(Closings(json, from), Len(json))
      BY <2>1, <1>8, StringEndIs
    <3> HIDE DEF Ends
    <3> QED
      BY <3>1, <3>2, Zenon DEF FirstOf
  <2>2. CASE ~string
    <3>1. Ends = {q \in from .. Len(json) - 1 : Char(json, q) \in Delimiters}
      BY <2>2
    <3>2. to = FirstOf({q \in from .. Len(json) - 1 : Char(json, q) \in Delimiters}, Len(json))
      BY <2>2, <1>8, BareEndIs
    <3> HIDE DEF Ends
    <3> QED
      BY <3>1, <3>2, Zenon DEF FirstOf
  <2> QED
    BY <2>1, <2>2
<1>13. IsValue(json, v)
  BY <1>11, <1>12, Zenon DEF IsValue
<1> QED
  BY <1>9, <1>13

(* neon_parse_json_market_data: the value it finds is the JSON value       *)
(* behind the field's name, with its escapes and up to its end, cut only   *)
(* to the caller's buffer.                                                 *)
THEOREM JsonValuesExact == ParsersSpec => []JsonValueExact
<1>1. JsonInv => JsonValueExact
  <2> SUFFICES ASSUME JsonInv, parser = "json", neon_parse_json_market_data(Text).result = 0
               PROVE  IsValue(Text, neon_parse_json_market_data(Text))
    BY Zenon DEF JsonValueExact
  <2>1. Text \in Seq(Chars)
    BY Zenon DEF JsonInv
  <2>2. NeonStarts(Text) # {}
    <3>1. ASSUME NeonStarts(Text) = {} PROVE FALSE
      <4>1. neon_parse_json_market_data(Text) = [result |-> -1]
        BY <3>1, Zenon DEF neon_parse_json_market_data, Extract, NotFound
      <4>2. [result |-> -1].result = -1
        OBVIOUS
      <4>3. -1 # 0
        OBVIOUS
      <4> QED
        BY <4>1, <4>2, <4>3, Zenon
    <3> QED
      BY <3>1
  <2>3. NeonStarts(Text) \subseteq {i \in 0 .. Len(Text) - 1 : MatchesAt(Text, i)}
    BY Zenon DEF NeonStarts
  <2> QED
    BY <2>1, <2>2, <2>3, ExtractsValue, Zenon DEF neon_parse_json_market_data
<1> QED
  BY <1>1, JsonInvHolds, PTL
=============================================================================
