------------------------- MODULE H264Encoder_proofs -------------------------
(***************************************************************************)
(* What is proved of H264Encoder, for files of any length and content.     *)
(***************************************************************************)
EXTENDS H264Encoder, Numbers, TLAPS

-----------------------------------------------------------------------------
(* Start codes.  Code and Start say what stands at an offset, whatever is  *)
(* left of the file; codeAt is where the 0 0 1 of a start code is.         *)
Code(p) == Byte(p) = 0 /\ Byte(p + 1) = 0 /\ Byte(p + 2) = 1

Long(p) == Byte(p) = 0 /\ Code(p + 1)

Start(p) == Code(p) \/ Long(p)

codeAt(p) == IF Long(p) THEN p + 1 ELSE p

FileOK == file \in Seq(Bytes) /\ Len(file) > 0

LEMMA CodesFacts ==
  ASSUME FileOK
  PROVE  /\ Len(file) \in Nat /\ Codes \in SUBSET Nat
         /\ \A p \in Codes : p <= Len(file) - 3
         /\ \A p \in Nat : p \in Codes <=> Code(p)
         /\ \A p \in Nat : Byte(p) # 0 => p < Len(file)
<1>1. Len(file) \in Nat /\ DOMAIN file = 1 .. Len(file)
  BY DEF FileOK
<1>2. ASSUME NEW p \in Nat
      PROVE  /\ Byte(p) # 0 => p < Len(file)
             /\ p < Len(file) => Byte(p) = file[p + 1]
  BY DEF Byte
<1>3. ASSUME NEW p \in Nat, Code(p)  PROVE p \in Codes
  <2>1. Byte(p + 2) # 0 /\ p + 2 \in Nat
    BY <1>3 DEF Code
  <2>2. p + 2 < Len(file) /\ p + 1 \in Nat
    BY <1>2, <2>1
  <2>3. Byte(p) = file[p + 1] /\ Byte(p + 1) = file[p + 2] /\ Byte(p + 2) = file[p + 3]
    BY <1>1, <2>2 DEF Byte
  <2> QED  BY <1>1, <1>3, <2>2, <2>3 DEF Codes, Code
<1>4. ASSUME NEW p \in Codes  PROVE p \in Nat /\ p <= Len(file) - 3 /\ Code(p)
  BY <1>1 DEF Codes, Code, Byte
<1> QED  BY <1>1, <1>2, <1>3, <1>4

LEMMA StartCodeFacts ==
  ASSUME NEW p \in Nat, NEW n \in Int
  PROVE  /\ is_start_code(p, n, 3) <=> (n >= 3 /\ Code(p))
         /\ is_start_code(p, n, 4) <=> (n >= 4 /\ Long(p))
<1>1. /\ 0 .. 3 - 2 = {0, 1} /\ 0 .. 4 - 2 = {0, 1, 2}
      /\ p + 0 = p /\ p + 3 - 1 = p + 2 /\ p + 4 - 1 = p + 3
      /\ p + 1 + 1 = p + 2 /\ p + 1 + 2 = p + 3
  OBVIOUS
<1>2. is_start_code(p, n, 3) <=> (n >= 3 /\ Code(p))
  BY <1>1 DEF is_start_code, Code
<1>3. is_start_code(p, n, 4) <=> (n >= 4 /\ Long(p))
  BY <1>1 DEF is_start_code, Long, Code
<1> QED  BY <1>2, <1>3

(* A start code does not overlap the next one.                             *)
LEMMA StartFacts ==
  ASSUME FileOK, NEW p \in Nat, Start(p)
  PROVE  /\ codeAt(p) \in Codes /\ codeAt(p) \in {p, p + 1}
         /\ p < Len(file) /\ Byte(p) = 0
         /\ Byte(codeAt(p) + 2) = 1
         /\ \A q \in Codes : q > codeAt(p) <=> q >= p + 3
<1>1. codeAt(p) \in Codes /\ codeAt(p) \in {p, p + 1} /\ Code(codeAt(p))
  BY CodesFacts DEF Start, codeAt, Long
<1>2. p < Len(file) /\ Byte(p) = 0
  BY <1>1, CodesFacts DEF Start, Long, Code
<1>3. Byte(codeAt(p)) = 0 /\ Byte(codeAt(p) + 1) = 0 /\ Byte(codeAt(p) + 2) = 1
  BY <1>1 DEF Code
<1>4. ASSUME NEW q \in Codes, q > codeAt(p)  PROVE q >= p + 3
  <2>1. q \in Nat /\ Byte(q) = 0 /\ Byte(q + 1) = 0 /\ codeAt(p) \in Nat
    BY <1>1, CodesFacts DEF Code
  <2>2. q # codeAt(p) + 1 /\ q # codeAt(p) + 2
    <3>1. ASSUME q = codeAt(p) + 1  PROVE FALSE
      <4>1. q + 1 = codeAt(p) + 2
        BY <2>1, <3>1
      <4> QED  BY <1>3, <2>1, <4>1
    <3> QED  BY <1>3, <2>1, <3>1
  <2> QED  BY <1>1, <1>4, <2>1, <2>2
<1>5. ASSUME NEW q \in Codes, q >= p + 3  PROVE q > codeAt(p)
  BY <1>1, <1>5, CodesFacts
<1> QED  BY <1>1, <1>2, <1>3, <1>4, <1>5

(* What find_next_start_code finds is the start code whose 0 0 1 comes     *)
(* first, with the zero before it if there is one.                         *)
LEMMA FindFacts ==
  ASSUME FileOK, NEW p \in Nat, p <= Len(file), NEW r,
         r = find_next_start_code(p, Len(file) - p)
  PROVE  \/ r = nullptr /\ \A q \in Codes : q < p
         \/ /\ r \in Nat /\ r >= p /\ Start(r)
            /\ \A q \in Codes : q >= p => q >= codeAt(r)
            /\ r = codeAt(r) => r = p \/ Byte(r - 1) # 0
<1> DEFINE L == Len(file)
           found == {q \in p .. L - 4 : Start(q)}
           last  == LastCheck(p, L - p)
<1>1. L \in Nat /\ Codes \in SUBSET Nat /\ \A q \in Codes : q <= L - 3 /\ Code(q)
  BY CodesFacts
<1>2. {q \in p .. p + (L - p) - 4 : \/ is_start_code(q, (L - p) - (q - p), 3)
                                    \/ is_start_code(q, (L - p) - (q - p), 4)} = found
  <2>1. p + (L - p) - 4 = L - 4
    BY <1>1
  <2>2. ASSUME NEW q \in p .. L - 4
        PROVE  (\/ is_start_code(q, (L - p) - (q - p), 3)
                \/ is_start_code(q, (L - p) - (q - p), 4)) <=> Start(q)
    <3>1. q \in Nat /\ (L - p) - (q - p) \in Int /\ (L - p) - (q - p) >= 4
      BY <1>1
    <3> QED  BY <3>1, StartCodeFacts DEF Start
  <2> QED  BY <2>1, <2>2
<1>3. r = IF found # {} THEN Min(found)
          ELSE IF is_start_code(last, 3, 3) THEN last ELSE nullptr
  BY <1>2 DEF find_next_start_code
<1>4. CASE found # {}
  <2>1. found \in SUBSET Nat
    BY <1>1
  <2>2. r \in found /\ \A q \in found : r <= q
    <3> HIDE DEF found
    <3> QED  BY <1>3, <1>4, <2>1, MinFacts
  <2>3. r \in Nat /\ r >= p /\ r <= L - 4 /\ Start(r)
    BY <1>1, <2>2
  <2>4. /\ codeAt(r) \in Codes /\ codeAt(r) \in {r, r + 1}
        /\ \A q \in Codes : q > codeAt(r) <=> q >= r + 3
    BY <2>3, StartFacts
  <2>5. ASSUME NEW q \in Codes, q >= p  PROVE q >= codeAt(r)
    <3>1. q >= r
      <4>1. CASE q <= L - 4
        <5>1. q \in found
          BY <1>1, <2>5, <4>1 DEF Start
        <5> QED  BY <2>2, <5>1
      <4>2. CASE q > L - 4
        BY <1>1, <2>3, <4>2
      <4> QED  BY <1>1, <4>1, <4>2
    <3>2. codeAt(r) = r + 1 => q # r
      <4>1. codeAt(r) = r + 1 => Long(r)
        BY <2>3 DEF codeAt
      <4>2. Long(r) => Byte(r + 2) = 0
        <5>1. r + 1 + 1 = r + 2
          BY <2>3
        <5> QED  BY <5>1 DEF Long, Code
      <4>3. Code(q)
        BY <1>1
      <4> QED  BY <4>1, <4>2, <4>3 DEF Code
    <3> QED  BY <1>1, <2>3, <2>4, <3>1, <3>2
  <2>6. ASSUME r = codeAt(r), r # p  PROVE Byte(r - 1) # 0
    <3>1. Code(r)
      BY <2>3, <2>6 DEF Start, codeAt, Long
    <3>2. r - 1 \in p .. L - 4 /\ r - 1 + 1 = r /\ r - 1 \in Nat
      BY <1>1, <2>3, <2>6
    <3>3. Byte(r - 1) = 0 => r - 1 \in found
      BY <3>1, <3>2 DEF Start, Long
    <3> QED  BY <2>2, <2>3, <3>3
  <2> QED  BY <2>3, <2>5, <2>6
<1>5. CASE found = {} /\ L - p >= 3
  <2>1. last = L - 3
    <3>1. PICK m, d : m = Max({d, 0}) /\ d = L - p - 3
      OBVIOUS
    <3>2. d \in Nat /\ m = d
      <4>1. d \in Nat
        BY <1>1, <1>5, <3>1
      <4>2. Max({d, 0}) = d
        BY <4>1 DEF Max
      <4> QED  BY <3>1, <4>1, <4>2
    <3> QED  BY <1>1, <3>1, <3>2 DEF LastCheck
  <2>2. L - 3 \in Nat /\ L - 3 >= p
    BY <1>1, <1>5
  <2>3. is_start_code(L - 3, 3, 3) <=> Code(L - 3)
    BY <2>2, StartCodeFacts
  <2>4. ASSUME NEW q \in Codes, q >= p  PROVE q = L - 3
    <3>1. q \notin p .. L - 4
      BY <1>1, <1>5 DEF Start
    <3> QED  BY <1>1, <2>4, <3>1
  <2>5. CASE Code(L - 3)
    <3>1. r = L - 3
      BY <1>3, <1>5, <2>1, <2>3, <2>5
    <3>2. ~Long(L - 3)
      <4>1. L - 3 + 1 \notin Codes
        BY <1>1
      <4> QED  BY <2>2, <4>1, CodesFacts DEF Long
    <3>3. codeAt(r) = r /\ Start(r)
      BY <2>5, <3>1, <3>2 DEF codeAt, Start
    <3>4. ASSUME r # p  PROVE Byte(r - 1) # 0
      <4>1. r - 1 \in p .. L - 4 /\ r - 1 + 1 = r
        BY <1>1, <2>2, <3>1, <3>4
      <4>2. Byte(r - 1) = 0 => Start(r - 1)
        BY <2>5, <3>1, <4>1 DEF Start, Long
      <4> QED  BY <1>5, <4>1, <4>2
    <3> QED  BY <2>2, <2>4, <3>1, <3>3, <3>4
  <2>6. CASE ~Code(L - 3)
    <3>1. r = nullptr
      BY <1>3, <1>5, <2>1, <2>3, <2>6
    <3>2. ASSUME NEW q \in Codes  PROVE q < p
      <4>1. q >= p => FALSE
        BY <1>1, <2>4, <2>6
      <4> QED  BY <1>1, <4>1
    <3> QED  BY <3>1, <3>2
  <2> QED  BY <2>5, <2>6
<1>6. CASE found = {} /\ L - p < 3
  <2>1. last = p
    <3>1. PICK m, d : m = Max({d, 0}) /\ d = L - p - 3
      OBVIOUS
    <3>2. d \in Int /\ d < 0
      BY <1>1, <1>6, <3>1
    <3>3. Max({d, 0}) = 0
      BY <3>2 DEF Max
    <3> QED  BY <1>1, <3>1, <3>3 DEF LastCheck
  <2>2. \A q \in Codes : q < p
    BY <1>1, <1>6
  <2>3. ~is_start_code(p, 3, 3)
    <3>1. p \notin Codes
      BY <2>2
    <3> QED  BY <3>1, CodesFacts, StartCodeFacts
  <2> QED  BY <1>3, <1>6, <2>1, <2>2, <2>3
<1> QED  BY <1>1, <1>4, <1>5, <1>6

-----------------------------------------------------------------------------
(* The inductive invariant.  The thread stands at the start of the file,   *)
(* or at the start code that follows the last frame; what it has pushed    *)
(* begins at the codes it has passed.                                      *)
Passed == {CodeOf(k) : k \in DOMAIN pushed}

CutInv ==
  /\ pushed = <<>> => cur = 0
  /\ pushed # <<>> => /\ Start(0) /\ Start(cur)
                      /\ codeAt(cur) = CodeAfter(CodeOf(Len(pushed)))
  /\ Start(cur) => Passed = {p \in Codes : p < codeAt(cur)}
  /\ Code(cur) => cur = 0 \/ Byte(cur - 1) # 0

(* When the thread has returned it stands at the last start code, and has  *)
(* made the last check from there; or the file does not begin with one.    *)
DoneInv ==
  /\ running => pastEnd = 0
  /\ ~running /\ Start(cur) =>
       /\ \A p \in Codes : p <= codeAt(cur)
       /\ pastEnd = ReadPastEnd(cur + 3, Len(file) - (cur + 3))
  /\ ~running /\ ~Start(cur) => pushed = <<>> /\ pastEnd = 0

FileInv == TypeOK /\ Len(file) > 0

NalInv == FileInv /\ CutInv /\ FramesAreNals /\ DoneInv

(* Facts of one start code and the next, as the actions use them.          *)
LEMMA AtStartFacts ==
  ASSUME FileInv
  PROVE  /\ FileOK /\ cur \in Nat /\ Len(file) \in Nat /\ cur <= Len(file)
         /\ AtStartCode <=> Start(cur)
<1>1. FileOK /\ cur \in Nat /\ Len(file) \in Nat /\ cur <= Len(file)
  BY DEF FileInv, TypeOK, FileOK
<1>2. AtStartCode => Start(cur)
  BY <1>1, StartCodeFacts DEF AtStartCode, remain_bytes, Start
<1>3. ASSUME Long(cur)  PROVE AtStartCode
  <2>1. cur + 1 \in Codes /\ cur + 1 \in Nat
    BY <1>1, <1>3, CodesFacts DEF Long
  <2>2. remain_bytes \in Int /\ remain_bytes >= 4
    BY <1>1, <2>1, CodesFacts DEF remain_bytes
  <2> QED  BY <1>1, <1>3, <2>2, StartCodeFacts DEF AtStartCode
<1>4. ASSUME Code(cur)  PROVE AtStartCode
  <2>1. cur \in Codes
    BY <1>1, <1>4, CodesFacts
  <2>2. remain_bytes \in Int /\ remain_bytes >= 3
    BY <1>1, <2>1, CodesFacts DEF remain_bytes
  <2> QED  BY <1>1, <1>4, <2>2, StartCodeFacts DEF AtStartCode
<1> QED  BY <1>1, <1>2, <1>3, <1>4 DEF Start

(* From a start code the search begins at its third byte, which is within  *)
(* the file.                                                               *)
LEMMA NextFacts ==
  ASSUME FileInv, Start(cur)
  PROVE  /\ codeAt(cur) \in Nat /\ codeAt(cur) \in Codes
         /\ codeAt(cur) \in {cur, cur + 1}
         /\ cur + 3 <= Len(file) /\ codeAt(cur) + 3 <= Len(file)
         /\ next_start_code = find_next_start_code(cur + 3, Len(file) - (cur + 3))
         /\ \/ next_start_code = nullptr /\ \A p \in Codes : p <= codeAt(cur)
            \/ /\ next_start_code \in Nat /\ next_start_code >= cur + 3
               /\ next_start_code < Len(file)
               /\ next_start_code >= codeAt(cur) + 3
               /\ next_start_code # nullptr
               /\ Start(next_start_code)
               /\ codeAt(next_start_code) \in Codes
               /\ codeAt(next_start_code) = CodeAfter(codeAt(cur))
               /\ codeAt(next_start_code) > codeAt(cur)
               /\ \A p \in Codes : p < codeAt(next_start_code) <=> p <= codeAt(cur)
               /\ next_start_code = codeAt(next_start_code) =>
                    next_start_code = codeAt(cur) + 3 \/ Byte(next_start_code - 1) # 0
<1> DEFINE c == codeAt(cur)
           r == next_start_code
<1>1. FileOK /\ cur \in Nat /\ Len(file) \in Nat /\ cur <= Len(file)
  BY AtStartFacts
<1>2. /\ c \in Codes /\ c \in {cur, cur + 1} /\ Byte(c + 2) = 1
      /\ \A q \in Codes : q > c <=> q >= cur + 3
  BY <1>1, StartFacts
<1>3. /\ c \in Nat /\ c + 3 <= Len(file) /\ cur + 3 <= Len(file) /\ cur + 3 \in Nat
      /\ Codes \in SUBSET Nat
  BY <1>1, <1>2, CodesFacts
<1>4. r = find_next_start_code(cur + 3, Len(file) - (cur + 3))
  <2>1. remain_bytes - 3 = Len(file) - (cur + 3)
    BY <1>1 DEF remain_bytes
  <2> QED  BY <2>1 DEF next_start_code
<1>5. \/ r = nullptr /\ \A q \in Codes : q < cur + 3
      \/ /\ r \in Nat /\ r >= cur + 3 /\ Start(r)
         /\ \A q \in Codes : q >= cur + 3 => q >= codeAt(r)
         /\ r = codeAt(r) => r = cur + 3 \/ Byte(r - 1) # 0
  <2> HIDE DEF r
  <2> QED  BY <1>1, <1>3, <1>4, FindFacts
<1>6. CASE r = nullptr /\ \A q \in Codes : q < cur + 3
  <2>1. ASSUME NEW q \in Codes  PROVE q <= c
    BY <1>1, <1>2, <1>3, <1>6
  <2> QED  BY <1>2, <1>3, <1>4, <1>6, <2>1
<1>7. CASE /\ r \in Nat /\ r >= cur + 3 /\ Start(r)
           /\ \A q \in Codes : q >= cur + 3 => q >= codeAt(r)
           /\ r = codeAt(r) => r = cur + 3 \/ Byte(r - 1) # 0
  <2> HIDE DEF r, c
  <2>1. /\ codeAt(r) \in Codes /\ codeAt(r) \in {r, r + 1}
        /\ r < Len(file) /\ Byte(r) = 0
    BY <1>1, <1>7, StartFacts
  <2>2. codeAt(r) \in Nat /\ codeAt(r) > c
    BY <1>1, <1>2, <1>3, <1>7, <2>1
  <2>3. r # c + 2
    BY <1>2, <2>1
  <2>4. r >= c + 3
    BY <1>1, <1>2, <1>3, <1>7, <2>3
  <2>5. codeAt(r) = CodeAfter(c)
    <3>1. ASSUME NEW q \in Codes, q > c  PROVE codeAt(r) <= q
      BY <1>2, <1>3, <1>7, <2>2, <3>1
    <3> QED  BY <1>3, <2>1, <2>2, <3>1, LeastIsMin DEF CodeAfter
  <2>6. ASSUME NEW q \in Codes  PROVE q < codeAt(r) <=> q <= c
    BY <1>1, <1>2, <1>3, <1>7, <2>2
  <2>7. ASSUME r = codeAt(r)  PROVE r = c + 3 \/ Byte(r - 1) # 0
    BY <1>1, <1>2, <1>3, <1>7, <2>4, <2>7
  <2>8. r # nullptr
    BY <1>7 DEF nullptr
  <2> QED  BY <1>2, <1>3, <1>4, <1>7, <2>1, <2>2, <2>4, <2>5, <2>6, <2>7, <2>8 DEF r, c
<1> QED  BY <1>5, <1>6, <1>7

(* What PushNextFrame pushes is the NAL unit behind the code it stands at: *)
(* the code it found, without the zero before it, is where the unit ends.  *)
LEMMA FrameIsNal ==
  ASSUME FileInv, Start(cur), next_start_code # nullptr, NEW size, NEW start,
         size = next_start_code - cur, start = naluStartLen(cur, size)
  PROVE  /\ cur + start = codeAt(cur) + 3 /\ cur + size = next_start_code
         /\ size - start \in 0 .. Len(file)
         /\ [dataPtr |-> cur + start, size |-> size - start] = NalUnit(codeAt(cur))
<1> DEFINE c == codeAt(cur)
           r == next_start_code
<1>1. FileOK /\ cur \in Nat /\ Len(file) \in Nat /\ DOMAIN file = 1 .. Len(file)
  BY AtStartFacts DEF FileOK
<1>2. /\ c \in Nat /\ c \in {cur, cur + 1} /\ c + 3 <= Len(file)
      /\ r \in Nat /\ r >= cur + 3 /\ r < Len(file) /\ r >= c + 3 /\ Start(r)
      /\ codeAt(r) = CodeAfter(c)
      /\ r = codeAt(r) => r = c + 3 \/ Byte(r - 1) # 0
  BY NextFacts
<1> HIDE DEF r
<1>3. size \in Int /\ size = r - cur
  BY <1>1, <1>2 DEF r
<1>4. start = IF Long(cur) THEN 4 ELSE 3
  <2>1. c = IF Long(cur) THEN cur + 1 ELSE cur
    BY DEF codeAt
  <2>2. Long(cur) => size >= 4
    BY <1>1, <1>2, <1>3, <2>1
  <2>3. is_start_code(cur, size, 4) <=> size >= 4 /\ Long(cur)
    BY <1>1, <1>3, StartCodeFacts
  <2> QED  BY <2>2, <2>3 DEF naluStartLen
<1>5. cur + start = c + 3
  BY <1>1, <1>4 DEF codeAt
<1> HIDE DEF c
<1>6. start \in Nat /\ start = c + 3 - cur /\ size - start = r - (c + 3) /\ cur + size = r
  <2>1. start \in Nat
    BY <1>4 DEF naluStartLen
  <2>2. cur \in Nat /\ size \in Int /\ c \in Int /\ r \in Int
    BY <1>1, <1>2, <1>3, <1>4
  <2>3. size = r - cur
    BY <1>1, <1>2, <1>3
  <2> QED  BY <2>1, <2>2, <2>3, <1>5
<1>7. r - (c + 3) = CodeAfter(c) - (c + 3) -
        (IF CodeAfter(c) > c + 3 /\ file[CodeAfter(c)] = 0 THEN 1 ELSE 0)
  <2>1. CASE Long(r)
    <3>1. codeAt(r) = r + 1 /\ Byte(r) = 0
      BY <2>1 DEF codeAt, Long
    <3>2. file[r + 1] = 0
      BY <1>1, <1>2, <3>1 DEF Byte
    <3> QED  BY <1>2, <3>1, <3>2
  <2>2. CASE ~Long(r)
    <3>1. codeAt(r) = r
      BY <2>2 DEF codeAt
    <3>2. ASSUME r > c + 3  PROVE file[r] # 0
      <4>1. Byte(r - 1) # 0 /\ r - 1 \in Nat /\ r - 1 + 1 = r
        BY <1>2, <3>1, <3>2
      <4> QED  BY <1>1, <1>2, <4>1 DEF Byte
    <3> QED  BY <1>2, <3>1, <3>2
  <2> QED  BY <2>1, <2>2
<1>8. [dataPtr |-> cur + start, size |-> size - start] = NalUnit(c)
  BY <1>5, <1>6, <1>7 DEF NalUnit
<1>9. size - start \in 0 .. Len(file)
  BY <1>1, <1>2, <1>6
<1> QED  BY <1>5, <1>6, <1>8, <1>9 DEF c, r

(* How far past the end the last check reads from the third byte of a      *)
(* start code.                                                             *)
LEMMA PastEndFacts ==
  ASSUME FileInv, Start(cur)
  PROVE  /\ ReadPastEnd(cur + 3, Len(file) - (cur + 3)) \in 0 .. 3
         /\ ReadPastEnd(cur + 3, Len(file) - (cur + 3)) > 0 <=>
              /\ ~Long(cur)
              /\ Len(file) - (cur + 3) < 3
              /\ \A p \in cur + 3 .. Len(file) - 1 : file[p + 1] = 0
<1> DEFINE p == cur + 3
           L == Len(file)
           last == LastCheck(p, L - p)
<1>1. /\ FileOK /\ cur \in Nat /\ L \in Nat /\ p \in Nat /\ p <= L
      /\ DOMAIN file = 1 .. L
  BY AtStartFacts, NextFacts DEF FileOK
<1> HIDE DEF p, L
<1>2. last = p + (IF L - p >= 3 THEN L - p - 3 ELSE 0)
  <2>1. PICK d : d = L - p - 3
    OBVIOUS
  <2>2. d \in Int
    BY <1>1, <2>1
  <2>3. Max({d, 0}) = IF d >= 0 THEN d ELSE 0
    BY <2>2 DEF Max
  <2>4. last = p + Max({d, 0})
    BY <2>1 DEF LastCheck
  <2> QED  BY <1>1, <2>1, <2>3, <2>4
<1>3. BytesRead(last) \in 1 .. 3
  BY DEF BytesRead
<1>4. PICK m, e : /\ m = ReadPastEnd(p, L - p)
                  /\ e = last + BytesRead(last) - L
  OBVIOUS
<1> HIDE DEF last
<1>5. e \in Int /\ m = IF e >= 0 THEN e ELSE 0
  <2>1. e \in Int
    BY <1>1, <1>2, <1>3, <1>4
  <2>2. Max({0, e}) = IF e >= 0 THEN e ELSE 0
    BY <2>1 DEF Max
  <2>3. m = Max({0, e})
    BY <1>4 DEF ReadPastEnd, last, L
  <2> QED  BY <2>1, <2>2, <2>3
<1>6. m \in 0 .. 3
  BY <1>1, <1>2, <1>3, <1>4, <1>5
<1> SUFFICES m > 0 <=> /\ ~Long(cur)
                       /\ L - p < 3
                       /\ \A q \in p .. L - 1 : file[q + 1] = 0
  BY <1>4, <1>6 DEF p, L
<1>7. CASE L - p >= 3
  BY <1>1, <1>2, <1>3, <1>4, <1>5, <1>6, <1>7
<1>8. CASE L - p < 3 /\ Long(cur)
  <2>1. Byte(p) = 1
    BY <1>1, <1>8 DEF Long, Code, p
  <2>2. p < L
    BY <1>1, <2>1, CodesFacts DEF L
  <2>3. last = p /\ BytesRead(p) = 1
    BY <1>1, <1>2, <1>8, <2>1 DEF BytesRead
  <2> QED  BY <1>1, <1>4, <1>5, <1>6, <1>8, <2>2, <2>3
<1>9. CASE L - p < 3 /\ ~Long(cur)
  <2>1. last = p
    BY <1>1, <1>2, <1>9
  <2>2. L - p \in {0, 1, 2}
    BY <1>1, <1>9
  <2>3. CASE L - p = 0
    BY <1>1, <1>3, <1>4, <1>5, <1>6, <1>9, <2>1, <2>3
  <2>4. CASE L - p = 1
    <3>1. p .. L - 1 = {p} /\ Byte(p) = file[p + 1]
      BY <1>1, <2>4 DEF Byte, L
    <3>2. m > 0 <=> BytesRead(p) >= 2
      BY <1>1, <1>3, <1>4, <1>5, <2>1, <2>4
    <3>3. BytesRead(p) >= 2 <=> Byte(p) = 0
      BY DEF BytesRead
    <3> QED  BY <1>9, <3>1, <3>2, <3>3
  <2>5. CASE L - p = 2
    <3>1. /\ p .. L - 1 = {p, p + 1}
          /\ Byte(p) = file[p + 1] /\ Byte(p + 1) = file[p + 1 + 1]
      BY <1>1, <2>5 DEF Byte, L
    <3>2. m > 0 <=> BytesRead(p) = 3
      BY <1>1, <1>3, <1>4, <1>5, <2>1, <2>5
    <3>3. BytesRead(p) = 3 <=> Byte(p) = 0 /\ Byte(p + 1) = 0
      BY DEF BytesRead
    <3> QED  BY <1>9, <3>1, <3>2, <3>3
  <2> QED  BY <2>2, <2>3, <2>4, <2>5
<1> QED  BY <1>1, <1>7, <1>8, <1>9

-----------------------------------------------------------------------------
(* Type correctness.                                                       *)
Frames == [dataPtr : 0 .. Len(file), size : 0 .. Len(file)]

LEMMA InitFile == Init => FileInv
<1> SUFFICES ASSUME Init  PROVE FileInv
  OBVIOUS
<1>1. file \in UNION {[1 .. m -> Bytes] : m \in 0 .. MaxLength} /\ file # << >>
  BY DEF Init, BoundedSeq, SeqOf
<1>2. PICK m \in 0 .. MaxLength : file \in [1 .. m -> Bytes]
  BY <1>1
<1>3. file \in Seq(Bytes) /\ Len(file) > 0
  BY <1>1, <1>2, ConstantsOK
<1>4. pushed = << >> /\ cur = 0 /\ pastEnd = 0 /\ running = TRUE
  BY DEF Init
<1>5. pushed \in Seq(Frames)
  BY <1>4
<1>6. Len(file) \in Nat
  BY <1>3
<1> QED  BY <1>3, <1>4, <1>5, <1>6 DEF FileInv, TypeOK, Frames

(* The state that a pushed frame leaves.                                   *)
LEMMA PushFacts ==
  ASSUME FileInv, PushNextFrame
  PROVE  /\ running /\ Start(cur) /\ next_start_code # nullptr
         /\ cur' = next_start_code
         /\ pushed' = Append(pushed, NalUnit(codeAt(cur)))
         /\ NalUnit(codeAt(cur)) \in Frames
         /\ NalUnit(codeAt(cur)).dataPtr = codeAt(cur) + 3
         /\ UNCHANGED <<file, pastEnd, running>>
<1> DEFINE c == codeAt(cur)
<1>1. /\ running /\ Start(cur) /\ next_start_code # nullptr
      /\ UNCHANGED <<file, pastEnd, running>>
  BY AtStartFacts DEF PushNextFrame
<1>2. PICK size, start :
        /\ size = next_start_code - cur /\ start = naluStartLen(cur, size)
        /\ pushed' = Append(pushed, [dataPtr |-> cur + start, size |-> size - start])
        /\ cur' = cur + size
  BY DEF PushNextFrame
<1>3. /\ cur + start = c + 3 /\ cur + size = next_start_code
      /\ size - start \in 0 .. Len(file)
      /\ [dataPtr |-> cur + start, size |-> size - start] = NalUnit(c)
  BY <1>1, <1>2, FrameIsNal
<1>4. c + 3 \in 0 .. Len(file)
  BY <1>1, AtStartFacts, NextFacts
<1>5. NalUnit(c) \in Frames /\ NalUnit(c).dataPtr = c + 3
  <2>1. NalUnit(c) = [dataPtr |-> c + 3, size |-> size - start]
    BY <1>3
  <2> QED  BY <1>3, <1>4, <2>1 DEF Frames
<1> QED  BY <1>1, <1>2, <1>3, <1>5

LEMMA FileStep == FileInv /\ [Next]_vars => FileInv'
<1> SUFFICES ASSUME FileInv, [Next]_vars  PROVE FileInv'
  OBVIOUS
<1>1. CASE PushNextFrame
  <2>1. /\ cur' = next_start_code /\ Start(cur) /\ next_start_code # nullptr
        /\ pushed' = Append(pushed, NalUnit(codeAt(cur)))
        /\ NalUnit(codeAt(cur)) \in Frames
        /\ UNCHANGED <<file, pastEnd, running>>
    BY <1>1, PushFacts
  <2>2. next_start_code \in 0 .. Len(file)
    BY <2>1, AtStartFacts, NextFacts
  <2>3. Append(pushed, NalUnit(codeAt(cur))) \in Seq(Frames)
    <3>1. pushed \in Seq(Frames)
      BY DEF FileInv, TypeOK, Frames
    <3> HIDE DEF Frames
    <3> QED  BY <2>1, <3>1
  <2> QED  BY <2>1, <2>2, <2>3 DEF FileInv, TypeOK, Frames
<1>2. CASE ReachEnd
  <2>1. /\ pastEnd' = ReadPastEnd(cur + 3, remain_bytes - 3) /\ running' = FALSE
        /\ UNCHANGED <<file, cur, pushed>> /\ Start(cur)
    BY <1>2, AtStartFacts DEF ReachEnd
  <2>2. remain_bytes - 3 = Len(file) - (cur + 3)
    BY AtStartFacts DEF remain_bytes
  <2>3. pastEnd' \in 0 .. 3
    BY <2>1, <2>2, PastEndFacts
  <2> QED  BY <2>1, <2>3 DEF FileInv, TypeOK
<1>3. CASE NotAtStartCode
  BY <1>3 DEF NotAtStartCode, FileInv, TypeOK
<1>4. CASE UNCHANGED vars
  BY <1>4 DEF vars, FileInv, TypeOK
<1> QED  BY <1>1, <1>2, <1>3, <1>4 DEF Next

LEMMA FileAlways == Spec => []FileInv
<1>1. Init => FileInv
  BY InitFile
<1>2. FileInv /\ [Next]_vars => FileInv'
  BY FileStep
<1> QED  BY <1>1, <1>2, PTL DEF Spec

(* Every variable keeps its type: the pieces lie within the file, and the  *)
(* size that LoadH264File computes, the piece less its start code, is      *)
(* never negative.                                                         *)
THEOREM TypeCorrect == Spec => []TypeOK
<1>1. FileInv => TypeOK
  BY DEF FileInv
<1> QED  BY <1>1, FileAlways, PTL

-----------------------------------------------------------------------------
(* What is pushed.                                                         *)
LEMMA SameFile ==
  ASSUME file' = file
  PROVE  /\ Codes' = Codes
         /\ \A p : /\ Byte(p)' = Byte(p) /\ (Code(p)' <=> Code(p))
                  /\ (Long(p)' <=> Long(p)) /\ (Start(p)' <=> Start(p))
                  /\ codeAt(p)' = codeAt(p) /\ CodeAfter(p)' = CodeAfter(p)
                  /\ NalUnit(p)' = NalUnit(p)
         /\ \A p, n : ReadPastEnd(p, n)' = ReadPastEnd(p, n)
<1>1. Codes' = Codes
  BY DEF Codes
<1>2. \A p : Byte(p)' = Byte(p)
  BY DEF Byte
<1>3. \A p : /\ (Code(p)' <=> Code(p)) /\ (Long(p)' <=> Long(p))
            /\ (Start(p)' <=> Start(p)) /\ codeAt(p)' = codeAt(p)
  BY <1>2 DEF Code, Long, Start, codeAt
<1>4. \A p : CodeAfter(p)' = CodeAfter(p) /\ NalUnit(p)' = NalUnit(p)
  BY <1>1 DEF CodeAfter, NalUnit
<1>5. \A p, n : ReadPastEnd(p, n)' = ReadPastEnd(p, n)
  BY DEF ReadPastEnd, LastCheck, BytesRead, Byte
<1> QED  BY <1>1, <1>2, <1>3, <1>4, <1>5

LEMMA InitNal == Init => NalInv
<1> SUFFICES ASSUME Init  PROVE NalInv
  OBVIOUS
<1>1. FileInv /\ pushed = << >> /\ cur = 0 /\ pastEnd = 0 /\ running = TRUE
  BY InitFile DEF Init
<1>2. DOMAIN pushed = {}
  BY <1>1
<1>3. ASSUME Start(cur)  PROVE Passed = {p \in Codes : p < codeAt(cur)}
  <2>1. codeAt(0) \in {0, 1} /\ FileOK /\ Codes \in SUBSET Nat
    BY <1>1, <1>3, StartFacts, AtStartFacts, CodesFacts
  <2>2. ASSUME NEW p \in Codes, p < codeAt(0)  PROVE FALSE
    <3>1. p = 0 /\ codeAt(0) = 1
      BY <2>1, <2>2
    <3>2. Byte(0 + 1 + 1) = 0
      BY <3>1 DEF codeAt, Long, Code
    <3>3. Byte(0 + 2) = 1
      BY <2>1, <3>1, CodesFacts DEF Code
    <3> QED  BY <3>2, <3>3
  <2> QED  BY <1>1, <1>2, <2>2 DEF Passed
<1> QED  BY <1>1, <1>2, <1>3 DEF NalInv, CutInv, FramesAreNals, DoneInv

LEMMA PushStep ==
  ASSUME NalInv, PushNextFrame  PROVE CutInv' /\ FramesAreNals'
<1>1. PICK n, c, q, u : /\ n = Len(pushed) /\ c = codeAt(cur) /\ q = next_start_code
                        /\ u = NalUnit(codeAt(cur))
  OBVIOUS
<1>2. /\ running /\ Start(cur) /\ q # nullptr /\ cur' = q /\ file' = file
      /\ pushed' = Append(pushed, u) /\ u.dataPtr = c + 3 /\ u \in Frames
  BY <1>1, PushFacts DEF NalInv
<1>3. /\ c \in Nat /\ c \in Codes /\ q \in Nat /\ Start(q) /\ q >= c + 3
      /\ codeAt(q) \in Codes /\ codeAt(q) = CodeAfter(c) /\ codeAt(q) > c
      /\ \A p \in Codes : p < codeAt(q) <=> p <= c
      /\ q = codeAt(q) => q = c + 3 \/ Byte(q - 1) # 0
      /\ Codes \in SUBSET Nat /\ FileOK
  BY <1>1, <1>2, NextFacts, AtStartFacts, CodesFacts DEF NalInv
<1>4. /\ n \in Nat /\ DOMAIN pushed = 1 .. n /\ Len(pushed') = n + 1
      /\ DOMAIN pushed' = 1 .. n + 1 /\ pushed'[n + 1] = u
      /\ \A k \in 1 .. n : pushed'[k] = pushed[k]
  <2>1. pushed \in Seq(Frames)
    BY DEF NalInv, FileInv, TypeOK, Frames
  <2> HIDE DEF Frames
  <2> QED  BY <1>1, <1>2, <2>1
<1>5. CodeOf(n + 1)' = c /\ \A k \in 1 .. n : CodeOf(k)' = CodeOf(k)
  BY <1>2, <1>3, <1>4 DEF CodeOf
<1>6. /\ Codes' = Codes
      /\ \A p : /\ Byte(p)' = Byte(p) /\ (Code(p)' <=> Code(p))
               /\ (Start(p)' <=> Start(p)) /\ codeAt(p)' = codeAt(p)
               /\ CodeAfter(p)' = CodeAfter(p) /\ NalUnit(p)' = NalUnit(p)
  BY <1>2, SameFile
<1>7. Passed = {p \in Codes : p < c}
  BY <1>1, <1>2 DEF NalInv, CutInv
<1>8. pushed # << >> => c = CodeAfter(CodeOf(n))
  BY <1>1 DEF NalInv, CutInv
<1>9. n = 0 <=> pushed = << >>
  BY <1>4 DEF NalInv, FileInv, TypeOK
<1>10. CutInv'
  <2>1. pushed' # << >>
    BY <1>4
  <2>2. Start(0)' /\ Start(cur)'
    <3>1. Start(0)
      BY <1>2 DEF NalInv, CutInv
    <3>2. Start(cur)' <=> Start(q)
      BY <1>2 DEF Start, Long, Code, Byte
    <3> QED  BY <1>3, <1>6, <3>1, <3>2
  <2>3. codeAt(cur)' = codeAt(q)
    BY <1>2 DEF codeAt, Long, Code, Byte
  <2>4. CodeAfter(CodeOf(Len(pushed)))' = CodeAfter(c)
    BY <1>4, <1>5, <1>6 DEF CodeAfter
  <2>5. Passed' = {p \in Codes' : p < codeAt(cur)'}
    <3>1. Passed' = Passed \cup {c}
      <4>1. Passed' = {CodeOf(k)' : k \in 1 .. n + 1}
        BY <1>4 DEF Passed
      <4>2. Passed = {CodeOf(k) : k \in 1 .. n}
        BY <1>4 DEF Passed
      <4>3. 1 .. n + 1 = 1 .. n \cup {n + 1}
        BY <1>4
      <4> QED  BY <1>5, <4>1, <4>2, <4>3
    <3>2. \A p \in Codes : p < codeAt(q) <=> p < c \/ p = c
      BY <1>3
    <3>3. {p \in Codes : p < codeAt(q)} = {p \in Codes : p < c} \cup {c}
      BY <1>3, <3>2, Zenon
    <3> QED  BY <1>6, <1>7, <2>3, <3>1, <3>3
  <2>6. ASSUME Code(cur)'  PROVE cur' = 0 \/ Byte(cur - 1)' # 0
    <3>1. Code(q) /\ Byte(cur - 1)' = Byte(q - 1)
      BY <1>2, <2>6 DEF Code, Byte
    <3>2. q = codeAt(q) /\ Byte(q + 2) = 1 /\ q \in Codes
      BY <1>3, <3>1, CodesFacts DEF Code, codeAt, Long
    <3>3. q = c + 3 => Byte(q - 1) # 0
      <4>1. Byte(c + 2) = 1
        BY <1>3, CodesFacts DEF Code
      <4>2. q = c + 3 => q - 1 = c + 2
        BY <1>3
      <4> QED  BY <4>1, <4>2
    <3> QED  BY <1>3, <3>1, <3>2, <3>3
  <2> QED  BY <1>3, <2>1, <2>2, <2>3, <2>4, <2>5, <2>6 DEF CutInv
<1>11. FramesAreNals'
  <2>1. ASSUME NEW k \in 1 .. n
        PROVE  /\ CodeOf(k) \in Codes /\ \E p \in Codes : p > CodeOf(k)
               /\ CodeOf(k) = IF k = 1 THEN Min(Codes) ELSE CodeAfter(CodeOf(k - 1))
               /\ pushed[k] = NalUnit(CodeOf(k))
    BY <1>4 DEF NalInv, FramesAreNals
  <2>2. ASSUME NEW k \in 1 .. n
        PROVE  /\ CodeOf(k)' \in Codes' /\ \E p \in Codes' : p > CodeOf(k)'
               /\ CodeOf(k)' = IF k = 1 THEN Min(Codes')
                               ELSE CodeAfter(CodeOf(k - 1))'
               /\ (pushed[k])' = NalUnit(CodeOf(k))'
    <3>1. CodeOf(k)' = CodeOf(k) /\ (pushed[k])' = pushed[k]
      BY <1>4, <1>5
    <3>2. NalUnit(CodeOf(k))' = NalUnit(CodeOf(k))
      BY <1>6, <3>1 DEF NalUnit, CodeAfter
    <3>3. k # 1 => CodeAfter(CodeOf(k - 1))' = CodeAfter(CodeOf(k - 1))
      <4>1. k # 1 => k - 1 \in 1 .. n
        BY <1>4
      <4> QED  BY <1>5, <1>6, <4>1 DEF CodeAfter
    <3> QED  BY <1>6, <2>1, <3>1, <3>2, <3>3
  <2>3. c = IF n + 1 = 1 THEN Min(Codes) ELSE CodeAfter(CodeOf(n))
    <3>1. CASE n = 0
      <4>1. Passed = {}
        BY <1>4, <3>1 DEF Passed
      <4>2. \A p \in Codes : c <= p
        BY <1>3, <1>7, <4>1
      <4> QED  BY <1>3, <3>1, <4>2, LeastIsMin
    <3>2. CASE n # 0
      BY <1>4, <1>8, <1>9, <3>2
    <3> QED  BY <3>1, <3>2
  <2>4. /\ CodeOf(n + 1)' \in Codes' /\ \E p \in Codes' : p > CodeOf(n + 1)'
        /\ CodeOf(n + 1)' = IF n + 1 = 1 THEN Min(Codes')
                            ELSE CodeAfter(CodeOf(n + 1 - 1))'
        /\ (pushed[n + 1])' = NalUnit(CodeOf(n + 1))'
    <3>1. NalUnit(CodeOf(n + 1))' = u
      BY <1>1, <1>5, <1>6 DEF NalUnit, CodeAfter
    <3>2. n # 0 => CodeAfter(CodeOf(n + 1 - 1))' = CodeAfter(CodeOf(n))
      <4>1. n + 1 - 1 = n /\ n # 0 => n \in 1 .. n
        BY <1>4
      <4>2. n + 1 - 1 = n
        BY <1>4
      <4> QED  BY <1>5, <1>6, <4>1, <4>2 DEF CodeAfter
    <3>3. c \in Codes' /\ \E p \in Codes' : p > c
      BY <1>3, <1>6
    <3>4. c = IF n + 1 = 1 THEN Min(Codes') ELSE CodeAfter(CodeOf(n + 1 - 1))'
      <4>1. n + 1 = 1 <=> n = 0
        BY <1>4
      <4> QED  BY <1>6, <2>3, <3>2, <4>1
    <3>5. (pushed[n + 1])' = u
      BY <1>4
    <3> QED  BY <1>5, <3>1, <3>3, <3>4, <3>5
  <2>5. \A k \in 1 .. n + 1 : k \in 1 .. n \/ k = n + 1
    BY <1>4
  <2> QED  BY <1>4, <2>2, <2>4, <2>5 DEF FramesAreNals
<1> QED  BY <1>10, <1>11

LEMMA SameFrames ==
  ASSUME CutInv, FramesAreNals, UNCHANGED <<file, cur, pushed>>
  PROVE  CutInv' /\ FramesAreNals' /\ (Start(cur)' <=> Start(cur))
<1>1. CutInv'
  BY DEF CutInv, Passed, Start, Code, Long, codeAt, CodeAfter, CodeOf, Codes, Byte
<1>2. FramesAreNals'
  <2>1. Codes' = Codes
    BY DEF Codes
  <2>2. ASSUME NEW k
        PROVE  /\ CodeOf(k)' = CodeOf(k) /\ (pushed[k])' = pushed[k]
               /\ CodeAfter(CodeOf(k - 1))' = CodeAfter(CodeOf(k - 1))
    BY <2>1 DEF CodeOf, CodeAfter
  <2>3. ASSUME NEW k
        PROVE  NalUnit(CodeOf(k))' = NalUnit(CodeOf(k))
    BY <2>1 DEF CodeOf, NalUnit, CodeAfter
  <2> QED  BY <2>1, <2>2, <2>3 DEF FramesAreNals
<1>3. Start(cur)' <=> Start(cur)
  BY DEF Start, Code, Long, Byte
<1> QED  BY <1>1, <1>2, <1>3

LEMMA NalStep == NalInv /\ [Next]_vars => NalInv'
<1> SUFFICES ASSUME NalInv, [Next]_vars  PROVE NalInv'
  OBVIOUS
<1>1. FileInv'
  BY FileStep DEF NalInv
<1>2. CASE PushNextFrame
  <2>1. CutInv' /\ FramesAreNals'
    BY <1>2, PushStep
  <2>2. DoneInv'
    BY <1>2, PushFacts DEF NalInv, DoneInv
  <2> QED  BY <1>1, <2>1, <2>2 DEF NalInv
<1>3. CASE ReachEnd
  <2>1. /\ UNCHANGED <<file, cur, pushed>> /\ running' = FALSE /\ Start(cur)
        /\ next_start_code = nullptr
        /\ pastEnd' = ReadPastEnd(cur + 3, remain_bytes - 3)
    BY <1>3, AtStartFacts DEF ReachEnd, NalInv
  <2>2. CutInv' /\ FramesAreNals' /\ (Start(cur)' <=> Start(cur))
    BY <2>1, SameFrames DEF NalInv
  <2>3. remain_bytes - 3 = Len(file) - (cur + 3)
    BY AtStartFacts DEF remain_bytes, NalInv
  <2>4. (\A p \in Codes : p <= codeAt(cur))'
    <3>1. \A p \in Codes : p <= codeAt(cur)
      BY <2>1, NextFacts DEF NalInv
    <3> QED  BY <2>1, <3>1 DEF Codes, codeAt, Long, Code, Byte
  <2>5. pastEnd' = ReadPastEnd(cur + 3, Len(file) - (cur + 3))'
    BY <2>1, <2>3 DEF ReadPastEnd, LastCheck, BytesRead, Byte
  <2> QED  BY <1>1, <2>1, <2>2, <2>4, <2>5 DEF NalInv, DoneInv
<1>4. CASE NotAtStartCode
  <2>1. /\ UNCHANGED <<file, cur, pushed, pastEnd>> /\ running' = FALSE /\ running
        /\ ~Start(cur)
    BY <1>4, AtStartFacts DEF NotAtStartCode, NalInv
  <2>2. CutInv /\ FramesAreNals /\ DoneInv
    BY DEF NalInv
  <2>3. CutInv' /\ FramesAreNals'
    BY <2>1, <2>2, SameFrames
  <2>5. ~Start(cur)'
    BY <2>1 DEF Start, Code, Long, Byte
  <2>6. pushed = << >> /\ pastEnd = 0
    BY <2>1, <2>2 DEF CutInv, DoneInv
  <2> QED  BY <1>1, <2>1, <2>3, <2>5, <2>6 DEF NalInv, DoneInv
<1>5. CASE UNCHANGED vars
  <2>1. UNCHANGED <<file, cur, pushed, pastEnd, running>>
    BY <1>5 DEF vars
  <2>2. CutInv /\ FramesAreNals /\ DoneInv
    BY DEF NalInv
  <2>3. CutInv' /\ FramesAreNals'
    BY <2>1, <2>2, SameFrames
  <2>5. DoneInv'
    BY <2>1, <2>2 DEF DoneInv, Start, Code, Long, codeAt, Codes, Byte,
                      ReadPastEnd, LastCheck, BytesRead
  <2> QED  BY <1>1, <2>3, <2>5 DEF NalInv
<1> QED  BY <1>2, <1>3, <1>4, <1>5 DEF Next

LEMMA NalAlways == Spec => []NalInv
<1>1. Init => NalInv
  BY InitNal
<1>2. NalInv /\ [Next]_vars => NalInv'
  BY NalStep
<1> QED  BY <1>1, <1>2, PTL DEF Spec

(* The thread pushes the NAL units of the file in order, each whole and    *)
(* without its start code, whatever the file is.                           *)
THEOREM NalsPushed == Spec => []FramesAreNals
<1>1. NalInv => FramesAreNals
  BY DEF NalInv
<1> QED  BY <1>1, NalAlways, PTL

(* StartsWithCode says of the codes what Start says of the bytes.          *)
LEMMA StartsFacts ==
  ASSUME FileOK  PROVE StartsWithCode <=> Start(0)
<1>1. /\ Codes \in SUBSET Nat /\ Len(file) \in Nat /\ Len(file) > 0
      /\ \A p \in Nat : p \in Codes <=> Code(p)
      /\ DOMAIN file = 1 .. Len(file)
  BY CodesFacts DEF FileOK
<1>2. Byte(0) = file[1]
  BY <1>1 DEF Byte
<1>3. ASSUME StartsWithCode  PROVE Start(0)
  <2>1. Min(Codes) \in Codes /\ Min(Codes) \in {0, 1}
    <3>1. Min(Codes) \in Codes /\ Min(Codes) <= 1
      BY <1>1, <1>3, MinFacts DEF StartsWithCode
    <3>2. Min(Codes) \in Nat
      BY <1>1, <3>1
    <3> QED  BY <3>1, <3>2
  <2>2. CASE 0 \in Codes
    BY <1>1, <2>2 DEF Start
  <2>3. CASE 0 \notin Codes
    <3>1. 1 \in Codes /\ file[1] = 0 /\ 0 + 1 = 1
      BY <1>3, <2>1, <2>3 DEF StartsWithCode
    <3>2. Code(0 + 1)
      BY <1>1, <3>1
    <3> QED  BY <1>2, <3>1, <3>2 DEF Start, Long
  <2> QED  BY <2>2, <2>3
<1>4. ASSUME Start(0)  PROVE StartsWithCode
  <2>1. codeAt(0) \in Codes /\ codeAt(0) \in {0, 0 + 1} /\ Byte(0) = 0
    BY <1>4, StartFacts
  <2>2. Min(Codes) \in Nat /\ Min(Codes) <= codeAt(0)
    BY <1>1, <2>1, MinFacts
  <2> QED  BY <1>2, <2>1, <2>2 DEF StartsWithCode
<1> QED  BY <1>3, <1>4

(* Where the thread stands when it has returned.                           *)
LEMMA DoneFacts ==
  ASSUME NalInv, ~running
  PROVE  /\ StartsWithCode <=> Start(cur)
         /\ Start(cur) => /\ Max(Codes) = codeAt(cur)
                          /\ Passed = Codes \ {codeAt(cur)}
         /\ ~Start(cur) => pushed = << >> /\ pastEnd = 0
<1>1. FileOK /\ FileInv /\ CutInv /\ DoneInv /\ Codes \in SUBSET Nat
  BY AtStartFacts, CodesFacts DEF NalInv
<1>2. StartsWithCode <=> Start(cur)
  <2>1. StartsWithCode <=> Start(0)
    BY <1>1, StartsFacts
  <2>2. Start(0) <=> Start(cur)
    BY <1>1 DEF CutInv
  <2> QED  BY <2>1, <2>2
<1>3. ASSUME Start(cur)
      PROVE  Max(Codes) = codeAt(cur) /\ Passed = Codes \ {codeAt(cur)}
  <2>1. codeAt(cur) \in Codes /\ \A p \in Codes : p <= codeAt(cur)
    BY <1>1, <1>3, NextFacts DEF DoneInv
  <2>2. Max(Codes) = codeAt(cur)
    BY <1>1, <2>1, GreatestIsMax
  <2>3. Passed = {p \in Codes : p < codeAt(cur)}
    BY <1>1, <1>3 DEF CutInv
  <2>4. ASSUME NEW p \in Codes  PROVE p < codeAt(cur) <=> p # codeAt(cur)
    <3>1. p \in Nat /\ codeAt(cur) \in Nat /\ p <= codeAt(cur)
      BY <1>1, <2>1
    <3> QED  BY <3>1
  <2> QED  BY <2>2, <2>3, <2>4
<1>4. ~Start(cur) => pushed = << >> /\ pastEnd = 0
  BY <1>1 DEF DoneInv
<1> QED  BY <1>2, <1>3, <1>4

(* When the thread returns, every NAL unit but the last has been pushed,   *)
(* and none of a file that does not begin with a start code.               *)
THEOREM AllButLast == Spec => []AllButLastPushed
<1>1. ASSUME NalInv  PROVE AllButLastPushed
  <2> SUFFICES ASSUME ~running
               PROVE  Passed = IF StartsWithCode THEN Codes \ {Max(Codes)} ELSE {}
    BY DEF AllButLastPushed, Passed
  <2>1. CASE Start(cur)
    BY <1>1, <2>1, DoneFacts
  <2>2. CASE ~Start(cur)
    <3>1. pushed = << >> /\ ~StartsWithCode
      BY <1>1, <2>2, DoneFacts
    <3>2. DOMAIN pushed = {}
      BY <3>1
    <3> QED  BY <3>1, <3>2 DEF Passed
  <2> QED  BY <2>1, <2>2
<1> QED  BY <1>1, NalAlways, PTL

(* The last check reads past the end of the file in one case only: a file  *)
(* that ends in 0 0 1 and at most two zeros.                               *)
THEOREM PastEndBounded == Spec => []ReadsPastEnd
<1>1. ASSUME NalInv  PROVE ReadsPastEnd
  <2> SUFFICES ASSUME ~running
               PROVE  pastEnd > 0 <=>
                        /\ StartsWithCode
                        /\ Max(Codes) = 0 \/ file[Max(Codes)] # 0
                        /\ Len(file) - (Max(Codes) + 3) < 3
                        /\ \A p \in Max(Codes) + 3 .. Len(file) - 1 : file[p + 1] = 0
    BY DEF ReadsPastEnd
  <2>1. CASE ~Start(cur)
    BY <1>1, <2>1, DoneFacts
  <2>2. CASE Start(cur)
    <3>1. /\ FileInv /\ FileOK /\ cur \in Nat /\ StartsWithCode
          /\ Max(Codes) = codeAt(cur) /\ cur < Len(file) /\ Byte(cur) = 0
          /\ pastEnd = ReadPastEnd(cur + 3, Len(file) - (cur + 3))
      BY <1>1, <2>2, DoneFacts, AtStartFacts, StartFacts DEF NalInv, DoneInv
    <3>2. pastEnd > 0 <=>
            /\ ~Long(cur)
            /\ Len(file) - (cur + 3) < 3
            /\ \A p \in cur + 3 .. Len(file) - 1 : file[p + 1] = 0
      BY <2>2, <3>1, PastEndFacts
    <3>3. CASE Long(cur)
      <4>1. Max(Codes) = cur + 1 /\ cur + 1 # 0 /\ file[cur + 1] = 0
        BY <3>1, <3>3 DEF codeAt, Byte
      <4> QED  BY <3>2, <3>3, <4>1
    <3>4. CASE ~Long(cur)
      <4>1. Max(Codes) = cur
        BY <3>1, <3>4 DEF codeAt
      <4>2. cur = 0 \/ file[cur] # 0
        <5>1. cur = 0 \/ Byte(cur - 1) # 0
          BY <1>1, <2>2, <3>4 DEF Start, NalInv, CutInv
        <5>2. cur # 0 => Byte(cur - 1) = file[cur]
          BY <3>1 DEF Byte, FileOK
        <5> QED  BY <5>1, <5>2
      <4> QED  BY <3>1, <3>2, <3>4, <4>1, <4>2
    <3> QED  BY <3>3, <3>4
  <2> QED  BY <2>1, <2>2
<1> QED  BY <1>1, NalAlways, PTL

=============================================================================
