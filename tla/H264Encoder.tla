---------------------------- MODULE H264Encoder -----------------------------
(***************************************************************************)
(* The capture thread of the video server: H264Encoder maps a file into    *)
(* memory and get_next_frame cuts it at the start codes 0 0 1 and 0 0 0 1; *)
(* LoadH264File strips the start code of each piece and pushes the rest,   *)
(* one NAL unit, into the frame buffer.                                    *)
(*                                                                         *)
(* A file is a sequence of bytes, of which only 0, 1 and any other matter. *)
(* Pointers into the file are offsets, from 0 on.                          *)
(***************************************************************************)
EXTENDS Integers, Sequences, SequencesExt, FiniteSetsExt

CONSTANTS
  Bytes,    (* the values of a byte *)
  MaxLength (* bound: the length of the file *)

ASSUME ConstantsOK == {0, 1} \subseteq Bytes /\ MaxLength \in Nat \ {0}

VARIABLES
  file,     (* the mapped file *)
  cur,      (* ptr_mapped_file_cur *)
  pushed,   (* the frames given to pushFrame: [dataPtr, size] *)
  pastEnd,  (* how far past the end of the file the last call read *)
  running   (* the capture thread has not returned *)

vars == <<file, cur, pushed, pastEnd, running>>

nullptr == -1

(* What a read at offset p sees: the rest of the file's last page is zero. *)
Byte(p) == IF p < Len(file) THEN file[p + 1] ELSE 0

(* Here and below, X_Slip is the form that X, defined next, would have     *)
(* after the mistake in the code that its suffix names; nothing uses it.   *)
is_start_code_ThreeOnly(p, buffer_len, start_code_type) ==
  /\ start_code_type = 3 /\ buffer_len >= 3
  /\ Byte(p) = 0 /\ Byte(p + 1) = 0 /\ Byte(p + 2) = 1

is_start_code(p, buffer_len, start_code_type) ==
  /\ buffer_len >= start_code_type
  /\ \A k \in 0 .. start_code_type - 2 : Byte(p + k) = 0
  /\ Byte(p + start_code_type - 1) = 1

(* The last check of find_next_start_code, made whatever is left. *)
LastCheck_Early(p, buffer_len) == p + Max({buffer_len - 4, 0})
LastCheck(p, buffer_len) == p + Max({buffer_len - 3, 0})

find_next_start_code(p, buffer_len) ==
  LET found == {q \in p .. p + buffer_len - 4 :
                  \/ is_start_code(q, buffer_len - (q - p), 3)
                  \/ is_start_code(q, buffer_len - (q - p), 4)}
      last  == LastCheck(p, buffer_len)
  IN IF found # {} THEN Min(found)
     ELSE IF is_start_code(last, 3, 3) THEN last ELSE nullptr

(* How many bytes a check for 0 0 1 at p looks at. *)
BytesRead(p) == IF Byte(p) # 0 THEN 1 ELSE IF Byte(p + 1) # 0 THEN 2 ELSE 3

(* How far past the end of the file the last check reads, if it is made    *)
(* there: the checks before it look at their buffer_len.                   *)
ReadPastEnd_Guarded(p, buffer_len) == 0
ReadPastEnd(p, buffer_len) ==
  LET last == LastCheck(p, buffer_len)
  IN Max({0, last + BytesRead(last) - Len(file)})

remain_bytes == Len(file) - cur

AtStartCode ==
  is_start_code(cur, remain_bytes, 4) \/ is_start_code(cur, remain_bytes, 3)

next_start_code == find_next_start_code(cur + 3, remain_bytes - 3)

(* The length of the start code that LoadH264File strips. *)
naluStartLen_Four(framePtr, frameSize) == 4
naluStartLen(framePtr, frameSize) ==
  IF is_start_code(framePtr, frameSize, 4) THEN 4 ELSE 3

Init ==
  /\ file \in BoundedSeq(Bytes, MaxLength) \ {<<>>}
  /\ cur = 0
  /\ pushed = <<>>
  /\ pastEnd = 0
  /\ running = TRUE

(* A turn of LoadH264File in which get_next_frame finds a frame. *)
PushNextFrame ==
  /\ running /\ AtStartCode /\ next_start_code # nullptr
  /\ LET frame_size == next_start_code - cur
         start == naluStartLen(cur, frame_size)
     IN /\ pushed' = Append(pushed, [dataPtr |-> cur + start,
                                     size |-> frame_size - start])
        /\ cur' = cur + frame_size
  /\ UNCHANGED <<file, pastEnd, running>>

(* get_next_frame sees no further start code: the thread returns. *)
ReachEnd ==
  /\ running /\ AtStartCode /\ next_start_code = nullptr
  /\ pastEnd' = ReadPastEnd(cur + 3, remain_bytes - 3)
  /\ running' = FALSE
  /\ UNCHANGED <<file, cur, pushed>>

(* get_next_frame does not stand at a start code: the thread returns. *)
NotAtStartCode ==
  /\ running /\ ~AtStartCode
  /\ running' = FALSE
  /\ UNCHANGED <<file, cur, pushed, pastEnd>>

Next == PushNextFrame \/ ReachEnd \/ NotAtStartCode

Spec == Init /\ [][Next]_vars

-----------------------------------------------------------------------------
(* Properties.  The reference is what a byte stream of H.264 is: NAL units *)
(* between the occurrences of 0 0 1, where a zero right before 0 0 1       *)
(* belongs to the start code.                                              *)

(* Every variable has its type; no frame has a negative size. *)
TypeOK ==
  /\ file \in Seq(Bytes)
  /\ cur \in 0 .. Len(file)
  /\ pushed \in Seq([dataPtr : 0 .. Len(file), size : 0 .. Len(file)])
  /\ pastEnd \in 0 .. 3
  /\ running \in BOOLEAN

(* The offsets of 0 0 1 in the file. *)
Codes == {p \in 0 .. Len(file) - 3 :
            file[p + 1] = 0 /\ file[p + 2] = 0 /\ file[p + 3] = 1}

CodeAfter(p) == Min({q \in Codes : q > p})

(* The NAL unit between the code at p and the next one. *)
NalUnit(p) ==
  LET from == p + 3
      to   == CodeAfter(p)
  IN [dataPtr |-> from,
      size |-> to - from - (IF to > from /\ file[to] = 0 THEN 1 ELSE 0)]

(* The code before the k-th frame. *)
CodeOf(k) == pushed[k].dataPtr - 3

(* What the thread pushes are the NAL units of the file, in order, each    *)
(* whole and without its start code: cutting at 0 0 1 or 0 0 0 1 from the  *)
(* third byte of a piece on never splits, joins, skips or shifts a unit.   *)
FramesAreNals ==
  \A k \in DOMAIN pushed :
    /\ CodeOf(k) \in Codes /\ \E q \in Codes : q > CodeOf(k)
    /\ CodeOf(k) = IF k = 1 THEN Min(Codes) ELSE CodeAfter(CodeOf(k - 1))
    /\ pushed[k] = NalUnit(CodeOf(k))

(* When the thread returns it has pushed every NAL unit but the last one,  *)
(* which is followed by no start code, or nothing at all if the file does  *)
(* not begin with a start code.                                            *)
StartsWithCode == Codes # {} /\ Min(Codes) <= 1 /\ (0 \in Codes \/ file[1] = 0)

AllButLastPushed ==
  ~running =>
    {CodeOf(k) : k \in DOMAIN pushed} =
      IF StartsWithCode THEN Codes \ {Max(Codes)} ELSE {}

(* The last check does not look at how much is left, and yet the thread    *)
(* reads past the end of the file only when the last start code is 0 0 1   *)
(* and fewer than three bytes, all of them zero, follow it.                *)
ReadsPastEnd ==
  ~running =>
    (pastEnd > 0 <=>
       /\ StartsWithCode
       /\ Max(Codes) = 0 \/ file[Max(Codes)] # 0
       /\ Len(file) - (Max(Codes) + 3) < 3
       /\ \A p \in Max(Codes) + 3 .. Len(file) - 1 : file[p + 1] = 0)

=============================================================================
