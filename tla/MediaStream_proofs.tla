------------------------- MODULE MediaStream_proofs -------------------------
(***************************************************************************)
(* Proofs about the stream thread and the commands of its client, for all  *)
(* frame sizes, all capacities of the buffer and any number of spurious    *)
(* wake-ups.                                                               *)
(***************************************************************************)
EXTENDS MediaStream, TLAPS

-----------------------------------------------------------------------------
(* Types.  The state that a command asks for is one only while there is a  *)
(* command, and at the end of SetCmd it is there.                          *)

CallKnown ==
  /\ step = "out" <=> call = "none"
  /\ step = "return" => streamState = StateOf[call]

TypeInv == TypeOK /\ CallKnown

LEMMA TypeInit == Init => TypeInv
<1> SUFFICES ASSUME Init  PROVE TypeInv
  OBVIOUS
<1>1. queue = <<>> /\ cur_frame = [c \in {"this", "other"} |-> 0]
  BY DEF Init, DataCapture!Init
<1>2. queue \in Seq(Sizes) /\ Len(queue) <= buffer_max_size
  BY <1>1, ConstantsOK
<1>3. /\ cur_frame \in [{"this", "other"} -> Sizes \cup {0}]
      /\ spurious \in 0 .. MaxSpurious
  BY <1>1, ConstantsOK DEF Init
<1>4. CallKnown
  BY DEF Init, CallKnown
<1>5. played \in BOOLEAN /\ raced \in BOOLEAN
  BY DEF Init
<1>6. /\ streamState \in {"Init", "Play", "Pause", "Teardown"}
      /\ streamMutex \in {"free", "thread", "caller"}
      /\ pc \in {"top", "testPause", "testTeardown", "woken", "done"}
      /\ call \in Commands \cup {"none"}
      /\ step \in {"out", "lock", "store", "return"}
  BY DEF Init
<1> QED  BY <1>2, <1>3, <1>4, <1>5, <1>6 DEF TypeInv, TypeOK

LEMMA PutType ==
  ASSUME TypeOK, NEW f \in Sizes, DataCapture!Put(f)
  PROVE  /\ queue' \in Seq(Sizes) /\ Len(queue') <= buffer_max_size
         /\ UNCHANGED cur_frame
BY ConstantsOK DEF TypeOK, DataCapture!Put

LEMMA TakeType ==
  ASSUME TypeOK, NEW c \in {"this", "other"},
         DataCapture!Take(c) \/ DataCapture!TakeNone(c)
  PROVE  /\ queue' \in Seq(Sizes) /\ Len(queue') <= buffer_max_size
         /\ cur_frame' \in [{"this", "other"} -> Sizes \cup {0}]
<1>1. CASE DataCapture!Take(c)
  <2>1. queue \in Seq(Sizes) /\ queue # <<>> /\ queue' = Tail(queue)
    BY <1>1 DEF TypeOK, DataCapture!Take
  <2>2. Head(queue) \in Sizes /\ Tail(queue) \in Seq(Sizes)
        /\ Len(Tail(queue)) <= Len(queue)
    BY <2>1
  <2>3. cur_frame' = [cur_frame EXCEPT ![c] = Head(queue)]
    BY <1>1 DEF DataCapture!Take
  <2> QED  BY <2>1, <2>2, <2>3, ConstantsOK DEF TypeOK
<1>2. CASE DataCapture!TakeNone(c)
  BY <1>2 DEF TypeOK, DataCapture!TakeNone
<1> QED  BY <1>1, <1>2

LEMMA TypeStep == TypeInv /\ [Next]_vars => TypeInv'
<1> SUFFICES ASSUME TypeInv, [Next]_vars  PROVE TypeInv'
  OBVIOUS
<1> USE DEF Goto, At, TypeInv, CallKnown
<1>1. ASSUME \/ TestPlay \/ Drain \/ Send \/ TestPause \/ LockToWait \/ Wait
             \/ Relock \/ TestTeardown
      PROVE  TypeInv'
  BY <1>1 DEF TypeOK, TestPlay, Drain, Send, TestPause, LockToWait, Wait, Relock,
              TestTeardown, buffer, control, history, Sending, Asleep
<1>2. CASE Pop
  <2>1. /\ queue' \in Seq(Sizes) /\ Len(queue') <= buffer_max_size
        /\ cur_frame' \in [{"this", "other"} -> Sizes \cup {0}]
    BY <1>2, TakeType DEF Pop
  <2>2. /\ UNCHANGED <<streamState, control, spurious, history>>
        /\ pc' \in {"send", "drain"}
    BY <1>2 DEF Pop
  <2> QED  BY <2>1, <2>2 DEF TypeOK, control, history, Sending
<1>3. CASE SpuriousWake
  BY <1>3, ConstantsOK DEF TypeOK, SpuriousWake, control, buffer, history
<1>4. ASSUME CmdLock \/ \E cmd \in Commands : CmdCall(cmd)
      PROVE  TypeInv'
  BY <1>4 DEF TypeOK, CmdCall, CmdLock, buffer, history, Commands
<1>5. CASE CmdStore
  BY <1>5 DEF TypeOK, CmdStore, buffer, Commands, StateOf
<1>6. CASE CmdReturn
  BY <1>6 DEF TypeOK, CmdReturn, buffer
<1>7. CASE Capture
  <2>1. PICK f \in Sizes : DataCapture!Put(f)
    BY <1>7 DEF Capture
  <2>2. /\ queue' \in Seq(Sizes) /\ Len(queue') <= buffer_max_size
        /\ UNCHANGED cur_frame
    BY <2>1, PutType
  <2> QED  BY <1>7, <2>2 DEF Capture, TypeOK, control, history
<1>8. CASE OtherTakes
  <2>1. /\ queue' \in Seq(Sizes) /\ Len(queue') <= buffer_max_size
        /\ cur_frame' \in [{"this", "other"} -> Sizes \cup {0}]
    BY <1>8, TakeType DEF OtherTakes
  <2> QED  BY <1>8, <2>1 DEF OtherTakes, TypeOK, control, history
<1>9. CASE UNCHANGED vars
  BY <1>9 DEF TypeOK, vars, control, buffer, history
<1> QED
  BY <1>1, <1>2, <1>3, <1>4, <1>5, <1>6, <1>7, <1>8, <1>9
  DEF Next, Thread, Caller, CaptureDrop

LEMMA TypeAlways == Spec => []TypeInv
BY TypeInit, TypeStep, PTL DEF Spec

(* Every variable of HandleMediaStream and SetCmd keeps its type, and the  *)
(* buffer its size.                                                        *)
THEOREM TypeCorrect == Spec => []TypeOK
<1>1. TypeInv => TypeOK
  BY DEF TypeInv
<1> QED  BY <1>1, TypeAlways, PTL

-----------------------------------------------------------------------------
(* What an invariant of the control variables has to withstand.  The steps *)
(* that move frames only, and those that only test, are taken together.    *)

FrameMoves == Drain \/ Pop \/ Send
Elsewhere  == Capture \/ CaptureDrop \/ OtherTakes

LEMMA NextCases ==
  ASSUME [Next]_vars
  PROVE  \/ TestPlay \/ FrameMoves \/ TestPause \/ LockToWait \/ Wait \/ Relock
         \/ TestTeardown \/ SpuriousWake
         \/ CmdLock \/ \E cmd \in Commands : CmdCall(cmd)
         \/ CmdStore \/ CmdReturn \/ Elsewhere \/ UNCHANGED vars
BY DEF Next, Thread, Caller, FrameMoves, Elsewhere

LEMMA FrameMovesLeave ==
  FrameMoves => /\ UNCHANGED <<streamState, control, history>>
                /\ pc \in Sending /\ pc' \in Sending \cup {"top"}
BY DEF FrameMoves, Drain, Pop, Send, Goto, At, Sending

LEMMA ElsewhereLeaves ==
  TypeOK /\ Elsewhere => /\ UNCHANGED <<streamState, pc, control, history>>
                         /\ cur_frame'["this"] = cur_frame["this"]
<1> SUFFICES ASSUME TypeOK, Elsewhere
             PROVE  /\ UNCHANGED <<streamState, pc, control, history>>
                    /\ cur_frame'["this"] = cur_frame["this"]
  OBVIOUS
<1>1. CASE Capture
  BY <1>1 DEF Capture, DataCapture!Put
<1>2. CASE OtherTakes
  BY <1>2 DEF OtherTakes, DataCapture!Take, TypeOK
<1>3. CASE CaptureDrop
  BY <1>3 DEF CaptureDrop, vars, buffer
<1> QED  BY <1>1, <1>2, <1>3 DEF Elsewhere

-----------------------------------------------------------------------------
(* The mutex.                                                              *)

LEMMA MutexInit == Init => MutexMeansBusy
BY DEF Init, MutexMeansBusy, At

LEMMA MutexStep == TypeOK /\ MutexMeansBusy /\ [Next]_vars => MutexMeansBusy'
<1> SUFFICES ASSUME TypeOK, MutexMeansBusy, [Next]_vars  PROVE MutexMeansBusy'
  OBVIOUS
<1> USE DEF Goto, At, MutexMeansBusy, control
<1>1. ASSUME TestPlay \/ TestPause \/ TestTeardown \/ Relock \/ SpuriousWake
      PROVE  MutexMeansBusy'
  BY <1>1 DEF TestPlay, TestPause, TestTeardown, Relock, SpuriousWake
<1>2. CASE FrameMoves
  BY <1>2, FrameMovesLeave DEF Sending
<1>3. CASE LockToWait \/ Wait
  BY <1>3 DEF LockToWait, Wait
<1>4. ASSUME CmdLock \/ \E cmd \in Commands : CmdCall(cmd)
      PROVE  MutexMeansBusy'
  BY <1>4 DEF CmdCall, CmdLock
<1>5. CASE CmdStore \/ CmdReturn
  BY <1>5 DEF CmdStore, CmdReturn
<1>6. CASE Elsewhere
  BY <1>6, ElsewhereLeaves
<1>7. CASE UNCHANGED vars
  BY <1>7 DEF vars
<1> QED  BY <1>1, <1>2, <1>3, <1>4, <1>5, <1>6, <1>7, NextCases

(* streamMutex is held only by a thread that is about to sleep or by a     *)
(* SetCmd under way: condition.wait gives it up while it sleeps, so the    *)
(* request thread and the stream thread cannot block each other for good.  *)
THEOREM MutexIsShortLived == Spec => []MutexMeansBusy
BY MutexInit, MutexStep, TypeCorrect, PTL DEF Spec

-----------------------------------------------------------------------------
(* Silence before PLAY.  streamState is Play only after a PLAY, so the     *)
(* test that sends the thread to its frames cannot succeed earlier.        *)

SilentInv == SilentUntilPlay /\ (streamState = "Play" => played)

LEMMA SilentInit == Init => SilentInv
BY DEF Init, SilentInv, SilentUntilPlay, Sending, DataCapture!Init

LEMMA SilentStep == TypeInv /\ SilentInv /\ [Next]_vars => SilentInv'
<1> SUFFICES ASSUME TypeInv, SilentInv, [Next]_vars  PROVE SilentInv'
  OBVIOUS
<1> USE DEF Goto, At, TypeInv, SilentInv, SilentUntilPlay, Sending, buffer, history
<1>1. ASSUME \/ TestPlay \/ TestPause \/ TestTeardown \/ Relock \/ SpuriousWake
             \/ LockToWait \/ Wait
      PROVE  SilentInv'
  BY <1>1 DEF TestPlay, TestPause, TestTeardown, Relock, SpuriousWake,
              LockToWait, Wait
<1>2. CASE FrameMoves
  BY <1>2, FrameMovesLeave
<1>3. ASSUME CmdLock \/ \E cmd \in Commands : CmdCall(cmd)
      PROVE  SilentInv'
  BY <1>3 DEF CmdCall, CmdLock
<1>4. CASE CmdStore
  <2>1. /\ UNCHANGED <<pc, cur_frame>> /\ streamState' = StateOf[call]
        /\ played' = (played \/ call = "PLAY")
    BY <1>4 DEF CmdStore
  <2>2. call \in Commands
    BY <1>4 DEF CmdStore, TypeOK, CallKnown
  <2>3. streamState' = "Play" => call = "PLAY"
    BY <2>1, <2>2 DEF StateOf, Commands
  <2>4. played \/ call = "PLAY" => played'
    BY <2>1
  <2> QED  BY <2>1, <2>3, <2>4
<1>5. CASE CmdReturn
  BY <1>5 DEF CmdReturn
<1>6. CASE Elsewhere
  BY <1>6, ElsewhereLeaves
<1>7. CASE UNCHANGED vars
  BY <1>7 DEF vars
<1> QED  BY <1>1, <1>2, <1>3, <1>4, <1>5, <1>6, <1>7, NextCases

(* No client is sent a frame, or takes one from the buffer that is shared  *)
(* with the other clients, before it has asked to PLAY.                    *)
THEOREM NoFrameBeforePlay == Spec => []SilentUntilPlay
<1>1. Spec => []SilentInv
  BY SilentInit, SilentStep, TypeAlways, PTL DEF Spec
<1>2. SilentInv => SilentUntilPlay
  BY DEF SilentInv
<1> QED  BY <1>1, <1>2, PTL

-----------------------------------------------------------------------------
(* Lost wake-ups.  A thread goes to sleep only after it has seen Pause, so *)
(* streamState is Play at that point only if a PLAY came since then:       *)
(*   - before the thread has the mutex, which raced records until the      *)
(*     thread wakes or another command replaces the PLAY;                  *)
(*   - not while it has the mutex, which SetCmd needs (MutexMeansBusy);    *)
(*   - once it sleeps, SetCmd wakes it before it returns.                  *)

Dozing ==
  pc \in Asleep /\ streamState = "Play" => raced \/ call = "PLAY"

LEMMA DozingInit == Init => Dozing
BY DEF Init, Dozing, Asleep

LEMMA DozingStep ==
  TypeInv /\ MutexMeansBusy /\ Dozing /\ [Next]_vars => Dozing'
<1> SUFFICES ASSUME TypeInv, MutexMeansBusy, Dozing, [Next]_vars  PROVE Dozing'
  OBVIOUS
<1> USE DEF Goto, At, TypeInv, Dozing, Asleep, control, history
<1>1. ASSUME TestPlay \/ TestTeardown \/ SpuriousWake  PROVE Dozing'
  BY <1>1 DEF TestPlay, TestTeardown, SpuriousWake
<1>2. CASE FrameMoves
  BY <1>2, FrameMovesLeave DEF Sending
<1>3. CASE TestPause
  BY <1>3 DEF TestPause
<1>4. CASE LockToWait \/ Wait \/ Relock
  BY <1>4 DEF LockToWait, Wait, Relock
<1>5. ASSUME CmdLock \/ \E cmd \in Commands : CmdCall(cmd)
      PROVE  Dozing'
  BY <1>5 DEF CmdCall, CmdLock, CallKnown
<1>6. CASE CmdStore
  <2>1. /\ UNCHANGED <<pc, call, raced>> /\ streamState' = StateOf[call]
        /\ call \in Commands
    BY <1>6 DEF CmdStore, TypeOK, CallKnown
  <2> QED  BY <2>1 DEF StateOf, Commands
<1>7. CASE CmdReturn
  <2>1. /\ UNCHANGED streamState /\ streamState = StateOf[call]
        /\ call \in Commands /\ ~At("wait")
        /\ raced' = (call = "PLAY" /\ At("lock"))
        /\ pc' = IF call = "PLAY" /\ At("waiting") THEN "woken" ELSE pc
    BY <1>7 DEF CmdReturn, TypeOK, CallKnown, MutexMeansBusy
  <2>2. streamState = "Play" => call = "PLAY"
    BY <2>1 DEF StateOf, Commands
  <2> QED  BY <2>1, <2>2
<1>8. CASE Elsewhere
  BY <1>8, ElsewhereLeaves
<1>9. CASE UNCHANGED vars
  BY <1>9 DEF vars
<1> QED  BY <1>1, <1>2, <1>3, <1>4, <1>5, <1>6, <1>7, <1>8, <1>9, NextCases

(* The wake-up of a PLAY is lost in one window only: between the test for  *)
(* Pause and the wait.                                                     *)
THEOREM OneWindow == Spec => []LostWakeupIsARace
<1>1. Spec => []Dozing
  BY DozingInit, DozingStep, TypeAlways, MutexIsShortLived, PTL DEF Spec
<1>2. Dozing => LostWakeupIsARace
  BY DEF Dozing, LostWakeupIsARace, Asleep, At
<1> QED  BY <1>1, <1>2, PTL

=============================================================================
