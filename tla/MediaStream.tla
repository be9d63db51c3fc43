---------------------------- MODULE MediaStream -----------------------------
(***************************************************************************)
(* One stream thread.  Each SETUP creates a MediaStreamHandler, whose      *)
(* thread runs HandleMediaStream: it sends frames of the shared buffer to  *)
(* one client while streamState is Play, sleeps on a condition variable    *)
(* while it is Pause, and ends when it is Teardown.  The request thread of *)
(* the client steers it by SetCmd.                                         *)
(*                                                                         *)
(* SetCmd writes streamState under streamMutex; HandleMediaStream reads it *)
(* without the lock, once per branch of its loop, and takes the lock only  *)
(* to sleep.  Each of these reads is an action here.  The buffer is the    *)
(* abstract queue that DataCapture is shown to implement: capture threads  *)
(* put frames into it, and the stream threads of other clients take frames *)
(* out of it, at any time.                                                 *)
(***************************************************************************)
EXTENDS Naturals, Sequences

CONSTANTS
  Sizes,            (* the sizes of frames; a frame is its size here *)
  buffer_max_size,
  MaxSpurious       (* bound: spurious wake-ups in a behaviour *)

ASSUME ConstantsOK ==
  /\ Sizes \subseteq Nat
  /\ buffer_max_size \in Nat \ {0}
  /\ MaxSpurious \in Nat

VARIABLES
  streamState,   (* Init, Play, Pause or Teardown *)
  streamMutex,   (* who holds it: "free", "thread" or "caller" *)
  pc,            (* where the stream thread is in HandleMediaStream *)
  call,          (* the command of the SetCmd under way, or "none" *)
  step,          (* where the caller is in SetCmd *)
  queue,         (* frames in the buffer *)
  cur_frame,     (* the frame popped last, by this thread and by others *)
  spurious,      (* spurious wake-ups so far *)
  played, raced  (* history, see LostWakeupIsARace and SilentUntilPlay *)

buffer  == <<queue, cur_frame>>
control == <<streamMutex, call, step>>
history == <<played, raced>>
vars == <<streamState, pc, control, buffer, spurious, history>>

Commands == {"PLAY", "PAUSE", "TEARDOWN"}
StateOf  == [PLAY |-> "Play", PAUSE |-> "Pause", TEARDOWN |-> "Teardown"]

(* pushFrame and popFrame.  The null frame has size 0. *)
DataCapture == INSTANCE FrameQueue WITH
  Frames <- Sizes, Consumers <- {"this", "other"},
  Capacity <- buffer_max_size, NoFrame <- 0, handed <- cur_frame

isEmptyBuffer == queue = <<>>

Goto(l) == pc' = l
At(l) == pc = l

Init ==
  /\ streamState = "Init"
  /\ streamMutex = "free"
  /\ pc = "top"
  /\ call = "none"
  /\ step = "out"
  /\ DataCapture!Init
  /\ spurious = 0
  /\ played = FALSE
  /\ raced = FALSE

-----------------------------------------------------------------------------
(* HandleMediaStream, in the stream thread.  Here and below, X_Slip is     *)
(* the form that X, defined next, would have after the mistake in the code *)
(* that its suffix names; nothing uses it.                                 *)

(* The first test of the loop: a stream that plays goes to its frames. *)
TestPlay_InitToo ==
  /\ At("top")
  /\ Goto(IF streamState \in {"Play", "Init"} THEN "drain" ELSE "testPause")
  /\ UNCHANGED <<streamState, control, buffer, spurious, history>>

TestPlay ==
  /\ At("top")
  /\ Goto(IF streamState = "Play" THEN "drain" ELSE "testPause")
  /\ UNCHANGED <<streamState, control, buffer, spurious, history>>

(* The inner loop: frame after frame until the buffer is empty. *)
Drain ==
  /\ At("drain")
  /\ Goto(IF isEmptyBuffer THEN "top" ELSE "pop")
  /\ UNCHANGED <<streamState, control, buffer, spurious, history>>

(* popFrame; a null or empty frame is skipped. *)
Pop ==
  /\ At("pop")
  /\ DataCapture!Take("this") \/ DataCapture!TakeNone("this")
  /\ Goto(IF cur_frame'["this"] > 0 THEN "send" ELSE "drain")
  /\ UNCHANGED <<streamState, control, spurious, history>>

(* SendFragmentedRTPPackets and, from time to time, a sender report. *)
Send ==
  /\ At("send")
  /\ Goto("drain")
  /\ UNCHANGED <<streamState, control, buffer, spurious, history>>

TestPause_Ignored ==
  /\ At("testPause")
  /\ Goto("testTeardown")
  /\ UNCHANGED <<streamState, control, buffer, spurious, history>>

TestPause ==
  /\ At("testPause")
  /\ Goto(IF streamState = "Pause" THEN "lock" ELSE "testTeardown")
  /\ UNCHANGED <<streamState, control, buffer, spurious, history>>

LockToWait ==
  /\ At("lock")
  /\ streamMutex = "free"
  /\ streamMutex' = "thread"
  /\ Goto("wait")
  /\ UNCHANGED <<streamState, call, step, buffer, spurious, history>>

(* condition.wait gives the mutex up and sleeps; nothing is tested. *)
Wait_KeepsLock ==
  /\ At("wait")
  /\ Goto("waiting")
  /\ UNCHANGED <<streamState, control, buffer, spurious, history>>

Wait ==
  /\ At("wait")
  /\ streamMutex' = "free"
  /\ Goto("waiting")
  /\ UNCHANGED <<streamState, call, step, buffer, spurious, history>>

(* condition.wait may return without a notification. *)
SpuriousWake ==
  /\ At("waiting") /\ spurious < MaxSpurious
  /\ spurious' = spurious + 1
  /\ Goto("woken")
  /\ UNCHANGED <<streamState, control, buffer, history>>

(* condition.wait takes the mutex again, and lck gives it up at once. *)
Relock ==
  /\ At("woken")
  /\ streamMutex = "free"
  /\ Goto("top")
  /\ raced' = FALSE
  /\ UNCHANGED <<streamState, control, buffer, spurious, played>>

TestTeardown_NoBreak ==
  /\ At("testTeardown")
  /\ Goto("top")
  /\ UNCHANGED <<streamState, control, buffer, spurious, history>>

TestTeardown ==
  /\ At("testTeardown")
  /\ Goto(IF streamState = "Teardown" THEN "done" ELSE "top")
  /\ UNCHANGED <<streamState, control, buffer, spurious, history>>

-----------------------------------------------------------------------------
(* SetCmd, in the request thread of the client.  No request is read after  *)
(* TEARDOWN.                                                               *)

CmdCall(cmd) ==
  /\ step = "out" /\ streamState # "Teardown"
  /\ call' = cmd
  /\ step' = "lock"
  /\ UNCHANGED <<streamState, streamMutex, pc, buffer, spurious, history>>

CmdLock ==
  /\ step = "lock"
  /\ streamMutex = "free"
  /\ streamMutex' = "caller"
  /\ step' = "store"
  /\ UNCHANGED <<streamState, call, pc, buffer, spurious, history>>

CmdStore ==
  /\ step = "store"
  /\ streamState' = StateOf[call]
  /\ step' = "return"
  /\ played' = (played \/ call = "PLAY")
  /\ UNCHANGED <<pc, streamMutex, call, buffer, spurious, raced>>

(* PLAY notifies; the lock is released on return.  raced records that the  *)
(* notification came when the thread had decided to sleep and was not      *)
(* asleep yet.                                                             *)
CmdReturn_NoNotify ==
  /\ step = "return"
  /\ raced' = (call = "PLAY" /\ At("lock"))
  /\ streamMutex' = "free"
  /\ call' = "none"
  /\ step' = "out"
  /\ UNCHANGED <<streamState, pc, buffer, spurious, played>>

CmdReturn ==
  /\ step = "return"
  /\ IF call = "PLAY" /\ At("waiting") THEN Goto("woken")
                                         ELSE UNCHANGED pc
  /\ raced' = (call = "PLAY" /\ At("lock"))
  /\ streamMutex' = "free"
  /\ call' = "none"
  /\ step' = "out"
  /\ UNCHANGED <<streamState, buffer, spurious, played>>

(* A capture thread pushes a frame. *)
Capture ==
  /\ \E f \in Sizes : DataCapture!Put(f)
  /\ UNCHANGED <<streamState, pc, control, spurious, history>>

(* The frame is dropped when the buffer is full. *)
CaptureDrop == Len(queue) = buffer_max_size /\ UNCHANGED vars

(* The stream thread of another client takes a frame. *)
OtherTakes ==
  /\ DataCapture!Take("other")
  /\ UNCHANGED <<streamState, pc, control, spurious, history>>

Thread ==
  \/ TestPlay \/ Drain \/ Pop \/ Send
  \/ TestPause \/ LockToWait \/ Wait \/ Relock
  \/ TestTeardown

Caller == CmdLock \/ CmdStore \/ CmdReturn

Next ==
  \/ Thread \/ SpuriousWake
  \/ Caller \/ \E cmd \in Commands : CmdCall(cmd)
  \/ Capture \/ CaptureDrop \/ OtherTakes

Spec == Init /\ [][Next]_vars

(* The operating system schedules every thread that can run.  A client     *)
(* need not send requests and a capture thread need not capture.  Between  *)
(* two commands the request thread answers its client and waits for it:    *)
(* the mutex is free for that long each time, and a thread that waits for  *)
(* it gets it in one of these times.                                       *)
Fairness ==
  /\ WF_vars(Thread) /\ WF_vars(Caller)
  /\ SF_vars(LockToWait) /\ SF_vars(Relock)

FairSpec == Spec /\ Fairness

-----------------------------------------------------------------------------
(* Properties.                                                             *)

Sending == {"drain", "pop", "send"}
Asleep  == {"lock", "wait", "waiting"}

(* Every variable has its type, and the buffer its size. *)
TypeOK ==
  /\ streamState \in {"Init", "Play", "Pause", "Teardown"}
  /\ streamMutex \in {"free", "thread", "caller"}
  /\ pc \in Sending \cup Asleep \cup
           {"top", "testPause", "testTeardown", "woken", "done"}
  /\ call \in Commands \cup {"none"}
  /\ step \in {"out", "lock", "store", "return"}
  /\ queue \in Seq(Sizes) /\ Len(queue) <= buffer_max_size
  /\ cur_frame \in [{"this", "other"} -> Sizes \cup {0}]
  /\ spurious \in 0 .. MaxSpurious
  /\ played \in BOOLEAN /\ raced \in BOOLEAN

(* The thread gives the mutex up while it sleeps and SetCmd gives it up    *)
(* when it returns, so that each excludes the other only while it stores a *)
(* command or is about to sleep.                                           *)
MutexMeansBusy ==
  /\ streamMutex = "thread" <=> At("wait")
  /\ streamMutex = "caller" <=> step \in {"store", "return"}

(* A client gets no frame, and takes none from the shared buffer that the  *)
(* other clients are fed from, before it has asked to PLAY.                *)
SilentUntilPlay ==
  pc \in Sending \/ cur_frame["this"] # 0 => played

(* A thread sleeps on although its stream is to play only if PLAY was      *)
(* notified in the window between the thread's test for Pause and its      *)
(* wait, or is about to be notified: no other interleaving of SetCmd and   *)
(* HandleMediaStream loses a wake-up.                                      *)
LostWakeupIsARace ==
  At("waiting") /\ streamState = "Play" => raced \/ call = "PLAY"

(* SetCmd gets the mutex and returns: the request thread is never blocked  *)
(* for good by the stream thread, asleep or not, although nothing makes    *)
(* the mutex fair to it.                                                   *)
CommandReturns == step = "lock" ~> step = "out"

(* Unless the wake-up is lost in that window, a stream told to PLAY goes   *)
(* to its frames, or gets another command first.                           *)
PlayStartsUnlessRaced ==
  streamState = "Play" ~>
    (pc \in Sending \/ streamState # "Play" \/ raced)

(* The inner loop of HandleMediaStream looks at no command until the       *)
(* buffer is empty.  When capture pauses for long enough,                  *)
CaptureStops == <>[](queue = <<>>)

(* a stream told to PAUSE goes to sleep,                                   *)
PauseSleeps ==
  CaptureStops =>
    (streamState = "Pause" ~> (At("waiting") \/ streamState # "Pause"))

(* and a thread told to TEARDOWN while it is not asleep, or about to be,   *)
(* ends.                                                                   *)
TeardownEndsAwake ==
  CaptureStops =>
    ((streamState = "Teardown" /\ pc \notin Asleep) ~> At("done"))

(* The command PLAY resumes the stream ("the stream state is changed and   *)
(* the thread controlled by a condition variable, thread safety is ensured *)
(* by a mutex", MediaStreamHandler.cpp:175-176).                           *)
PlayResumes ==
  streamState = "Play" ~>
    (pc \in Sending \/ streamState # "Play")

(* TEARDOWN "ends the session and cleans up its resources"                 *)
(* (RequestHandler.cpp:266): the stream thread, which uses the stream's    *)
(* sockets, ends once there is nothing to send.                            *)
TeardownEnds ==
  CaptureStops => (streamState = "Teardown" ~> At("done"))

=============================================================================
