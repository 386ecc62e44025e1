------------------------------- MODULE Camera -------------------------------
(***************************************************************************)
(* camera_v4l2/camera_v4l2_manager.c over cim/capture.c: clients that      *)
(* count themselves in and out (init_count, start_count), the capture      *)
(* thread that takes frames from the driver's queue and puts their buffers *)
(* back, and the driver's queue itself, with the buffers mapped or given   *)
(* by pointer (the read method has no queue and is left out).              *)
(*                                                                         *)
(* A client inits, starts, stops and deinits as examples/camera_v4l does,  *)
(* and stops only what it started.  Device calls fail as the driver makes  *)
(* them fail: queueing a buffer that is queued, or that it never granted,  *)
(* and taking a frame from a stream that is off.                           *)
(***************************************************************************)
EXTENDS Integers, FiniteSets

CONSTANTS CamClient,  \* users of the manager
          Asked,      \* nbuf that every client asks for
          Idle        \* no client is in stop

ASSUME CameraAssumption ==
  /\ Asked \in Nat \ {0}
  /\ IsFiniteSet(CamClient) /\ Idle \notin CamClient

VARIABLES use,        \* use[c]: "out", "in" after init, "on" after start
          camInits,   \* init_count
          camStarts,  \* start_count
          stopper,    \* the client in stop, which holds start_lock
          capt,       \* struct capture_t and the driver's side of it
          capture,    \* where the capture thread is
          held,       \* index of the buffer it took
          captCancelled   \* pthread_cancel has been called

camVars ==
  <<use, camInits, camStarts, stopper, capt, capture, held, captCancelled>>

Buffer == 1..Asked

CameraInit ==
  /\ use = [c \in CamClient |-> "out"]
  /\ camInits = 0 /\ camStarts = 0
  /\ stopper = Idle
  /\ capt = [mapped |-> FALSE, nbuf |-> Asked, granted |-> Asked, streaming |-> FALSE,
             requeued |-> FALSE, queue |-> [b \in Buffer |-> "user"]]
  /\ capture = "none" /\ held = 1
  /\ captCancelled = FALSE
-----------------------------------------------------------------------------
(* A device just opened, by an init that works or fails at it. *)
Opened(works, n) ==
  [mapped |-> works, nbuf |-> n, granted |-> n, streaming |-> FALSE,
   requeued |-> FALSE, queue |-> [b \in Buffer |-> "user"]]

(* Every init writes the parameters; the first opens the device, which     *)
(* grants buffers, and may fail on the way.  (A driver may grant more than *)
(* it was asked for; here it grants at most that.)                         *)
CamInit(c) ==
  /\ use[c] = "out"
  /\ \/ /\ camInits = 0
        /\ \E n \in Buffer : capt' = Opened(TRUE, n)
        /\ camInits' = 1 /\ use' = [use EXCEPT ![c] = "in"]
     \/ /\ camInits = 0
        /\ \E n \in Buffer : capt' = Opened(FALSE, n)
        /\ UNCHANGED <<use, camInits>>
     \/ /\ camInits # 0
        /\ capt' = [capt EXCEPT !.nbuf = Asked]
        /\ camInits' = camInits + 1 /\ use' = [use EXCEPT ![c] = "in"]
  /\ UNCHANGED <<camStarts, stopper, capture, held, captCancelled>>

Queueable(b) == b <= capt.granted /\ capt.queue[b] = "user"

(* The first start queues the buffers in order, up to the first that the   *)
(* driver refuses; then it fails, and what was queued stays queued.        *)
CamStart(c) ==
  /\ use[c] = "in" /\ stopper = Idle
  /\ LET reached(b) == \A a \in 1..b : Queueable(a)
         queued == [b \in Buffer |-> IF b <= capt.nbuf /\ reached(b)
                                     THEN "queued" ELSE capt.queue[b]]
         works == reached(capt.nbuf)
     IN  IF camStarts # 0
         THEN /\ camStarts' = camStarts + 1
              /\ use' = [use EXCEPT ![c] = "on"]
              /\ UNCHANGED <<capt, capture, captCancelled>>
         ELSE /\ capt' = [capt EXCEPT !.queue = queued, !.streaming = works]
              /\ camStarts' = IF works THEN 1 ELSE 0
              /\ use' = [use EXCEPT ![c] = IF works THEN "on" ELSE @]
              /\ capture' = IF works THEN "top" ELSE capture
              /\ captCancelled' = FALSE
  /\ UNCHANGED <<camInits, stopper, held>>

(* STREAMOFF gives every buffer back. *)
StreamOff == [capt EXCEPT !.streaming = FALSE,
                          !.queue = [b \in Buffer |-> "user"]]

(* Mutant: stop only ends the thread. *)
CamStopNoStreamOff(c) ==
  /\ use[c] = "on" /\ stopper = Idle
  /\ camStarts' = camStarts - 1
  /\ IF camStarts = 1 THEN stopper' = c /\ UNCHANGED use
                      ELSE use' = [use EXCEPT ![c] = "in"] /\ UNCHANGED stopper
  /\ UNCHANGED <<camInits, capt, capture, held, captCancelled>>

CamStop(c) ==
  /\ use[c] = "on" /\ stopper = Idle
  /\ camStarts' = camStarts - 1
  /\ IF camStarts = 1
     THEN /\ capt' = StreamOff
          /\ stopper' = c
          /\ UNCHANGED use
     ELSE /\ use' = [use EXCEPT ![c] = "in"]
          /\ UNCHANGED <<capt, stopper>>
  /\ UNCHANGED <<camInits, capture, held, captCancelled>>

CamCancel ==
  /\ stopper # Idle /\ ~captCancelled
  /\ captCancelled' = TRUE
  /\ UNCHANGED <<use, camInits, camStarts, stopper, capt, capture, held>>

CamJoined ==
  /\ stopper # Idle /\ captCancelled /\ capture = "none"
  /\ use' = [use EXCEPT ![stopper] = "in"]
  /\ stopper' = Idle
  /\ UNCHANGED <<camInits, camStarts, capt, capture, held, captCancelled>>

(* free_device unmaps nbuf buffers: past the end of the table munmap gets  *)
(* garbage, and may fail, which leaves the device as it is.                *)
CamDeinit(c) ==
  /\ use[c] = "in" /\ stopper # c
  /\ \/ /\ use' = [use EXCEPT ![c] = "out"]
        /\ camInits' = camInits - 1
        /\ capt' = IF camInits > 1 THEN capt
                   ELSE [capt EXCEPT !.mapped = FALSE, !.streaming = FALSE]
     \/ /\ camInits = 1 /\ capt.nbuf > capt.granted
        /\ UNCHANGED <<use, camInits, capt>>
  /\ UNCHANGED <<camStarts, stopper, capture, held, captCancelled>>
-----------------------------------------------------------------------------
(* The capture thread can be cancelled at the top of its loop only. *)
CaptTop ==
  /\ capture = "top"
  /\ capture' = IF captCancelled THEN "none" ELSE "select"
  /\ UNCHANGED <<use, camInits, camStarts, stopper, capt, held, captCancelled>>

(* select ends with a frame, with the error of a stream that is off, or    *)
(* after two seconds.                                                      *)
CaptSelect ==
  /\ capture = "select"
  /\ \/ /\ ~capt.streaming \/ \E b \in Buffer : capt.queue[b] = "done"
        /\ capture' = "dequeue"
     \/ capture' = "top"
  /\ UNCHANGED <<use, camInits, camStarts, stopper, capt, held, captCancelled>>

Dequeue ==
  /\ capture = "dequeue"
  /\ IF capt.streaming /\ \E b \in Buffer : capt.queue[b] = "done"
     THEN /\ held' \in {b \in Buffer : capt.queue[b] = "done"}
          /\ capt' = [capt EXCEPT !.queue[held'] = "user"]
          /\ capture' = "process"
     ELSE capture' = "top" /\ UNCHANGED <<held, capt>>
  /\ UNCHANGED <<use, camInits, camStarts, stopper, captCancelled>>

(* The client's callback returns and the buffer goes back to the driver,   *)
(* which takes it with the stream off, too.                                *)
Requeue ==
  /\ capture = "process"
  /\ capture' = "dequeue"
  /\ capt' = [capt EXCEPT !.queue[held] = "queued",
                          !.requeued = @ \/ ~capt.streaming]
  /\ UNCHANGED <<use, camInits, camStarts, stopper, held, captCancelled>>

FrameArrives ==
  /\ capt.streaming
  /\ \E b \in Buffer :
       /\ capt.queue[b] = "queued"
       /\ capt' = [capt EXCEPT !.queue[b] = "done"]
  /\ UNCHANGED <<use, camInits, camStarts, stopper, capture, held, captCancelled>>

CaptureLoop == CaptTop \/ CaptSelect \/ Dequeue \/ Requeue

CameraNext ==
  \/ \E c \in CamClient : CamInit(c) \/ CamStart(c) \/ CamStop(c) \/ CamDeinit(c)
  \/ CamCancel \/ CamJoined
  \/ CaptureLoop \/ FrameArrives

(* The thread and a client in the middle of stop run; nobody has to start, *)
(* stop or deliver a frame.                                                *)
CameraFairness == WF_camVars(CaptureLoop) /\ WF_camVars(CamCancel \/ CamJoined)

CameraSpec == CameraInit /\ [][CameraNext]_camVars /\ CameraFairness
-----------------------------------------------------------------------------
CameraTypeOK ==
  /\ use \in [CamClient -> {"out", "in", "on"}]
  /\ camInits \in Nat /\ camStarts \in Nat
  /\ stopper \in CamClient \union {Idle}
  /\ capt \in [mapped : BOOLEAN, nbuf : Buffer, granted : Buffer,
               streaming : BOOLEAN, requeued : BOOLEAN,
               queue : [Buffer -> {"user", "queued", "done"}]]
  /\ capture \in {"none", "top", "select", "dequeue", "process"}
  /\ held \in Buffer
  /\ captCancelled \in BOOLEAN

(* A start fails only after one of two things: the thread, busy in the     *)
(* callback when stop turned the stream off, put its buffer back into the  *)
(* idle queue, or a later init overwrote the number of buffers with more   *)
(* than were granted.  (Both are for good, until the device is reopened.)  *)
StartFailsOnlyAfter ==
  [][\A c \in CamClient :
       CamStart(c) /\ use'[c] # "on"
         => capt.requeued \/ capt.nbuf > capt.granted]_camVars

(* stop returns however many frames the driver has: the stream is turned   *)
(* off first, so that the thread finds no next frame and reaches the point *)
(* where it can be cancelled.                                              *)
CamStopReturns == stopper # Idle ~> stopper = Idle
=============================================================================
