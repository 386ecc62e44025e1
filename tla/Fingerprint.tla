---------------------------- MODULE Fingerprint ----------------------------
(***************************************************************************)
(* fingerprint/fpc/fpc_fingerprint.c: requests go through a pipe to one    *)
(* thread, which captures images until one comes, a timeout (an alarm of   *)
(* the alarm manager) or cancel sets the status to idle, and keeps the ids *)
(* of the enrolled fingers in a file beside the library's templates.       *)
(*                                                                         *)
(* FpCommand, the vendor's library, is external: any result it documents.  *)
(* One thread calls.  Left out: failing system calls but the write of an   *)
(* id, and the FpCommands of init.                                         *)
(***************************************************************************)
EXTENDS Integers, Sequences, FiniteSetsExt

CONSTANTS
  MaxId,        (* ids 1 .. MaxId; max_enroll_finger_num                   *)
  MaxRequests,  (* bound: requests and calls of get_template_info          *)
  MaxRetries    (* bound: images of low quality                            *)

ASSUME FingerprintAssumption ==
  MaxId \in Nat \ {0} /\ MaxRequests \in Nat /\ MaxRetries \in Nat

Id == 1 .. MaxId
Kind == {"enroll", "auth"}
Steps(k) == IF k = "enroll" THEN 3 ELSE 1      (* images one request takes *)

VARIABLES
  fpInits, imgData,       (* img_data: "null", "live", or "freed"          *)
  pipe, requests,         (* local_pipe; the calls MaxRequests bounds      *)
  fpThread,               (* where the thread is                           *)
  kind, image, id,        (* its request, the image it is at, its id       *)
  retries,                (* images of low quality                         *)
  fpStatus,               (* enroll_status, auth_status: are they RUN?     *)
  fpArmed, late,          (* is the timeout set; has it been triggered,    *)
                          (* its listener not yet run?                     *)
  user, toRead,           (* where the calling thread is; the ids that its *)
                          (* get_template_info has yet to read             *)
  templates,              (* the library's                                 *)
  idFile, offset,         (* the id list file and the descriptor's offset  *)
  templateNum,            (* template_num                                  *)
  idList, curPos,         (* a deletion's ids yet to be written, cur_pos   *)
  misplaced               (* ids were read or written elsewhere than       *)
                          (* meant, or the program ended between a change  *)
                          (* of the templates and that of the file         *)

sessionVars == <<fpInits, imgData>>
alarmVars == <<fpArmed, late>>
fileVars == <<idFile, offset, templateNum, misplaced>>
fpThreadVars == <<fpThread, kind, image, id, retries>>
userVars == <<user, toRead>>
deletionVars == <<idList, curPos>>
fpVars == <<sessionVars, pipe, requests, fpThreadVars, fpStatus, alarmVars, userVars, templates, fileVars,
            deletionVars>>

FpGoto(s) == fpThread' = s /\ UNCHANGED <<kind, image, id, retries>>

-----------------------------------------------------------------------------
(* The caller.                                                             *)

(* fpc_fingerprint_init; destroy has freed img_data and kept the pointer:  *)
(* then init fails.  The file is opened: the offset is 0.                  *)
FpInitCall ==
  /\ user = "idle" /\ fpInits < 2
  /\ IF fpInits > 0 THEN fpInits' = fpInits + 1 /\ UNCHANGED <<imgData, offset, templateNum, fpThread>>
     ELSE IF imgData # "null" THEN UNCHANGED <<fpInits, imgData, offset, fpThread>>
                                   /\ templateNum' = Cardinality(templates)
     ELSE /\ fpInits' = 1 /\ imgData' = "live"
          /\ offset' = 0 /\ templateNum' = Cardinality(templates)
          /\ fpThread' = "wait"
  /\ UNCHANGED <<pipe, requests, kind, image, id, retries, fpStatus, alarmVars, userVars, templates,
                 idFile, misplaced, deletionVars>>

(* fpc_fingerprint_destroy sends quit and waits for the thread; then the   *)
(* alarm manager stops.                                                    *)
FpDestroy ==
  /\ user = "idle" /\ fpInits > 0
  /\ fpInits' = fpInits - 1
  /\ IF fpInits = 1 THEN pipe' = Append(pipe, [msg |-> "quit", id |-> 0]) /\ user' = "destroy"
                      ELSE UNCHANGED <<pipe, user>>
  /\ UNCHANGED <<imgData, requests, fpThreadVars, fpStatus, alarmVars, toRead, templates, fileVars, deletionVars>>
(* Mutant: destroy does not wait. *)
DestroyedAtOnce ==
  /\ user = "destroy"
  /\ user' = "idle" /\ imgData' = "freed"
  /\ fpArmed' = [k \in Kind |-> FALSE] /\ late' = [k \in Kind |-> FALSE]
  /\ UNCHANGED <<fpInits, pipe, requests, fpThreadVars, fpStatus, toRead, templates, fileVars, deletionVars>>

Destroyed ==
  /\ user = "destroy" /\ fpThread = "none"
  /\ user' = "idle" /\ imgData' = "freed"
  /\ fpArmed' = [k \in Kind |-> FALSE] /\ late' = [k \in Kind |-> FALSE]
  /\ UNCHANGED <<fpInits, pipe, requests, fpThreadVars, fpStatus, toRead, templates, fileVars, deletionVars>>

(* enroll, authenticate and delete send a message; enroll only while there *)
(* is room.                                                                *)
FpRequest(m, x) ==
  /\ user = "idle" /\ fpInits > 0 /\ requests < MaxRequests
  /\ m = "enroll" => Cardinality(templates) < MaxId
  /\ pipe' = Append(pipe, [msg |-> m, id |-> x])
  /\ requests' = requests + 1
  /\ UNCHANGED <<sessionVars, fpThreadVars, fpStatus, alarmVars, userVars, templates, fileVars, deletionVars>>

(* cancel: of either kind whose status is RUN the timeout is cancelled,    *)
(* then the status set.                                                    *)
CancelTimeout(k) ==
  /\ fpInits > 0
  /\ user = "idle"
  /\ fpStatus[k]
  /\ fpArmed' = [fpArmed EXCEPT ![k] = FALSE]
  /\ user' = k
  /\ UNCHANGED <<sessionVars, pipe, requests, fpThreadVars, fpStatus, late, toRead, templates, fileVars, deletionVars>>
CancelStatus(k) ==
  /\ user = k
  /\ fpStatus' = [fpStatus EXCEPT ![k] = FALSE]
  /\ user' = "idle"
  /\ UNCHANGED <<sessionVars, pipe, requests, fpThreadVars, alarmVars, toRead, templates, fileVars, deletionVars>>

(* get_template_info asks how many templates there are and reads as many   *)
(* ids from the beginning of the file; the thread shares the descriptor.   *)
InfoCounts ==
  /\ user = "idle" /\ fpInits > 0 /\ requests < MaxRequests
  /\ requests' = requests + 1
  /\ templates # {}
  /\ toRead' = Cardinality(templates)
  /\ user' = "seek"
  /\ UNCHANGED <<sessionVars, pipe, fpThreadVars, fpStatus, alarmVars, templates, fileVars,
                 deletionVars>>
InfoSeeks ==
  /\ user = "seek"
  /\ offset' = 0
  /\ user' = "info"
  /\ UNCHANGED <<sessionVars, pipe, requests, fpThreadVars, fpStatus, alarmVars, toRead, templates,
                 idFile, templateNum, misplaced, deletionVars>>
InfoReads ==
  /\ user = "info"
  /\ IF offset < Len(idFile) /\ toRead > 0
       THEN toRead' = toRead - 1 /\ offset' = offset + 1 /\ UNCHANGED user
       ELSE user' = "idle" /\ toRead' = 0 /\ UNCHANGED offset
  /\ UNCHANGED <<sessionVars, pipe, requests, fpThreadVars, fpStatus, alarmVars, templates, idFile,
                 templateNum, misplaced, deletionVars>>

(* The thread has changed the templates, and the file not yet. *)
Deleting == {"position", "rewind", "list", "again", "rewrite", "restore"}
Unsettled == {"write"} \cup Deleting

(* The program ends and is started again: the file and the templates stay. *)
Restart ==
  /\ fpInits > 0 \/ user = "destroy"
  /\ fpInits' = 0 /\ imgData' = "null" /\ pipe' = <<>> /\ user' = "idle" /\ toRead' = 0
  /\ fpThread' = "none" /\ kind' = "auth" /\ image' = 1 /\ id' = 1 /\ retries' = 0
  /\ fpStatus' = [k \in Kind |-> FALSE]
  /\ fpArmed' = [k \in Kind |-> FALSE] /\ late' = [k \in Kind |-> FALSE]
  /\ offset' = 0 /\ templateNum' = 0 /\ idList' = <<>> /\ curPos' = 0
  /\ misplaced' = (misplaced \/ fpThread \in Unsettled)
  /\ UNCHANGED <<requests, templates, idFile>>

-----------------------------------------------------------------------------
(* The alarm manager triggers a timeout, and its thread calls the listener.*)
Timeout(k) ==
  /\ fpArmed[k]
  /\ fpArmed' = [fpArmed EXCEPT ![k] = FALSE] /\ late' = [late EXCEPT ![k] = TRUE]
  /\ UNCHANGED <<sessionVars, pipe, requests, fpThreadVars, fpStatus, userVars, templates, fileVars, deletionVars>>
TimedOut(k) ==
  /\ late[k]
  /\ late' = [late EXCEPT ![k] = FALSE] /\ fpStatus' = [fpStatus EXCEPT ![k] = FALSE]
  /\ UNCHANGED <<sessionVars, pipe, requests, fpThreadVars, fpArmed, userVars, templates, fileVars, deletionVars>>

-----------------------------------------------------------------------------
(* The thread.                                                             *)

(* The request ends with a callback.  Both kinds set auth_status: after an *)
(* enrolment enroll_status stays RUN.  The handler's locals are gone.      *)
Over ==
  /\ fpThread' = "wait"
  /\ kind' = "auth" /\ image' = 1 /\ id' = 1 /\ retries' = 0
Finish == Over /\ fpStatus' = [fpStatus EXCEPT !["auth"] = FALSE]

Quit ==
  /\ fpThread = "wait" /\ pipe # <<>>
  /\ pipe[1].msg = "quit"
  /\ pipe' = Tail(pipe)
  /\ FpGoto("none")
  /\ UNCHANGED <<sessionVars, requests, fpStatus, alarmVars, userVars, templates, fileVars, deletionVars>>

(* enroll_msg_handle, authenticate_msg_handle.  Without an empty id, or    *)
(* when the library refuses, the enrolment ends at once.                   *)
Begins(k) ==
  /\ fpThread = "wait" /\ pipe # <<>>
  /\ pipe[1].msg = k
  /\ pipe' = Tail(pipe)
  /\ fpStatus' = [fpStatus EXCEPT ![k] = TRUE]
  /\ kind' = k /\ image' = 1 /\ retries' = 0
  /\ \/ /\ k = "enroll" => templates # Id
        /\ id' = IF k = "enroll" THEN Min(Id \ templates) ELSE id
        /\ fpThread' = "check"
     \/ k = "enroll" /\ fpThread' = "finish" /\ UNCHANGED id
  /\ UNCHANGED <<sessionVars, requests, alarmVars, userVars, templates, fileVars, deletionVars>>
Refused ==
  /\ fpThread = "finish"
  /\ Finish
  /\ UNCHANGED <<sessionVars, pipe, requests, alarmVars, userVars, templates, fileVars, deletionVars>>

(* enroll_step: was it cancelled?  Then the timeout is set. *)
Check ==
  /\ fpThread = "check"
  /\ FpGoto(IF fpStatus[kind] THEN "arm" ELSE "finish")
  /\ UNCHANGED <<sessionVars, pipe, requests, fpStatus, alarmVars, userVars, templates, fileVars, deletionVars>>

(* Mutant: only the first image has a timeout. *)
ArmOnce ==
  /\ fpThread = "arm"
  /\ fpArmed' = IF image = 1 THEN [fpArmed EXCEPT ![kind] = TRUE] ELSE fpArmed
  /\ FpGoto("capture")
  /\ UNCHANGED <<sessionVars, pipe, requests, fpStatus, late, userVars, templates, fileVars, deletionVars>>

Arm ==
  /\ fpThread = "arm"
  /\ fpArmed' = [fpArmed EXCEPT ![kind] = TRUE]
  /\ FpGoto("capture")
  /\ UNCHANGED <<sessionVars, pipe, requests, fpStatus, late, userVars, templates, fileVars, deletionVars>>

(* The loop of enroll_scapture_image: an image is taken though the status  *)
(* may have become idle; without one an idle status ends the request, and  *)
(* the timeout may stay set.                                               *)
Captured ==
  /\ fpThread = "capture"
  /\ FpGoto("disarm")
  /\ UNCHANGED <<sessionVars, pipe, requests, fpStatus, alarmVars, userVars, templates, fileVars, deletionVars>>
GivesUp ==
  /\ fpThread = "capture"
  /\ ~fpStatus[kind]
  /\ FpGoto("finish")
  /\ UNCHANGED <<sessionVars, pipe, requests, fpStatus, alarmVars, userVars, templates, fileVars, deletionVars>>

(* The timeout is cancelled and the image evaluated.                       *)
Disarm ==
  /\ fpThread = "disarm"
  /\ fpArmed' = [fpArmed EXCEPT ![kind] = FALSE]
  /\ FpGoto("evaluate")
  /\ UNCHANGED <<sessionVars, pipe, requests, fpStatus, late, userVars, templates, fileVars, deletionVars>>

(* Good: the next image once the finger was lifted, or the end; bad: the   *)
(* same again once it was lifted; or the library refuses.                  *)
Evaluate ==
  /\ fpThread = "evaluate"
  /\ \/ /\ image < Steps(kind)
        /\ image' = image + 1 /\ fpThread' = "lift" /\ UNCHANGED retries
     \/ /\ image = Steps(kind)
        /\ fpThread' = (IF kind = "enroll" THEN "store" ELSE "finish") /\ UNCHANGED <<image, retries>>
     \/ /\ retries < MaxRetries
        /\ retries' = retries + 1 /\ fpThread' = "lift" /\ UNCHANGED image
     \/ fpThread' = "finish" /\ UNCHANGED <<image, retries>>
  /\ UNCHANGED <<sessionVars, pipe, requests, kind, id, fpStatus, alarmVars, userVars, templates, fileVars, deletionVars>>
Lifted ==
  /\ fpThread = "lift"
  /\ FpGoto("check")
  /\ UNCHANGED <<sessionVars, pipe, requests, fpStatus, alarmVars, userVars, templates, fileVars, deletionVars>>

(* The library makes the template, or finds a duplicate.                   *)
Store ==
  /\ fpThread = "store"
  /\ \/ templates' = templates \cup {id} /\ FpGoto("write")
     \/ FpGoto("finish") /\ UNCHANGED templates
  /\ UNCHANGED <<sessionVars, pipe, requests, fpStatus, alarmVars, userVars, fileVars, deletionVars>>

(* write: the id goes where the offset happens to be. *)
Written(x) ==
  [n \in 1 .. Max({Len(idFile), offset + 1}) |-> IF n = offset + 1 THEN x ELSE idFile[n]]

(* write_id_list_tail *)
WriteId ==
  /\ fpThread = "write"
  /\ idFile' = Written(id)
  /\ offset' = offset + 1 /\ templateNum' = templateNum + 1
  /\ misplaced' = (misplaced \/ offset # templateNum)
  /\ FpGoto("finish")
  /\ UNCHANGED <<sessionVars, pipe, requests, fpStatus, alarmVars, userVars, templates, deletionVars>>
WriteFails ==
  /\ fpThread = "write"
  /\ templates' = templates \ {id}
  /\ FpGoto("finish")
  /\ UNCHANGED <<sessionVars, pipe, requests, fpStatus, alarmVars, userVars, fileVars, deletionVars>>

(* delete of one: the library clears the template; then come the system    *)
(* calls of remove_id_list_item, one step each, and get_template_info or a *)
(* restart may fall between any two of them.                               *)
DeleteOne ==
  /\ fpThread = "wait" /\ pipe # <<>>
  /\ pipe[1].msg = "delete" /\ pipe[1].id \in templates
  /\ pipe' = Tail(pipe)
  /\ templates' = templates \ {pipe[1].id}
  /\ id' = pipe[1].id /\ fpThread' = "position"
  /\ UNCHANGED <<sessionVars, requests, kind, image, retries, fpStatus, alarmVars, userVars, fileVars,
                 deletionVars>>
NotePosition ==
  /\ fpThread = "position"
  /\ curPos' = offset
  /\ FpGoto("rewind")
  /\ UNCHANGED <<sessionVars, pipe, requests, fpStatus, alarmVars, userVars, templates, fileVars, idList>>
Rewind ==
  /\ fpThread = "rewind"
  /\ offset' = 0
  /\ FpGoto("list")
  /\ UNCHANGED <<sessionVars, pipe, requests, fpStatus, alarmVars, userVars, templates, idFile,
                 templateNum, misplaced, deletionVars>>

(* One read brings template_num ids, or what there is up to the end of the *)
(* file.  All but the first that is the id sought are to be written.       *)
ReadList ==
  /\ fpThread = "list"
  /\ LET n  == Min({templateNum, Len(idFile) - offset})
         at == {k \in 1 .. n : idFile[offset + k] = id}
     IN  /\ offset' = offset + n
         /\ \/ at = {} /\ FpGoto("restore") /\ UNCHANGED idList
            \/ /\ at # {} /\ FpGoto("again")
               /\ idList' = [k \in 1 .. n - 1 |->
                              idFile[offset + IF k < Min(at) THEN k ELSE k + 1]]
  /\ misplaced' = (misplaced \/ offset # 0)
  /\ UNCHANGED <<sessionVars, pipe, requests, fpStatus, alarmVars, userVars, templates, idFile,
                 templateNum, curPos>>

(* The ids that are left are written from the beginning of the file on,    *)
(* one by one, and the file is not cut off behind them.                    *)
RewindAgain ==
  /\ fpThread = "again"
  /\ offset' = 0
  /\ FpGoto("rewrite")
  /\ UNCHANGED <<sessionVars, pipe, requests, fpStatus, alarmVars, userVars, templates, idFile,
                 templateNum, misplaced, deletionVars>>
Rewrite ==
  /\ fpThread = "rewrite" /\ idList # <<>>
  /\ idFile' = Written(Head(idList)) /\ idList' = Tail(idList)
  /\ offset' = offset + 1
  /\ misplaced' = (misplaced \/ offset # templateNum - 1 - Len(idList))
  /\ UNCHANGED <<sessionVars, pipe, requests, fpThreadVars, fpStatus, alarmVars, userVars, templates,
                 templateNum, curPos>>

(* Mutant: the ids are not counted down. *)
DeletedUncounted ==
  /\ fpThread = "rewrite" /\ idList = <<>>
  /\ Over
  /\ curPos' = 0
  /\ UNCHANGED <<sessionVars, pipe, requests, fpStatus, alarmVars, userVars, templates, fileVars, idList>>

Deleted ==
  /\ fpThread = "rewrite" /\ idList = <<>>
  /\ Over
  /\ templateNum' = templateNum - 1 /\ curPos' = 0
  /\ UNCHANGED <<sessionVars, pipe, requests, fpStatus, alarmVars, userVars, templates, idFile, offset,
                 misplaced, idList>>

(* The id is not in the list: the offset goes back, the count stays. *)
Restore ==
  /\ fpThread = "restore"
  /\ Over
  /\ offset' = curPos /\ curPos' = 0
  /\ UNCHANGED <<sessionVars, pipe, requests, fpStatus, alarmVars, userVars, templates, idFile,
                 templateNum, misplaced, idList>>

(* The library does not have it. *)
DeleteFails ==
  /\ fpThread = "wait" /\ pipe # <<>>
  /\ pipe[1].msg = "delete" /\ pipe[1].id \notin templates
  /\ pipe' = Tail(pipe)
  /\ UNCHANGED <<sessionVars, requests, fpThreadVars, fpStatus, alarmVars, userVars, templates, fileVars, deletionVars>>

(* delete of all: the library clears its templates, the list is reset. *)
DeleteAll ==
  /\ fpThread = "wait" /\ pipe # <<>>
  /\ pipe[1].msg = "delete all"
  /\ pipe' = Tail(pipe)
  /\ templates' = {}
  /\ FpGoto("reset")
  /\ UNCHANGED <<sessionVars, requests, fpStatus, alarmVars, userVars, fileVars, deletionVars>>
ResetList ==
  /\ fpThread = "reset"
  /\ Over
  /\ offset' = 0 /\ templateNum' = 0
  /\ UNCHANGED <<sessionVars, pipe, requests, fpStatus, alarmVars, userVars, templates, idFile,
                 misplaced, deletionVars>>

-----------------------------------------------------------------------------
(* Fingers may have been enrolled before. *)
FingerprintInit ==
  /\ fpInits = 0 /\ imgData = "null" /\ pipe = <<>> /\ requests = 0
  /\ fpThread = "none" /\ kind = "auth" /\ image = 1 /\ id = 1 /\ retries = 0
  /\ fpStatus = [k \in Kind |-> FALSE]
  /\ fpArmed = [k \in Kind |-> FALSE] /\ late = [k \in Kind |-> FALSE]
  /\ user = "idle" /\ toRead = 0
  /\ \E n \in 0 .. MaxId : templates = 1 .. n /\ idFile = [k \in 1 .. n |-> k]
  /\ offset = 0 /\ templateNum = 0 /\ misplaced = FALSE
  /\ idList = <<>> /\ curPos = 0

FpThread ==
  \/ Quit \/ Refused \/ Check \/ Arm \/ GivesUp \/ Disarm \/ Evaluate \/ Lifted
  \/ \E k \in Kind : Begins(k)
  \/ Store \/ WriteId \/ WriteFails \/ DeleteFails \/ DeleteAll \/ ResetList
  \/ DeleteOne \/ NotePosition \/ Rewind \/ ReadList \/ RewindAgain \/ Rewrite \/ Deleted
  \/ Restore
CallGoesOn == InfoSeeks \/ InfoReads \/ Destroyed \/ \E k \in Kind : CancelStatus(k)
AlarmThread == \E k \in Kind : Timeout(k) \/ TimedOut(k)

FingerprintNext ==
  \/ FpInitCall \/ FpDestroy \/ InfoCounts \/ Restart \/ CallGoesOn
  \/ \E k \in Kind : CancelTimeout(k)
  \/ \E m \in Kind \cup {"delete", "delete all"}, x \in Id :
       (m # "delete" => x = 1) /\ FpRequest(m, x)
  \/ AlarmThread \/ FpThread \/ Captured

(* The threads run on and fingers are lifted in the end; nobody need ever  *)
(* put one down.                                                           *)
FingerprintFairness ==
  /\ WF_fpVars(FpThread) /\ WF_fpVars(CallGoesOn)
  /\ \A k \in Kind : WF_fpVars(Timeout(k)) /\ WF_fpVars(TimedOut(k))

FingerprintSpec == FingerprintInit /\ [][FingerprintNext]_fpVars /\ FingerprintFairness
-----------------------------------------------------------------------------
(* Properties *)

FingerprintTypeOK ==
  /\ fpInits \in 0 .. 2 /\ imgData \in {"null", "live", "freed"}
  /\ fpThread \in {"none", "wait", "check", "arm", "capture", "disarm", "evaluate", "lift", "store",
                   "finish", "reset"} \cup Unsettled
  /\ kind \in Kind /\ image \in 1 .. Steps(kind) /\ id \in Id /\ retries \in 0 .. MaxRetries
  /\ fpStatus \in [Kind -> BOOLEAN] /\ fpArmed \in [Kind -> BOOLEAN] /\ late \in [Kind -> BOOLEAN]
  /\ user \in {"idle", "destroy", "seek", "info"} \cup Kind /\ toRead \in Nat
  /\ templates \subseteq Id /\ idFile \in Seq(Id) /\ offset \in Nat /\ templateNum \in Nat
  /\ idList \in Seq(Id) /\ curPos \in Nat /\ misplaced \in BOOLEAN

(* The front of the id list file holds each enrolled finger once, through  *)
(* deletions that write the list over itself and leave old ids behind, and *)
(* through restarts.  That ends with the first id that is written where    *)
(* the offset happened to be (misplaced): the first enrolment after a      *)
(* restart does so, get_template_info during a deletion or an enrolment    *)
(* can make it so, and a restart between the library and the file has the  *)
(* same effect.  The code does nothing against these; here they are        *)
(* delimited, not caught.                                                  *)
ListMatches ==
  ~misplaced /\ fpThread \notin {"none", "reset"} \cup Unsettled =>
    /\ templateNum = Cardinality(templates) /\ templateNum <= Len(idFile)
    /\ {idFile[n] : n \in 1 .. templateNum} = templates

(* The thread hands img_data to the library in every capture: the buffer    *)
(* is there as long as the thread is, whatever requests destroy and the    *)
(* inits of other callers find in the pipe.                                *)
ImageBufferLives == fpThread # "none" => imgData = "live"

(* Every request gets its callback, if no finger ever comes: whichever     *)
(* timeout, cancel or late alarm meets it, one is set when it needs one.   *)
RequestsAnswered == pipe # <<>> ~> pipe = <<>> /\ fpThread \in {"wait", "none"}

=============================================================================
