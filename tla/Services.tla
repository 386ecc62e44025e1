------------------------------ MODULE Services ------------------------------
(***************************************************************************)
(* Four services with threads of their own that share no state, side by   *)
(* side, as in Devices: a behaviour uses one of them, its service.         *)
(***************************************************************************)
EXTENDS Input, Camera, Zigbee, Fingerprint

VARIABLE service

servicesVars == <<inputVars, camVars, zigbeeVars, fpVars, service>>

ServicesInit ==
  /\ service \in {"input", "camera", "zigbee", "fingerprint"}
  /\ InputInit /\ CameraInit /\ ZigbeeInit /\ FingerprintInit
  /\ service # "input" => device = CHOOSE d \in Device : TRUE
  /\ service # "fingerprint" => templates = {}

InputOnly ==
  /\ service = "input"
  /\ InputNext
  /\ UNCHANGED <<camVars, zigbeeVars, fpVars, service>>
CameraOnly ==
  /\ service = "camera"
  /\ CameraNext
  /\ UNCHANGED <<inputVars, zigbeeVars, fpVars, service>>
ZigbeeOnly ==
  /\ service = "zigbee"
  /\ ZigbeeNext
  /\ UNCHANGED <<inputVars, camVars, fpVars, service>>
FingerprintOnly ==
  /\ service = "fingerprint"
  /\ FingerprintNext
  /\ UNCHANGED <<inputVars, camVars, zigbeeVars, service>>

ServicesNext == InputOnly \/ CameraOnly \/ ZigbeeOnly \/ FingerprintOnly

(* The fairness of each.  Of a service that is not used it asks nothing:   *)
(* the steps it is about cannot be taken from the state it starts in.      *)
ServicesSpec ==
  ServicesInit /\ [][ServicesNext]_servicesVars
    /\ InputFairness /\ CameraFairness /\ ZigbeeFairness /\ FingerprintFairness
=============================================================================
