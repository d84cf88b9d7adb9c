--------------------------- MODULE CameraWrapper ----------------------------
(***************************************************************************)
(* The camera HAL that wraps the vendor's (camera/CameraWrapper.cpp): one  *)
(* wrapper device per opened camera, and one global array fixed_set_params *)
(* with the last parameters set on each camera.  The model follows the     *)
(* memory: every string the wrapper allocates has a number, and a free of  *)
(* a string that is no longer allocated is recorded.                       *)
(*                                                                         *)
(* Open and close hold gCameraWrapperLock.  The operations on a device do  *)
(* not, so set_parameters is two steps: what it does to fixed_set_params,  *)
(* and the call of the vendor with the string it put there.                *)
(***************************************************************************)
EXTENDS Integers, FiniteSets

CONSTANTS NumCameras,  \* what the vendor's get_number_of_cameras returns
          MaxStrings,  \* bound on strings allocated
          MaxOpens     \* bound on calls of camera_device_open

VARIABLES gVendorModule,     \* the vendor module has been loaded
          fixed_set_params,  \* per camera a string, or 0 for NULL
          devices,           \* cameras with an open wrapper device
          setting,           \* per camera the string set_parameters hands the vendor, or 0
          vendor,            \* per camera the parameters the vendor has
          given,             \* what get_parameters gave the camera service: [string, params]
          live,              \* strings allocated and not freed
          strings, opens,    \* strings allocated and opens so far
          badFree, badUse,   \* a string was freed twice, or used after its free
          overlap            \* two wrapper devices have been open at once

vars == <<gVendorModule, fixed_set_params, devices, setting, vendor, given,
          live, strings, opens, badFree, badUse, overlap>>

Cameras == 0..(NumCameras - 1)
NULL == 0

(* The parameters are a record of the keys the wrapper looks at; "unset"   *)
(* is an absent key.                                                       *)
Params == [scene_mode: {"auto", "hdr"}, hdr_need_1x: {"unset", "true"},
           longshot_supported: {"unset", "true"}]

TypeOK == /\ fixed_set_params \in [Cameras -> 0..MaxStrings]
          /\ setting \in [Cameras -> 0..MaxStrings]
          /\ devices \subseteq Cameras
          /\ vendor \in [Cameras -> Params]
          /\ given \subseteq [string: 1..MaxStrings, params: Params]
          /\ live \subseteq 1..MaxStrings
          /\ strings \in 0..MaxStrings /\ opens \in 0..MaxOpens
          /\ {gVendorModule, badFree, badUse, overlap} \subseteq BOOLEAN

Init == /\ gVendorModule = FALSE
        /\ fixed_set_params = [c \in Cameras |-> NULL]
        /\ setting = [c \in Cameras |-> NULL]
        /\ devices = {} /\ given = {} /\ live = {}
        /\ vendor \in [Cameras -> {[scene_mode |-> "auto", hdr_need_1x |-> "true",
                                    longshot_supported |-> "true"]}]
        /\ strings = 0 /\ opens = 0
        /\ badFree = FALSE /\ badUse = FALSE /\ overlap = FALSE

memory == <<live, strings, badFree, badUse>>

(* camera_fixup_setparams and camera_fixup_getparams: what they do to the  *)
(* parsed parameters.                                                      *)
camera_fixup_setparams(p) ==
  IF p.scene_mode = "hdr" THEN [p EXCEPT !.hdr_need_1x = "unset"] ELSE p

camera_fixup_getparams(p) == [p EXCEPT !.longshot_supported = "unset"]

-----------------------------------------------------------------------------
(* An array that is allocated once, by the first open only. *)
KeptArray == fixed_set_params

(* The array camera_device_open allocates and clears. *)
NewArray == [c \in Cameras |-> NULL]

(* camera_device_open: the array is allocated anew, empty, for every open, *)
(* even for one that then fails.  The bound on the camera's number lets    *)
(* the number of cameras itself pass; the vendor refuses that one.         *)
camera_device_open(id, moduleFound, vendorOpens) ==
  /\ opens < MaxOpens /\ opens' = opens + 1
  /\ id \notin devices
  /\ gVendorModule' = (gVendorModule \/ moduleFound)
  /\ fixed_set_params' = IF gVendorModule' THEN NewArray ELSE fixed_set_params
  /\ devices' = IF gVendorModule' /\ id \in Cameras /\ vendorOpens
                THEN devices \cup {id} ELSE devices
  /\ overlap' = (overlap \/ Cardinality(devices') > 1)
  /\ UNCHANGED <<setting, vendor, given>> /\ UNCHANGED memory


(* camera_device_close: the array's entries are not set to NULL. *)
camera_device_close(id) ==
  /\ id \in devices /\ setting[id] = NULL
  /\ LET freed == {fixed_set_params[c] : c \in Cameras} \ {NULL}
     IN  /\ badFree' = (badFree \/ ~(freed \subseteq live))
         /\ live' = live \ freed
  /\ devices' = devices \ {id}
  /\ UNCHANGED <<gVendorModule, fixed_set_params, setting, vendor, given, strings,
                 opens, badUse, overlap>>

(* camera_set_parameters, up to the call of the vendor. *)
camera_set_parameters(id, p) ==
  /\ id \in devices /\ setting[id] = NULL /\ strings < MaxStrings
  /\ LET new == strings + 1
         freed == {fixed_set_params[id]} \ {NULL}
     IN  /\ strings' = new
         /\ badFree' = (badFree \/ ~(freed \subseteq live))
         /\ live' = (live \cup {new}) \ freed
         /\ fixed_set_params' = [fixed_set_params EXCEPT ![id] = new]
         /\ setting' = [setting EXCEPT ![id] = new]
  /\ vendor' = [vendor EXCEPT ![id] = camera_fixup_setparams(p)]
  /\ UNCHANGED <<gVendorModule, devices, given, opens, badUse, overlap>>

(* The vendor's set_parameters reads the string. *)
VendorSetParameters(id) ==
  /\ setting[id] # NULL
  /\ badUse' = (badUse \/ setting[id] \notin live)
  /\ setting' = [setting EXCEPT ![id] = NULL]
  /\ UNCHANGED <<gVendorModule, fixed_set_params, devices, vendor, given, live,
                 strings, opens, badFree, overlap>>

(* camera_get_parameters: the vendor's string is copied, fixed and put     *)
(* back; the camera service gets the copy ...                              *)
camera_get_parameters(id) ==
  /\ id \in devices /\ strings < MaxStrings
  /\ strings' = strings + 1
  /\ live' = live \cup {strings'}
  /\ given' = given \cup {[string |-> strings', params |-> camera_fixup_getparams(vendor[id])]}
  /\ UNCHANGED <<gVendorModule, fixed_set_params, devices, setting, vendor, opens,
                 badFree, badUse, overlap>>

(* ... and returns it with camera_put_parameters, which frees it. *)
camera_put_parameters(id, p) ==
  /\ id \in devices /\ p \in given
  /\ badFree' = (badFree \/ p.string \notin live)
  /\ live' = live \ {p.string} /\ given' = given \ {p}
  /\ UNCHANGED <<gVendorModule, fixed_set_params, devices, setting, vendor, strings,
                 opens, badUse, overlap>>

Next == \/ \E id \in 0..NumCameras, m, v \in BOOLEAN : camera_device_open(id, m, v)
        \/ \E id \in Cameras : \/ camera_device_close(id)
                               \/ \E p \in Params : camera_set_parameters(id, p)
                               \/ VendorSetParameters(id)
                               \/ camera_get_parameters(id)
                               \/ \E p \in given : camera_put_parameters(id, p)

Spec == Init /\ [][Next]_vars

-----------------------------------------------------------------------------
(* While cameras are opened one at a time, no string is freed twice or     *)
(* used after its free, although close leaves freed strings in             *)
(* fixed_set_params: the next open allocates the array anew.               *)
StringsAreSafe == ~overlap => ~badFree /\ ~badUse

=============================================================================
