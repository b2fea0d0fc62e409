-------------------------- MODULE EngineLifecycle --------------------------
(***************************************************************************)
(* The native engine under the activities that share it: the callbacks of  *)
(* VmDisplayActivity, the JNI bridge that turns them into calls on process-*)
(* wide singletons (jni/native_bridge.cpp), EglRenderer, and the boot      *)
(* coroutine, which launches a guest from another thread.                  *)
(*                                                                         *)
(* Callbacks run on the UI thread, one after the other; the order in which *)
(* an old activity is torn down and a new one comes up is the framework's. *)
(* The UI thread's assignment to VfsRouter::config_ and the launch thread's*)
(* reads of it are not ordered: the assignment is two steps, and a read in *)
(* between yields Torn.  What a launch does with its guest is the subject  *)
(* of GuestLifecycle, what the pipe server does of QemuPipe.               *)
(***************************************************************************)
EXTENDS Naturals, FiniteSets

CONSTANTS Activities,  (* the instances of VmDisplayActivity              *)
          Slots,       (* the slots, VmConfig.id                          *)
          MaxSurfaces, (* bound: the surfaces an activity is given        *)
          None,        (* no activity, no slot, no window                 *)
          Torn         (* a configuration read while it is assigned       *)

ASSUME EngineAssumption ==
  /\ MaxSurfaces \in Nat \ {0}
  /\ None \notin Activities \cup Slots \cup (Activities \X (1..MaxSurfaces))
  /\ Torn \notin Slots \cup {None}

VARIABLES
  slot,             (* the slot each activity was started for, or None    *)
  life,             (* whether onCreate and onDestroy have run            *)
  surfaces,         (* how many surfaces the activity was given           *)
  shown,            (* the last of them has not been destroyed            *)
  isVmInitialized,  (* the activity's flag                                *)
  boot,             (* where the boot coroutine stands                    *)
  read,             (* the two reads of the configuration by a launch()   *)
                    (* that is under way or was reported                  *)
  guest,            (* GuestBootstrapper: running_ && guestPid_ > 0       *)
  initializing,     (* the activity whose nativeInit is under way         *)
  vfsInitialized, config,      (* VfsRouter::initialized_, config_        *)
  inputInitialized, inputOpen, (* InputDispatcher::initialized_, inputFd_ *)
  orphans,          (* sockets whose number inputFd_ has forgotten        *)
  qemu,             (* the slot whose path QemuPipeServer serves          *)
  halBridge,        (* HalBridgeService is started                        *)
  window,           (* EglRenderer::nativeWindow_ while initialized_     *)
  eglSurfaces,      (* the windows that have an EGL surface               *)
  overlapped,       (* history: another activity was there as well        *)
  failed,           (* history: the parts that did not start at the last  *)
                    (* attempt since the last onDestroy                   *)
  halfMade          (* history: windows whose initialization broke off    *)

activityVars == <<slot, life, surfaces, shown, isVmInitialized>>
bootVars     == <<boot, read, guest>>
engineVars   == <<vfsInitialized, config, inputInitialized, inputOpen, orphans, qemu>>
renderVars   == <<window, eglSurfaces, halfMade>>
vars == <<activityVars, bootVars, initializing, engineVars, halBridge,
          renderVars, overlapped, failed>>

Windows == Activities \X (1..MaxSurfaces)
Window(a) == <<a, surfaces[a]>>
UiIsFree == initializing = None

(* The activity has been through onDestroy and lost its surface, or has    *)
(* never been.                                                             *)
Absent(a) == life[a] # "live" /\ ~shown[a]

(* The launch is under way on a thread of Dispatchers.IO, and goes on when *)
(* the coroutine is cancelled.                                             *)
InLaunch == {"starting", "reading", "forking"}

Init ==
  /\ slot \in [Activities -> Slots \cup {None}]
  /\ life = [a \in Activities |-> "new"]
  /\ surfaces = [a \in Activities |-> 0]
  /\ shown = [a \in Activities |-> FALSE]
  /\ isVmInitialized = [a \in Activities |-> FALSE]
  /\ boot = [a \in Activities |-> "none"]
  /\ read = [a \in Activities |-> <<None, None>>] /\ guest = FALSE
  /\ initializing = None
  /\ vfsInitialized = FALSE /\ config = None
  /\ inputInitialized = FALSE /\ inputOpen = FALSE /\ orphans = 0
  /\ qemu = None /\ halBridge = FALSE
  /\ window = None /\ eglSurfaces = {} /\ halfMade = {}
  /\ overlapped = [a \in Activities |-> FALSE]
  /\ failed = {}

-----------------------------------------------------------------------------
(* EglRenderer.  Its other members are read only while initialized_ holds, *)
(* and then they belong to window.                                         *)

(* destroy() returns early unless an initialization had come to its end.   *)
Destroy ==
  /\ window' = None
  /\ eglSurfaces' = eglSurfaces \ {window}
  /\ UNCHANGED halfMade

(* Mutation: a new window takes over without destroying the old one.       *)
InitializeTakesOver(w) ==
  window' = w /\ eglSurfaces' = eglSurfaces \cup {w} /\ UNCHANGED halfMade

(* initialize(): nothing to do for the same window.  For another one, the  *)
(* old one is destroyed first; the platform may refuse before there is an  *)
(* EGL surface, and does when the window already has one, or fail after it *)
(* was created, which is then kept: destroy() returns early.               *)
Initialize(w) ==
  LET others == eglSurfaces \ {window} IN
  IF window = w THEN UNCHANGED renderVars
  ELSE \/ window' = None /\ eglSurfaces' = others /\ UNCHANGED halfMade
       \/ /\ w \notin others
          /\ eglSurfaces' = others \cup {w}
          /\ \/ window' = w /\ UNCHANGED halfMade
             \/ window' = None /\ halfMade' = halfMade \cup {w}

(* nativeSetSurface: a surface that is just going away has no window.      *)
SetSurface(w) == Initialize(w) \/ UNCHANGED renderVars

-----------------------------------------------------------------------------
(* The callbacks of the activities.                                        *)

(* An activity whose intent has no configuration finishes before it asks   *)
(* for surfaces; a service that cannot be started is logged.               *)
OnCreate(a) ==
  /\ UiIsFree /\ life[a] = "new"
  /\ life' = [life EXCEPT ![a] = "live"]
  /\ \/ slot[a] = None /\ UNCHANGED <<boot, halBridge, failed>>
     \/ /\ slot[a] # None
        /\ boot' = [boot EXCEPT ![a] = "waiting"]
        /\ \/ halBridge' = TRUE /\ failed' = failed \ {"hal"}
           \/ UNCHANGED halBridge /\ failed' = failed \cup {"hal"}
  /\ overlapped' = [b \in Activities |->
                      overlapped[b] \/ IF b = a THEN \E c \in Activities \ {a} : ~Absent(c)
                                       ELSE ~Absent(b)]
  /\ UNCHANGED <<slot, surfaces, shown, isVmInitialized, read, guest, initializing,
                 engineVars, renderVars>>

(* surfaceCreated: the first one starts the engine, unless it is the       *)
(* activity's opinion that it runs; nativeInit begins with config_.        *)
SurfaceCreated(a) ==
  /\ UiIsFree /\ life[a] = "live" /\ slot[a] # None
  /\ ~shown[a] /\ surfaces[a] < MaxSurfaces
  /\ surfaces' = [surfaces EXCEPT ![a] = @ + 1]
  /\ shown' = [shown EXCEPT ![a] = TRUE]
  /\ IF isVmInitialized[a]
     THEN SetSurface(<<a, surfaces[a] + 1>>) /\ UNCHANGED <<initializing, config>>
     ELSE initializing' = a /\ config' = Torn /\ UNCHANGED renderVars
  /\ UNCHANGED <<slot, life, isVmInitialized, bootVars, vfsInitialized, inputInitialized,
                 inputOpen, orphans, qemu, halBridge, overlapped, failed>>

(* Mutation: a router that was set up before may keep its configuration.   *)
InitializeOnce(a) ==
  vfsInitialized' = TRUE /\ \E b \in Activities : surfaces[b] > 0 /\ config' = slot[b]

InitializeVfs(a) == vfsInitialized' = TRUE /\ config' = slot[a]

(* A second initialize() forgets the first socket; one that fails leaves   *)
(* initialized_ as it was.                                                 *)
InitializeInput ==
  /\ orphans' = orphans + (IF inputOpen THEN 1 ELSE 0)
  /\ inputOpen' \in BOOLEAN
  /\ inputInitialized' = (inputInitialized \/ inputOpen')

(* start() of a server that runs keeps its path.                           *)
StartQemu(a) == IF qemu = None THEN qemu' \in {slot[a], None} ELSE UNCHANGED qemu

(* The rest of nativeInit, which returns JNI_TRUE in every case, and of    *)
(* surfaceCreated.                                                         *)
NativeInit(a) ==
  /\ initializing = a /\ initializing' = None
  /\ InitializeVfs(a) /\ InitializeInput /\ StartQemu(a)
  /\ isVmInitialized' = [isVmInitialized EXCEPT ![a] = TRUE]
  /\ failed' = (failed \cap {"hal"}) \cup
       {p \in {"input", "qemu"} : IF p = "input" THEN ~inputOpen' ELSE qemu' = None}
  /\ SetSurface(Window(a))
  /\ UNCHANGED <<slot, life, surfaces, shown, bootVars, halBridge, overlapped>>

SurfaceChanged(a) ==
  /\ UiIsFree /\ life[a] = "live" /\ shown[a]
  /\ SetSurface(Window(a))
  /\ UNCHANGED <<activityVars, bootVars, initializing, engineVars, halBridge,
                 overlapped, failed>>

(* surfaceDestroyed, which may come after onDestroy: whosever window the   *)
(* renderer has, it is destroyed.                                          *)
SurfaceDestroyed(a) ==
  /\ UiIsFree /\ shown[a]
  /\ shown' = [shown EXCEPT ![a] = FALSE]
  /\ Destroy
  /\ UNCHANGED <<slot, life, surfaces, isVmInitialized, bootVars, initializing,
                 engineVars, halBridge, overlapped, failed>>

(* Mutations: stopping leaves the router's tables, or the pipe server.     *)
StopVmKeepsRouter ==
  /\ qemu' = None /\ inputOpen' = FALSE /\ inputInitialized' = FALSE
  /\ Destroy /\ UNCHANGED <<vfsInitialized, config, orphans>>

StopVmKeepsServer ==
  /\ inputOpen' = FALSE /\ inputInitialized' = FALSE /\ vfsInitialized' = FALSE
  /\ Destroy /\ UNCHANGED <<qemu, config, orphans>>

(* nativeStopVm: everything goes, whoever uses it, the guest included;     *)
(* reset() keeps config_.                                                  *)
StopVm ==
  /\ qemu' = None /\ inputOpen' = FALSE /\ inputInitialized' = FALSE
  /\ Destroy /\ vfsInitialized' = FALSE
  /\ UNCHANGED <<config, orphans>>

OnDestroy(a) ==
  /\ UiIsFree /\ life[a] = "live"
  /\ life' = [life EXCEPT ![a] = "destroyed"]
  /\ boot' = [boot EXCEPT ![a] = IF @ \in InLaunch THEN @ ELSE "cancelled"]
  /\ halBridge' = FALSE /\ guest' = FALSE
  /\ failed' = {}
  /\ StopVm
  /\ UNCHANGED <<slot, surfaces, shown, isVmInitialized, read, initializing, overlapped>>

-----------------------------------------------------------------------------
(* The boot coroutine, which is cancelled with its activity.               *)

BootStep(a, from, to) ==
  /\ boot[a] = from
  /\ boot' = [boot EXCEPT ![a] = to]
  /\ UNCHANGED <<activityVars, initializing, engineVars, halBridge, renderVars,
                 overlapped, failed>>

(* At most 50 times 100 ms for the engine, then the launch or an error.    *)
BootProceeds(a) ==
  isVmInitialized[a] /\ BootStep(a, "waiting", "starting") /\ UNCHANGED <<read, guest>>
BootTimesOut(a) ==
  ~isVmInitialized[a] /\ BootStep(a, "waiting", "timed out") /\ UNCHANGED <<read, guest>>

(* nativeLaunchGuest                                                       *)
LaunchChecks(a) ==
  /\ BootStep(a, "starting", IF vfsInitialized THEN "reading" ELSE "refused")
  /\ UNCHANGED <<read, guest>>

(* launch() returns true when a guest runs, whosever it is.                *)
LaunchFinds(a) ==
  guest /\ BootStep(a, "reading", "found") /\ UNCHANGED <<read, guest>>

(* Otherwise it reads its paths through the reference, and the rest when   *)
(* it has forked.                                                          *)
LaunchReads(a) ==
  /\ ~guest /\ BootStep(a, "reading", "forking")
  /\ read' = [read EXCEPT ![a][1] = config] /\ UNCHANGED guest
LaunchForks(a) ==
  \/ /\ BootStep(a, "forking", "forked") /\ guest' = TRUE
     /\ read' = [read EXCEPT ![a][2] = config]
  \/ /\ BootStep(a, "forking", "refused") /\ UNCHANGED guest
     /\ read' = [read EXCEPT ![a] = <<None, None>>]

(* Back on the UI thread: what the launch returned is reported, or dropped *)
(* if the coroutine was cancelled meanwhile; a guest it forked goes on.    *)
BootReports(a) ==
  /\ UiIsFree
  /\ IF life[a] = "live"
     THEN /\ \/ BootStep(a, "forked", "launched") \/ BootStep(a, "found", "launched")
             \/ BootStep(a, "refused", "error")
          /\ UNCHANGED read
     ELSE /\ \/ BootStep(a, "forked", "outlived")
             \/ BootStep(a, "found", "cancelled") \/ BootStep(a, "refused", "cancelled")
          /\ read' = [read EXCEPT ![a] = <<None, None>>]
  /\ UNCHANGED guest

Boot(a) ==
  \/ BootProceeds(a) \/ BootTimesOut(a)
  \/ LaunchChecks(a) \/ LaunchFinds(a) \/ LaunchReads(a) \/ LaunchForks(a)
  \/ BootReports(a)

(* A monitor clears both members: its guest has exited, or an older one.   *)
GuestExits ==
  /\ guest /\ guest' = FALSE
  /\ UNCHANGED <<activityVars, boot, read, initializing, engineVars, halBridge, renderVars,
                 overlapped, failed>>

Next ==
  \/ \E a \in Activities :
       \/ OnCreate(a) \/ SurfaceCreated(a) \/ NativeInit(a)
       \/ SurfaceChanged(a) \/ SurfaceDestroyed(a) \/ OnDestroy(a)
       \/ Boot(a)
  \/ GuestExits

Spec == Init /\ [][Next]_vars

-----------------------------------------------------------------------------
BootStates == {"none", "waiting", "timed out", "starting", "reading", "forking", "forked",
               "found", "refused", "launched", "error", "cancelled", "outlived"}

TypeOK ==
  /\ slot \in [Activities -> Slots \cup {None}]
  /\ life \in [Activities -> {"new", "live", "destroyed"}]
  /\ surfaces \in [Activities -> 0..MaxSurfaces]
  /\ shown \in [Activities -> BOOLEAN]
  /\ isVmInitialized \in [Activities -> BOOLEAN]
  /\ boot \in [Activities -> BootStates]
  /\ read \in [Activities -> (Slots \cup {None, Torn}) \X (Slots \cup {None, Torn})]
  /\ guest \in BOOLEAN
  /\ initializing \in Activities \cup {None}
  /\ vfsInitialized \in BOOLEAN /\ config \in Slots \cup {None, Torn}
  /\ inputInitialized \in BOOLEAN /\ inputOpen \in BOOLEAN
  /\ orphans \in Nat
  /\ qemu \in Slots \cup {None} /\ halBridge \in BOOLEAN
  /\ window \in Windows \cup {None}
  /\ eglSurfaces \subseteq Windows /\ halfMade \subseteq Windows
  /\ overlapped \in [Activities -> BOOLEAN]
  /\ failed \subseteq {"hal", "input", "qemu"}

(* From its first surface to its onDestroy, an activity that never shared  *)
(* the process with another has the whole engine, set up for its own slot, *)
(* whatever earlier activities left; only a part that did not start is     *)
(* missing, and stays missing, because nobody asks whether it did.         *)
AloneHasEngine ==
  \A a \in Activities :
    (life[a] = "live" /\ ~overlapped[a] /\ isVmInitialized[a]) =>
      /\ vfsInitialized /\ config = slot[a]
      /\ halBridge = ("hal" \notin failed)
      /\ inputOpen = ("input" \notin failed) /\ inputInitialized = inputOpen
      /\ qemu = (IF "qemu" \in failed THEN None ELSE slot[a])

(* The activity's launch outlives it, with the guest it forked.            *)
Outlived(a) == life[a] = "destroyed" /\ boot[a] \in {"forked", "outlived"}

(* When the last activity has been destroyed nothing runs any more, in     *)
(* whatever order activities came, overlapped and went, but the guest of a *)
(* launch that was under way; and if none ever overlapped no socket is     *)
(* forgotten.                                                              *)
NothingIsLeft ==
  /\ (\A a \in Activities : life[a] # "live") =>
       /\ ~vfsInitialized /\ qemu = None /\ ~halBridge /\ window = None
       /\ ~inputInitialized /\ ~inputOpen
       /\ guest => \E a \in Activities : Outlived(a)
  /\ orphans > 0 => \E a \in Activities : overlapped[a]

(* Whichever activity's callbacks replace or destroy whose window: the     *)
(* renderer holds on to no window whose surface is gone, and no window but *)
(* its own has an EGL surface, except one whose initialization broke off,  *)
(* which can never be drawn to again.                                      *)
SurfacesHaveOwner ==
  /\ TypeOK
  /\ window # None => \E a \in Activities : shown[a] /\ window = Window(a)
  /\ eglSurfaces = halfMade \cup ({window} \ {None})
  /\ window \notin halfMade

(* "Guest process launched successfully for ${config.id}": if its activity *)
(* was alone, the launch used that slot's configuration from beginning to  *)
(* end, or it used none, because it found the guest of a launch that had   *)
(* outlived its own activity.                                              *)
ReportedLaunchIsOwn ==
  \A a \in Activities :
    boot[a] = "launched" /\ ~overlapped[a] =>
      \/ read[a] = <<slot[a], slot[a]>>
      \/ read[a] = <<None, None>> /\ \E b \in Activities : Outlived(b)
=============================================================================
