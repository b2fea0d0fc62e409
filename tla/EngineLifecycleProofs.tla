----------------------- MODULE EngineLifecycleProofs -----------------------
(***************************************************************************)
(* Theorems about EngineLifecycle, for any number of activities, slots and *)
(* surfaces.  The properties are not inductive: each is about what is left *)
(* or owned at some moment, and depends on what activities that are gone,  *)
(* or that were there together, have done.  Strengthening them says who    *)
(* was alone, and what an activity that is alone finds at every stage of   *)
(* its life.                                                               *)
(***************************************************************************)
EXTENDS EngineLifecycle, TLAPS

(* nativeInit is under way exactly for a live activity that shows its      *)
(* surface and does not yet take the engine to run; it has a slot.         *)
InitializingRuns ==
  /\ initializing # None =>
       /\ life[initializing] = "live" /\ shown[initializing]
       /\ ~isVmInitialized[initializing]
  /\ \A a \in Activities :
       /\ (life[a] = "live" /\ shown[a] /\ ~isVmInitialized[a]) => initializing = a
       /\ shown[a] => surfaces[a] # 0 /\ slot[a] # None
       /\ life[a] = "new" => ~isVmInitialized[a] /\ ~shown[a]

(* Activities that are there together know it ever after.                  *)
MeetingsAreKept ==
  \A a, b \in Activities : a # b /\ ~Absent(a) /\ ~Absent(b) => overlapped[a]

EngineIsOff ==
  ~vfsInitialized /\ qemu = None /\ window = None /\ ~inputInitialized /\ ~inputOpen

(* With nobody there the engine is off, and so it is for an activity that  *)
(* is alone until its nativeInit, except for its service.                  *)
OffBefore ==
  /\ (\A a \in Activities : life[a] # "live") => EngineIsOff /\ ~halBridge
  /\ \A a \in Activities :
       (life[a] = "live" /\ ~overlapped[a] /\ ~isVmInitialized[a]) =>
         EngineIsOff /\ (slot[a] # None => halBridge = ("hal" \notin failed))

(* A guest was launched by an activity that is there, or outlived one.     *)
GuestHasLauncher ==
  guest => \E a \in Activities :
             Outlived(a) \/ (life[a] = "live" /\ boot[a] \in {"forked", "launched"})

(* What the launch of an activity has read, while the activity is alone,   *)
(* and what it found instead.                                              *)
Own(a) ==
  /\ boot[a] = "launched" => life[a] = "live"
  /\ life[a] = "new" => boot[a] = "none"
  /\ boot[a] \in {"none", "waiting", "starting", "reading", "found"} => read[a] = <<None, None>>
  /\ (life[a] = "live" /\ ~overlapped[a]) =>
       /\ boot[a] \in InLaunch \cup {"forked", "found", "launched"} => isVmInitialized[a]
       /\ boot[a] = "found" => \E b \in Activities : Outlived(b)
       /\ boot[a] = "forking" => read[a][1] = slot[a]
       /\ boot[a] = "forked" => read[a] = <<slot[a], slot[a]>>
       /\ boot[a] = "launched" =>
            \/ read[a] = <<slot[a], slot[a]>>
            \/ read[a] = <<None, None>> /\ \E b \in Activities : Outlived(b)

ReadsOwn == \A a \in Activities : Own(a)

IInv ==
  /\ SurfacesHaveOwner /\ InitializingRuns /\ MeetingsAreKept
  /\ OffBefore /\ AloneHasEngine /\ NothingIsLeft
  /\ GuestHasLauncher /\ ReadsOwn

-----------------------------------------------------------------------------
(* Types, and who owns which surface.                                      *)

(* What the renderer may do with a window it is given.                     *)
LEMMA SetSurfaceOwns ==
  ASSUME NEW w \in Windows, SurfacesHaveOwner, SetSurface(w)
  PROVE  /\ window' \in {window, w, None}
         /\ window' \in Windows \cup {None} /\ eglSurfaces' \subseteq Windows
         /\ halfMade' \subseteq Windows
         /\ eglSurfaces' = halfMade' \cup ({window'} \ {None})
         /\ window' \notin halfMade'
BY EngineAssumption DEF SurfacesHaveOwner, TypeOK, SetSurface, Initialize, Windows, renderVars

LEMMA DestroyOwns ==
  ASSUME SurfacesHaveOwner, Destroy
  PROVE  /\ window' = None /\ eglSurfaces' = halfMade' /\ halfMade' = halfMade
         /\ eglSurfaces' \subseteq Windows /\ None \notin halfMade'
BY EngineAssumption DEF SurfacesHaveOwner, TypeOK, Destroy, Windows

(* A shown surface of an activity is one of its windows.                   *)
LEMMA ShownHasWindow ==
  ASSUME TypeOK, InitializingRuns, NEW a \in Activities, shown[a]
  PROVE  Window(a) \in Windows
<1>1. surfaces[a] \in 0..MaxSurfaces /\ surfaces[a] # 0
  BY DEF TypeOK, InitializingRuns
<1> QED BY <1>1, EngineAssumption DEF Window, Windows

LEMMA ReadFirst ==
  ASSUME NEW S, NEW f \in [Activities -> S \X S], NEW a \in Activities, NEW c \in S
  PROVE  /\ [f EXCEPT ![a][1] = c] \in [Activities -> S \X S]
         /\ [f EXCEPT ![a][2] = c] \in [Activities -> S \X S]
         /\ [f EXCEPT ![a] = <<c, c>>] \in [Activities -> S \X S]
OBVIOUS

-----------------------------------------------------------------------------
(* The boot coroutine touches nothing but its own state.                   *)
LEMMA BootChangesLittle ==
  ASSUME NEW a \in Activities, Boot(a)
  PROVE  UNCHANGED <<activityVars, initializing, engineVars, halBridge, renderVars,
                     overlapped, failed>>
BY DEF Boot, BootProceeds, BootTimesOut, LaunchChecks, LaunchFinds, LaunchReads, LaunchForks,
       BootReports, BootStep

LEMMA BootTypes ==
  ASSUME TypeOK, NEW a \in Activities, Boot(a)
  PROVE  /\ boot' \in [Activities -> BootStates]
         /\ read' \in [Activities -> (Slots \cup {None, Torn}) \X (Slots \cup {None, Torn})]
         /\ guest' \in BOOLEAN
<1> DEFINE Configs == Slots \cup {None, Torn}
<1>1. /\ boot \in [Activities -> BootStates] /\ read \in [Activities -> Configs \X Configs]
      /\ config \in Configs /\ None \in Configs
  BY DEF TypeOK
<1>2. /\ [read EXCEPT ![a][1] = config] \in [Activities -> Configs \X Configs]
      /\ [read EXCEPT ![a][2] = config] \in [Activities -> Configs \X Configs]
      /\ [read EXCEPT ![a] = <<None, None>>] \in [Activities -> Configs \X Configs]
  <2> HIDE DEF Configs
  <2> QED BY <1>1, ReadFirst
<1>3. /\ read' \in {read, [read EXCEPT ![a][1] = config], [read EXCEPT ![a][2] = config],
                     [read EXCEPT ![a] = <<None, None>>]}
      /\ guest' \in {guest, TRUE}
  BY DEF Boot, BootProceeds, BootTimesOut, LaunchChecks, LaunchFinds, LaunchReads, LaunchForks, BootReports
<1>4. boot' \in [Activities -> BootStates]
  BY <1>1 DEF Boot, BootProceeds, BootTimesOut, LaunchChecks, LaunchFinds, LaunchReads, LaunchForks,
     BootReports, BootStep, BootStates
<1> HIDE DEF Configs
<1>5. read' \in [Activities -> Configs \X Configs]
  BY <1>1, <1>2, <1>3
<1>6. guest' \in BOOLEAN
  BY <1>3 DEF TypeOK
<1> QED BY <1>4, <1>5, <1>6 DEF Configs

LEMMA TypesStep ==
  SurfacesHaveOwner /\ InitializingRuns /\ [Next]_vars => TypeOK'
<1> SUFFICES ASSUME SurfacesHaveOwner, InitializingRuns, [Next]_vars PROVE TypeOK'
  OBVIOUS
<1>0. TypeOK
  BY DEF SurfacesHaveOwner
<1>1. CASE UNCHANGED vars
  BY <1>0, <1>1 DEF TypeOK, vars, activityVars, bootVars, engineVars, renderVars
<1>2. ASSUME NEW a \in Activities, OnCreate(a) PROVE TypeOK'
  BY <1>0, <1>2 DEF TypeOK, OnCreate, engineVars, renderVars, BootStates
<1>3. ASSUME NEW a \in Activities, SurfaceCreated(a) PROVE TypeOK'
  <2>1. surfaces[a] + 1 \in 1..MaxSurfaces
    BY <1>0, <1>3, EngineAssumption DEF TypeOK, SurfaceCreated
  <2>2. <<a, surfaces[a] + 1>> \in Windows
    BY <2>1 DEF Windows
  <2>3. /\ window' \in Windows \cup {None} /\ eglSurfaces' \subseteq Windows
        /\ halfMade' \subseteq Windows
    BY <1>0, <1>3, <2>2, SetSurfaceOwns DEF SurfaceCreated, TypeOK, renderVars
  <2>4. /\ surfaces' \in [Activities -> 0..MaxSurfaces] /\ shown' \in [Activities -> BOOLEAN]
        /\ initializing' \in Activities \cup {None} /\ config' \in Slots \cup {None, Torn}
    BY <1>0, <1>3, <2>1 DEF TypeOK, SurfaceCreated
  <2> QED BY <1>0, <1>3, <2>3, <2>4 DEF TypeOK, SurfaceCreated, bootVars
<1>4. ASSUME NEW a \in Activities, NativeInit(a) PROVE TypeOK'
  <2>1. shown[a]
    BY <1>4, EngineAssumption DEF NativeInit, InitializingRuns
  <2>2. /\ window' \in Windows \cup {None} /\ eglSurfaces' \subseteq Windows
        /\ halfMade' \subseteq Windows
    BY <1>0, <1>4, <2>1, ShownHasWindow, SetSurfaceOwns DEF NativeInit
  <2>3. /\ config' \in Slots \cup {None, Torn} /\ vfsInitialized' \in BOOLEAN
        /\ inputOpen' \in BOOLEAN /\ inputInitialized' \in BOOLEAN
        /\ orphans' \in Nat /\ qemu' \in Slots \cup {None}
    BY <1>0, <1>4 DEF NativeInit, InitializeVfs, InitializeInput, StartQemu, TypeOK
  <2>4. failed' \subseteq {"hal", "input", "qemu"}
    BY <1>0, <1>4 DEF NativeInit, TypeOK
  <2>5. /\ isVmInitialized' \in [Activities -> BOOLEAN]
        /\ initializing' \in Activities \cup {None}
    BY <1>0, <1>4 DEF NativeInit, TypeOK
  <2> QED BY <1>0, <1>4, <2>2, <2>3, <2>4, <2>5 DEF TypeOK, NativeInit, bootVars
<1>5. ASSUME NEW a \in Activities, SurfaceChanged(a) PROVE TypeOK'
  <2>1. /\ window' \in Windows \cup {None} /\ eglSurfaces' \subseteq Windows
        /\ halfMade' \subseteq Windows
    BY <1>0, <1>5, ShownHasWindow, SetSurfaceOwns DEF SurfaceChanged
  <2> QED BY <1>0, <1>5, <2>1 DEF TypeOK, SurfaceChanged, activityVars, bootVars, engineVars
<1>6. ASSUME NEW a \in Activities, SurfaceDestroyed(a) PROVE TypeOK'
  BY <1>0, <1>6 DEF TypeOK, SurfaceDestroyed, Destroy, bootVars, engineVars
<1>7. ASSUME NEW a \in Activities, OnDestroy(a) PROVE TypeOK'
  BY <1>0, <1>7 DEF TypeOK, OnDestroy, StopVm, Destroy, BootStates
<1>8. ASSUME NEW a \in Activities, Boot(a) PROVE TypeOK'
  BY <1>0, <1>8, BootTypes, BootChangesLittle DEF TypeOK, activityVars, engineVars, renderVars
<1>9. CASE GuestExits
  BY <1>0, <1>9 DEF TypeOK, GuestExits, activityVars, engineVars, renderVars
<1> QED BY <1>1, <1>2, <1>3, <1>4, <1>5, <1>6, <1>7, <1>8, <1>9 DEF Next

(* A surface that is not the one of the renderer stays what it is; the     *)
(* renderer is given only the surface of the activity that calls.          *)
LEMMA OwnerStep ==
  SurfacesHaveOwner /\ InitializingRuns /\ [Next]_vars => SurfacesHaveOwner'
<1> SUFFICES ASSUME SurfacesHaveOwner, InitializingRuns, [Next]_vars PROVE SurfacesHaveOwner'
  OBVIOUS
<1>0. TypeOK /\ TypeOK'
  BY TypesStep DEF SurfacesHaveOwner
<1>1. CASE UNCHANGED vars
  BY <1>0, <1>1 DEF SurfacesHaveOwner, Window, vars, activityVars, renderVars
<1>2. ASSUME NEW a \in Activities, OnCreate(a) PROVE SurfacesHaveOwner'
  BY <1>0, <1>2 DEF SurfacesHaveOwner, Window, OnCreate, renderVars
<1>3. ASSUME NEW a \in Activities, SurfaceCreated(a) PROVE SurfacesHaveOwner'
  <2> DEFINE w == <<a, surfaces[a] + 1>>
  <2>1. /\ surfaces[a] + 1 \in 1..MaxSurfaces /\ ~shown[a]
        /\ shown' = [shown EXCEPT ![a] = TRUE]
        /\ surfaces' = [surfaces EXCEPT ![a] = surfaces[a] + 1]
    BY <1>0, <1>3, EngineAssumption DEF TypeOK, SurfaceCreated
  <2>2. w \in Windows
    BY <2>1 DEF Windows
  <2>3. shown'[a] /\ (Window(a))' = w
    BY <1>0, <2>1 DEF TypeOK, Window
  <2>4. \A b \in Activities : shown[b] => shown'[b] /\ (Window(b))' = Window(b)
    BY <1>0, <2>1 DEF TypeOK, Window
  <2>5. CASE UNCHANGED renderVars
    BY <1>0, <2>4, <2>5 DEF SurfacesHaveOwner, renderVars
  <2>6. CASE SetSurface(w)
    <3>1. /\ window' \in {window, w, None}
          /\ eglSurfaces' = halfMade' \cup ({window'} \ {None}) /\ window' \notin halfMade'
      BY <2>2, <2>6, SetSurfaceOwns
    <3>2. window' # None => \E b \in Activities : shown'[b] /\ window' = (Window(b))'
      BY <2>3, <2>4, <3>1 DEF SurfacesHaveOwner
    <3> QED BY <1>0, <3>1, <3>2 DEF SurfacesHaveOwner
  <2> QED BY <1>3, <2>5, <2>6 DEF SurfaceCreated
<1>4. ASSUME NEW a \in Activities, shown[a], SetSurface(Window(a)),
             UNCHANGED <<shown, surfaces>>
      PROVE  SurfacesHaveOwner'
  <2>1. /\ window' \in {window, Window(a), None}
        /\ eglSurfaces' = halfMade' \cup ({window'} \ {None}) /\ window' \notin halfMade'
    BY <1>0, <1>4, ShownHasWindow, SetSurfaceOwns
  <2>2. \A b \in Activities : shown'[b] = shown[b] /\ (Window(b))' = Window(b)
    BY <1>4 DEF Window
  <2>3. window' # None => \E b \in Activities : shown'[b] /\ window' = (Window(b))'
    BY <1>4, <2>1, <2>2 DEF SurfacesHaveOwner
  <2> QED BY <1>0, <2>1, <2>3 DEF SurfacesHaveOwner
<1>5. ASSUME NEW a \in Activities, NativeInit(a) PROVE SurfacesHaveOwner'
  BY <1>4, <1>5, EngineAssumption DEF NativeInit, InitializingRuns
<1>6. ASSUME NEW a \in Activities, SurfaceChanged(a) PROVE SurfacesHaveOwner'
  BY <1>4, <1>6 DEF SurfaceChanged, activityVars
<1>7. ASSUME Destroy PROVE SurfacesHaveOwner'
  BY <1>0, <1>7, DestroyOwns DEF SurfacesHaveOwner
<1>8. ASSUME NEW a \in Activities, SurfaceDestroyed(a) \/ OnDestroy(a) PROVE SurfacesHaveOwner'
  BY <1>7, <1>8 DEF SurfaceDestroyed, OnDestroy, StopVm
<1>9. ASSUME NEW a \in Activities, Boot(a) PROVE SurfacesHaveOwner'
  BY <1>0, <1>9, BootChangesLittle DEF SurfacesHaveOwner, Window, activityVars, renderVars
<1>10. CASE GuestExits
  BY <1>0, <1>10 DEF SurfacesHaveOwner, Window, GuestExits, activityVars, renderVars
<1> QED BY <1>1, <1>2, <1>3, <1>5, <1>6, <1>8, <1>9, <1>10 DEF Next

-----------------------------------------------------------------------------
(* Who is there, and who was there with whom.                              *)

LEMMA InitializingStep ==
  TypeOK /\ InitializingRuns /\ [Next]_vars => InitializingRuns'
<1> SUFFICES ASSUME TypeOK, InitializingRuns, [Next]_vars PROVE InitializingRuns'
  OBVIOUS
<1> USE EngineAssumption DEF TypeOK, InitializingRuns, UiIsFree
<1>1. CASE UNCHANGED vars
  BY <1>1 DEF vars, activityVars
<1>2. ASSUME NEW a \in Activities, OnCreate(a) PROVE InitializingRuns'
  BY <1>2 DEF OnCreate
<1>3. ASSUME NEW a \in Activities, SurfaceCreated(a) PROVE InitializingRuns'
  BY <1>3 DEF SurfaceCreated
<1>4. ASSUME NEW a \in Activities, NativeInit(a) PROVE InitializingRuns'
  BY <1>4 DEF NativeInit
<1>5. ASSUME NEW a \in Activities, SurfaceChanged(a) PROVE InitializingRuns'
  BY <1>5 DEF SurfaceChanged, activityVars
<1>6. ASSUME NEW a \in Activities, SurfaceDestroyed(a) PROVE InitializingRuns'
  BY <1>6 DEF SurfaceDestroyed
<1>7. ASSUME NEW a \in Activities, OnDestroy(a) PROVE InitializingRuns'
  BY <1>7 DEF OnDestroy
<1>8. ASSUME NEW a \in Activities, Boot(a) PROVE InitializingRuns'
  BY <1>8, BootChangesLittle DEF activityVars
<1>9. CASE GuestExits
  BY <1>9 DEF GuestExits, activityVars
<1> QED BY <1>1, <1>2, <1>3, <1>4, <1>5, <1>6, <1>7, <1>8, <1>9 DEF Next

(* Nobody comes but by onCreate, which every activity that is there sees.  *)
LEMMA MeetingsStep ==
  TypeOK /\ MeetingsAreKept /\ [Next]_vars => MeetingsAreKept'
<1> SUFFICES ASSUME TypeOK, MeetingsAreKept, [Next]_vars PROVE MeetingsAreKept'
  OBVIOUS
<1> USE DEF TypeOK, MeetingsAreKept, Absent
<1>1. CASE UNCHANGED vars
  BY <1>1 DEF vars, activityVars
<1>2. ASSUME NEW a \in Activities, OnCreate(a) PROVE MeetingsAreKept'
  <2> SUFFICES ASSUME NEW b \in Activities, NEW c \in Activities, b # c,
                      ~(Absent(b))', ~(Absent(c))'
               PROVE  overlapped'[b]
    OBVIOUS
  <2>1. b # a => ~Absent(b)
    BY <1>2 DEF OnCreate
  <2>2. c # a => ~Absent(c)
    BY <1>2 DEF OnCreate
  <2>3. CASE b = a
    BY <1>2, <2>2, <2>3 DEF OnCreate
  <2>4. CASE b # a
    BY <1>2, <2>1, <2>4 DEF OnCreate
  <2> QED BY <2>3, <2>4
<1>3. ASSUME NEW a \in Activities, SurfaceCreated(a) PROVE MeetingsAreKept'
  BY <1>3 DEF SurfaceCreated
<1>4. ASSUME NEW a \in Activities, NativeInit(a) PROVE MeetingsAreKept'
  BY <1>4 DEF NativeInit
<1>5. ASSUME NEW a \in Activities, SurfaceChanged(a) PROVE MeetingsAreKept'
  BY <1>5 DEF SurfaceChanged, activityVars
<1>6. ASSUME NEW a \in Activities, SurfaceDestroyed(a) PROVE MeetingsAreKept'
  BY <1>6 DEF SurfaceDestroyed
<1>7. ASSUME NEW a \in Activities, OnDestroy(a) PROVE MeetingsAreKept'
  BY <1>7 DEF OnDestroy
<1>8. ASSUME NEW a \in Activities, Boot(a) PROVE MeetingsAreKept'
  BY <1>8, BootChangesLittle DEF activityVars
<1>9. CASE GuestExits
  BY <1>9 DEF GuestExits, activityVars
<1> QED BY <1>1, <1>2, <1>3, <1>4, <1>5, <1>6, <1>7, <1>8, <1>9 DEF Next

(* While an activity that never met another is there, nobody else is.      *)
LEMMA OthersAreAbsent ==
  ASSUME MeetingsAreKept, NEW a \in Activities, NEW b \in Activities,
         life[b] = "live", ~overlapped[b], life[a] = "live" \/ shown[a]
  PROVE  a = b
BY DEF MeetingsAreKept, Absent

-----------------------------------------------------------------------------
(* The engine.                                                             *)

LEMMA OffStep ==
  IInv /\ [Next]_vars => OffBefore'
<1> SUFFICES ASSUME IInv, [Next]_vars PROVE OffBefore'
  OBVIOUS
<1>0. TypeOK /\ OffBefore /\ MeetingsAreKept /\ InitializingRuns /\ SurfacesHaveOwner
  BY DEF IInv, SurfacesHaveOwner
<1> USE <1>0 DEF TypeOK, OffBefore, EngineIsOff
<1>1. CASE UNCHANGED vars
  BY <1>1 DEF vars, activityVars, engineVars, renderVars
<1>2. ASSUME NEW a \in Activities, OnCreate(a) PROVE OffBefore'
  <2>1. /\ life'[a] = "live" /\ UNCHANGED <<slot, isVmInitialized, window, engineVars>>
        /\ slot[a] # None /\ ~halBridge => halBridge' = ("hal" \notin failed')
    BY <1>2 DEF OnCreate, renderVars
  <2>2. ASSUME NEW b \in Activities, life'[b] = "live", ~overlapped'[b] PROVE b = a
    BY <1>2, <2>2 DEF OnCreate, Absent
  <2>3. ~overlapped'[a] => \A b \in Activities : life[b] # "live"
    BY <1>2 DEF OnCreate, Absent
  <2> QED BY <2>1, <2>2, <2>3 DEF engineVars
<1>3. ASSUME NEW a \in Activities, SurfaceCreated(a) PROVE OffBefore'
  <2>1. CASE isVmInitialized[a]
    <3>1. life[a] = "live" /\ UNCHANGED <<life, slot, isVmInitialized, overlapped, halBridge>>
      BY <1>3 DEF SurfaceCreated
    <3>2. ~ \E b \in Activities : life[b] = "live" /\ ~overlapped[b] /\ ~isVmInitialized[b]
      BY <2>1, <3>1, OthersAreAbsent
    <3> QED BY <3>1, <3>2
  <2>2. CASE ~isVmInitialized[a]
    BY <1>3, <2>2 DEF SurfaceCreated, renderVars
  <2> QED BY <2>1, <2>2
<1>4. ASSUME NEW a \in Activities, NativeInit(a) PROVE OffBefore'
  <2>1. life[a] = "live" /\ isVmInitialized'[a] /\ UNCHANGED <<life, overlapped>>
    BY <1>4, EngineAssumption DEF NativeInit, InitializingRuns
  <2>2. ~ \E b \in Activities : life'[b] = "live" /\ ~overlapped'[b] /\ ~isVmInitialized'[b]
    BY <2>1, OthersAreAbsent
  <2> QED BY <2>1, <2>2
<1>5. ASSUME NEW a \in Activities, SurfaceChanged(a) PROVE OffBefore'
  <2>1. /\ life[a] = "live" /\ isVmInitialized[a]
        /\ UNCHANGED <<life, isVmInitialized, overlapped>>
    BY <1>5, EngineAssumption DEF SurfaceChanged, UiIsFree, InitializingRuns, activityVars
  <2>2. ~ \E b \in Activities : life[b] = "live" /\ ~overlapped[b] /\ ~isVmInitialized[b]
    BY <2>1, OthersAreAbsent
  <2> QED BY <2>1, <2>2
<1>6. ASSUME NEW a \in Activities, SurfaceDestroyed(a) PROVE OffBefore'
  BY <1>6 DEF SurfaceDestroyed, Destroy, engineVars
<1>7. ASSUME NEW a \in Activities, OnDestroy(a) PROVE OffBefore'
  <2>1. /\ EngineIsOff' /\ ~halBridge' /\ life[a] = "live" /\ life'[a] # "live"
        /\ UNCHANGED <<overlapped, isVmInitialized>>
        /\ \A b \in Activities : b # a => life'[b] = life[b]
    BY <1>7 DEF OnDestroy, StopVm, Destroy
  <2>2. ~ \E b \in Activities : life'[b] = "live" /\ ~overlapped'[b]
    BY <2>1, OthersAreAbsent
  <2> QED BY <2>1, <2>2
<1>8. ASSUME NEW a \in Activities, Boot(a) PROVE OffBefore'
  BY <1>8, BootChangesLittle DEF activityVars, engineVars, renderVars
<1>9. CASE GuestExits
  BY <1>9 DEF GuestExits, activityVars, engineVars, renderVars
<1> QED BY <1>1, <1>2, <1>3, <1>4, <1>5, <1>6, <1>7, <1>8, <1>9 DEF Next

LEMMA AloneStep ==
  IInv /\ [Next]_vars => AloneHasEngine'
<1> SUFFICES ASSUME IInv, [Next]_vars,
                    NEW b \in Activities,
                    life'[b] = "live", ~overlapped'[b], isVmInitialized'[b]
             PROVE  /\ vfsInitialized' /\ config' = slot'[b]
                   /\ halBridge' = ("hal" \notin failed')
                    /\ inputOpen' = ("input" \notin failed')
                    /\ inputInitialized' = inputOpen'
                    /\ qemu' = (IF "qemu" \in failed' THEN None ELSE slot'[b])
  BY DEF AloneHasEngine
<1> DEFINE Goal == /\ vfsInitialized' /\ config' = slot'[b]
                   /\ halBridge' = ("hal" \notin failed')
                   /\ inputOpen' = ("input" \notin failed')
                   /\ inputInitialized' = inputOpen'
                   /\ qemu' = (IF "qemu" \in failed' THEN None ELSE slot'[b])
<1>0. TypeOK /\ AloneHasEngine /\ OffBefore /\ MeetingsAreKept /\ InitializingRuns
  BY DEF IInv, SurfacesHaveOwner
<1> USE <1>0
<1>10. ASSUME life[b] = "live", ~overlapped[b], isVmInitialized[b],
              UNCHANGED <<vfsInitialized, config, halBridge, inputOpen, inputInitialized, qemu,
                          slot, failed>>
       PROVE Goal
  BY <1>10 DEF AloneHasEngine
<1>1. CASE UNCHANGED vars
  BY <1>1, <1>10 DEF vars, activityVars, engineVars
<1>2. ASSUME NEW a \in Activities, OnCreate(a) PROVE Goal
  BY <1>2 DEF OnCreate, TypeOK, InitializingRuns, Absent
<1>3. ASSUME NEW a \in Activities, SurfaceCreated(a) PROVE Goal
  <2>1. life[b] = "live" /\ ~overlapped[b] /\ isVmInitialized[b] /\ life[a] = "live"
    BY <1>3 DEF SurfaceCreated
  <2>2. a = b
    BY <2>1, OthersAreAbsent
  <2> QED BY <1>3, <1>10, <2>1, <2>2 DEF SurfaceCreated
<1>4. ASSUME NEW a \in Activities, NativeInit(a) PROVE Goal
  <2>1. /\ life[b] = "live" /\ ~overlapped[b] /\ life[a] = "live" /\ ~isVmInitialized[a]
    BY <1>4, EngineAssumption DEF NativeInit, InitializingRuns
  <2>2. a = b
    BY <2>1, OthersAreAbsent
  <2>3. EngineIsOff /\ halBridge = ("hal" \notin failed)
    BY <1>4, <2>1, <2>2, EngineAssumption DEF OffBefore, NativeInit, InitializingRuns
  <2>4. /\ "hal" \in failed' <=> "hal" \in failed
        /\ "input" \in failed' <=> ~inputOpen'
        /\ "qemu" \in failed' <=> qemu' = None
    BY <1>4 DEF NativeInit
  <2>5. /\ vfsInitialized' /\ config' = slot'[b] /\ halBridge' = ("hal" \notin failed')
        /\ inputInitialized' = inputOpen' /\ qemu' \in {slot[b], None} /\ slot' = slot
    BY <1>4, <2>2, <2>3, <2>4
       DEF NativeInit, InitializeVfs, InitializeInput, StartQemu, EngineIsOff, TypeOK
  <2>6. inputOpen' \in BOOLEAN /\ slot[b] # None
    BY <1>4, <2>2, EngineAssumption DEF NativeInit, InitializeInput, InitializingRuns
  <2>7. inputOpen' = ("input" \notin failed')
    BY <2>4, <2>6
  <2>8. qemu' = (IF "qemu" \in failed' THEN None ELSE slot'[b])
    BY <2>4, <2>5, <2>6
  <2> QED BY <2>5, <2>7, <2>8
<1>5. ASSUME NEW a \in Activities, SurfaceChanged(a) PROVE Goal
  BY <1>5, <1>10 DEF SurfaceChanged, activityVars, engineVars
<1>6. ASSUME NEW a \in Activities, SurfaceDestroyed(a) PROVE Goal
  BY <1>6, <1>10 DEF SurfaceDestroyed, engineVars
<1>7. ASSUME NEW a \in Activities, OnDestroy(a) PROVE Goal
  <2>1. a # b /\ life[a] = "live" /\ life[b] = "live" /\ ~overlapped[b]
    BY <1>7 DEF OnDestroy, TypeOK
  <2> QED BY <2>1, OthersAreAbsent
<1>8. ASSUME NEW a \in Activities, Boot(a) PROVE Goal
  BY <1>8, <1>10, BootChangesLittle DEF activityVars, engineVars
<1>9. CASE GuestExits
  BY <1>9, <1>10 DEF GuestExits, activityVars, engineVars
<1> QED BY <1>1, <1>2, <1>3, <1>4, <1>5, <1>6, <1>7, <1>8, <1>9 DEF Next

(* A socket is forgotten only when the dispatcher is set up a second time, *)
(* which an activity that is alone does not do.                            *)
LEMMA LeftStep ==
  IInv /\ OffBefore' /\ GuestHasLauncher' /\ [Next]_vars => NothingIsLeft'
<1> SUFFICES ASSUME IInv, OffBefore', GuestHasLauncher', [Next]_vars,
                    orphans' > 0
             PROVE  \E a \in Activities : overlapped'[a]
  BY DEF NothingIsLeft, OffBefore, EngineIsOff, GuestHasLauncher
<1>0. TypeOK /\ NothingIsLeft /\ OffBefore /\ InitializingRuns
  BY DEF IInv, SurfacesHaveOwner
<1> USE <1>0 DEF TypeOK, NothingIsLeft
<1>1. CASE UNCHANGED vars
  BY <1>1 DEF vars, engineVars
<1>2. ASSUME NEW a \in Activities, OnCreate(a) PROVE \E b \in Activities : overlapped'[b]
  <2>1. \E b \in Activities : overlapped[b]
    BY <1>2 DEF OnCreate, engineVars
  <2>2. \A b \in Activities : overlapped[b] => overlapped'[b]
    BY <1>2 DEF OnCreate
  <2> QED BY <2>1, <2>2
<1>3. ASSUME NEW a \in Activities, SurfaceCreated(a) PROVE \E b \in Activities : overlapped'[b]
  BY <1>3 DEF SurfaceCreated
<1>4. ASSUME NEW a \in Activities, NativeInit(a) PROVE \E b \in Activities : overlapped'[b]
  <2>1. CASE overlapped[a]
    BY <1>4, <2>1 DEF NativeInit
  <2>2. CASE ~overlapped[a]
    <3>1. ~inputOpen
      BY <1>4, <2>2, EngineAssumption DEF NativeInit, InitializingRuns, OffBefore, EngineIsOff
    <3>2. orphans' = orphans /\ overlapped' = overlapped
      BY <1>4, <3>1 DEF NativeInit, InitializeInput
    <3> QED BY <3>2
  <2> QED BY <2>1, <2>2
<1>5. ASSUME NEW a \in Activities, SurfaceChanged(a) PROVE \E b \in Activities : overlapped'[b]
  BY <1>5 DEF SurfaceChanged, engineVars
<1>6. ASSUME NEW a \in Activities, SurfaceDestroyed(a) PROVE \E b \in Activities : overlapped'[b]
  BY <1>6 DEF SurfaceDestroyed, engineVars
<1>7. ASSUME NEW a \in Activities, OnDestroy(a) PROVE \E b \in Activities : overlapped'[b]
  BY <1>7 DEF OnDestroy, StopVm
<1>8. ASSUME NEW a \in Activities, Boot(a) PROVE \E b \in Activities : overlapped'[b]
  BY <1>8, BootChangesLittle DEF engineVars
<1>9. CASE GuestExits
  BY <1>9 DEF GuestExits, engineVars
<1> QED BY <1>1, <1>2, <1>3, <1>4, <1>5, <1>6, <1>7, <1>8, <1>9 DEF Next

-----------------------------------------------------------------------------
(* The launch.                                                             *)

(* What the boot coroutines of others do changes nothing of an activity's. *)
LEMMA OutlivedStays ==
  ASSUME TypeOK, [Next]_vars, NEW b \in Activities, Outlived(b)
  PROVE  (Outlived(b))'
<1> USE DEF TypeOK, Outlived
<1>1. CASE UNCHANGED vars
  BY <1>1 DEF vars, activityVars, bootVars
<1>2. ASSUME NEW a \in Activities, OnCreate(a) PROVE (Outlived(b))'
  BY <1>2 DEF OnCreate
<1>3. ASSUME UNCHANGED <<life, boot>> PROVE (Outlived(b))'
  BY <1>3
<1>4. ASSUME NEW a \in Activities,
             SurfaceCreated(a) \/ NativeInit(a) \/ SurfaceChanged(a) \/ SurfaceDestroyed(a)
      PROVE  (Outlived(b))'
  BY <1>3, <1>4
     DEF SurfaceCreated, NativeInit, SurfaceChanged, SurfaceDestroyed, activityVars, bootVars
<1>5. ASSUME NEW a \in Activities, OnDestroy(a) PROVE (Outlived(b))'
  BY <1>5 DEF OnDestroy
<1>6. ASSUME NEW a \in Activities, Boot(a) PROVE (Outlived(b))'
  BY <1>6 DEF Boot, BootProceeds, BootTimesOut, LaunchChecks, LaunchFinds, LaunchReads,
     LaunchForks, BootReports, BootStep, activityVars
<1>7. CASE GuestExits
  BY <1>3, <1>7 DEF GuestExits, activityVars
<1> QED BY <1>1, <1>2, <1>4, <1>5, <1>6, <1>7 DEF Next

(* The engine's stop ends the guest of every launch that had come to its   *)
(* end; what runs after it was launched later.                             *)
LEMMA GuestStep ==
  IInv /\ [Next]_vars => GuestHasLauncher'
<1> SUFFICES ASSUME IInv, [Next]_vars, guest'
             PROVE  \E a \in Activities : \/ (Outlived(a))'
                                          \/ life'[a] = "live" /\ boot'[a] \in {"forked", "launched"}
  BY DEF GuestHasLauncher
<1> DEFINE Goal == \E a \in Activities : \/ (Outlived(a))'
                                         \/ life'[a] = "live" /\ boot'[a] \in {"forked", "launched"}
<1>0. TypeOK /\ GuestHasLauncher /\ ReadsOwn
  BY DEF IInv, SurfacesHaveOwner
<1>1. ASSUME UNCHANGED <<life, bootVars>> PROVE Goal
  BY <1>0, <1>1 DEF GuestHasLauncher, bootVars, Outlived
<1>2. ASSUME NEW a \in Activities, OnCreate(a) PROVE Goal
  <2>1. PICK b \in Activities :
          Outlived(b) \/ (life[b] = "live" /\ boot[b] \in {"forked", "launched"})
    BY <1>0, <1>2 DEF GuestHasLauncher, OnCreate
  <2>2. b # a /\ life'[b] = life[b] /\ boot'[b] = boot[b]
    BY <1>0, <1>2, <2>1 DEF OnCreate, Outlived, TypeOK
  <2> QED BY <2>1, <2>2 DEF Outlived
<1>3. ASSUME NEW a \in Activities,
             SurfaceCreated(a) \/ NativeInit(a) \/ SurfaceChanged(a) \/ SurfaceDestroyed(a)
      PROVE  Goal
  BY <1>1, <1>3
     DEF SurfaceCreated, NativeInit, SurfaceChanged, SurfaceDestroyed, activityVars
<1>4. ASSUME NEW a \in Activities, OnDestroy(a) PROVE Goal
  BY <1>4 DEF OnDestroy
<1>5. ASSUME NEW a \in Activities, Boot(a) PROVE Goal
  <2>1. life' = life /\ life[a] \in {"new", "live", "destroyed"}
    BY <1>0, <1>5, BootChangesLittle DEF activityVars, TypeOK
  <2>2. CASE boot[a] = "forking" /\ boot'[a] = "forked"
    BY <1>0, <2>1, <2>2 DEF ReadsOwn, Own, Outlived
  <2>3. CASE ~(boot[a] = "forking" /\ boot'[a] = "forked")
    <3>1. guest' = guest
      BY <1>0, <1>5, <2>3 DEF Boot, BootProceeds, BootTimesOut, LaunchChecks, LaunchFinds,
         LaunchReads, LaunchForks, BootReports, BootStep, TypeOK
    <3>2. PICK b \in Activities :
            Outlived(b) \/ (life[b] = "live" /\ boot[b] \in {"forked", "launched"})
      BY <1>0, <3>1 DEF GuestHasLauncher
    <3>3. CASE Outlived(b)
      BY <1>0, <3>3, OutlivedStays
    <3>4. CASE life[b] = "live" /\ boot[b] \in {"forked", "launched"}
      <4>1. boot'[b] \in {"forked", "launched"}
        BY <1>0, <1>5, <3>4 DEF Boot, BootProceeds, BootTimesOut, LaunchChecks, LaunchFinds,
           LaunchReads, LaunchForks, BootReports, BootStep, TypeOK
      <4> QED BY <2>1, <3>4, <4>1
    <3> QED BY <3>2, <3>3, <3>4
  <2> QED BY <2>2, <2>3
<1>6. CASE GuestExits
  BY <1>6 DEF GuestExits
<1>7. CASE UNCHANGED vars
  BY <1>1, <1>7 DEF vars, activityVars
<1> QED BY <1>2, <1>3, <1>4, <1>5, <1>6, <1>7 DEF Next

(* A second component may be set to what the configuration is.             *)
LEMMA ReadSets ==
  ASSUME NEW S, NEW f \in [Activities -> S \X S], NEW a \in Activities, NEW c \in S
  PROVE  /\ [f EXCEPT ![a][1] = c][a][1] = c
         /\ [f EXCEPT ![a][2] = c][a] = <<f[a][1], c>>
         /\ [f EXCEPT ![a] = <<c, c>>][a] = <<c, c>>
         /\ \A b \in Activities : b # a => /\ [f EXCEPT ![a][1] = c][b] = f[b]
                                           /\ [f EXCEPT ![a][2] = c][b] = f[b]
                                           /\ [f EXCEPT ![a] = <<c, c>>][b] = f[b]
OBVIOUS

(* A guest that a launch of an activity that is alone finds was launched   *)
(* by one that was destroyed meanwhile.                                    *)
LEMMA FoundIsLate ==
  ASSUME IInv, NEW a \in Activities, LaunchFinds(a), life[a] = "live", ~overlapped[a]
  PROVE  \E b \in Activities : Outlived(b)
<1>1. PICK b \in Activities :
        Outlived(b) \/ (life[b] = "live" /\ boot[b] \in {"forked", "launched"})
  BY DEF IInv, GuestHasLauncher, LaunchFinds
<1>2. CASE life[b] = "live" /\ boot[b] \in {"forked", "launched"}
  <2>1. a = b
    BY <1>2, OthersAreAbsent DEF IInv
  <2> QED BY <1>2, <2>1 DEF LaunchFinds, BootStep
<1> QED BY <1>1, <1>2

LEMMA ReadsStep ==
  IInv /\ [Next]_vars => ReadsOwn'
<1> SUFFICES ASSUME IInv, [Next]_vars, NEW b \in Activities PROVE (Own(b))'
  BY DEF ReadsOwn
<1>0. TypeOK /\ AloneHasEngine /\ InitializingRuns /\ Own(b)
  BY DEF IInv, SurfacesHaveOwner, ReadsOwn
<1>10. /\ boot \in [Activities -> BootStates]
       /\ life \in [Activities -> {"new", "live", "destroyed"}]
       /\ isVmInitialized \in [Activities -> BOOLEAN]
       /\ overlapped \in [Activities -> BOOLEAN]
  BY <1>0 DEF TypeOK
<1> DEFINE Late == \E c \in Activities : Outlived(c)
<1>11. Late => Late'
  BY <1>0, OutlivedStays
<1> HIDE DEF Late
<1>12. ASSUME UNCHANGED <<life, boot, read, slot>>, isVmInitialized[b] => isVmInitialized'[b],
              overlapped[b] => overlapped'[b]
       PROVE  (Own(b))'
  BY <1>0, <1>10, <1>11, <1>12 DEF Own, Late
<1>1. CASE UNCHANGED vars
  BY <1>1, <1>12 DEF vars, activityVars, bootVars
<1>2. ASSUME NEW a \in Activities, OnCreate(a) PROVE (Own(b))'
  <2>1. /\ UNCHANGED <<read, slot, isVmInitialized>>
        /\ overlapped[b] => overlapped'[b]
        /\ boot'[a] \in {"none", "waiting"} /\ life[a] = "new" /\ life'[a] = "live"
        /\ b # a => boot'[b] = boot[b] /\ life'[b] = life[b]
    BY <1>0, <1>10, <1>2 DEF OnCreate, IInv, ReadsOwn, Own
  <2>2. CASE b = a
    BY <1>0, <2>1, <2>2 DEF Own, InLaunch
  <2>3. CASE b # a
    BY <1>0, <1>11, <2>1, <2>3 DEF Own, Late
  <2> QED BY <2>2, <2>3
<1>3. ASSUME NEW a \in Activities, SurfaceCreated(a) PROVE (Own(b))'
  BY <1>3, <1>12 DEF SurfaceCreated, bootVars
<1>4. ASSUME NEW a \in Activities, NativeInit(a) PROVE (Own(b))'
  BY <1>10, <1>4, <1>12 DEF NativeInit, bootVars
<1>5. ASSUME NEW a \in Activities, SurfaceChanged(a) PROVE (Own(b))'
  BY <1>5, <1>12 DEF SurfaceChanged, activityVars, bootVars
<1>6. ASSUME NEW a \in Activities, SurfaceDestroyed(a) PROVE (Own(b))'
  BY <1>6, <1>12 DEF SurfaceDestroyed, bootVars
<1>7. ASSUME NEW a \in Activities, OnDestroy(a) PROVE (Own(b))'
  <2>1. /\ UNCHANGED <<read, slot, isVmInitialized, overlapped>>
        /\ life[a] = "live" /\ life'[a] = "destroyed"
        /\ boot'[a] = IF boot[a] \in InLaunch THEN boot[a] ELSE "cancelled"
        /\ b # a => boot'[b] = boot[b] /\ life'[b] = life[b]
    BY <1>10, <1>7 DEF OnDestroy
  <2>2. CASE b = a
    BY <1>0, <2>1, <2>2 DEF Own, InLaunch
  <2>3. CASE b # a
    BY <1>0, <1>11, <2>1, <2>3 DEF Own, Late
  <2> QED BY <2>2, <2>3
<1>8. ASSUME NEW a \in Activities, Boot(a) PROVE (Own(b))'
  <2> DEFINE Configs == Slots \cup {None, Torn}
  <2>1. read \in [Activities -> Configs \X Configs] /\ config \in Configs /\ None \in Configs
    BY <1>0 DEF TypeOK
  <2>2. UNCHANGED <<life, overlapped, isVmInitialized, slot>>
    BY <1>8, BootChangesLittle DEF activityVars
  <2>3. (life[a] = "live" /\ ~overlapped[a] /\ isVmInitialized[a]) => config = slot[a]
    BY <1>0 DEF AloneHasEngine
  <2> HIDE DEF Configs
  <2>4. b # a => boot'[b] = boot[b] /\ read'[b] = read[b]
    <3>1. /\ \E to \in BootStates : boot' = [boot EXCEPT ![a] = to]
          /\ read' \in {read, [read EXCEPT ![a][1] = config], [read EXCEPT ![a][2] = config],
                       [read EXCEPT ![a] = <<None, None>>]}
      BY <1>8 DEF Boot, BootProceeds, BootTimesOut, LaunchChecks, LaunchFinds, LaunchReads,
         LaunchForks, BootReports, BootStep, BootStates
    <3> QED BY <1>10, <2>1, <3>1, ReadSets
  <2>5. CASE b # a
    BY <1>0, <1>11, <2>2, <2>4, <2>5 DEF Own, Late
  <2> SUFFICES ASSUME b = a PROVE (Own(a))'
    BY <2>5
  <2>6. ASSUME BootProceeds(a) \/ BootTimesOut(a) \/ LaunchChecks(a) PROVE (Own(a))'
    BY <1>0, <1>10, <2>2, <2>6
       DEF Own, BootProceeds, BootTimesOut, LaunchChecks, BootStep, InLaunch
  <2>7. ASSUME LaunchFinds(a) PROVE (Own(a))'
    <3>1. boot[a] = "reading" /\ boot'[a] = "found" /\ read' = read
      BY <1>10, <2>7 DEF LaunchFinds, BootStep
    <3>2. (life[a] = "live" /\ ~overlapped[a]) => Late'
      BY <1>11, <2>7, FoundIsLate DEF Late
    <3> QED BY <1>0, <2>2, <3>1, <3>2 DEF Own, InLaunch, Late
  <2>8. ASSUME LaunchReads(a) PROVE (Own(a))'
    <3>1. boot[a] = "reading" /\ boot'[a] = "forking" /\ read' = [read EXCEPT ![a][1] = config]
      BY <1>10, <2>8 DEF LaunchReads, BootStep
    <3>2. read'[a][1] = config
      BY <2>1, <3>1, ReadSets
    <3> QED BY <1>0, <2>2, <2>3, <3>1, <3>2 DEF Own, InLaunch
  <2>9. ASSUME LaunchForks(a) PROVE (Own(a))'
    <3>1. boot[a] = "forking" /\ boot'[a] \in {"forked", "refused"}
      BY <1>10, <2>9 DEF LaunchForks, BootStep
    <3>2. boot'[a] = "forked" => read'[a] = <<read[a][1], config>>
      <4>1. boot'[a] = "forked" => read' = [read EXCEPT ![a][2] = config]
        BY <1>10, <2>9 DEF LaunchForks, BootStep
      <4> QED BY <2>1, <4>1, ReadSets
    <3> QED BY <1>0, <2>2, <2>3, <3>1, <3>2 DEF Own, InLaunch
  <2>10. ASSUME BootReports(a) PROVE (Own(a))'
    <3>1. CASE life[a] = "live"
      <4>1. /\ read' = read
            /\ \/ boot[a] \in {"forked", "found"} /\ boot'[a] = "launched"
               \/ boot'[a] = "error"
        BY <1>10, <2>10, <3>1 DEF BootReports, BootStep
      <4> QED BY <1>0, <1>11, <2>2, <3>1, <4>1 DEF Own, InLaunch, Late
    <3>2. CASE life[a] # "live"
      <4>1. boot[a] # "none" /\ boot'[a] \in {"outlived", "cancelled"}
        BY <1>10, <2>10, <3>2 DEF BootReports, BootStep
      <4> QED BY <1>0, <2>2, <3>2, <4>1 DEF Own
    <3> QED BY <3>1, <3>2
  <2> QED BY <1>8, <2>6, <2>7, <2>8, <2>9, <2>10 DEF Boot
<1>9. CASE GuestExits
  BY <1>9, <1>12 DEF GuestExits, activityVars
<1> QED BY <1>1, <1>2, <1>3, <1>4, <1>5, <1>6, <1>7, <1>8, <1>9 DEF Next

-----------------------------------------------------------------------------
LEMMA InitHolds == Init => IInv
<1> SUFFICES ASSUME Init PROVE IInv
  OBVIOUS
<1>1. TypeOK
  <2>1. /\ shown \in [Activities -> BOOLEAN] /\ isVmInitialized \in [Activities -> BOOLEAN]
        /\ overlapped \in [Activities -> BOOLEAN]
        /\ failed \subseteq {"hal", "input", "qemu"}
        /\ boot \in [Activities -> BootStates]
    BY DEF Init, BootStates
  <2>2. read \in [Activities -> (Slots \cup {None, Torn}) \X (Slots \cup {None, Torn})]
    BY DEF Init
  <2>3. surfaces \in [Activities -> 0..MaxSurfaces]
    BY EngineAssumption DEF Init
  <2> QED BY <2>1, <2>2, <2>3 DEF Init, TypeOK
<1>2. SurfacesHaveOwner /\ InitializingRuns /\ MeetingsAreKept
  BY <1>1 DEF Init, SurfacesHaveOwner, InitializingRuns, MeetingsAreKept, Absent
<1>3. OffBefore /\ AloneHasEngine /\ NothingIsLeft /\ GuestHasLauncher /\ ReadsOwn
  BY DEF Init, OffBefore, EngineIsOff, AloneHasEngine, NothingIsLeft, GuestHasLauncher,
     ReadsOwn, Own, InLaunch
<1> QED BY <1>2, <1>3 DEF IInv

(* The strengthened invariant: what activities that are alone, and those   *)
(* that are gone, find and leave in the engine (IInv).                     *)
THEOREM EngineInvariant == Spec => []IInv
<1>1. IInv /\ [Next]_vars => IInv'
  <2> SUFFICES ASSUME IInv, [Next]_vars PROVE IInv'
    OBVIOUS
  <2>1. SurfacesHaveOwner' /\ InitializingRuns' /\ MeetingsAreKept' /\ GuestHasLauncher'
    BY OwnerStep, InitializingStep, MeetingsStep, GuestStep DEF IInv, SurfacesHaveOwner
  <2>2. OffBefore' /\ AloneHasEngine' /\ ReadsOwn'
    BY OffStep, AloneStep, ReadsStep
  <2> QED BY <2>1, <2>2, LeftStep DEF IInv
<1> QED BY InitHolds, <1>1, PTL DEF Spec

(* The renderer holds on to no window whose surface is gone, and no other  *)
(* window keeps an EGL surface but those whose initialization broke off:   *)
(* EglRenderer under the surface callbacks of any number of activities.    *)
THEOREM SurfacesCorrect == Spec => []SurfacesHaveOwner
<1>1. IInv => SurfacesHaveOwner
  BY DEF IInv
<1> QED BY <1>1, EngineInvariant, PTL

(* An activity that never met another has an engine set up for its slot.   *)
THEOREM AloneCorrect == Spec => []AloneHasEngine
<1>1. IInv => AloneHasEngine
  BY DEF IInv
<1> QED BY <1>1, EngineInvariant, PTL

(* After the last onDestroy nothing of the engine runs.                    *)
THEOREM NothingLeftCorrect == Spec => []NothingIsLeft
<1>1. IInv => NothingIsLeft
  BY DEF IInv
<1> QED BY <1>1, EngineInvariant, PTL

(* A launch that is reported used its own slot's configuration throughout, *)
(* though it reads it on another thread, without a lock, or found a guest  *)
(* whose launch outlived its activity: launch() of guest_bootstrapper.cpp. *)
THEOREM LaunchCorrect == Spec => []ReportedLaunchIsOwn
<1>1. IInv => ReportedLaunchIsOwn
  <2> SUFFICES ASSUME IInv, NEW a \in Activities, boot[a] = "launched", ~overlapped[a]
               PROVE  \/ read[a] = <<slot[a], slot[a]>>
                      \/ read[a] = <<None, None>> /\ \E b \in Activities : Outlived(b)
    BY DEF ReportedLaunchIsOwn
  <2> QED BY DEF IInv, ReadsOwn, Own
<1> QED BY <1>1, EngineInvariant, PTL
=============================================================================
