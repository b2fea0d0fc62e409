---------------------------- MODULE TouchBridge ----------------------------
(***************************************************************************)
(* The input bridge: the touch listener and the navigation buttons of      *)
(* VmDisplayActivity, InputDispatcher (input/input_dispatcher.cpp) and the *)
(* evdev state a guest builds from what it receives.                       *)
(*                                                                         *)
(* Everything on the host side runs on the UI thread.  An input event is a *)
(* datagram of its own: the thread writes them one by one, blocks while    *)
(* the guest's socket is full, and loses what it writes while no guest has *)
(* bound the socket.  A guest may come and go between any two datagrams.   *)
(*                                                                         *)
(* A finger is its pointer id.  Positions, size and pressure are written   *)
(* along with the tracking id and left out here, and so are the times.     *)
(***************************************************************************)
EXTENDS Integers, Sequences, FiniteSets

CONSTANTS MaxFingers,  (* the fingers the screen tells apart              *)
          NavKeys,     (* the navigation buttons                          *)
          MaxPosted,   (* bound: key-ups posted and not yet run, per key  *)
          Capacity     (* the datagrams the guest's socket holds          *)

ASSUME TouchBridgeAssumption ==
  /\ MaxFingers \in Nat \ {0} /\ MaxPosted \in Nat \ {0} /\ Capacity \in Nat \ {0}
  /\ "BTN_TOUCH" \notin NavKeys

Fingers == 0..(MaxFingers - 1)
Slots   == 0..(MaxFingers - 1)
Free    == -1  (* the tracking id of an unused slot *)

Actions == {"down", "up", "move", "cancel", "pointer_down", "pointer_up"}

VARIABLES
  initialized, (* InputDispatcher::initialized_                             *)
  opened,      (* inputFd_ is a socket                                      *)
  fingers,     (* the fingers on the view                                   *)
  posted,      (* for each key, the key-ups posted to the UI thread         *)
  out,         (* the events of the call in progress still to be written    *)
  queue,       (* the datagrams in the guest's socket                       *)
  bound,       (* a guest has bound its socket                              *)
  slot,        (* the slot the guest's device has selected                  *)
  tracking,    (* the tracking id of each slot                              *)
  pressed,     (* the keys that are down in the guest, BTN_TOUCH among them *)
  cut,         (* an event was lost since the guest bound its socket        *)
  last,        (* the last touch event: its action and its pointers         *)
  seen,        (* the guest was there for a whole touch event               *)
  most         (* the most pointers of a touch event the guest can know of  *)

hostVars    == <<initialized, opened, fingers, posted>>
guestVars   == <<bound, slot, tracking, pressed>>
historyVars == <<last, seen, most>>
vars == <<hostVars, out, queue, guestVars, cut, historyVars>>

BtnTouch == "BTN_TOUCH"
Keys == NavKeys \cup {BtnTouch}

Event(type, value) == [type |-> type, value |-> value]
KeyEvent(key, isDown) == [type |-> IF isDown THEN "press" ELSE "release", key |-> key]
Sync == [type |-> "sync"]

Events ==
  [type : {"slot"}, value : Slots] \cup [type : {"id"}, value : Fingers \cup {Free}]
    \cup [type : {"press", "release"}, key : Keys] \cup {Sync}

-----------------------------------------------------------------------------
(* What the dispatcher writes.                                             *)

(* The pointers of a MotionEvent, in the order of their ids.               *)
Pointers(S) ==
  [i \in 1..Cardinality(S) |->
     CHOOSE f \in S : Cardinality({g \in S : g < f}) = i - 1]

(* The keys a touch event of a kind presses or releases.                   *)
Button(action) ==
  CASE action \in {"down", "pointer_down"} -> <<KeyEvent(BtnTouch, TRUE)>>
    [] action \in {"up", "cancel"}         -> <<KeyEvent(BtnTouch, FALSE)>>
    [] OTHER                               -> <<>>

(* Mutation: a cancelled gesture is written like a move.                   *)
FrameIgnoresCancel(action, ids) ==
  [k \in 1..(2 * Len(ids)) |->
     IF k % 2 = 1 THEN Event("slot", k \div 2)
     ELSE Event("id", IF action = "up" THEN Free ELSE ids[k \div 2])]
  \o Button(action) \o <<Sync>>

(* Mutation: every pointer goes to the first slot.                         *)
FrameInOneSlot(action, ids) ==
  [k \in 1..(2 * Len(ids)) |->
     IF k % 2 = 1 THEN Event("slot", 0)
     ELSE Event("id", IF action \in {"up", "cancel"} THEN Free ELSE ids[k \div 2])]
  \o Button(action) \o <<Sync>>

(* sendTouchEvent: the slot of a pointer is its index in the event.        *)
Frame(action, ids) ==
  [k \in 1..(2 * Len(ids)) |->
     IF k % 2 = 1 THEN Event("slot", k \div 2)
     ELSE Event("id", IF action \in {"up", "cancel"} THEN Free ELSE ids[k \div 2])]
  \o Button(action) \o <<Sync>>

(* sendKeyEvent *)
KeyFrame(key, isDown) == <<KeyEvent(key, isDown), Sync>>

-----------------------------------------------------------------------------

NoTouch == [action |-> "none", ids |-> <<>>]
NoSlots == [s \in Slots |-> Free]

UiIsFree == out = <<>>

Larger(m, n) == IF m > n THEN m ELSE n

Init ==
  /\ initialized = FALSE /\ opened = FALSE
  /\ fingers = {}
  /\ posted = [k \in NavKeys |-> 0]
  /\ out = <<>> /\ queue = <<>>
  /\ bound = FALSE
  /\ slot = 0 /\ tracking = NoSlots /\ pressed = {}
  /\ cut = FALSE /\ last = NoTouch /\ seen = FALSE /\ most = 0

(* A call of the dispatcher begins, or returns early.                      *)
Send(frame) ==
  IF initialized THEN out' = frame /\ UNCHANGED cut
  ELSE cut' = TRUE /\ UNCHANGED out

SendTouch(action, S) ==
  /\ UiIsFree
  /\ Send(Frame(action, Pointers(S)))
  /\ last' = [action |-> action, ids |-> Pointers(S)]
  /\ seen' = (seen \/ bound)
  /\ most' = Larger(most, Cardinality(S))
  /\ UNCHANGED <<initialized, opened, posted, queue, guestVars>>

(* A finger is put down: it gets the lowest id that is free.               *)
FingerDown ==
  \E f \in Fingers \ fingers :
    /\ \A g \in Fingers \ fingers : f <= g
    /\ fingers' = fingers \cup {f}
    /\ SendTouch(IF fingers = {} THEN "down" ELSE "pointer_down", fingers')

(* A finger is lifted: the event still lists it.                           *)
FingerUp ==
  \E f \in fingers :
    /\ fingers' = fingers \ {f}
    /\ SendTouch(IF fingers = {f} THEN "up" ELSE "pointer_up", fingers)

FingersMove ==
  /\ fingers # {}
  /\ SendTouch("move", fingers)
  /\ UNCHANGED fingers

(* The window system takes the gesture away from the view.                 *)
GestureCancel ==
  /\ fingers # {}
  /\ fingers' = {}
  /\ SendTouch("cancel", fingers)

(* Mutation: the key-up is not posted.                                     *)
PressKeyOnly(k) ==
  /\ UiIsFree
  /\ posted[k] < MaxPosted
  /\ Send(KeyFrame(k, TRUE))
  /\ UNCHANGED <<initialized, opened, fingers, posted, queue, guestVars, historyVars>>

(* A click on a navigation button posts its key-up for 50 ms later.        *)
PressKey(k) ==
  /\ UiIsFree
  /\ posted[k] < MaxPosted
  /\ Send(KeyFrame(k, TRUE))
  /\ posted' = [posted EXCEPT ![k] = @ + 1]
  /\ UNCHANGED <<initialized, opened, fingers, queue, guestVars, historyVars>>

ReleaseKey(k) ==
  /\ UiIsFree
  /\ posted[k] > 0
  /\ Send(KeyFrame(k, FALSE))
  /\ posted' = [posted EXCEPT ![k] = @ - 1]
  /\ UNCHANGED <<initialized, opened, fingers, queue, guestVars, historyVars>>

(* nativeInit: a socket that cannot be made leaves initialized_ as it is.  *)
Initialize ==
  /\ UiIsFree
  /\ \/ opened' = TRUE /\ initialized' = TRUE
     \/ opened' = FALSE /\ UNCHANGED initialized
  /\ UNCHANGED <<fingers, posted, out, queue, guestVars, cut, historyVars>>

(* nativeStopVm *)
Shutdown ==
  /\ UiIsFree
  /\ opened' = FALSE /\ initialized' = FALSE
  /\ UNCHANGED <<fingers, posted, out, queue, guestVars, cut, historyVars>>

(* writeInputEvent: the event is lost, delivered, or waits for room.       *)
WriteEvent ==
  /\ out # <<>>
  /\ out' = Tail(out)
  /\ IF opened /\ bound
     THEN /\ Len(queue) < Capacity
          /\ queue' = Append(queue, Head(out))
          /\ UNCHANGED cut
     ELSE cut' = TRUE /\ UNCHANGED queue
  /\ UNCHANGED <<hostVars, guestVars, historyVars>>

-----------------------------------------------------------------------------
(* The guest.                                                              *)

(* The input device of a guest that has just started is idle.              *)
GuestBinds ==
  /\ ~bound
  /\ bound' = TRUE
  /\ slot' = 0 /\ tracking' = NoSlots /\ pressed' = {}
  /\ cut' = FALSE
  /\ seen' = FALSE /\ most' = Len(last.ids)
  /\ UNCHANGED <<hostVars, out, queue, last>>

GuestReads ==
  /\ bound /\ queue # <<>>
  /\ queue' = Tail(queue)
  /\ LET e == Head(queue)
     IN /\ slot' = IF e.type = "slot" THEN e.value ELSE slot
        /\ tracking' = IF e.type = "id" THEN [tracking EXCEPT ![slot] = e.value] ELSE tracking
        /\ pressed' = CASE e.type = "press"   -> pressed \cup {e.key}
                        [] e.type = "release" -> pressed \ {e.key}
                        [] OTHER              -> pressed
  /\ UNCHANGED <<hostVars, out, bound, cut, historyVars>>

GuestGoes ==
  /\ bound
  /\ bound' = FALSE /\ queue' = <<>>
  /\ slot' = 0 /\ tracking' = NoSlots /\ pressed' = {}
  /\ UNCHANGED <<hostVars, out, cut, historyVars>>

-----------------------------------------------------------------------------

Next ==
  \/ FingerDown \/ FingerUp \/ FingersMove \/ GestureCancel
  \/ \E k \in NavKeys : PressKey(k) \/ ReleaseKey(k)
  \/ Initialize \/ Shutdown \/ WriteEvent
  \/ GuestBinds \/ GuestReads \/ GuestGoes

Spec == Init /\ [][Next]_vars
-----------------------------------------------------------------------------
(* Properties.                                                             *)

TouchEvents == [action : Actions, ids : Seq(Fingers)] \cup {NoTouch}

(* Every variable has its type, and the socket's buffer its bound.         *)
TypeOK ==
  /\ initialized \in BOOLEAN /\ opened \in BOOLEAN
  /\ fingers \subseteq Fingers
  /\ posted \in [NavKeys -> 0..MaxPosted]
  /\ out \in Seq(Events) /\ queue \in Seq(Events) /\ Len(queue) <= Capacity
  /\ bound \in BOOLEAN
  /\ slot \in Slots /\ tracking \in [Slots -> Fingers \cup {Free}]
  /\ pressed \subseteq Keys
  /\ cut \in BOOLEAN /\ last \in TouchEvents
  /\ seen \in BOOLEAN /\ most \in 0..MaxFingers

(* The guest has read everything, and lost nothing since it came.          *)
Served == bound /\ ~cut /\ out = <<>> /\ queue = <<>>

(* A gesture leaves nothing behind that a single finger could have set:    *)
(* when the last finger is gone, by a lift or a cancel, the first slot is  *)
(* free and BTN_TOUCH is up, also if the guest came in the middle of an    *)
(* event of the gesture or an earlier gesture left other slots in use.     *)
LastLiftReleases ==
  Served /\ fingers = {} => tracking[0] = Free /\ BtnTouch \notin pressed

(* The slots in use, the contacts of protocol type B.                      *)
Contacts == {s \in Slots : tracking[s] # Free}

(* "Multi-touch protocol Type B": the guest sees one contact for each      *)
(* finger on the view and no other, whatever was lifted, cancelled or lost *)
(* before, whenever an event puts as many fingers down, or moves as many,  *)
(* as any event the guest can know of.  With fewer it may see more: a      *)
(* finger that is lifted before the last one keeps its slot, and those     *)
(* after it get a second one.                                              *)
ContactsAreFingers ==
  /\ Served /\ seen
  /\ last.action \in {"down", "pointer_down", "move"} /\ Len(last.ids) = most
  =>
  /\ {tracking[s] : s \in Contacts} = fingers
  /\ \A s, t \in Contacts : tracking[s] = tracking[t] => s = t

(* A navigation key is up again once its posted key-ups have run, however  *)
(* clicks, key-ups and gestures follow each other.                         *)
KeysComeUp == Served => \A k \in NavKeys : posted[k] = 0 => k \notin pressed
=============================================================================
