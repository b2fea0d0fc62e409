----------------------------- MODULE GsiImport -----------------------------
(***************************************************************************)
(* Importing a system image: the buttons of MainActivity, the life of the  *)
(* bound GsiImportService, and importGsi as a coroutine on Dispatchers.IO. *)
(*                                                                         *)
(* All imports share two file names in the cache directory.  A name leads  *)
(* to a file that keeps its identity: who has it open goes on reading or   *)
(* writing the same file when the name is renamed, deleted or truncated by *)
(* somebody else.  A file is cut into Parts parts; each is the data of the *)
(* image of some import, or a hole.                                        *)
(*                                                                         *)
(* A coroutine is cancelled only where it switches to the main thread;     *)
(* what it does in between, it does to the end.                            *)
(***************************************************************************)
EXTENDS Integers, FiniteSets

CONSTANTS Imports,   (* the images the user picks, and their imports        *)
          Sparse,    (* those that are in the sparse format                 *)
          NumSlots,  (* the slots on the screen, "slot_1" first             *)
          Parts,     (* the parts an image is copied in                     *)
          MaxUnmoved,(* bound: the moves and deletions that fail            *)
          None

ASSUME GsiImportAssumption ==
  /\ Sparse \subseteq Imports
  /\ NumSlots \in Nat \ {0}
  /\ Parts \in Nat \ {0} /\ MaxUnmoved \in Nat
  /\ None \notin Imports \cup (Imports \X {"temp", "raw"}) \cup 0..NumSlots

Slots == 1..NumSlots
Files == Imports \X {"temp", "raw"}  (* a file, by who creates it and where *)
Hole  == None
Picking == 0
Empty == [p \in 1..Parts |-> Hole]

VARIABLES
  shown,     (* there is a MainActivity                                     *)
  connected, (* its gsiImportService is not null                            *)
  enabled,   (* its btnSelectGsi                                            *)
  target,    (* its selectedTargetSlotId                                    *)
  picker,    (* what is on top of it: the picker, or the dialog of a slot   *)
  lost,      (* it was given an image while it had no service               *)
  owned,     (* the imports whose callbacks reach it                        *)
  service,   (* GsiImportService: down, up, or up and no longer bound       *)
  pc,        (* where importGsi stands                                      *)
  slot,      (* its slot                                                    *)
  cancelled, (* its scope is cancelled                                      *)
  at,        (* the part it copies or converts next                         *)
  in,        (* the file it reads, while it converts                        *)
  file,      (* the file it writes                                          *)
  failed,    (* unsparse returned false                                     *)
  answer,    (* what onComplete was told                                    *)
  data,      (* the parts of every file                                     *)
  temp,      (* temp_imported_gsi.img                                       *)
  raw,       (* system_raw_temp.img                                         *)
  kept,      (* system.raw.img of every slot                                *)
  filled,    (* the slots with extracted files                              *)
  unmoved,   (* <<i, "temp">>: import i could not move or delete the copy,  *)
             (* <<i, "raw">>: it could not move the raw image; both ignored *)
  alone,     (* the imports during which no other one ran                   *)
  broken     (* an import was left in the middle, or an exception ended it  *)

uiVars      == <<shown, connected, enabled, target, picker, lost, owned>>
fileVars    == <<data, temp, raw, kept, filled, unmoved>>
ioVars      == <<at, in, file, failed>>
historyVars == <<alone, broken>>
vars == <<uiVars, service, pc, slot, cancelled, ioVars, answer, fileVars, historyVars>>

(* The places at which a coroutine waits for the main thread, and so finds *)
(* out that it is cancelled.                                               *)
Switches == {"prepare", "read", "check", "convert", "extract", "apex",
             "finish", "refuse", "caught"}
Places  == Switches \cup {"new", "copy", "rename", "unsparse", "discard", "keep", "over"}
Running == {i \in Imports : pc[i] \notin {"new", "over"}}

(* isRomInstalled *)
Installed(s) == kept[s] # None \/ s \in filled

-----------------------------------------------------------------------------
(* MainActivity and the life of its service: the main thread.              *)

Init ==
  /\ shown = FALSE /\ connected = FALSE /\ enabled = TRUE /\ target = 1
  /\ picker = None /\ lost = FALSE /\ owned = {} /\ service = "down"
  /\ pc = [i \in Imports |-> "new"] /\ slot = [i \in Imports |-> 1]
  /\ cancelled = [i \in Imports |-> FALSE]
  /\ at = [i \in Imports |-> 1] /\ in = [i \in Imports |-> None]
  /\ file = [i \in Imports |-> None] /\ failed = [i \in Imports |-> FALSE]
  /\ answer = [i \in Imports |-> "none"]
  /\ data = [f \in Files |-> Empty] /\ temp = None /\ raw = None
  /\ kept = [s \in Slots |-> None] /\ filled = {} /\ unmoved = {}
  /\ alone = {} /\ broken = FALSE

OnCreate ==
  /\ ~shown
  /\ shown' = TRUE /\ enabled' = TRUE /\ target' = 1
  /\ UNCHANGED <<connected, picker, lost, owned, service, pc, slot, cancelled,
                 ioVars, answer, fileVars, historyVars>>

(* A service that is being destroyed is not bound to again.                *)
OnServiceConnected ==
  /\ shown /\ ~connected /\ service # "doomed"
  /\ connected' = TRUE /\ service' = "up"
  /\ UNCHANGED <<shown, enabled, target, picker, lost, owned, pc, slot, cancelled,
                 ioVars, answer, fileVars, historyVars>>

(* btnSelectGsi: the image is for the first slot.                          *)
SelectGsi ==
  /\ shown /\ enabled /\ picker = None
  /\ target' = 1
  /\ picker' = Picking
  /\ UNCHANGED <<shown, connected, enabled, lost, owned, service, pc, slot, cancelled,
                 ioVars, answer, fileVars, historyVars>>

(* The start button of a slot without a ROM asks first.                    *)
HandleStartClick(s) ==
  /\ shown /\ picker = None /\ ~Installed(s)
  /\ picker' = s
  /\ UNCHANGED <<shown, connected, enabled, target, lost, owned, service, pc, slot,
                 cancelled, ioVars, answer, fileVars, historyVars>>

ChooseGsi ==
  /\ shown /\ picker \in Slots
  /\ target' = picker
  /\ picker' = Picking
  /\ UNCHANGED <<shown, connected, enabled, lost, owned, service, pc, slot, cancelled,
                 ioVars, answer, fileVars, historyVars>>

Dismiss ==
  /\ shown /\ picker # None
  /\ picker' = None
  /\ UNCHANGED <<shown, connected, enabled, target, lost, owned, service, pc, slot,
                 cancelled, ioVars, answer, fileVars, historyVars>>

(* The picker's result: the button is disabled whether or not there is a   *)
(* service to take the image.                                              *)
HandleGsiSelected(i) ==
  /\ shown /\ picker = Picking /\ pc[i] = "new"
  /\ picker' = None /\ enabled' = FALSE
  /\ IF connected
     THEN /\ pc' = [pc EXCEPT ![i] = "prepare"]
          /\ slot' = [slot EXCEPT ![i] = target]
          /\ owned' = owned \cup {i}
          /\ alone' = IF Running = {} THEN {i} ELSE {}
          /\ lost' = lost
     ELSE /\ lost' = TRUE
          /\ pc' = [pc EXCEPT ![i] = "over"]
          /\ UNCHANGED <<slot, owned, alone>>
  /\ UNCHANGED <<shown, connected, target, service, cancelled, ioVars, answer,
                 fileVars, broken>>

(* The picker is an activity of its own and survives; a dialog does not.   *)
ScreenGoes ==
  /\ shown' = FALSE /\ connected' = FALSE /\ lost' = FALSE /\ owned' = {}
  /\ picker' = IF picker = Picking THEN Picking ELSE None
  /\ UNCHANGED <<enabled, target>>

OnDestroy ==
  /\ shown
  /\ ScreenGoes
  /\ service' = IF service = "up" THEN "doomed" ELSE service
  /\ UNCHANGED <<pc, slot, cancelled, ioVars, answer, fileVars, historyVars>>

ServiceOnDestroy ==
  /\ service = "doomed"
  /\ service' = "down"
  /\ cancelled' = [i \in Imports |-> cancelled[i] \/ i \in Running]
  /\ UNCHANGED <<uiVars, pc, slot, ioVars, answer, fileVars, historyVars>>

(* The process is killed: no handler runs, the files stay as they are.     *)
ProcessDies ==
  /\ shown \/ Running # {}
  /\ ScreenGoes
  /\ service' = "down"
  /\ pc' = [i \in Imports |-> IF i \in Running THEN "over" ELSE pc[i]]
  /\ broken' = (broken \/ Running # {})
  /\ UNCHANGED <<slot, cancelled, ioVars, answer, fileVars, alone>>

-----------------------------------------------------------------------------
(* importGsi.                                                              *)

(* A coroutine may start its next stage.                                   *)
Stage(i, place) == pc[i] = place /\ ~cancelled[i]

GoTo(i, place) == pc' = [pc EXCEPT ![i] = place]

Keeps == UNCHANGED <<uiVars, service, slot, cancelled, answer, alone>>

Prepare(i) ==
  /\ Stage(i, "prepare")
  /\ GoTo(i, "read")
  /\ Keeps /\ UNCHANGED <<ioVars, fileVars, broken>>

(* openInputStream fails: a null stream or an exception.                   *)
OpenFails(i) ==
  /\ Stage(i, "read")
  /\ \E place \in {"refuse", "caught"} : GoTo(i, place) /\ broken' = (broken \/ place = "caught")
  /\ Keeps /\ UNCHANGED <<ioVars, fileVars>>

(* Where a name leads after it was opened for writing.                     *)
Opened(name, f) == IF name = None THEN f ELSE name

Open(i) ==
  /\ Stage(i, "read")
  /\ LET f == Opened(temp, <<i, "temp">>) IN
     /\ temp' = f
     /\ data' = [data EXCEPT ![f] = Empty]
     /\ file' = [file EXCEPT ![i] = f]
  /\ at' = [at EXCEPT ![i] = 1]
  /\ GoTo(i, "copy")
  /\ Keeps /\ UNCHANGED <<in, failed, raw, kept, filled, unmoved, broken>>

Copy(i) ==
  /\ pc[i] = "copy"
  /\ data' = [data EXCEPT ![file[i]][at[i]] = i]
  /\ at' = [at EXCEPT ![i] = IF @ = Parts THEN 1 ELSE @ + 1]
  /\ file' = [file EXCEPT ![i] = IF at[i] = Parts THEN None ELSE @]
  /\ GoTo(i, IF at[i] = Parts THEN "check" ELSE "copy")
  /\ Keeps /\ UNCHANGED <<in, failed, temp, raw, kept, filled, unmoved, broken>>

(* isSparseImage, by name; a file that cannot be read is not sparse.       *)
LooksSparse == temp # None /\ data[temp][1] \in Sparse

Check(i) ==
  /\ Stage(i, "check")
  /\ GoTo(i, IF LooksSparse THEN "convert" ELSE "rename")
  /\ Keeps /\ UNCHANGED <<ioVars, fileVars, broken>>

(* The file stays under its name: renameTo or delete returns false, which  *)
(* nobody looks at.                                                        *)
Stays(i, name, kind) ==
  IF name = None THEN unmoved' = unmoved
  ELSE Cardinality(unmoved) < MaxUnmoved /\ unmoved' = unmoved \cup {<<i, kind>>}

(* Mutation: a file of an earlier import is in the way.                    *)
RenameUnlessThere(i) ==
  /\ pc[i] = "rename"
  /\ IF temp # None /\ raw = None THEN raw' = temp /\ temp' = None
                                  ELSE UNCHANGED <<raw, temp>>
  /\ GoTo(i, "extract")
  /\ Keeps /\ UNCHANGED <<ioVars, data, kept, filled, unmoved, broken>>

Rename(i) ==
  /\ pc[i] = "rename"
  /\ \/ temp # None /\ raw' = temp /\ temp' = None /\ unmoved' = unmoved
     \/ UNCHANGED <<raw, temp>> /\ Stays(i, temp, "temp")
  /\ GoTo(i, "extract")
  /\ Keeps /\ UNCHANGED <<ioVars, data, kept, filled, broken>>

(* unsparse finds that the header is not the format's any more, or cannot  *)
(* make its output.                                                        *)
ConvertFails(i) ==
  /\ Stage(i, "convert")
  /\ failed' = [failed EXCEPT ![i] = TRUE]
  /\ GoTo(i, "discard")
  /\ Keeps /\ UNCHANGED <<at, in, file, fileVars, broken>>

(* unsparse opens its two files, after a look at the header.               *)
Convert(i) ==
  /\ Stage(i, "convert")
  /\ LooksSparse
  /\ LET f == Opened(raw, <<i, "raw">>) IN
     /\ raw' = f
     /\ data' = [data EXCEPT ![f] = Empty]
     /\ file' = [file EXCEPT ![i] = f]
  /\ in' = [in EXCEPT ![i] = temp]
  /\ GoTo(i, "unsparse")
  /\ Keeps /\ UNCHANGED <<at, failed, temp, kept, filled, unmoved, broken>>

(* A part that is not there, or not in the format, ends the conversion or  *)
(* is left out; so is one whose write fails: its result is ignored.        *)
Unsparse(i) ==
  /\ pc[i] = "unsparse"
  /\ LET part == data[in[i]][at[i]] IN
     \/ part \in Sparse /\ data' = [data EXCEPT ![file[i]][at[i]] = part]
     \/ data' = data
  /\ at' = [at EXCEPT ![i] = IF @ = Parts THEN 1 ELSE @ + 1]
  /\ GoTo(i, IF at[i] = Parts THEN "discard" ELSE "unsparse")
  /\ Keeps /\ UNCHANGED <<in, file, failed, temp, raw, kept, filled, unmoved, broken>>

UnsparseFails(i) ==
  /\ pc[i] = "unsparse"
  /\ data[in[i]][at[i]] \notin Sparse
  /\ failed' = [failed EXCEPT ![i] = TRUE]
  /\ GoTo(i, "discard")
  /\ Keeps /\ UNCHANGED <<at, in, file, fileVars, broken>>

(* Mutation: a failed conversion returns before it deletes its input.      *)
DiscardOnSuccess(i) ==
  /\ pc[i] = "discard"
  /\ temp' = IF failed[i] THEN temp ELSE None
  /\ in' = [in EXCEPT ![i] = None] /\ file' = [file EXCEPT ![i] = None]
  /\ GoTo(i, IF failed[i] THEN "refuse" ELSE "extract")
  /\ Keeps /\ UNCHANGED <<at, failed, data, raw, kept, filled, unmoved, broken>>

(* Mutation: a failed conversion returns without an answer.                *)
DiscardSilently(i) ==
  /\ pc[i] = "discard"
  /\ temp' = None
  /\ GoTo(i, IF failed[i] THEN "over" ELSE "extract")
  /\ Keeps /\ UNCHANGED <<ioVars, data, raw, kept, filled, unmoved, broken>>

Discard(i) ==
  /\ pc[i] = "discard"
  /\ \/ temp' = None /\ unmoved' = unmoved
     \/ temp' = temp /\ Stays(i, temp, "temp")
  /\ in' = [in EXCEPT ![i] = None] /\ file' = [file EXCEPT ![i] = None]
  /\ GoTo(i, IF failed[i] THEN "refuse" ELSE "extract")
  /\ Keeps /\ UNCHANGED <<at, failed, data, raw, kept, filled, broken>>

(* The images whose data is in the file of a name.                         *)
Contents(name) == IF name = None THEN {} ELSE {data[name][p] : p \in 1..Parts} \ {Hole}

(* Whatever could be extracted is added to what the slot holds; the result *)
(* is ignored.                                                             *)
Extract(i) ==
  /\ Stage(i, "extract")
  /\ \/ Contents(raw) # {} /\ filled' = filled \cup {slot[i]}
     \/ filled' = filled
  /\ GoTo(i, "keep")
  /\ Keeps /\ UNCHANGED <<ioVars, data, temp, raw, kept, unmoved, broken>>

Keep(i) ==
  /\ pc[i] = "keep"
  /\ \/ /\ raw # None /\ kept' = [kept EXCEPT ![slot[i]] = raw] /\ raw' = None
        /\ unmoved' = unmoved
     \/ UNCHANGED <<kept, raw>> /\ Stays(i, raw, "raw")
  /\ GoTo(i, "apex")
  /\ Keeps /\ UNCHANGED <<ioVars, data, temp, filled, broken>>

(* The APEX modules and the overlays.                                      *)
Overlay(i) ==
  /\ Stage(i, "apex")
  /\ GoTo(i, "finish")
  /\ Keeps /\ UNCHANGED <<ioVars, fileVars, broken>>

(* An I/O error while copying, unpacking or writing an overlay.            *)
Throws(i) ==
  /\ pc[i] = "copy" \/ Stage(i, "apex")
  /\ GoTo(i, "caught")
  /\ broken' = TRUE
  /\ Keeps /\ UNCHANGED <<ioVars, fileVars>>

(* onComplete, on the main thread.                                         *)
Complete(i, a) ==
  /\ answer' = [answer EXCEPT ![i] = a]
  /\ enabled' = (enabled \/ i \in owned)
  /\ GoTo(i, "over")
  /\ UNCHANGED <<shown, connected, target, picker, lost, owned, service, slot,
                 cancelled, ioVars, fileVars, historyVars>>

Succeed(i) == Stage(i, "finish") /\ Complete(i, "yes")

(* Mutation: an exception is only logged.                                  *)
RefuseSilently(i) ==
  \/ Stage(i, "refuse") /\ Complete(i, "no")
  \/ Stage(i, "caught") /\ GoTo(i, "over") /\ Keeps /\ UNCHANGED <<ioVars, fileVars, broken>>

Refuse(i) == (Stage(i, "refuse") \/ Stage(i, "caught")) /\ Complete(i, "no")

(* CancellationException: the handler's own switch throws it again.        *)
Cancelled(i) ==
  /\ pc[i] \in Switches /\ cancelled[i]
  /\ GoTo(i, "over")
  /\ broken' = TRUE
  /\ Keeps /\ UNCHANGED <<ioVars, fileVars>>

-----------------------------------------------------------------------------

ImportStep(i) ==
  \/ Prepare(i) \/ OpenFails(i) \/ Open(i) \/ Copy(i) \/ Check(i) \/ Rename(i)
  \/ ConvertFails(i) \/ Convert(i) \/ Unsparse(i) \/ UnsparseFails(i) \/ Discard(i)
  \/ Extract(i) \/ Keep(i) \/ Overlay(i) \/ Throws(i) \/ Succeed(i) \/ Refuse(i)
  \/ Cancelled(i)

Next ==
  \/ OnCreate \/ OnServiceConnected \/ SelectGsi \/ ChooseGsi \/ Dismiss
  \/ OnDestroy \/ ServiceOnDestroy \/ ProcessDies
  \/ \E s \in Slots : HandleStartClick(s)
  \/ \E i \in Imports : HandleGsiSelected(i) \/ ImportStep(i)

(* Coroutines run on; nothing else has to happen.                          *)
Fairness == \A i \in Imports : WF_vars(ImportStep(i))

Spec == Init /\ [][Next]_vars /\ Fairness

-----------------------------------------------------------------------------
(* Properties.                                                             *)

(* Types; a conversion has its two files, a copy the file it writes.       *)
TypeOK ==
  /\ shown \in BOOLEAN /\ connected \in BOOLEAN /\ enabled \in BOOLEAN /\ lost \in BOOLEAN
  /\ target \in Slots
  /\ picker \in {None, Picking} \cup Slots
  /\ owned \subseteq Imports /\ service \in {"down", "up", "doomed"}
  /\ pc \in [Imports -> Places] /\ slot \in [Imports -> Slots]
  /\ cancelled \in [Imports -> BOOLEAN] /\ failed \in [Imports -> BOOLEAN]
  /\ at \in [Imports -> 1..Parts]
  /\ in \in [Imports -> Files \cup {None}] /\ file \in [Imports -> Files \cup {None}]
  /\ answer \in [Imports -> {"none", "yes", "no"}]
  /\ data \in [Files -> [1..Parts -> Imports \cup {Hole}]]
  /\ temp \in Files \cup {None} /\ raw \in Files \cup {None}
  /\ kept \in [Slots -> Files \cup {None}] /\ filled \subseteq Slots
  /\ unmoved \subseteq Files
  /\ alone \subseteq Imports /\ broken \in BOOLEAN
  /\ \A i \in Imports : pc[i] \in {"copy", "unsparse"} => file[i] # None
  /\ \A i \in Imports : pc[i] = "unsparse" => in[i] # None

(* An image is in place: the slot's raw image is that image or a hole in   *)
(* it, and an image that was copied as it is has no holes.                 *)
InPlace(i) ==
  LET f == kept[slot[i]] IN
  /\ f # None
  /\ \A p \in 1..Parts : data[f][p] = i \/ (i \in Sparse /\ data[f][p] = Hole)

(* A move of an import on the way of its image into the slot returned      *)
(* false; the import reports success nevertheless.                         *)
Stuck(i) == <<i, "raw">> \in unmoved \/ (i \notin Sparse /\ <<i, "temp">> \in unmoved)

(* An import during which no other one ran, and that is about to report    *)
(* success, has put its own image into its own slot, whatever earlier      *)
(* imports that were cancelled, killed, refused or stuck left in the       *)
(* temporary files, unless the file system refused one of its own moves    *)
(* (importGsi).                                                            *)
AloneIsFaithful ==
  \A i \in alone : pc[i] \in {"apex", "finish"} => InPlace(i) \/ Stuck(i)

(* While the button of the screen is disabled, an import is on its way     *)
(* whose callback enables it again (handleGsiSelected), unless the image   *)
(* was given to a screen that had no service yet.                          *)
DisabledHasImport ==
  shown /\ ~enabled /\ ~lost => \E i \in owned : i \in Running /\ ~cancelled[i]

(* Every import ends with its copy of the source renamed or deleted, even  *)
(* when others use the same name, unless the file system refused that, or  *)
(* an exception, a cancellation or the end of the process cut an import    *)
(* short (importGsi).                                                      *)
CopyIsRemoved ==
  Running = {} /\ ~broken /\ (\A i \in Imports : <<i, "temp">> \notin unmoved) => temp = None

(* Every import that was started is answered, as long as the screen that   *)
(* started it is there: again and again, all of its imports have been      *)
(* (importGsi's every path calls onComplete).                              *)
StartedIsAnswered == []<>(\A i \in owned : answer[i] # "none")
=============================================================================
