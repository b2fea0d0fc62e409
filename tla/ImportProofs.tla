---------------------------- MODULE ImportProofs ----------------------------
(***************************************************************************)
(* Theorems about the import of a system image: about GsiImport, for any   *)
(* images, slots and parts, and, from the lemma Least on, about the        *)
(* extraction that is one stage of it, Ext4Extractor, for any image,       *)
(* however damaged, and any depth.  The two have no variable in common.    *)
(***************************************************************************)
EXTENDS GsiImport, Ext4Extractor, Integers,
        TLAPS, SequenceTheorems, FiniteSetTheorems, WellFoundedInduction

-----------------------------------------------------------------------------
(* Type correctness, a lemma for each kind of step.                        *)

LEMMA InitTypeOK == Init => TypeOK
<1> SUFFICES ASSUME Init PROVE TypeOK
  OBVIOUS
<1>1. 1 \in Slots /\ 1 \in 1..Parts /\ "new" \in Places
  BY GsiImportAssumption DEF Slots, Places
<1>2. data \in [Files -> [1..Parts -> Imports \cup {Hole}]]
  BY DEF Init, Empty
<1>3. /\ pc \in [Imports -> Places] /\ slot \in [Imports -> Slots]
      /\ at \in [Imports -> 1..Parts] /\ kept \in [Slots -> Files \cup {None}]
  BY <1>1 DEF Init
<1>4. \A i \in Imports : pc[i] = "new"
  BY DEF Init
<1> QED
  BY <1>1, <1>2, <1>3, <1>4 DEF Init, TypeOK

LEMMA UiTypeOK ==
  ASSUME TypeOK,
         \/ OnCreate \/ OnServiceConnected \/ SelectGsi \/ ChooseGsi \/ Dismiss
         \/ OnDestroy \/ ServiceOnDestroy
         \/ \E s \in Slots : HandleStartClick(s)
  PROVE  TypeOK'
<1>1. UNCHANGED <<pc, slot, ioVars, answer, fileVars, historyVars>>
  BY DEF OnCreate, OnServiceConnected, SelectGsi, ChooseGsi, Dismiss, OnDestroy,
         ServiceOnDestroy, HandleStartClick
<1>2. /\ shown' \in BOOLEAN /\ connected' \in BOOLEAN /\ enabled' \in BOOLEAN /\ lost' \in BOOLEAN
      /\ target' \in Slots /\ picker' \in {None, Picking} \cup Slots
      /\ owned' \subseteq Imports /\ service' \in {"down", "up", "doomed"}
      /\ cancelled' \in [Imports -> BOOLEAN]
  <2> USE DEF TypeOK
  <2>0. 1 \in Slots
    BY GsiImportAssumption DEF Slots
  <2>1. CASE OnCreate
    BY <2>0, <2>1 DEF OnCreate
  <2>2. CASE OnServiceConnected
    BY <2>2 DEF OnServiceConnected
  <2>3. CASE SelectGsi
    BY <2>0, <2>3 DEF SelectGsi
  <2>4. CASE ChooseGsi
    BY <2>4 DEF ChooseGsi
  <2>5. CASE Dismiss
    BY <2>5 DEF Dismiss
  <2>6. CASE OnDestroy
    BY <2>6 DEF OnDestroy, ScreenGoes
  <2>7. CASE ServiceOnDestroy
    <3>1. cancelled' \in [Imports -> BOOLEAN]
      BY <2>7, Zenon DEF ServiceOnDestroy
    <3> QED BY <2>7, <3>1 DEF ServiceOnDestroy, uiVars
  <2>8. ASSUME NEW s \in Slots, HandleStartClick(s) 
       PROVE /\ shown' \in BOOLEAN /\ connected' \in BOOLEAN /\ enabled' \in BOOLEAN /\ lost' \in BOOLEAN
             /\ target' \in Slots /\ picker' \in {None, Picking} \cup Slots
             /\ owned' \subseteq Imports /\ service' \in {"down", "up", "doomed"}
             /\ cancelled' \in [Imports -> BOOLEAN]
    BY <2>8 DEF HandleStartClick
  <2> QED
    BY <2>1, <2>2, <2>3, <2>4, <2>5, <2>6, <2>7, <2>8
<1> QED
  BY <1>1, <1>2 DEF TypeOK, ioVars, fileVars, historyVars

(* What a step of an import keeps by Keeps.                                *)
LEMMA KeptTypes ==
  ASSUME TypeOK, Keeps
  PROVE  /\ shown' \in BOOLEAN /\ connected' \in BOOLEAN /\ enabled' \in BOOLEAN
         /\ lost' \in BOOLEAN /\ target' \in Slots /\ picker' \in {None, Picking} \cup Slots
         /\ owned' \subseteq Imports /\ service' \in {"down", "up", "doomed"}
         /\ slot' \in [Imports -> Slots] /\ cancelled' \in [Imports -> BOOLEAN]
         /\ answer' \in [Imports -> {"none", "yes", "no"}] /\ alone' \subseteq Imports
  BY DEF TypeOK, Keeps, uiVars

LEMMA GoToType ==
  ASSUME TypeOK, NEW i \in Imports, NEW place \in Places, GoTo(i, place)
  PROVE  pc' \in [Imports -> Places] /\ pc'[i] = place
         /\ \A j \in Imports : j # i => pc'[j] = pc[j]
  BY DEF TypeOK, GoTo

(* Steps that change no file and keep what the import has open.            *)
LEMMA PlainTypeOK ==
  ASSUME TypeOK, NEW i \in Imports, NEW place \in Places \ {"copy", "unsparse"},
         GoTo(i, place), Keeps, UNCHANGED <<at, in, file, fileVars>>,
         failed' \in [Imports -> BOOLEAN], broken' \in BOOLEAN
  PROVE  TypeOK'
<1>1. /\ pc' \in [Imports -> Places] /\ pc'[i] = place
      /\ \A j \in Imports : j # i => pc'[j] = pc[j]
  BY GoToType
<1>2. /\ \A j \in Imports : pc'[j] \in {"copy", "unsparse"} => file'[j] # None
      /\ \A j \in Imports : pc'[j] = "unsparse" => in'[j] # None
  BY <1>1 DEF TypeOK
<1> QED
  BY <1>1, <1>2, KeptTypes DEF TypeOK, fileVars

(* Giving a file new parts.                                                *)
LEMMA WriteType ==
  ASSUME TypeOK, NEW f \in Files, NEW parts \in [1..Parts -> Imports \cup {Hole}],
         data' = [data EXCEPT ![f] = parts]
  PROVE  data' \in [Files -> [1..Parts -> Imports \cup {Hole}]]
  BY DEF TypeOK

LEMMA OpenTypeOK ==
  ASSUME TypeOK, NEW i \in Imports, Open(i)
  PROVE  TypeOK'
<1> DEFINE f == Opened(temp, <<i, "temp">>)
<1>1. f \in Files /\ f # None
  BY GsiImportAssumption DEF TypeOK, Opened, Files
<1>2. Empty \in [1..Parts -> Imports \cup {Hole}]
  BY DEF Empty
<1>3. data' \in [Files -> [1..Parts -> Imports \cup {Hole}]]
  <2>1. data' = [data EXCEPT ![f] = Empty]
    BY DEF Open
  <2> QED BY <1>1, <1>2, <2>1, WriteType
<1>4. at' \in [Imports -> 1..Parts] /\ file' \in [Imports -> Files \cup {None}]
      /\ file'[i] = f /\ (\A j \in Imports : j # i => file'[j] = file[j])
  BY <1>1, GsiImportAssumption DEF TypeOK, Open
<1>5. /\ pc' \in [Imports -> Places] /\ pc'[i] = "copy"
      /\ \A j \in Imports : j # i => pc'[j] = pc[j]
  BY GoToType DEF Open, Places
<1>6. temp' = f /\ UNCHANGED <<in, failed, raw, kept, filled, unmoved, broken>> /\ Keeps
  BY DEF Open
<1>7. /\ \A j \in Imports : pc'[j] \in {"copy", "unsparse"} => file'[j] # None
      /\ \A j \in Imports : pc'[j] = "unsparse" => in'[j] # None
  BY <1>1, <1>4, <1>5, <1>6 DEF TypeOK
<1> HIDE DEF f
<1> QED
  BY <1>1, <1>3, <1>4, <1>5, <1>6, <1>7, KeptTypes DEF TypeOK

LEMMA ConvertTypeOK ==
  ASSUME TypeOK, NEW i \in Imports, Convert(i)
  PROVE  TypeOK'
<1> DEFINE f == Opened(raw, <<i, "raw">>)
<1>1. f \in Files /\ f # None
  BY GsiImportAssumption DEF TypeOK, Opened, Files
<1>2. Empty \in [1..Parts -> Imports \cup {Hole}]
  BY DEF Empty
<1>3. data' \in [Files -> [1..Parts -> Imports \cup {Hole}]]
  <2>1. data' = [data EXCEPT ![f] = Empty]
    BY DEF Convert
  <2> QED BY <1>1, <1>2, <2>1, WriteType
<1>4. /\ file' \in [Imports -> Files \cup {None}]
      /\ file'[i] = f /\ (\A j \in Imports : j # i => file'[j] = file[j])
      /\ in' \in [Imports -> Files \cup {None}]
      /\ in'[i] = temp /\ temp # None /\ (\A j \in Imports : j # i => in'[j] = in[j])
  BY <1>1 DEF TypeOK, Convert, LooksSparse
<1>5. /\ pc' \in [Imports -> Places] /\ pc'[i] = "unsparse"
      /\ \A j \in Imports : j # i => pc'[j] = pc[j]
  BY GoToType DEF Convert, Places
<1>6. raw' = f /\ UNCHANGED <<at, failed, temp, kept, filled, unmoved, broken>> /\ Keeps
  BY DEF Convert
<1>7. /\ \A j \in Imports : pc'[j] \in {"copy", "unsparse"} => file'[j] # None
      /\ \A j \in Imports : pc'[j] = "unsparse" => in'[j] # None
  BY <1>1, <1>4, <1>5, <1>6 DEF TypeOK
<1> HIDE DEF f
<1> QED
  BY <1>1, <1>3, <1>4, <1>5, <1>6, <1>7, KeptTypes DEF TypeOK

(* Giving a file one new part.                                             *)
LEMMA PartType ==
  ASSUME TypeOK, NEW f \in Files, NEW p \in 1..Parts, NEW d \in Imports \cup {Hole},
         data' = [data EXCEPT ![f][p] = d]
  PROVE  data' \in [Files -> [1..Parts -> Imports \cup {Hole}]]
  BY DEF TypeOK

(* The next part.                                                          *)
LEMMA NextPart ==
  ASSUME TypeOK, NEW i \in Imports,
         at' = [at EXCEPT ![i] = IF @ = Parts THEN 1 ELSE @ + 1]
  PROVE  at' \in [Imports -> 1..Parts]
<1>1. at \in [Imports -> 1..Parts] /\ at[i] \in 1..Parts
  BY DEF TypeOK
<1>2. (IF at[i] = Parts THEN 1 ELSE at[i] + 1) \in 1..Parts
  BY <1>1, GsiImportAssumption
<1> QED BY <1>1, <1>2

LEMMA CopyTypeOK ==
  ASSUME TypeOK, NEW i \in Imports, Copy(i)
  PROVE  TypeOK'
<1>1. file[i] \in Files /\ at[i] \in 1..Parts
  BY DEF TypeOK, Copy
<1>2. data' \in [Files -> [1..Parts -> Imports \cup {Hole}]]
  BY <1>1, PartType DEF Copy
<1>3. at' \in [Imports -> 1..Parts]
  BY NextPart DEF Copy
<1>4. PICK place \in {"check", "copy"} : GoTo(i, place) /\ (place = "copy" <=> at[i] # Parts)
  BY DEF Copy
<1>5. /\ pc' \in [Imports -> Places] /\ pc'[i] = place
      /\ \A j \in Imports : j # i => pc'[j] = pc[j]
  BY <1>4, GoToType DEF Places, Switches
<1>6. /\ file' \in [Imports -> Files \cup {None}]
      /\ place = "copy" => file'[i] = file[i]
      /\ \A j \in Imports : j # i => file'[j] = file[j]
  BY <1>4 DEF TypeOK, Copy
<1>7. UNCHANGED <<in, failed, temp, raw, kept, filled, unmoved, broken>> /\ Keeps
  BY DEF Copy
<1>8. /\ \A j \in Imports : pc'[j] \in {"copy", "unsparse"} => file'[j] # None
      /\ \A j \in Imports : pc'[j] = "unsparse" => in'[j] # None
  BY <1>1, <1>4, <1>5, <1>6, <1>7, GsiImportAssumption DEF TypeOK, Files
<1> QED
  BY <1>2, <1>3, <1>5, <1>6, <1>7, <1>8, KeptTypes DEF TypeOK

LEMMA UnsparseTypeOK ==
  ASSUME TypeOK, NEW i \in Imports, Unsparse(i)
  PROVE  TypeOK'
<1>1. file[i] \in Files /\ in[i] \in Files /\ at[i] \in 1..Parts
  BY DEF TypeOK, Unsparse
<1>2. data' \in [Files -> [1..Parts -> Imports \cup {Hole}]]
  <2>1. CASE data' = data
    BY <2>1 DEF TypeOK
  <2>2. CASE data' = [data EXCEPT ![file[i]][at[i]] = data[in[i]][at[i]]]
    <3>0. data[in[i]] \in [1..Parts -> Imports \cup {Hole}]
      BY <1>1 DEF TypeOK
    <3>1. data[in[i]][at[i]] \in Imports \cup {Hole}
      BY <1>1, <3>0
    <3> QED BY <1>1, <2>2, <3>1, PartType
  <2> QED BY <2>1, <2>2 DEF Unsparse
<1>3. at' \in [Imports -> 1..Parts]
  BY NextPart DEF Unsparse
<1>4. PICK place \in {"discard", "unsparse"} : GoTo(i, place)
  BY DEF Unsparse
<1>5. /\ pc' \in [Imports -> Places] /\ pc'[i] = place
      /\ \A j \in Imports : j # i => pc'[j] = pc[j]
  BY <1>4, GoToType DEF Places, Switches
<1>6. UNCHANGED <<in, file, failed, temp, raw, kept, filled, unmoved, broken>> /\ Keeps /\ pc[i] = "unsparse"
  BY DEF Unsparse
<1>7. /\ \A j \in Imports : pc'[j] \in {"copy", "unsparse"} => file'[j] # None
      /\ \A j \in Imports : pc'[j] = "unsparse" => in'[j] # None
  BY <1>5, <1>6 DEF TypeOK
<1> QED
  BY <1>2, <1>3, <1>5, <1>6, <1>7, KeptTypes DEF TypeOK

LEMMA StaysType ==
  ASSUME TypeOK, NEW i \in Imports, NEW name, NEW kind \in {"temp", "raw"}, Stays(i, name, kind)
  PROVE  unmoved' \subseteq Files /\ unmoved \subseteq unmoved'
BY DEF Stays, TypeOK, Files

LEMMA DiscardTypeOK ==
  ASSUME TypeOK, NEW i \in Imports, Discard(i)
  PROVE  TypeOK'
<1>1. PICK place \in {"refuse", "extract"} : GoTo(i, place)
  BY DEF Discard
<1>2. /\ pc' \in [Imports -> Places] /\ pc'[i] = place
      /\ \A j \in Imports : j # i => pc'[j] = pc[j]
  BY <1>1, GoToType DEF Places, Switches
<1>3. /\ in' = [in EXCEPT ![i] = None] /\ file' = [file EXCEPT ![i] = None]
      /\ temp' \in {None, temp}
      /\ UNCHANGED <<at, failed, data, raw, kept, filled, broken>> /\ Keeps
  BY DEF Discard
<1>5. unmoved' \subseteq Files
  BY StaysType DEF Discard, TypeOK
<1>4. /\ \A j \in Imports : pc'[j] \in {"copy", "unsparse"} => file'[j] # None
      /\ \A j \in Imports : pc'[j] = "unsparse" => in'[j] # None
  BY <1>2, <1>3 DEF TypeOK
<1> QED
  BY <1>2, <1>3, <1>4, <1>5, KeptTypes DEF TypeOK

(* Moving and keeping files by name.                                       *)
LEMMA NameTypeOK ==
  ASSUME TypeOK, NEW i \in Imports, Rename(i) \/ Extract(i) \/ Keep(i)
  PROVE  TypeOK'
<1>1. PICK place \in {"extract", "keep", "apex"} : GoTo(i, place)
  BY DEF Rename, Extract, Keep
<1>2. /\ pc' \in [Imports -> Places] /\ pc'[i] = place
      /\ \A j \in Imports : j # i => pc'[j] = pc[j]
  BY <1>1, GoToType DEF Places, Switches
<1>3. UNCHANGED <<ioVars, data, broken>> /\ Keeps
  BY DEF Rename, Extract, Keep
<1>4. slot[i] \in Slots
  BY DEF TypeOK
<1>5. /\ temp' \in Files \cup {None} /\ raw' \in Files \cup {None}
      /\ kept' \in [Slots -> Files \cup {None}] /\ filled' \subseteq Slots
      /\ unmoved' \subseteq Files
  <2>1. CASE Rename(i) BY <2>1, StaysType DEF Rename, TypeOK
  <2>2. CASE Extract(i) BY <1>4, <2>2 DEF Extract, TypeOK
  <2>3. CASE Keep(i) BY <1>4, <2>3, StaysType DEF Keep, TypeOK
  <2> QED BY <2>1, <2>2, <2>3
<1>6. /\ \A j \in Imports : pc'[j] \in {"copy", "unsparse"} => file'[j] # None
      /\ \A j \in Imports : pc'[j] = "unsparse" => in'[j] # None
  BY <1>2, <1>3 DEF TypeOK, ioVars
<1> QED
  BY <1>2, <1>3, <1>5, <1>6, KeptTypes DEF TypeOK, ioVars

LEMMA CompleteTypeOK ==
  ASSUME TypeOK, NEW i \in Imports, NEW a \in {"yes", "no"}, Complete(i, a)
  PROVE  TypeOK'
<1>1. /\ pc' \in [Imports -> Places] /\ pc'[i] = "over"
      /\ \A j \in Imports : j # i => pc'[j] = pc[j]
  BY GoToType DEF Complete, Places
<1>2. answer' \in [Imports -> {"none", "yes", "no"}] /\ enabled' \in BOOLEAN
  BY DEF TypeOK, Complete
<1>3. UNCHANGED <<shown, connected, target, picker, lost, owned, service, slot,
                  cancelled, ioVars, fileVars, historyVars>>
  BY DEF Complete
<1>4. /\ \A j \in Imports : pc'[j] \in {"copy", "unsparse"} => file'[j] # None
      /\ \A j \in Imports : pc'[j] = "unsparse" => in'[j] # None
  BY <1>1, <1>3 DEF TypeOK, ioVars
<1> QED
  BY <1>1, <1>2, <1>3, <1>4 DEF TypeOK, ioVars, fileVars, historyVars

(* The steps that only move on.                                            *)
LEMMA MovesOn ==
  ASSUME TypeOK, NEW i \in Imports,
         \/ Prepare(i) \/ OpenFails(i) \/ Check(i) \/ ConvertFails(i)
         \/ UnsparseFails(i) \/ Overlay(i) \/ Throws(i) \/ Cancelled(i)
  PROVE  /\ Keeps /\ UNCHANGED <<at, in, file, fileVars>>
         /\ failed' \in [Imports -> BOOLEAN] /\ broken' \in BOOLEAN
         /\ \E place \in Places \ {"copy", "unsparse"} : GoTo(i, place)
<1> USE DEF Places, Switches, ioVars, TypeOK
<1>1. CASE Prepare(i) BY <1>1 DEF Prepare
<1>2. CASE OpenFails(i) BY <1>2 DEF OpenFails
<1>3. CASE Check(i) BY <1>3 DEF Check
<1>4. CASE ConvertFails(i) BY <1>4 DEF ConvertFails
<1>5. CASE UnsparseFails(i) BY <1>5 DEF UnsparseFails
<1>6. CASE Overlay(i) BY <1>6 DEF Overlay
<1>7. CASE Throws(i) BY <1>7 DEF Throws
<1>8. CASE Cancelled(i) BY <1>8 DEF Cancelled
<1> QED BY <1>1, <1>2, <1>3, <1>4, <1>5, <1>6, <1>7, <1>8

LEMMA ImportTypeOK ==
  ASSUME TypeOK, NEW i \in Imports, ImportStep(i)
  PROVE  TypeOK'
<1>1. CASE \/ Prepare(i) \/ OpenFails(i) \/ Check(i) \/ ConvertFails(i)
           \/ UnsparseFails(i) \/ Overlay(i) \/ Throws(i) \/ Cancelled(i)
  BY <1>1, MovesOn, PlainTypeOK
<1>2. CASE Succeed(i) BY <1>2, CompleteTypeOK DEF Succeed
<1>3. CASE Refuse(i) BY <1>3, CompleteTypeOK DEF Refuse
<1> QED
  BY <1>1, <1>2, <1>3, OpenTypeOK, CopyTypeOK, NameTypeOK, ConvertTypeOK,
     UnsparseTypeOK, DiscardTypeOK DEF ImportStep

LEMMA SelectedTypeOK ==
  ASSUME TypeOK, NEW i \in Imports, HandleGsiSelected(i)
  PROVE  TypeOK'
<1>1. PICK place \in {"prepare", "over"} : pc' = [pc EXCEPT ![i] = place]
  BY DEF HandleGsiSelected
<1>2. pc' \in [Imports -> Places] /\ \A j \in Imports : pc'[j] = pc[j] \/ pc'[j] = place
  BY <1>1 DEF TypeOK, Places, Switches
<1>3. /\ picker' = None /\ enabled' = FALSE /\ lost' \in BOOLEAN
      /\ slot' \in [Imports -> Slots] /\ owned' \subseteq Imports /\ alone' \subseteq Imports
      /\ UNCHANGED <<shown, connected, target, service, cancelled, ioVars, answer,
                     fileVars, broken>>
  BY DEF TypeOK, HandleGsiSelected
<1>4. /\ \A j \in Imports : pc'[j] \in {"copy", "unsparse"} => file'[j] # None
      /\ \A j \in Imports : pc'[j] = "unsparse" => in'[j] # None
  BY <1>1, <1>2, <1>3 DEF TypeOK, ioVars
<1> QED
  BY <1>2, <1>3, <1>4 DEF TypeOK, ioVars, fileVars

LEMMA DeathTypeOK ==
  ASSUME TypeOK, ProcessDies
  PROVE  TypeOK'
<1>1. /\ pc' \in [Imports -> Places] /\ \A j \in Imports : pc'[j] = pc[j] \/ pc'[j] = "over"
  BY DEF TypeOK, ProcessDies, Places
<1>2. /\ shown' = FALSE /\ connected' = FALSE /\ lost' = FALSE /\ owned' = {}
      /\ picker' \in {None, Picking} /\ service' = "down" /\ broken' \in BOOLEAN
      /\ UNCHANGED <<enabled, target, slot, cancelled, ioVars, answer, fileVars, alone>>
  BY DEF TypeOK, ProcessDies, ScreenGoes
<1>3. /\ \A j \in Imports : pc'[j] \in {"copy", "unsparse"} => file'[j] # None
      /\ \A j \in Imports : pc'[j] = "unsparse" => in'[j] # None
  BY <1>1, <1>2 DEF TypeOK, ioVars
<1> QED
  BY <1>1, <1>2, <1>3 DEF TypeOK, ioVars, fileVars

(* TypeOK holds in every state of GsiImport.                               *)
THEOREM TypeCorrect == Spec => []TypeOK
<1>1. ASSUME TypeOK, [Next]_vars PROVE TypeOK'
  <2>1. CASE UNCHANGED vars
    BY <1>1, <2>1 DEF TypeOK, vars, uiVars, ioVars, fileVars, historyVars
  <2>2. CASE Next
    BY <1>1, <2>2, UiTypeOK, DeathTypeOK, SelectedTypeOK, ImportTypeOK DEF Next
  <2> QED BY <1>1, <2>1, <2>2
<1> QED BY <1>1, InitTypeOK, PTL DEF Spec

-----------------------------------------------------------------------------
(* No two names lead to one file.                                          *)

(* The places before an import has opened each of its two files.           *)
BeforeCopy    == {"new", "prepare", "read"}
BeforeConvert == BeforeCopy \cup {"copy", "check", "convert"}

(* The file that an import creates under a name does not exist before.     *)
FilesApart ==
  /\ temp \in (Imports \X {"temp"}) \cup {None}
  /\ temp # None => temp # raw /\ \A s \in Slots : temp # kept[s]
  /\ raw # None => \A s \in Slots : raw # kept[s]
  /\ \A i \in Imports : pc[i] \in BeforeCopy =>
       /\ <<i, "temp">> # temp /\ <<i, "temp">> # raw
       /\ \A s \in Slots : <<i, "temp">> # kept[s]
  /\ \A i \in Imports : pc[i] \in BeforeConvert =>
       /\ <<i, "raw">> # raw
       /\ \A s \in Slots : <<i, "raw">> # kept[s]

LEMMA InitApart == Init => FilesApart
  BY GsiImportAssumption DEF Init, FilesApart

(* Steps that leave the names alone and take no import back.               *)
LEMMA NamesKept ==
  ASSUME FilesApart, UNCHANGED <<temp, raw, kept>>,
         \A i \in Imports : /\ pc'[i] \in BeforeCopy => pc[i] \in BeforeCopy
                            /\ pc'[i] \in BeforeConvert => pc[i] \in BeforeConvert
  PROVE  FilesApart'
  BY DEF FilesApart

LEMMA UiApart ==
  ASSUME TypeOK, FilesApart,
         \/ OnCreate \/ OnServiceConnected \/ SelectGsi \/ ChooseGsi \/ Dismiss
         \/ OnDestroy \/ ServiceOnDestroy \/ ProcessDies
         \/ \E s \in Slots : HandleStartClick(s)
         \/ \E i \in Imports : HandleGsiSelected(i)
  PROVE  FilesApart'
<1>1. UNCHANGED <<temp, raw, kept>>
  BY DEF OnCreate, OnServiceConnected, SelectGsi, ChooseGsi, Dismiss, OnDestroy, fileVars,
         ServiceOnDestroy, HandleStartClick, HandleGsiSelected, ProcessDies
<1>2. \A j \in Imports : /\ pc'[j] \in BeforeCopy => pc[j] \in BeforeCopy
                         /\ pc'[j] \in BeforeConvert => pc[j] \in BeforeConvert
  <2>1. CASE ProcessDies
    BY <2>1 DEF ProcessDies, TypeOK, BeforeCopy, BeforeConvert
  <2>2. CASE \E i \in Imports : HandleGsiSelected(i)
    BY <2>2 DEF HandleGsiSelected, TypeOK, BeforeCopy, BeforeConvert
  <2>3. CASE pc' = pc
    BY <2>3
  <2> QED
    BY <2>1, <2>2, <2>3 DEF OnCreate, OnServiceConnected, SelectGsi, ChooseGsi, Dismiss,
       OnDestroy, ServiceOnDestroy, HandleStartClick
<1> QED BY <1>1, <1>2, NamesKept

(* The steps of an import that leave the names alone.                      *)
LEMMA PlainApart ==
  ASSUME TypeOK, FilesApart, NEW i \in Imports,
         \/ Prepare(i) \/ OpenFails(i) \/ Copy(i) \/ Check(i) \/ ConvertFails(i)
         \/ Unsparse(i) \/ UnsparseFails(i) \/ Extract(i) \/ Overlay(i) \/ Throws(i)
         \/ Succeed(i) \/ Refuse(i) \/ Cancelled(i)
  PROVE  FilesApart'
<1> USE DEF Stage, GoTo, BeforeCopy, BeforeConvert, fileVars
<1>0. pc \in [Imports -> Places]
  BY DEF TypeOK
<1>1. UNCHANGED <<temp, raw, kept>>
  BY DEF Prepare, OpenFails, Copy, Check, ConvertFails, Unsparse, UnsparseFails, Extract,
         Overlay, Throws, Succeed, Refuse, Complete, Cancelled
<1>2. /\ \A j \in Imports : j # i => pc'[j] = pc[j]
      /\ pc'[i] \in BeforeCopy => pc[i] \in BeforeCopy
      /\ pc'[i] \in BeforeConvert => pc[i] \in BeforeConvert
  <2>1. CASE Prepare(i) \/ OpenFails(i) \/ Copy(i) \/ Check(i)
    BY <1>0, <2>1 DEF Prepare, OpenFails, Copy, Check
  <2>2. CASE ConvertFails(i) \/ Unsparse(i) \/ UnsparseFails(i) \/ Extract(i)
    BY <1>0, <2>2 DEF ConvertFails, Unsparse, UnsparseFails, Extract
  <2>3. CASE Overlay(i) \/ Throws(i) \/ Succeed(i) \/ Refuse(i) \/ Cancelled(i)
    BY <1>0, <2>3 DEF Overlay, Throws, Succeed, Refuse, Complete, Cancelled
  <2> QED BY <2>1, <2>2, <2>3
<1> QED BY <1>1, <1>2, NamesKept

LEMMA OpenApart ==
  ASSUME TypeOK, FilesApart, NEW i \in Imports, Open(i)
  PROVE  FilesApart'
<1>1. /\ pc[i] = "read" /\ pc'[i] = "copy" /\ \A j \in Imports : j # i => pc'[j] = pc[j]
      /\ raw' = raw /\ kept' = kept
      /\ temp' = IF temp = None THEN <<i, "temp">> ELSE temp
  BY DEF Open, Stage, GoTo, TypeOK, Opened
<1>2. <<i, "temp">> # None
  BY GsiImportAssumption
<1> QED BY <1>1, <1>2 DEF FilesApart, BeforeCopy, BeforeConvert

LEMMA ConvertApart ==
  ASSUME TypeOK, FilesApart, NEW i \in Imports, Convert(i)
  PROVE  FilesApart'
<1>1. /\ pc[i] = "convert" /\ pc'[i] = "unsparse" /\ \A j \in Imports : j # i => pc'[j] = pc[j]
      /\ temp' = temp /\ kept' = kept
      /\ raw' = IF raw = None THEN <<i, "raw">> ELSE raw
  BY DEF Convert, Stage, GoTo, TypeOK, Opened
<1>2. <<i, "raw">> # None /\ \A j \in Imports : <<j, "temp">> # <<i, "raw">>
  BY GsiImportAssumption
<1> QED BY <1>1, <1>2 DEF FilesApart, BeforeCopy, BeforeConvert

LEMMA RenameApart ==
  ASSUME TypeOK, FilesApart, NEW i \in Imports, Rename(i)
  PROVE  FilesApart'
<1>1. /\ pc[i] = "rename" /\ pc'[i] = "extract" /\ \A j \in Imports : j # i => pc'[j] = pc[j]
      /\ kept' = kept
      /\ \/ temp # None /\ raw' = temp /\ temp' = None
         \/ raw' = raw /\ temp' = temp
  BY DEF Rename, GoTo, TypeOK
<1>2. \A j, k \in Imports : <<j, "temp">> # <<k, "raw">> /\ <<j, "temp">> # None /\ <<j, "raw">> # None
  BY GsiImportAssumption
<1> QED BY <1>1, <1>2 DEF FilesApart, BeforeCopy, BeforeConvert

LEMMA DiscardApart ==
  ASSUME TypeOK, FilesApart, NEW i \in Imports, Discard(i)
  PROVE  FilesApart'
<1>1. /\ pc[i] = "discard" /\ pc'[i] \in {"refuse", "extract"}
      /\ \A j \in Imports : j # i => pc'[j] = pc[j]
      /\ temp' \in {None, temp} /\ raw' = raw /\ kept' = kept
  BY DEF Discard, GoTo, TypeOK
<1>2. \A j \in Imports : <<j, "temp">> # None
  BY GsiImportAssumption
<1> QED BY <1>1, <1>2 DEF FilesApart, BeforeCopy, BeforeConvert

LEMMA KeepApart ==
  ASSUME TypeOK, FilesApart, NEW i \in Imports, Keep(i)
  PROVE  FilesApart'
<1>1. /\ pc[i] = "keep" /\ pc'[i] = "apex" /\ \A j \in Imports : j # i => pc'[j] = pc[j]
      /\ temp' = temp
      /\ \/ raw # None /\ raw' = None /\ \A s \in Slots : kept'[s] = raw \/ kept'[s] = kept[s]
         \/ raw' = raw /\ kept' = kept
  BY DEF Keep, GoTo, TypeOK
<1>2. \A j \in Imports : <<j, "temp">> # None /\ <<j, "raw">> # None
  BY GsiImportAssumption
<1> QED BY <1>1, <1>2 DEF FilesApart, BeforeCopy, BeforeConvert

LEMMA NextApart ==
  ASSUME TypeOK, FilesApart, [Next]_vars
  PROVE  FilesApart'
<1>1. CASE UNCHANGED vars
  BY <1>1 DEF FilesApart, vars, fileVars
<1>2. ASSUME NEW i \in Imports, ImportStep(i) PROVE FilesApart'
  BY <1>2, PlainApart, OpenApart, ConvertApart, RenameApart, DiscardApart, KeepApart
  DEF ImportStep
<1> QED BY <1>1, <1>2, UiApart DEF Next

-----------------------------------------------------------------------------
(* An import that is alone.                                                *)

(* A file holds the image of an import, all of it before a part.           *)
Holds(f, i, n) == f # None /\ \A p \in 1..Parts : p < n => data[f][p] = i

(* A converted file holds it with holes.                                   *)
HoldsLoosely(f, i) ==
  f # None /\ \A p \in 1..Parts : data[f][p] = i \/ (i \in Sparse /\ data[f][p] = Hole)

(* What the files hold at each place of an import that is alone.           *)
Record(i) ==
  /\ Running \subseteq {i}
  /\ pc[i] = "copy" => file[i] = temp /\ Holds(temp, i, at[i])
  /\ pc[i] \in {"check", "convert", "rename", "unsparse"} => Holds(temp, i, Parts + 1)
  /\ pc[i] \in {"convert", "unsparse"} => i \in Sparse
  /\ pc[i] = "rename" => i \notin Sparse
  /\ pc[i] = "unsparse" => in[i] = temp /\ file[i] = raw
  /\ pc[i] = "unsparse" => HoldsLoosely(raw, i)
  /\ pc[i] \in {"extract", "keep"} => Stuck(i) \/ HoldsLoosely(raw, i)
  /\ pc[i] = "discard" /\ ~failed[i] => HoldsLoosely(raw, i)
  /\ pc[i] \in {"apex", "finish"} => Stuck(i) \/ HoldsLoosely(kept[slot[i]], i)

AloneRecord == \A i \in alone : Record(i)

LEMMA InitAlone == Init => AloneRecord
  BY DEF Init, AloneRecord

LEMMA SameRecord ==
  ASSUME NEW i \in Imports, Record(i),
         UNCHANGED <<pc, slot, at, in, file, failed, fileVars>>
  PROVE  Record(i)'
  BY DEF Record, Holds, HoldsLoosely, Running, Stuck, fileVars

(* A step of the screen or of the service changes nothing of it.           *)
LEMMA UiAlone ==
  ASSUME TypeOK, AloneRecord,
         \/ OnCreate \/ OnServiceConnected \/ SelectGsi \/ ChooseGsi \/ Dismiss
         \/ OnDestroy \/ ServiceOnDestroy
         \/ \E s \in Slots : HandleStartClick(s)
  PROVE  AloneRecord'
<1>1. UNCHANGED <<pc, slot, at, in, file, failed, fileVars>> /\ alone' = alone
  BY DEF OnCreate, OnServiceConnected, SelectGsi, ChooseGsi, Dismiss, OnDestroy, ioVars,
         ServiceOnDestroy, HandleStartClick, historyVars
<1>2. alone \subseteq Imports
  BY DEF TypeOK
<1> QED BY <1>1, <1>2, SameRecord DEF AloneRecord

LEMMA DeathAlone ==
  ASSUME TypeOK, AloneRecord, ProcessDies
  PROVE  AloneRecord'
<1>1. pc' = [i \in Imports |-> IF i \in Running THEN "over" ELSE pc[i]] /\ alone' = alone
  BY DEF ProcessDies
<1>2. \A i \in Imports : pc'[i] \in {"new", "over"}
  BY <1>1 DEF Running
<1>3. Running' = {}
  BY <1>2 DEF Running
<1> QED BY <1>1, <1>2, <1>3 DEF AloneRecord, Record, TypeOK

(* An import that starts is alone when no other one runs; one that starts  *)
(* while others run ends their being alone.                                *)
LEMMA StartAlone ==
  ASSUME TypeOK, AloneRecord, NEW i \in Imports, HandleGsiSelected(i)
  PROVE  AloneRecord'
<1>1. /\ pc[i] = "new" /\ pc \in [Imports -> Places] /\ alone \subseteq Imports
      /\ slot \in [Imports -> Slots] /\ UNCHANGED <<ioVars, fileVars>>
  BY DEF HandleGsiSelected, TypeOK
<1>2. CASE connected /\ Running = {}
  <2>1. pc' = [pc EXCEPT ![i] = "prepare"] /\ alone' = {i}
    BY <1>2 DEF HandleGsiSelected
  <2>2. Running' \subseteq {i}
    BY <1>1, <1>2, <2>1 DEF Running
  <2> QED BY <1>1, <2>1, <2>2 DEF AloneRecord, Record
<1>3. CASE connected /\ Running # {}
  BY <1>3 DEF HandleGsiSelected, AloneRecord
<1>4. CASE ~connected
  <2>1. pc' = [pc EXCEPT ![i] = "over"] /\ alone' = alone /\ slot' = slot
    BY <1>4 DEF HandleGsiSelected
  <2>2. Running' = Running
    BY <1>1, <2>1 DEF Running
  <2>3. ASSUME NEW k \in alone PROVE Record(k)'
    <3>1. CASE k = i
      BY <1>1, <2>1, <2>2, <2>3, <3>1 DEF Record, AloneRecord
    <3>2. CASE k # i
      BY <1>1, <2>1, <2>2, <2>3, <3>2
      DEF Record, AloneRecord, Holds, HoldsLoosely, Stuck, ioVars, fileVars
    <3> QED BY <3>1, <3>2
  <2> QED BY <2>1, <2>3 DEF AloneRecord
<1> QED BY <1>2, <1>3, <1>4

(* What every step of an import does to the places.                        *)
LEMMA StepPlace ==
  ASSUME TypeOK, NEW i \in Imports, ImportStep(i)
  PROVE  /\ i \in Running /\ alone' = alone /\ slot' = slot
         /\ \A j \in Imports : j # i => pc'[j] = pc[j]
<1> USE DEF Stage, GoTo, Keeps, Running, Switches, Complete, historyVars
<1>0. pc \in [Imports -> Places]
  BY DEF TypeOK
<1>1. CASE Prepare(i) \/ OpenFails(i) \/ Open(i) \/ Copy(i) \/ Check(i) \/ Rename(i)
  BY <1>0, <1>1 DEF Prepare, OpenFails, Open, Copy, Check, Rename
<1>2. CASE ConvertFails(i) \/ Convert(i) \/ Unsparse(i) \/ UnsparseFails(i) \/ Discard(i)
  BY <1>0, <1>2 DEF ConvertFails, Convert, Unsparse, UnsparseFails, Discard
<1>3. CASE Extract(i) \/ Keep(i) \/ Overlay(i) \/ Throws(i) \/ Succeed(i) \/ Refuse(i)
           \/ Cancelled(i)
  BY <1>0, <1>3 DEF Extract, Keep, Overlay, Throws, Succeed, Refuse, Cancelled
<1> QED BY <1>1, <1>2, <1>3 DEF ImportStep

LEMMA StaysAlone ==
  ASSUME TypeOK, NEW i \in Imports, Record(i), ImportStep(i)
  PROVE  Running' \subseteq {i}
  BY StepPlace DEF Record, Running

(* The steps that lead to a place the record says nothing of.              *)
LEMMA QuietRecord ==
  ASSUME TypeOK, NEW i \in Imports, Record(i), ImportStep(i),
         \/ Prepare(i) \/ OpenFails(i) \/ ConvertFails(i) \/ UnsparseFails(i)
         \/ Throws(i) \/ Succeed(i) \/ Refuse(i) \/ Cancelled(i)
  PROVE  Record(i)'
<1>1. Running' \subseteq {i}
  BY StaysAlone
<1>2. \/ pc'[i] \in {"read", "refuse", "caught", "over"}
      \/ pc'[i] = "discard" /\ failed'[i] = TRUE
  BY DEF Prepare, OpenFails, ConvertFails, UnsparseFails, Throws, Succeed, Refuse,
         Complete, Cancelled, GoTo, TypeOK
<1> QED BY <1>1, <1>2 DEF Record

LEMMA OpenRecord ==
  ASSUME TypeOK, NEW i \in Imports, Record(i), ImportStep(i), Open(i)
  PROVE  Record(i)'
<1>1. Running' \subseteq {i}
  BY StaysAlone
<1>2. pc'[i] = "copy" /\ file'[i] = temp' /\ at'[i] = 1
  BY DEF Open, GoTo, TypeOK
<1>3. temp' # None
  BY GsiImportAssumption DEF Open, Opened
<1> QED BY <1>1, <1>2, <1>3 DEF Record, Holds

LEMMA CopyRecord ==
  ASSUME TypeOK, NEW i \in Imports, Record(i), ImportStep(i), Copy(i)
  PROVE  Record(i)'
<1>1. Running' \subseteq {i}
  BY StaysAlone
<1>2. /\ pc[i] = "copy" /\ file[i] = temp /\ temp' = temp /\ temp \in Files
      /\ at[i] \in 1..Parts /\ Holds(temp, i, at[i])
      /\ data' = [data EXCEPT ![temp][at[i]] = i] /\ data[temp] \in [1..Parts -> Imports \cup {Hole}]
  BY DEF Copy, Record, TypeOK, Holds
<1>3. \A p \in 1..Parts : p < at[i] + 1 => data'[temp][p] = i
  <2>1. data'[temp] = [data[temp] EXCEPT ![at[i]] = i]
    BY <1>2 DEF TypeOK
  <2>2. TAKE p \in 1..Parts
  <2>3. data'[temp][p] = IF p = at[i] THEN i ELSE data[temp][p]
    BY <1>2, <2>1
  <2>4. p < at[i] => data[temp][p] = i
    BY <1>2 DEF Holds
  <2>5. p < at[i] + 1 => p < at[i] \/ p = at[i]
    BY <1>2, GsiImportAssumption
  <2> QED BY <2>3, <2>4, <2>5
<1>4. CASE at[i] = Parts
  <2>1. pc'[i] = "check"
    BY <1>4 DEF Copy, GoTo, TypeOK
  <2> QED BY <1>1, <1>2, <1>3, <1>4, <2>1 DEF Record, Holds
<1>5. CASE at[i] # Parts
  <2>1. pc'[i] = "copy" /\ file'[i] = temp /\ at'[i] = at[i] + 1
    BY <1>2, <1>5 DEF Copy, GoTo, TypeOK
  <2> QED BY <1>1, <1>2, <1>3, <2>1 DEF Record, Holds
<1> QED BY <1>4, <1>5

LEMMA CheckRecord ==
  ASSUME TypeOK, NEW i \in Imports, Record(i), ImportStep(i), Check(i)
  PROVE  Record(i)'
<1>1. Running' \subseteq {i}
  BY StaysAlone
<1>2. Holds(temp, i, Parts + 1) /\ UNCHANGED fileVars
  BY DEF Check, Stage, Record
<1>3. LooksSparse <=> i \in Sparse
  BY <1>2, GsiImportAssumption DEF LooksSparse, Holds
<1>4. pc'[i] = IF i \in Sparse THEN "convert" ELSE "rename"
  BY <1>3 DEF Check, GoTo, TypeOK
<1> QED BY <1>1, <1>2, <1>4 DEF Record, Holds, fileVars

LEMMA RenameRecord ==
  ASSUME TypeOK, NEW i \in Imports, Record(i), ImportStep(i), Rename(i)
  PROVE  Record(i)'
<1>1. Running' \subseteq {i}
  BY StaysAlone
<1>2. Holds(temp, i, Parts + 1) /\ pc'[i] = "extract" /\ data' = data /\ i \notin Sparse
  BY DEF Rename, Record, GoTo, TypeOK
<1>3. CASE raw' = temp
  <2>1. HoldsLoosely(raw, i)'
    BY <1>2, <1>3, GsiImportAssumption DEF Holds, HoldsLoosely
  <2> QED BY <1>1, <1>2, <2>1 DEF Record
<1>4. CASE Stays(i, temp, "temp")
  <2>1. Stuck(i)'
    BY <1>2, <1>4 DEF Holds, Stays, Stuck
  <2> QED BY <1>1, <1>2, <2>1 DEF Record
<1> QED BY <1>3, <1>4 DEF Rename

(* The file that a conversion writes is not the one it reads.              *)
LEMMA ConvertRecord ==
  ASSUME TypeOK, FilesApart, NEW i \in Imports, Record(i), ImportStep(i), Convert(i)
  PROVE  Record(i)'
<1>1. Running' \subseteq {i}
  BY StaysAlone
<1>2. Holds(temp, i, Parts + 1) /\ i \in Sparse /\ temp \in Files
  BY DEF Convert, Stage, Record, TypeOK, Holds
<1>3. /\ pc'[i] = "unsparse" /\ in'[i] = temp /\ temp' = temp
      /\ file'[i] = raw' /\ raw' \in Files /\ raw' # None /\ data' = [data EXCEPT ![raw'] = Empty]
  BY GsiImportAssumption DEF Convert, GoTo, TypeOK, Opened, Files
<1>4. raw' # temp
  <2>1. <<i, "raw">> # temp
    BY GsiImportAssumption DEF FilesApart
  <2> QED BY <1>2, <2>1 DEF FilesApart, Convert, Opened, Holds
<1>5. data'[raw'] = Empty /\ data'[temp] = data[temp]
  BY <1>2, <1>3, <1>4 DEF TypeOK
<1>6. Holds(temp, i, Parts + 1)' /\ HoldsLoosely(raw, i)'
  BY <1>2, <1>3, <1>5 DEF Holds, HoldsLoosely, Empty
<1> QED BY <1>1, <1>2, <1>3, <1>6 DEF Record

LEMMA UnsparseRecord ==
  ASSUME TypeOK, FilesApart, NEW i \in Imports, Record(i), ImportStep(i), Unsparse(i)
  PROVE  Record(i)'
<1>1. Running' \subseteq {i}
  BY StaysAlone
<1>2. /\ in[i] = temp /\ file[i] = raw /\ temp # raw /\ temp \in Files /\ raw \in Files
      /\ Holds(temp, i, Parts + 1) /\ HoldsLoosely(raw, i) /\ i \in Sparse
      /\ at[i] \in 1..Parts
      /\ UNCHANGED <<temp, raw, in, file, failed>>
  BY DEF Unsparse, Record, FilesApart, TypeOK, Holds, HoldsLoosely
<1>3. data[temp][at[i]] = i /\ data[raw] \in [1..Parts -> Imports \cup {Hole}]
  BY <1>2, GsiImportAssumption DEF Holds, TypeOK
<1>4. Holds(temp, i, Parts + 1)' /\ HoldsLoosely(raw, i)'
  <2>1. CASE data' = data
    BY <1>2, <2>1 DEF Holds, HoldsLoosely
  <2>2. CASE data' = [data EXCEPT ![raw][at[i]] = i]
    <3>1. data'[temp] = data[temp] /\ data'[raw] = [data[raw] EXCEPT ![at[i]] = i]
      BY <1>2, <2>2 DEF TypeOK
    <3> QED BY <1>2, <1>3, <3>1 DEF Holds, HoldsLoosely
  <2> QED BY <1>2, <1>3, <2>1, <2>2 DEF Unsparse
<1>5. pc'[i] \in {"discard", "unsparse"}
  BY DEF Unsparse, GoTo, TypeOK
<1> QED BY <1>1, <1>2, <1>4, <1>5 DEF Record

LEMMA DiscardRecord ==
  ASSUME TypeOK, NEW i \in Imports, Record(i), ImportStep(i), Discard(i)
  PROVE  Record(i)'
<1>1. Running' \subseteq {i}
  BY StaysAlone
<1>2. pc'[i] = IF failed[i] THEN "refuse" ELSE "extract"
  BY DEF Discard, GoTo, TypeOK
<1>3. ~failed[i] => HoldsLoosely(raw, i)'
  BY DEF Discard, Record, HoldsLoosely
<1> QED BY <1>1, <1>2, <1>3 DEF Record, TypeOK

LEMMA ExtractRecord ==
  ASSUME TypeOK, NEW i \in Imports, Record(i), ImportStep(i), Extract(i)
  PROVE  Record(i)'
<1>1. Running' \subseteq {i}
  BY StaysAlone
<1>2. pc'[i] = "keep" /\ (Stuck(i)' \/ HoldsLoosely(raw, i)')
  BY DEF Extract, Stage, GoTo, TypeOK, Record, HoldsLoosely, Stuck
<1> QED BY <1>1, <1>2 DEF Record

LEMMA KeepRecord ==
  ASSUME TypeOK, NEW i \in Imports, Record(i), ImportStep(i), Keep(i)
  PROVE  Record(i)'
<1>1. Running' \subseteq {i}
  BY StaysAlone
<1>2. pc'[i] = "apex" /\ slot'[i] = slot[i] /\ data' = data /\ slot[i] \in Slots
      /\ (Stuck(i) \/ HoldsLoosely(raw, i))
  BY StepPlace DEF Keep, GoTo, TypeOK, Record
<1>3. CASE Stuck(i)
  <2>1. unmoved \subseteq unmoved'
    BY StaysType DEF Keep
  <2>2. Stuck(i)'
    BY <1>3, <2>1 DEF Stuck
  <2> QED BY <1>1, <1>2, <2>2 DEF Record
<1>4. CASE HoldsLoosely(raw, i) /\ kept' = [kept EXCEPT ![slot[i]] = raw]
  <2>1. kept'[slot[i]] = raw
    BY <1>2, <1>4 DEF TypeOK
  <2>2. HoldsLoosely(kept[slot[i]], i)'
    BY <1>2, <1>4, <2>1 DEF HoldsLoosely
  <2> QED BY <1>1, <1>2, <2>2 DEF Record
<1>5. CASE HoldsLoosely(raw, i) /\ Stays(i, raw, "raw")
  <2>1. Stuck(i)'
    BY <1>5 DEF HoldsLoosely, Stays, Stuck
  <2> QED BY <1>1, <1>2, <2>1 DEF Record
<1> QED BY <1>2, <1>3, <1>4, <1>5 DEF Keep

LEMMA OverlayRecord ==
  ASSUME TypeOK, NEW i \in Imports, Record(i), ImportStep(i), Overlay(i)
  PROVE  Record(i)'
<1>1. Running' \subseteq {i}
  BY StaysAlone
<1>2. pc'[i] = "finish" /\ slot' = slot /\ UNCHANGED fileVars
      /\ (Stuck(i) \/ HoldsLoosely(kept[slot[i]], i))
  BY StepPlace DEF Overlay, Stage, GoTo, TypeOK, Record
<1> QED BY <1>1, <1>2 DEF Record, HoldsLoosely, Stuck, fileVars

LEMMA NextAlone ==
  ASSUME TypeOK, FilesApart, AloneRecord, [Next]_vars
  PROVE  AloneRecord'
<1>1. CASE UNCHANGED vars
  BY <1>1, SameRecord DEF AloneRecord, TypeOK, vars, ioVars, historyVars
<1>2. ASSUME NEW j \in Imports, ImportStep(j) PROVE AloneRecord'
  <2>1. SUFFICES ASSUME NEW i \in alone PROVE Record(i)'
    BY <1>2, StepPlace DEF AloneRecord
  <2>2. i = j /\ Record(i)
    BY <1>2, <2>1, StepPlace DEF AloneRecord, Record
  <2> QED
    BY <1>2, <2>2, QuietRecord, OpenRecord, CopyRecord, CheckRecord, RenameRecord,
       ConvertRecord, UnsparseRecord, DiscardRecord, ExtractRecord, KeepRecord,
       OverlayRecord DEF ImportStep
<1> QED BY <1>1, <1>2, UiAlone, DeathAlone, StartAlone DEF Next

(* An import during which no other one ran has put its own image into its  *)
(* own slot when it is about to report success, unless the file system     *)
(* refused one of its moves.                                               *)
THEOREM AloneCorrect == Spec => []AloneIsFaithful
<1>1. Init => FilesApart /\ AloneRecord
  BY InitApart, InitAlone
<1>2. TypeOK /\ FilesApart /\ AloneRecord /\ [Next]_vars => (FilesApart /\ AloneRecord)'
  BY NextApart, NextAlone
<1>3. AloneRecord => AloneIsFaithful
  BY DEF AloneRecord, Record, HoldsLoosely, AloneIsFaithful, InPlace
<1> QED BY <1>1, <1>2, <1>3, TypeCorrect, PTL DEF Spec

-----------------------------------------------------------------------------
(* The button of the screen.                                               *)

(* Who owns imports is bound to a service that is not on its way out, and  *)
(* an import is not cancelled before it starts.                            *)
ScreenRecord ==
  /\ owned # {} => connected
  /\ connected => shown /\ service = "up"
  /\ \A i \in Imports : pc[i] = "new" => ~cancelled[i]

ButtonInv == ScreenRecord /\ DisabledHasImport

(* A step of an import leaves it running, or gives its answer to the       *)
(* screen, or finds it cancelled.                                          *)
LEMMA StepRuns ==
  ASSUME TypeOK, NEW i \in Imports, ImportStep(i)
  PROVE  /\ UNCHANGED <<shown, connected, lost, owned, service, cancelled>>
         /\ pc'[i] # "new"
         /\ \/ pc'[i] # "over" /\ enabled' = enabled
            \/ cancelled[i] /\ enabled' = enabled
            \/ enabled' = (enabled \/ i \in owned)
<1> USE DEF Stage, GoTo, Keeps, Switches, Complete, uiVars
<1>0. pc \in [Imports -> Places]
  BY DEF TypeOK
<1>1. CASE Prepare(i) \/ OpenFails(i) \/ Open(i) \/ Copy(i) \/ Check(i) \/ Rename(i)
  BY <1>0, <1>1 DEF Prepare, OpenFails, Open, Copy, Check, Rename
<1>2. CASE ConvertFails(i) \/ Convert(i) \/ Unsparse(i) \/ UnsparseFails(i) \/ Discard(i)
  BY <1>0, <1>2 DEF ConvertFails, Convert, Unsparse, UnsparseFails, Discard
<1>3. CASE Extract(i) \/ Keep(i) \/ Overlay(i) \/ Throws(i) \/ Succeed(i) \/ Refuse(i)
           \/ Cancelled(i)
  BY <1>0, <1>3 DEF Extract, Keep, Overlay, Throws, Succeed, Refuse, Cancelled
<1> QED BY <1>1, <1>2, <1>3 DEF ImportStep

LEMMA ImportButton ==
  ASSUME TypeOK, ButtonInv, NEW i \in Imports, ImportStep(i)
  PROVE  ButtonInv'
<1>1. ScreenRecord'
  BY StepRuns, StepPlace DEF ButtonInv, ScreenRecord
<1>2. ASSUME shown', ~enabled', ~lost' PROVE DisabledHasImport'
  <2>1. shown /\ ~enabled /\ ~lost
    BY <1>2, StepRuns DEF TypeOK
  <2>2. PICK j \in owned : j \in Running /\ ~cancelled[j]
    BY <2>1 DEF ButtonInv, DisabledHasImport
  <2>3. CASE j = i
    <3>1. pc'[i] # "over" /\ pc'[i] # "new"
      BY <1>2, <2>2, <2>3, StepRuns
    <3> QED
      BY <2>2, <2>3, <3>1, StepRuns DEF DisabledHasImport, Running
  <2>4. CASE j # i
    BY <2>2, <2>4, StepRuns, StepPlace DEF DisabledHasImport, Running
  <2> QED BY <2>3, <2>4
<1> QED BY <1>1, <1>2 DEF ButtonInv, DisabledHasImport

(* The steps of the screen and of the service.                             *)
LEMMA UiButton ==
  ASSUME TypeOK, ButtonInv,
         \/ OnCreate \/ OnServiceConnected \/ SelectGsi \/ ChooseGsi \/ Dismiss
         \/ OnDestroy \/ ServiceOnDestroy \/ ProcessDies
         \/ \E s \in Slots : HandleStartClick(s)
         \/ \E i \in Imports : HandleGsiSelected(i)
  PROVE  ButtonInv'
<1> USE DEF ButtonInv, ScreenRecord, DisabledHasImport, Running
<1>1. CASE OnCreate \/ OnServiceConnected \/ OnDestroy
  BY <1>1 DEF OnCreate, OnServiceConnected, OnDestroy, ScreenGoes
<1>2. CASE SelectGsi \/ ChooseGsi \/ Dismiss \/ \E s \in Slots : HandleStartClick(s)
  BY <1>2 DEF SelectGsi, ChooseGsi, Dismiss, HandleStartClick
<1>3. CASE ServiceOnDestroy
  <2>1. service = "doomed" /\ owned = {} /\ ~connected
    BY <1>3 DEF ServiceOnDestroy
  <2>2. UNCHANGED <<uiVars, pc>> /\ service' = "down"
    BY <1>3 DEF ServiceOnDestroy
  <2>3. \A i \in Imports : pc[i] = "new" => ~cancelled'[i]
    BY <1>3 DEF ServiceOnDestroy
  <2> QED BY <2>1, <2>2, <2>3 DEF uiVars
<1>4. CASE ProcessDies
  BY <1>4 DEF ProcessDies, ScreenGoes
<1>5. ASSUME NEW i \in Imports, HandleGsiSelected(i) PROVE ButtonInv'
  <2>1. /\ pc \in [Imports -> Places] /\ owned \subseteq Imports
        /\ pc[i] = "new" /\ ~cancelled[i] /\ UNCHANGED <<shown, connected, service, cancelled>>
    BY <1>5 DEF HandleGsiSelected, TypeOK
  <2>2. CASE connected
    <3>1. /\ pc' = [pc EXCEPT ![i] = "prepare"] /\ owned' = owned \cup {i}
      BY <1>5, <2>2 DEF HandleGsiSelected
    <3> QED BY <2>1, <2>2, <3>1
  <2>3. CASE ~connected
    BY <1>5, <2>1, <2>3 DEF HandleGsiSelected
  <2> QED BY <2>2, <2>3
<1> QED BY <1>1, <1>2, <1>3, <1>4, <1>5

(* A disabled button is enabled again: an import whose callback reaches    *)
(* this screen runs, and its service is not on its way out.                *)
THEOREM ButtonCorrect == Spec => []DisabledHasImport
<1>1. Init => ButtonInv
  BY DEF Init, ButtonInv, ScreenRecord, DisabledHasImport
<1>2. TypeOK /\ ButtonInv /\ [Next]_vars => ButtonInv'
  <2> SUFFICES ASSUME TypeOK, ButtonInv, [Next]_vars PROVE ButtonInv'
    OBVIOUS
  <2>1. CASE UNCHANGED vars
    BY <2>1 DEF ButtonInv, ScreenRecord, DisabledHasImport, Running, vars, uiVars
  <2> QED BY <2>1, UiButton, ImportButton DEF Next
<1>3. ButtonInv => DisabledHasImport
  BY DEF ButtonInv
<1> QED BY <1>1, <1>2, <1>3, TypeCorrect, PTL DEF Spec

-----------------------------------------------------------------------------
(* The copy of the source.                                                 *)

(* The places from which an import comes to the rename or the removal.     *)
HasCopy == {"copy", "check", "rename", "convert", "unsparse", "discard"}

CopyHasImport ==
  temp # None /\ ~broken =>
    \/ \E i \in Imports : pc[i] \in HasCopy
    \/ \E i \in Imports : <<i, "temp">> \in unmoved

(* A step of an import takes it on to where it removes the copy, or it has *)
(* just done so.                                                           *)
LEMMA ImportCopy ==
  ASSUME TypeOK, CopyHasImport, NEW i \in Imports, ImportStep(i)
  PROVE  CopyHasImport'
<1> USE DEF Stage, GoTo, Keeps, Complete, CopyHasImport, HasCopy, fileVars, historyVars
<1>0. pc \in [Imports -> Places]
  BY DEF TypeOK
<1>5. unmoved \subseteq unmoved'
  <2>1. CASE Rename(i) \/ Keep(i) \/ Discard(i)
    BY <2>1, StaysType DEF Rename, Keep, Discard
  <2>2. CASE unmoved' = unmoved
    BY <2>2
  <2> QED BY <2>1, <2>2 DEF ImportStep, Prepare, OpenFails, Open, Copy, Check, ConvertFails, Convert,
             Unsparse, UnsparseFails, Extract, Overlay, Throws, Succeed, Refuse, Cancelled
<1>1. CASE Prepare(i) \/ OpenFails(i) \/ Extract(i) \/ Keep(i) \/ Overlay(i) \/ Succeed(i)
           \/ Refuse(i)
  <2>1. temp' = temp /\ pc[i] \notin HasCopy
    BY <1>1 DEF Prepare, OpenFails, Extract, Keep, Overlay, Succeed, Refuse
  <2>2. broken => broken'
    BY <1>1, Zenon DEF Prepare, OpenFails, Extract, Keep, Overlay, Succeed, Refuse
  <2>3. \A j \in Imports : j # i => pc'[j] = pc[j]
    BY StepPlace
  <2> QED BY <1>5, <2>1, <2>2, <2>3
<1>2. CASE Open(i) \/ Copy(i) \/ Check(i) \/ ConvertFails(i) \/ Convert(i) \/ Unsparse(i)
           \/ UnsparseFails(i)
  <2>1. pc'[i] \in HasCopy
    BY <1>0, <1>2 DEF Open, Copy, Check, ConvertFails, Convert, Unsparse, UnsparseFails
  <2> QED BY <2>1
<1>3. CASE Rename(i) \/ Discard(i)
  <2>1. temp' = None \/ (temp' = temp /\ Stays(i, temp, "temp"))
    BY <1>3 DEF Rename, Discard
  <2>2. temp # None /\ Stays(i, temp, "temp") => <<i, "temp">> \in unmoved'
    BY DEF Stays
  <2> QED BY <2>1, <2>2
<1>4. CASE Throws(i) \/ Cancelled(i)
  BY <1>4 DEF Throws, Cancelled
<1> QED BY <1>1, <1>2, <1>3, <1>4 DEF ImportStep

LEMMA UiCopy ==
  ASSUME TypeOK, CopyHasImport,
         \/ OnCreate \/ OnServiceConnected \/ SelectGsi \/ ChooseGsi \/ Dismiss
         \/ OnDestroy \/ ServiceOnDestroy \/ ProcessDies
         \/ \E s \in Slots : HandleStartClick(s)
         \/ \E i \in Imports : HandleGsiSelected(i)
  PROVE  CopyHasImport'
<1> USE DEF CopyHasImport, fileVars, historyVars
<1>1. CASE ProcessDies
  BY <1>1 DEF ProcessDies, Running, HasCopy
<1>2. CASE \E i \in Imports : HandleGsiSelected(i)
  <2>1. UNCHANGED <<temp, unmoved, broken>> /\ \A j \in Imports : pc[j] \in HasCopy => pc'[j] = pc[j]
    BY <1>2 DEF HandleGsiSelected, HasCopy, TypeOK
  <2> QED BY <2>1
<1>3. CASE UNCHANGED <<pc, temp, unmoved, broken>>
  BY <1>3
<1> QED
  BY <1>1, <1>2, <1>3 DEF OnCreate, OnServiceConnected, SelectGsi, ChooseGsi, Dismiss,
     OnDestroy, ServiceOnDestroy, HandleStartClick

(* Unless something was cut short or the file system refused it, the copy  *)
(* of the source is gone when no import runs: while there is one, an       *)
(* import is on its way to remove it, whichever import wrote it.           *)
THEOREM CopyCorrect == Spec => []CopyIsRemoved
<1>1. Init => CopyHasImport
  BY DEF Init, CopyHasImport
<1>2. TypeOK /\ CopyHasImport /\ [Next]_vars => CopyHasImport'
  <2> SUFFICES ASSUME TypeOK, CopyHasImport, [Next]_vars PROVE CopyHasImport'
    OBVIOUS
  <2>1. CASE UNCHANGED vars
    BY <2>1 DEF CopyHasImport, vars, fileVars, historyVars
  <2> QED BY <2>1, UiCopy, ImportCopy DEF Next
<1>3. CopyHasImport => CopyIsRemoved
  BY DEF CopyHasImport, CopyIsRemoved, HasCopy, Running
<1> QED BY <1>1, <1>2, <1>3, TypeCorrect, PTL DEF Spec

-----------------------------------------------------------------------------
(* A set of natural numbers has a least one.                               *)
LEMMA Least ==
  ASSUME NEW T, T \subseteq Nat, T # {}
  PROVE  \E n \in T : \A m \in T : n <= m
<1> DEFINE R == {ss \in Nat \X Nat : ss[1] < ss[2]}
<1>1. R = OpToRel(<, Nat)  BY Zenon DEF OpToRel
<1>2. IsWellFoundedOn(R, Nat)  BY <1>1, NatLessThanWellFounded, Zenon
<1>3. \E n \in T : \A m \in T : ~(<<m, n>> \in R)
  <2> HIDE DEF R
  <2> QED BY <1>2, WFMin
<1>4. PICK n \in T : \A m \in T : ~(<<m, n>> \in R)  BY <1>3
<1>5. ASSUME NEW m \in T PROVE n <= m
  <2>1. <<m, n>> \notin R BY <1>4
  <2> QED BY <2>1
<1> QED BY <1>5

(* What is put at the end of a sequence, and taken from it.                *)
LEMMA Pushing ==
  ASSUME NEW S, NEW s \in Seq(S), NEW e \in S
  PROVE  /\ Append(s, e) \in Seq(S) /\ Len(Append(s, e)) = Len(s) + 1 /\ Len(s) \in Nat
         /\ Append(s, e)[Len(s) + 1] = e /\ \A i \in 1..Len(s) : Append(s, e)[i] = s[i]
         /\ Last(Append(s, e)) = e /\ Front(Append(s, e)) = s
<1>1. /\ Append(s, e) \in Seq(S) /\ Len(Append(s, e)) = Len(s) + 1
      /\ Append(s, e)[Len(s) + 1] = e /\ Len(s) \in Nat
      /\ \A i \in 1..Len(s) : Append(s, e)[i] = s[i]
  BY AppendProperties
<1>2. Front(Append(s, e)) = s
  BY <1>1, SubSeqProperties, SeqEqual DEF Front
<1> QED BY <1>1, <1>2 DEF Last

LEMMA Cutting ==
  ASSUME NEW S, NEW s \in Seq(S), NEW n \in 0..Len(s)
  PROVE  /\ SubSeq(s, 1, n) \in Seq(S) /\ Len(SubSeq(s, 1, n)) = n
         /\ \A i \in 1..n : SubSeq(s, 1, n)[i] = s[i]
<1>1. Len(s) \in Nat  BY LenProperties
<1>2. \A i \in 1..n : s[i] \in S  BY <1>1, ElementOfSeq
<1>3. n = 0 => 1 > n  OBVIOUS
<1> QED BY <1>1, <1>2, <1>3, SubSeqProperties

LEMMA Popping ==
  ASSUME NEW S, NEW s \in Seq(S), s # <<>>
  PROVE  /\ Len(s) \in Nat \ {0} /\ Front(s) \in Seq(S) /\ Len(Front(s)) = Len(s) - 1
         /\ Last(s) \in S /\ Last(s) = s[Len(s)]
         /\ \A i \in 1..(Len(s) - 1) : Front(s)[i] = s[i]
<1>1. Len(s) \in Nat \ {0}  BY EmptySeq, LenProperties
<1>2. Len(s) - 1 \in 0..Len(s) /\ Len(s) \in 1..Len(s)  BY <1>1
<1>3. s[Len(s)] \in S  BY <1>2, ElementOfSeq
<1> QED BY <1>1, <1>2, <1>3, Cutting DEF Front, Last

(* Two sequences are the same if they have the same length and elements.   *)
LEMMA Same ==
  ASSUME NEW S, NEW s \in Seq(S), NEW t \in Seq(S), Len(s) = Len(t),
         \A i \in 1..Len(s) : s[i] = t[i]
  PROVE  s = t
BY SeqEqual

-----------------------------------------------------------------------------
(* Paths, and what they lead to.                                           *)

LEMMA PathIs ==
  ASSUME NEW p
  PROVE  p \in Paths <=> p \in Seq(Names) /\ Len(p) <= MaxDirDepth + 1
<1>1. MaxDirDepth \in Nat  BY Ext4ExtractorAssumption
<1>2. ASSUME p \in Paths PROVE p \in Seq(Names) /\ Len(p) <= MaxDirDepth + 1
  <2>1. PICK n \in 0..(MaxDirDepth + 1) : p \in [1..n -> Names]  BY <1>2 DEF Paths
  <2>2. n \in Nat /\ n <= MaxDirDepth + 1  BY <1>1, <2>1
  <2>3. p \in Seq(Names)  BY <2>1, <2>2
  <2>4. Len(p) = n  BY <2>1, <2>2, <2>3
  <2> QED BY <2>2, <2>3, <2>4
<1>3. ASSUME p \in Seq(Names), Len(p) <= MaxDirDepth + 1 PROVE p \in Paths
  <2>1. Len(p) \in Nat /\ p \in [1..Len(p) -> Names]  BY <1>3, LenProperties
  <2>2. Len(p) \in 0..(MaxDirDepth + 1)  BY <1>1, <1>3, <2>1
  <2> QED BY <2>1, <2>2 DEF Paths
<1> QED BY <1>2, <1>3

LEMMA PathParts ==
  ASSUME NEW p \in Paths
  PROVE  /\ p \in Seq(Names) /\ Len(p) \in Nat /\ Len(p) <= MaxDirDepth + 1
         /\ Len(p) = 0 <=> p = <<>>
         /\ p # <<>> => /\ Len(p) \in Nat \ {0} /\ Front(p) \in Paths /\ Last(p) \in Names
                        /\ Last(p) = p[Len(p)] /\ Len(Front(p)) = Len(p) - 1
         /\ \A n \in 1..Len(p) : p[n] \in Names
<1>1. p \in Seq(Names) /\ Len(p) \in Nat /\ Len(p) <= MaxDirDepth + 1  BY PathIs, LenProperties
<1>2. Len(p) = 0 <=> p = <<>>  BY <1>1, EmptySeq
<1>3. ASSUME p # <<>>
      PROVE  /\ Len(p) \in Nat \ {0} /\ Front(p) \in Paths /\ Last(p) \in Names
             /\ Last(p) = p[Len(p)] /\ Len(Front(p)) = Len(p) - 1
  <2>1. /\ Len(p) \in Nat \ {0} /\ Front(p) \in Seq(Names) /\ Last(p) \in Names
        /\ Last(p) = p[Len(p)] /\ Len(Front(p)) = Len(p) - 1
    BY <1>1, <1>3, Popping
  <2>2. MaxDirDepth \in Nat  BY Ext4ExtractorAssumption
  <2>3. Len(Front(p)) <= MaxDirDepth + 1  BY <1>1, <2>1, <2>2
  <2> QED BY <2>1, <2>3, PathIs
<1>4. \A n \in 1..Len(p) : p[n] \in Names  BY <1>1, ElementOfSeq
<1> QED BY <1>1, <1>2, <1>3, <1>4

LEMMA InodeIs ==
  ASSUME image \in Images
  PROVE  \A n \in Inodes :
           /\ image[n].readable \in BOOLEAN /\ image[n].kind \in {"dir", "link", "file", "other"}
           /\ n = Root \/ image[n].kind = "dir" =>
                /\ image[n].dataRead \in BOOLEAN /\ image[n].entries \in Seq(Inodes \cup {Skipped, Bad})
                /\ Len(image[n].entries) <= MaxEntries
           /\ image[n].kind \in {"link", "file"} => IsFile(image[n].file)
BY ImagesAssumption

Named == Inodes \cup {Skipped, Bad}

(* The inode a path leads to, if that is known of the shorter ones.        *)
Below(f, p) ==
  IF p = <<>> THEN Root
  ELSE LET dir == f[Front(p)] IN
       IF dir \in Inodes /\ (Len(p) = 1 \/ image[dir].kind = "dir") /\ Last(p) \in Listed(dir)
       THEN image[dir].entries[Last(p)] ELSE Skipped

LEMMA ListedNames ==
  ASSUME image \in Images, NEW dir \in Inodes, dir = Root \/ image[dir].kind = "dir",
         NEW k \in Listed(dir)
  PROVE  /\ k \in Nat \ {0} /\ k \in 1..Len(image[dir].entries)
         /\ image[dir].readable /\ image[dir].dataRead
         /\ image[dir].entries[k] \in Inodes \cup {Skipped}
         /\ \A j \in 1..k : image[dir].entries[j] # Bad
<1>1. /\ k \in 1..Len(image[dir].entries) /\ image[dir].readable /\ image[dir].dataRead
      /\ \A j \in 1..k : image[dir].entries[j] # Bad
  BY DEF Listed
<1>2. image[dir].entries \in Seq(Named)  BY InodeIs DEF Named
<1>3. image[dir].entries[k] \in Named  BY <1>1, <1>2, ElementOfSeq
<1>4. k \in Nat \ {0}  BY <1>1, <1>2, LenProperties
<1>5. k \in 1..k  BY <1>4
<1> QED BY <1>1, <1>3, <1>4, <1>5 DEF Named

LEMMA BelowIs ==
  ASSUME image \in Images, NEW f, NEW p \in Paths,
         p # <<>> => f[Front(p)] \in Named /\ (Len(p) = 1 => f[Front(p)] = Root)
  PROVE  Below(f, p) \in Named
<1>1. Root \in Named /\ Skipped \in Named  BY Ext4ExtractorAssumption DEF Named
<1>2. ASSUME p # <<>>, NEW dir \in Inodes, dir = f[Front(p)], Len(p) = 1 \/ image[dir].kind = "dir",
             Last(p) \in Listed(dir)
      PROVE  image[dir].entries[Last(p)] \in Named
  BY <1>2, ListedNames DEF Named
<1> QED BY <1>1, <1>2 DEF Below

(* The paths of up to n names can be told what they lead to.               *)
LEMMA LookupExists ==
  ASSUME image \in Images
  PROVE  \E f \in [Paths -> Named] : \A p \in Paths : f[p] = Below(f, p)
<1> DEFINE Short(n) == {p \in Paths : Len(p) <= n}
           Good(n, f) == f \in [Short(n) -> Named] /\ \A p \in Short(n) : f[p] = Below(f, p)
           T == {n \in Nat : ~\E f : Good(n, f)}
<1>1. T = {}
  <2>1. SUFFICES ASSUME T # {} PROVE FALSE  OBVIOUS
  <2>2. PICK n \in T : \A m \in T : n <= m
    <3>1. T \subseteq Nat  OBVIOUS
    <3> HIDE DEF T
    <3> QED BY <2>1, <3>1, Least
  <2>3. n \in Nat /\ ~\E f : Good(n, f)  OBVIOUS
  <2>4. CASE n = 0
    <3> DEFINE f == [p \in Short(0) |-> Root]
    <3>1. \A p \in Short(0) : p = <<>>  BY PathParts
    <3>2. \A p \in Short(0) : f[p] = Below(f, p)  BY <3>1 DEF Below
    <3>3. f \in [Short(0) -> Named]  BY Ext4ExtractorAssumption DEF Named
    <3>4. Good(0, f)  BY <3>2, <3>3
    <3> HIDE DEF Good, f
    <3> QED BY <2>3, <2>4, <3>4
  <2>5. CASE n # 0
    <3>1. n - 1 \in Nat /\ ~(n <= n - 1)  BY <2>3, <2>5
    <3>2. n - 1 \notin T  BY <2>2, <3>1
    <3>3. PICK g : Good(n - 1, g)  BY <3>1, <3>2
    <3> DEFINE f == [p \in Short(n) |-> IF Len(p) <= n - 1 THEN g[p] ELSE Below(g, p)]
    <3>4. \A p \in Short(n) : /\ p \in Paths /\ Len(p) \in Nat /\ (Len(p) <= n - 1 => p \in Short(n - 1))
                              /\ p # <<>> => Front(p) \in Short(n - 1) /\ Front(p) \in Short(n)
                                             /\ Len(Front(p)) <= n - 1
      BY <2>3, <3>1, PathParts
    <3>5. \A p \in Short(n) : p # <<>> => f[Front(p)] = g[Front(p)]
      <4> HIDE DEF Short
      <4> QED BY <3>4
    <3>6. \A p \in Short(n) : Below(f, p) = Below(g, p)
      <4> HIDE DEF f, Short
      <4> QED BY <3>5 DEF Below
    <3>7. \A p \in Short(n) : f[p] = Below(f, p)
      <4>1. ASSUME NEW p \in Short(n) PROVE f[p] = Below(g, p)
        <5>1. CASE Len(p) <= n - 1
          <6>1. p \in Short(n - 1)  BY <3>4, <5>1
          <6>2. g[p] = Below(g, p)  BY <3>3, <6>1
          <6> QED BY <5>1, <6>2
        <5>2. CASE ~(Len(p) <= n - 1)  BY <5>2
        <5> QED BY <5>1, <5>2
      <4> HIDE DEF f, Short
      <4> QED BY <3>6, <4>1
    <3>8. \A p \in Short(n) : f[p] \in Named
      <4>1. ASSUME NEW p \in Short(n) PROVE Below(g, p) \in Named
        <5>1. ASSUME p # <<>> PROVE g[Front(p)] \in Named /\ (Len(p) = 1 => g[Front(p)] = Root)
          <6>1. Front(p) \in Short(n - 1)  BY <3>4, <5>1
          <6>2. g[Front(p)] \in Named /\ g[Front(p)] = Below(g, Front(p))  BY <3>3, <6>1
          <6>3. Len(p) = 1 => Front(p) = <<>>  BY <3>4, <5>1, PathParts
          <6> QED BY <6>2, <6>3 DEF Below
        <5> QED BY <3>4, <5>1, BelowIs
      <4> HIDE DEF f, Short
      <4> QED BY <3>6, <3>7, <4>1
    <3>9. Good(n, f)
      <4>1. f = [p \in Short(n) |-> f[p]]  OBVIOUS
      <4> HIDE DEF f, Short
      <4> QED BY <3>7, <3>8, <4>1
    <3> HIDE DEF Good, f
    <3> QED BY <2>3, <3>9
  <2> QED BY <2>4, <2>5
<1>2. MaxDirDepth + 1 \in Nat  BY Ext4ExtractorAssumption
<1>3. MaxDirDepth + 1 \notin T  BY <1>1
<1>4. PICK f : Good(MaxDirDepth + 1, f)  BY <1>2, <1>3
<1>5. Short(MaxDirDepth + 1) = Paths  BY PathParts
<1> QED BY <1>4, <1>5

LEMMA LookupIs ==
  ASSUME image \in Images
  PROVE  Lookup \in [Paths -> Named] /\ \A p \in Paths : Lookup[p] = Below(Lookup, p)
<1> DEFINE D(f) == [p \in Paths |->
             IF p = <<>> THEN Root
             ELSE LET dir == f[Front(p)] IN
                  IF dir \in Inodes /\ (Len(p) = 1 \/ image[dir].kind = "dir") /\ Last(p) \in Listed(dir)
                  THEN image[dir].entries[Last(p)] ELSE Skipped]
<1>1. \A f : D(f) = [p \in Paths |-> Below(f, p)]  BY DEF Below
<1>2. Lookup = CHOOSE f : f = D(f)  BY DEF Lookup
<1> HIDE DEF D
<1>3. PICK f \in [Paths -> Named] : \A p \in Paths : f[p] = Below(f, p)  BY LookupExists
<1>4. f = [p \in Paths |-> Below(f, p)]  BY <1>3
<1>5. \E g : g = D(g)  BY <1>1, <1>4
<1>6. Lookup = D(Lookup)  BY <1>2, <1>5
<1>7. Lookup = [p \in Paths |-> Below(Lookup, p)]  BY <1>1, <1>6
<1> DEFINE L == Lookup
<1>8. L = [p \in Paths |-> Below(L, p)]  BY <1>7
<1> HIDE DEF L
<1>9. \A p \in Paths : L[p] = Below(L, p)  BY <1>8
<1>10. \A p \in Paths : L[p] \in Named
  <2> DEFINE T == {n \in Nat : \E p \in Paths : Len(p) = n /\ L[p] \notin Named}
  <2>1. SUFFICES ASSUME T # {} PROVE FALSE  BY PathParts
  <2>2. PICK n \in T : \A m \in T : n <= m
    <3>1. T \subseteq Nat  OBVIOUS
    <3> HIDE DEF T
    <3> QED BY <2>1, <3>1, Least
  <2>3. PICK p \in Paths : Len(p) = n /\ L[p] \notin Named  BY <2>2
  <2>4. ASSUME p # <<>> PROVE L[Front(p)] \in Named /\ (Len(p) = 1 => L[Front(p)] = Root)
    <3>1. Front(p) \in Paths /\ Len(Front(p)) = n - 1 /\ n - 1 \in Nat /\ ~(n <= n - 1)
      BY <2>3, <2>4, PathParts
    <3>2. L[Front(p)] \in Named  BY <2>2, <3>1
    <3>3. Len(p) = 1 => Front(p) = <<>>  BY <2>3, <3>1, PathParts
    <3> QED BY <1>9, <3>1, <3>2, <3>3 DEF Below
  <2>5. Below(L, p) \in Named  BY <2>4, BelowIs
  <2> QED BY <1>9, <2>3, <2>5
<1> QED BY <1>8, <1>9, <1>10 DEF L


LEMMA LastStep ==
  ASSUME image \in Images, NEW p \in Paths, p # <<>>, Lookup[p] \in Inodes
  PROVE  /\ Lookup[Front(p)] \in Inodes
         /\ Len(p) = 1 \/ image[Lookup[Front(p)]].kind = "dir"
         /\ Last(p) \in Listed(Lookup[Front(p)])
         /\ Lookup[p] = image[Lookup[Front(p)]].entries[Last(p)]
<1>1. Lookup[p] = Below(Lookup, p)  BY LookupIs
<1>2. Skipped \notin Inodes  BY Ext4ExtractorAssumption
<1> QED BY <1>1, <1>2 DEF Below

LEMMA Deeper ==
  ASSUME image \in Images, NEW p \in Paths, p # <<>>, NEW d \in Inodes, d = Lookup[Front(p)],
         Len(p) = 1 \/ image[d].kind = "dir", Last(p) \in Listed(d)
  PROVE  Lookup[p] = image[d].entries[Last(p)]
<1>1. Lookup[p] = Below(Lookup, p)  BY LookupIs
<1> QED BY <1>1 DEF Below

LEMMA RootIs ==
  ASSUME image \in Images
  PROVE  <<>> \in Paths /\ Lookup[<<>>] = Root /\ Root \in Inodes
<1>1. <<>> \in Seq(Names) /\ Len(<<>>) = 0  BY EmptySeq
<1>4. 0 <= MaxDirDepth + 1  BY Ext4ExtractorAssumption
<1>2. <<>> \in Paths
  <2> DEFINE p == <<>>
  <2>1. p \in Seq(Names) /\ Len(p) <= MaxDirDepth + 1  BY <1>1, <1>4
  <2> HIDE DEF p
  <2>2. p \in Paths  BY <2>1, PathIs
  <2> QED BY <2>2 DEF p
<1>3. Lookup[<<>>] = Below(Lookup, <<>>)  BY <1>2, LookupIs
<1> QED BY <1>2, <1>3, Ext4ExtractorAssumption DEF Below

(* The beginnings of a path.                                               *)
LEMMA Beginnings ==
  ASSUME NEW p \in Paths, NEW n \in 0..Len(p)
  PROVE  /\ SubSeq(p, 1, n) \in Paths /\ Len(SubSeq(p, 1, n)) = n
         /\ \A i \in 1..n : SubSeq(p, 1, n)[i] = p[i]
         /\ n > 0 => Front(SubSeq(p, 1, n)) = SubSeq(p, 1, n - 1) /\ Last(SubSeq(p, 1, n)) = p[n]
         /\ n = Len(p) => SubSeq(p, 1, n) = p
<1>1. p \in Seq(Names) /\ Len(p) \in Nat /\ Len(p) <= MaxDirDepth + 1  BY PathParts
<1>2. n \in Nat /\ n <= Len(p)  BY <1>1
<1> DEFINE q == SubSeq(p, 1, n)
<1>3. q \in Seq(Names) /\ Len(q) = n /\ \A i \in 1..n : q[i] = p[i]  BY <1>1, Cutting
<1>4. q \in Paths
  <2>1. Len(q) <= MaxDirDepth + 1  BY <1>1, <1>2, <1>3, Ext4ExtractorAssumption
  <2> QED BY <1>3, <2>1, PathIs
<1>5. ASSUME n > 0 PROVE Front(q) = SubSeq(p, 1, n - 1) /\ Last(q) = p[n]
  <2> HIDE DEF q
  <2>1. n - 1 \in 0..Len(q) /\ n - 1 \in 0..Len(p) /\ n \in 1..n  BY <1>1, <1>2, <1>3, <1>5
  <2>2. SubSeq(q, 1, n - 1) \in Seq(Names) /\ Len(SubSeq(q, 1, n - 1)) = n - 1
        /\ \A i \in 1..(n - 1) : SubSeq(q, 1, n - 1)[i] = q[i]
    BY <1>3, <2>1, Cutting
  <2>3. SubSeq(p, 1, n - 1) \in Seq(Names) /\ Len(SubSeq(p, 1, n - 1)) = n - 1
        /\ \A i \in 1..(n - 1) : SubSeq(p, 1, n - 1)[i] = p[i]
    BY <1>1, <2>1, Cutting
  <2>4. \A i \in 1..(n - 1) : q[i] = p[i]  BY <1>2, <1>3
  <2>5. SubSeq(q, 1, n - 1) = SubSeq(p, 1, n - 1)  BY <2>2, <2>3, <2>4, Same
  <2> QED BY <1>3, <2>1, <2>5 DEF Front, Last
<1>6. ASSUME n = Len(p) PROVE q = p
  <2> HIDE DEF q
  <2> QED BY <1>1, <1>3, <1>6, Same
<1> QED BY <1>3, <1>4, <1>5, <1>6

(* Whatever can be found is found through directories that list it.        *)
LEMMA Ways ==
  ASSUME image \in Images, NEW p \in Paths, Lookup[p] \in Inodes
  PROVE  /\ \A n \in 0..Len(p) : Lookup[SubSeq(p, 1, n)] \in Inodes
         /\ \A n \in 1..Len(p) :
              LET d == Lookup[SubSeq(p, 1, n - 1)] IN
              /\ d \in Inodes /\ (n = 1 \/ image[d].kind = "dir") /\ p[n] \in Listed(d)
              /\ Lookup[SubSeq(p, 1, n)] = image[d].entries[p[n]]
<1>1. p \in Seq(Names) /\ Len(p) \in Nat  BY PathParts
<1>2. \A n \in 1..Len(p) : Lookup[SubSeq(p, 1, n)] \in Inodes =>
              LET d == Lookup[SubSeq(p, 1, n - 1)] IN
              /\ d \in Inodes /\ (n = 1 \/ image[d].kind = "dir") /\ p[n] \in Listed(d)
              /\ Lookup[SubSeq(p, 1, n)] = image[d].entries[p[n]]
  <2> SUFFICES ASSUME NEW n \in 1..Len(p), Lookup[SubSeq(p, 1, n)] \in Inodes
               PROVE  LET d == Lookup[SubSeq(p, 1, n - 1)] IN
                      /\ d \in Inodes /\ (n = 1 \/ image[d].kind = "dir") /\ p[n] \in Listed(d)
                      /\ Lookup[SubSeq(p, 1, n)] = image[d].entries[p[n]]
    OBVIOUS
  <2>1. n \in 0..Len(p) /\ n > 0  BY <1>1
  <2>2. PICK q \in Paths : q = SubSeq(p, 1, n) /\ Len(q) = n
                           /\ Front(q) = SubSeq(p, 1, n - 1) /\ Last(q) = p[n]
    BY <2>1, Beginnings
  <2>3. q # <<>>
    <3>1. Len(q) # 0  BY <2>1, <2>2
    <3> QED BY <3>1, PathParts
  <2> QED BY <2>2, <2>3, LastStep
<1>3. \A n \in 0..Len(p) : Lookup[SubSeq(p, 1, n)] \in Inodes
  <2> DEFINE T == {m \in 0..Len(p) : Lookup[SubSeq(p, 1, Len(p) - m)] \notin Inodes}
  <2>1. SUFFICES ASSUME T # {} PROVE FALSE
    <3>1. \A n \in 0..Len(p) : Len(p) - n \in 0..Len(p) /\ Len(p) - (Len(p) - n) = n  BY <1>1
    <3> QED BY <3>1
  <2>2. PICK m \in T : \A k \in T : m <= k
    <3>1. T \subseteq Nat  BY <1>1
    <3> HIDE DEF T
    <3> QED BY <2>1, <3>1, Least
  <2>3. m \in Nat /\ m <= Len(p) /\ Lookup[SubSeq(p, 1, Len(p) - m)] \notin Inodes  BY <1>1
  <2>4. m # 0
    <3>1. Len(p) \in 0..Len(p) /\ Len(p) - 0 = Len(p)  BY <1>1
    <3>2. SubSeq(p, 1, Len(p)) = p  BY <3>1, Beginnings
    <3> QED BY <2>3, <3>1, <3>2
  <2>5. m - 1 \in 0..Len(p) /\ ~(m <= m - 1) /\ Len(p) - (m - 1) \in 1..Len(p)
        /\ Len(p) - (m - 1) - 1 = Len(p) - m
    BY <1>1, <2>3, <2>4
  <2>6. Lookup[SubSeq(p, 1, Len(p) - (m - 1))] \in Inodes  BY <2>2, <2>5
  <2>7. Lookup[SubSeq(p, 1, Len(p) - (m - 1) - 1)] \in Inodes  BY <1>2, <2>5, <2>6
  <2> QED BY <2>3, <2>5, <2>7
<1>4. \A n \in 1..Len(p) : n \in 0..Len(p)  BY <1>1
<1> QED BY <1>2, <1>3, <1>4

-----------------------------------------------------------------------------
(* The stack of directories, and which paths the walk has still ahead.     *)

Frame == [inode : Inodes, path : Paths, offset : Nat]

IsOpen(frame, n) ==
  /\ Len(frame.path) = n - 1 /\ n - 1 <= MaxDirDepth /\ Lookup[frame.path] = frame.inode
  /\ n = 1 \/ image[frame.inode].kind = "dir"
  /\ image[frame.inode].readable /\ image[frame.inode].dataRead
  /\ frame.offset \in 1..(Len(image[frame.inode].entries) + 1)
  /\ \A k \in 1..(frame.offset - 1) : image[frame.inode].entries[k] # Bad

(* Every open directory is met through those above it, at the entry they   *)
(* have just passed.                                                       *)
AreOpen(s) ==
  /\ s \in Seq(Frame)
  /\ \A n \in 1..Len(s) : IsOpen(s[n], n)
  /\ \A n, m \in 1..Len(s) : n < m =>
       SubSeq(s[m].path, 1, n - 1) = s[n].path /\ s[m].path[n] = s[n].offset - 1

AheadAt(s, p, n) == Len(p) >= n /\ p[n] >= s[n].offset /\ SubSeq(p, 1, n - 1) = s[n].path
AheadOf(s, p) == \E n \in 1..Len(s) : AheadAt(s, p, n)

(* The walk passes over the entry it is at.                                *)
Here(s) == Append(s[Len(s)].path, s[Len(s)].offset)
Passes(s, t) ==
  /\ t \in Seq(Frame) /\ Len(t) = Len(s)
  /\ \A n \in 1..(Len(s) - 1) : t[n] = s[n]
  /\ t[Len(s)].inode = s[Len(s)].inode /\ t[Len(s)].path = s[Len(s)].path
  /\ t[Len(s)].offset = s[Len(s)].offset + 1

(* What is to be known of the directory on top, and of the entry.          *)
LEMMA TopIs ==
  ASSUME image \in Images, NEW s, AreOpen(s), s # <<>>
  PROVE  /\ Len(s) \in Nat \ {0} /\ Len(s) \in 1..Len(s) /\ Len(s) <= MaxDirDepth + 1
         /\ s[Len(s)] \in Frame /\ IsOpen(s[Len(s)], Len(s))
         /\ s[Len(s)].inode \in Inodes /\ s[Len(s)].path \in Paths /\ s[Len(s)].offset \in Nat \ {0}
         /\ s[Len(s)].offset <= Len(image[s[Len(s)].inode].entries) + 1
         /\ Len(s[Len(s)].path) = Len(s) - 1
         /\ Len(image[s[Len(s)].inode].entries) \in Nat
         /\ Len(image[s[Len(s)].inode].entries) <= MaxEntries
         /\ s[Len(s)].inode = Root \/ image[s[Len(s)].inode].kind = "dir"
<1>1. s \in Seq(Frame)  BY DEF AreOpen
<1>2. Len(s) \in Nat \ {0}  BY <1>1, EmptySeq, LenProperties
<1>3. Len(s) \in 1..Len(s)  BY <1>2
<1>4. s[Len(s)] \in Frame  BY <1>1, <1>3, ElementOfSeq
<1>5. IsOpen(s[Len(s)], Len(s))  BY <1>3 DEF AreOpen
<1> DEFINE f == s[Len(s)]
<1>6. f.inode \in Inodes /\ f.path \in Paths /\ f.offset \in Nat  BY <1>4 DEF Frame
<1>7. Len(f.path) = Len(s) - 1 /\ Len(s) - 1 <= MaxDirDepth /\ Lookup[f.path] = f.inode
      /\ (Len(s) = 1 \/ image[f.inode].kind = "dir")
      /\ f.offset \in 1..(Len(image[f.inode].entries) + 1)
  BY <1>5 DEF IsOpen
<1> HIDE DEF f
<1>8. ASSUME Len(s) = 1 PROVE f.inode = Root
  <2>1. f.path = <<>>  BY <1>6, <1>7, <1>8, PathParts
  <2> QED BY <1>7, <2>1, RootIs
<1>9. Len(s) <= MaxDirDepth + 1  BY <1>2, <1>7, Ext4ExtractorAssumption
<1>10. f.inode = Root \/ image[f.inode].kind = "dir"  BY <1>7, <1>8
<1>11. image[f.inode].entries \in Seq(Named) /\ Len(image[f.inode].entries) <= MaxEntries
  BY <1>6, <1>10, InodeIs DEF Named
<1>12. Len(image[f.inode].entries) \in Nat  BY <1>11, LenProperties
<1>13. f.offset \in Nat \ {0} /\ f.offset <= Len(image[f.inode].entries) + 1  BY <1>7, <1>12
<1> QED BY <1>2, <1>3, <1>4, <1>5, <1>6, <1>7, <1>9, <1>10, <1>11, <1>12, <1>13 DEF f

(* An entry that names an inode, or is skipped, is where its path leads.   *)
LEMMA HereIs ==
  ASSUME image \in Images, NEW s, AreOpen(s), s # <<>>, NEW e,
         s[Len(s)].offset <= Len(image[s[Len(s)].inode].entries),
         e = image[s[Len(s)].inode].entries[s[Len(s)].offset], e # Bad
  PROVE  /\ Here(s) \in Paths /\ Here(s) # <<>> /\ Len(Here(s)) = Len(s)
         /\ Lookup[Here(s)] = e /\ s[Len(s)].offset \in Listed(s[Len(s)].inode)
         /\ SubSeq(Here(s), 1, Len(s) - 1) = s[Len(s)].path
         /\ Here(s)[Len(s)] = s[Len(s)].offset
         /\ \A i \in 1..(Len(s) - 1) : Here(s)[i] = s[Len(s)].path[i]
<1> DEFINE f == s[Len(s)]
<1> DEFINE L == Len(s)
<1> DEFINE h == Append(f.path, f.offset)
<1>1. /\ L \in Nat \ {0} /\ L <= MaxDirDepth + 1 /\ IsOpen(f, L)
      /\ f.inode \in Inodes /\ f.path \in Paths /\ f.offset \in Nat \ {0}
      /\ Len(f.path) = L - 1 /\ Len(image[f.inode].entries) \in Nat
      /\ Len(image[f.inode].entries) <= MaxEntries
      /\ f.offset <= Len(image[f.inode].entries)
  BY TopIs
<1>2. Lookup[f.path] = f.inode /\ (L = 1 \/ image[f.inode].kind = "dir")
      /\ image[f.inode].readable /\ image[f.inode].dataRead
      /\ \A k \in 1..(f.offset - 1) : image[f.inode].entries[k] # Bad
  BY <1>1 DEF IsOpen
<1>3. e = image[f.inode].entries[f.offset] /\ e # Bad  OBVIOUS
<1>4. Here(s) = h  BY DEF Here
<1> HIDE DEF f, L, h
<1>5. f.offset \in Names  BY <1>1, Ext4ExtractorAssumption DEF Names
<1>6. f.path \in Seq(Names)  BY <1>1, PathParts
<1>7. /\ h \in Seq(Names) /\ Len(h) = L
      /\ h[L] = f.offset /\ \A i \in 1..(L - 1) : h[i] = f.path[i]
      /\ Last(h) = f.offset /\ Front(h) = f.path
  <2>1. /\ h \in Seq(Names) /\ Len(h) = Len(f.path) + 1
        /\ h[Len(f.path) + 1] = f.offset /\ \A i \in 1..Len(f.path) : h[i] = f.path[i]
        /\ Last(h) = f.offset /\ Front(h) = f.path
    BY <1>5, <1>6, Pushing DEF h
  <2>2. Len(f.path) + 1 = L  BY <1>1
  <2> QED BY <1>1, <2>1, <2>2
<1>8. h \in Paths  BY <1>1, <1>7, PathIs
<1>9. h # <<>>
  <2>1. Len(h) # 0  BY <1>1, <1>7
  <2> QED BY <1>8, <2>1, PathParts
<1>10. f.offset \in Listed(f.inode)
  <2>1. \A k \in 1..f.offset : image[f.inode].entries[k] # Bad
    <3>1. \A k \in 1..f.offset : k = f.offset \/ k \in 1..(f.offset - 1)  BY <1>1
    <3> QED BY <1>2, <1>3, <3>1
  <2>2. f.offset \in 1..Len(image[f.inode].entries)  BY <1>1
  <2> QED BY <1>2, <2>1, <2>2 DEF Listed
<1>11. Lookup[h] = e
  <2>1. Lookup[h] = image[f.inode].entries[Last(h)]
    <3>1. f.inode = Lookup[Front(h)] /\ (Len(h) = 1 \/ image[f.inode].kind = "dir")
          /\ Last(h) \in Listed(f.inode)
      BY <1>2, <1>7, <1>10
    <3> QED BY <1>1, <1>8, <1>9, <3>1, Deeper
  <2> QED BY <1>3, <1>7, <2>1
<1>12. SubSeq(h, 1, L - 1) = f.path  BY <1>7 DEF Front
<1> QED BY <1>4, <1>7, <1>8, <1>9, <1>10, <1>11, <1>12 DEF f, L

Under(p, h) == Len(p) >= Len(h) /\ SubSeq(p, 1, Len(h)) = h

LEMMA Passing ==
  ASSUME image \in Images, NEW s, AreOpen(s), s # <<>>, NEW t, Passes(s, t), NEW e,
         s[Len(s)].offset <= Len(image[s[Len(s)].inode].entries),
         e = image[s[Len(s)].inode].entries[s[Len(s)].offset], e # Bad
  PROVE  /\ AreOpen(t)
         /\ \A p \in Paths : AheadOf(t, p) <=> AheadOf(s, p) /\ ~Under(p, Here(s))
<1> DEFINE L == Len(s)
           f == s[L]
           g == t[L]
<1>1. /\ L \in Nat \ {0} /\ L \in 1..L /\ IsOpen(f, L) /\ f.offset \in Nat \ {0}
      /\ Len(image[f.inode].entries) \in Nat /\ f.offset <= Len(image[f.inode].entries)
      /\ f.path \in Paths /\ Len(f.path) = L - 1 /\ s \in Seq(Frame)
  BY TopIs DEF AreOpen
<1>2. /\ t \in Seq(Frame) /\ Len(t) = L /\ \A n \in 1..(L - 1) : t[n] = s[n]
      /\ g.inode = f.inode /\ g.path = f.path /\ g.offset = f.offset + 1
  BY DEF Passes
<1>3. /\ Here(s) \in Paths /\ Len(Here(s)) = L /\ SubSeq(Here(s), 1, L - 1) = f.path
      /\ Here(s)[L] = f.offset /\ \A i \in 1..(L - 1) : Here(s)[i] = f.path[i]
  BY HereIs
<1>4. image[f.inode].entries[f.offset] # Bad  OBVIOUS
<1>5. /\ \A n \in 1..L : IsOpen(s[n], n)
      /\ \A n, m \in 1..L : n < m =>
           SubSeq(s[m].path, 1, n - 1) = s[n].path /\ s[m].path[n] = s[n].offset - 1
  BY DEF AreOpen
<1>6. f = s[L] /\ g = t[L] /\ \A n \in 1..L : n = L \/ n \in 1..(L - 1)  BY <1>1
<1>7. \A n \in 1..L : s[n].offset \in Nat
  <2>1. ASSUME NEW n \in 1..L PROVE s[n] \in Frame  BY <1>1, ElementOfSeq
  <2> QED BY <2>1 DEF Frame
<1> HIDE DEF L, f, g
<1>8. AreOpen(t)
  <2>1. IsOpen(g, L)
    <3>1. \A k \in 1..(g.offset - 1) : k \in 1..(f.offset - 1) \/ k = f.offset  BY <1>1, <1>2
    <3>2. g.offset \in 1..(Len(image[g.inode].entries) + 1)  BY <1>1, <1>2
    <3> QED BY <1>1, <1>2, <1>4, <3>1, <3>2 DEF IsOpen
  <2>2. \A n \in 1..L : IsOpen(t[n], n)  BY <1>2, <1>5, <1>6, <2>1
  <2>3. ASSUME NEW n \in 1..L, NEW m \in 1..L, n < m
        PROVE  SubSeq(t[m].path, 1, n - 1) = t[n].path /\ t[m].path[n] = t[n].offset - 1
    <3>1. n \in 1..(L - 1)  BY <1>1, <2>3
    <3>2. t[n] = s[n] /\ t[m].path = s[m].path  BY <1>2, <1>6, <3>1
    <3> QED BY <1>5, <2>3, <3>2
  <2> QED BY <1>2, <2>2, <2>3 DEF AreOpen
<1>9. ASSUME NEW p \in Paths PROVE AheadOf(t, p) <=> AheadOf(s, p) /\ ~Under(p, Here(s))
  <2>1. p \in Seq(Names) /\ Len(p) \in Nat /\ \A n \in 1..Len(p) : p[n] \in Nat  BY PathParts DEF Names
  <2>2. ASSUME Under(p, Here(s)) PROVE Len(p) >= L /\ \A i \in 1..L : p[i] = Here(s)[i]
    <3>1. Len(p) >= L /\ SubSeq(p, 1, L) = Here(s)  BY <1>3, <2>2 DEF Under
    <3>2. L \in 0..Len(p)  BY <1>1, <2>1, <3>1
    <3> QED BY <3>1, <3>2, Beginnings
  <2>3. ASSUME AheadOf(t, p) PROVE AheadOf(s, p) /\ ~Under(p, Here(s))
    <3>1. PICK n \in 1..L : AheadAt(t, p, n)  BY <1>2, <2>3 DEF AheadOf
    <3>2. n \in Nat /\ n \in 1..Len(p)  BY <1>1, <2>1, <3>1 DEF AheadAt
    <3>3. p[n] \in Nat  BY <2>1, <3>2
    <3>4. CASE n = L
      <4>1. AheadAt(s, p, L)  BY <1>1, <1>2, <1>6, <3>1, <3>3, <3>4 DEF AheadAt
      <4>2. p[L] # f.offset  BY <1>1, <1>2, <1>6, <3>1, <3>3, <3>4 DEF AheadAt
      <4>3. ~Under(p, Here(s))  BY <1>1, <1>3, <2>2, <4>2
      <4> QED BY <1>1, <4>1, <4>3 DEF AheadOf, L
    <3>5. CASE n \in 1..(L - 1)
      <4>1. AheadAt(s, p, n)  BY <1>2, <3>1, <3>5 DEF AheadAt
      <4>2. n < L /\ n \in 1..L  BY <1>1, <3>5
      <4>3. f.path[n] = s[n].offset - 1  BY <1>1, <1>5, <1>6, <4>2
      <4>4. p[n] # f.path[n]  BY <1>7, <3>3, <4>1, <4>2, <4>3 DEF AheadAt
      <4>5. ~Under(p, Here(s))  BY <1>3, <2>2, <3>5, <4>2, <4>4
      <4> QED BY <4>1, <4>2, <4>5 DEF AheadOf, L
    <3> QED BY <1>6, <3>1, <3>4, <3>5
  <2>4. ASSUME AheadOf(s, p), ~Under(p, Here(s)) PROVE AheadOf(t, p)
    <3>1. PICK n \in 1..L : AheadAt(s, p, n)  BY <2>4 DEF AheadOf, L
    <3>2. n \in Nat /\ n \in 1..Len(p)  BY <1>1, <2>1, <3>1 DEF AheadAt
    <3>3. p[n] \in Nat  BY <2>1, <3>2
    <3>4. CASE n = L
      <4>1. Len(p) >= L /\ p[L] >= f.offset /\ SubSeq(p, 1, L - 1) = f.path
        BY <1>6, <3>1, <3>4 DEF AheadAt
      <4>2. ASSUME p[L] = f.offset PROVE FALSE
        <5>1. L \in 0..Len(p) /\ L - 1 \in 0..Len(p)  BY <1>1, <2>1, <4>1
        <5>2. \A i \in 1..(L - 1) : p[i] = f.path[i]  BY <4>1, <5>1, Beginnings
        <5>3. \A i \in 1..L : p[i] = Here(s)[i]  BY <1>3, <1>6, <4>2, <5>2
        <5>4. PICK q \in Paths : q = SubSeq(p, 1, L) /\ Len(q) = L /\ \A i \in 1..L : q[i] = p[i]
          BY <5>1, Beginnings
        <5>5. PICK h \in Paths : h = Here(s) /\ Len(h) = L /\ \A i \in 1..L : p[i] = h[i]
          BY <1>3, <5>3
        <5>6. q \in Seq(Names) /\ h \in Seq(Names) /\ \A i \in 1..Len(q) : q[i] = h[i]
          BY <5>4, <5>5, PathParts
        <5>7. q = h  BY <5>4, <5>5, <5>6, Same
        <5> QED BY <1>3, <2>4, <4>1, <5>4, <5>5, <5>7 DEF Under
      <4>3. p[L] >= f.offset + 1  BY <1>1, <3>3, <3>4, <4>1, <4>2
      <4>4. AheadAt(t, p, L)  BY <1>2, <1>6, <4>1, <4>3 DEF AheadAt
      <4> QED BY <1>1, <1>2, <4>4 DEF AheadOf
    <3>5. CASE n \in 1..(L - 1)
      <4>1. AheadAt(t, p, n)  BY <1>2, <3>1, <3>5 DEF AheadAt
      <4> QED BY <1>2, <3>1, <4>1 DEF AheadOf
    <3> QED BY <1>6, <3>1, <3>4, <3>5
  <2> QED BY <2>3, <2>4
<1> QED BY <1>8, <1>9

(* A directory is entered after its entry was passed.                      *)
Enters(t, u, d, h) ==
  /\ u \in Seq(Frame) /\ Len(u) = Len(t) + 1 /\ \A n \in 1..Len(t) : u[n] = t[n]
  /\ u[Len(t) + 1].inode = d /\ u[Len(t) + 1].path = h /\ u[Len(t) + 1].offset = 1

EntersFrom(s, t, e, u) ==
  /\ image \in Images /\ AreOpen(s) /\ s # <<>> /\ Passes(s, t) /\ e \in Inodes
  /\ s[Len(s)].offset <= Len(image[s[Len(s)].inode].entries)
  /\ e = image[s[Len(s)].inode].entries[s[Len(s)].offset]
  /\ image[e].kind = "dir" /\ image[e].readable /\ image[e].dataRead /\ Len(s) <= MaxDirDepth
  /\ Enters(t, u, e, Here(s))

LEMMA Entering ==
  ASSUME NEW s, NEW t, NEW e, NEW u, EntersFrom(s, t, e, u)
  PROVE  /\ AreOpen(u)
         /\ \A p \in Paths : AheadOf(u, p) <=>
              AheadOf(t, p) \/ (Under(p, Here(s)) /\ Len(p) > Len(s))
<1>0. /\ image \in Images /\ AreOpen(s) /\ s # <<>> /\ Passes(s, t) /\ e \in Inodes
      /\ s[Len(s)].offset <= Len(image[s[Len(s)].inode].entries)
      /\ e = image[s[Len(s)].inode].entries[s[Len(s)].offset]
      /\ image[e].kind = "dir" /\ image[e].readable /\ image[e].dataRead /\ Len(s) <= MaxDirDepth
      /\ Enters(t, u, e, Here(s))
  BY DEF EntersFrom
<1> DEFINE L == Len(s)
           f == s[L]
<1>1. L \in Nat \ {0} /\ L \in 1..L /\ s \in Seq(Frame)  BY <1>0, TopIs DEF AreOpen
<1>2. /\ t \in Seq(Frame) /\ Len(t) = L /\ \A n \in 1..(L - 1) : t[n] = s[n]
      /\ t[L].inode = f.inode /\ t[L].path = f.path /\ t[L].offset = f.offset + 1
  BY <1>0 DEF Passes
<1>3. e # Bad  BY <1>0, Ext4ExtractorAssumption
<1>4. /\ Here(s) \in Paths /\ Len(Here(s)) = L /\ SubSeq(Here(s), 1, L - 1) = f.path
      /\ Here(s)[L] = f.offset /\ \A i \in 1..(L - 1) : Here(s)[i] = f.path[i]
      /\ Lookup[Here(s)] = e
  BY <1>0, <1>3, HereIs
<1>5. AreOpen(t)  BY <1>0, <1>3, Passing, Zenon
<1>6. /\ u \in Seq(Frame) /\ Len(u) = L + 1 /\ \A n \in 1..L : u[n] = t[n]
      /\ u[L + 1].inode = e /\ u[L + 1].path = Here(s) /\ u[L + 1].offset = 1
  <2>1. Len(t) = L  BY <1>2
  <2>2. Enters(t, u, e, Here(s))  BY <1>0
  <2> HIDE DEF L
  <2> QED BY <2>1, <2>2 DEF Enters
<1>7. /\ f.path \in Paths /\ Len(f.path) = L - 1 /\ f.offset \in Nat /\ L <= MaxDirDepth
      /\ image[e].entries \in Seq(Named)
  BY <1>0, TopIs, InodeIs DEF Named
<1>8. f = s[L] /\ \A n \in 1..(L + 1) : n = L + 1 \/ n \in 1..L  BY <1>1
<1>9. /\ \A n \in 1..L : IsOpen(t[n], n)
      /\ \A n, m \in 1..L : n < m =>
           SubSeq(t[m].path, 1, n - 1) = t[n].path /\ t[m].path[n] = t[n].offset - 1
  BY <1>2, <1>5 DEF AreOpen
<1>10. /\ image[e].kind = "dir" /\ image[e].readable /\ image[e].dataRead  BY <1>0
<1> HIDE DEF L, f
<1>11. AreOpen(u)
  <2>1. IsOpen(u[L + 1], L + 1)
    <3>1. Len(image[e].entries) \in Nat  BY <1>7, LenProperties
    <3>2. 1 \in 1..(Len(image[e].entries) + 1) /\ \A k \in 1..(1 - 1) : FALSE
      <4>1. PICK c \in Nat : c = Len(image[e].entries)  BY <3>1
      <4>2. 1 \in 1..(c + 1) /\ \A k \in 1..(1 - 1) : FALSE  OBVIOUS
      <4> QED BY <4>1, <4>2
    <3>3. L + 1 - 1 = L  BY <1>1
    <3>4. PICK g : g = u[L + 1] /\ g.inode = e /\ g.path = Here(s) /\ g.offset = 1  BY <1>6
    <3>5. Len(g.path) = L + 1 - 1 /\ L + 1 - 1 <= MaxDirDepth  BY <1>4, <1>7, <3>3, <3>4
    <3>6. Lookup[g.path] = g.inode /\ image[g.inode].kind = "dir"
          /\ image[g.inode].readable /\ image[g.inode].dataRead
      BY <1>4, <1>10, <3>4, Zenon
    <3>7. g.offset \in 1..(Len(image[g.inode].entries) + 1)
          /\ \A k \in 1..(g.offset - 1) : image[g.inode].entries[k] # Bad
      BY <3>2, <3>4
    <3> QED
      <4>1. PICK n : n = L + 1  OBVIOUS
      <4>4. n - 1 = L  BY <1>1, <4>1
      <4>2. Len(g.path) = n - 1 /\ n - 1 <= MaxDirDepth  BY <1>4, <1>7, <3>4, <4>4
      <4>3. IsOpen(g, n)  BY <3>6, <3>7, <4>2 DEF IsOpen
      <4> QED BY <3>4, <4>1, <4>3
  <2>2. \A n \in 1..(L + 1) : IsOpen(u[n], n)  BY <1>6, <1>8, <1>9, <2>1
  <2>3. ASSUME NEW n \in 1..(L + 1), NEW m \in 1..(L + 1), n < m
        PROVE  SubSeq(u[m].path, 1, n - 1) = u[n].path /\ u[m].path[n] = u[n].offset - 1
    <3>1. n \in 1..L  BY <1>1, <2>3
    <3>2. CASE m \in 1..L  BY <1>6, <1>9, <2>3, <3>1, <3>2
    <3>3. CASE m = L + 1
      <4>1. CASE n = L
        <5>1. t[L].offset - 1 = f.offset
          <6>1. PICK c \in Nat : c = f.offset /\ t[L].offset = c + 1  BY <1>2, <1>7
          <6> QED BY <6>1
        <5> QED BY <1>2, <1>4, <1>6, <3>1, <3>3, <4>1, <5>1
      <4>2. CASE n # L
        <5>1. n \in 1..(L - 1) /\ n < L /\ n - 1 \in 0..Len(f.path) /\ n - 1 \in 0..L
          BY <1>1, <1>7, <3>1, <4>2
        <5>2. SubSeq(f.path, 1, n - 1) = t[n].path /\ f.path[n] = t[n].offset - 1
          BY <1>1, <1>2, <1>9, <3>1, <5>1
        <5>3. PICK a \in Paths : a = SubSeq(f.path, 1, n - 1) /\ Len(a) = n - 1
                                 /\ \A i \in 1..(n - 1) : a[i] = f.path[i]
          BY <1>7, <5>1, Beginnings
        <5>4. PICK h \in Paths : h = Here(s) /\ Len(h) = L /\ \A i \in 1..(L - 1) : h[i] = f.path[i]
          BY <1>4
        <5>5. n - 1 \in 0..Len(h)  BY <5>1, <5>4
        <5>6. PICK b \in Paths : b = SubSeq(h, 1, n - 1) /\ Len(b) = n - 1
                                 /\ \A i \in 1..(n - 1) : b[i] = h[i]
          BY <5>5, Beginnings
        <5>7. \A i \in 1..(n - 1) : i \in 1..(L - 1)  BY <1>1, <5>1
        <5>8. a = b
          <6>1. a \in Seq(Names) /\ b \in Seq(Names)  BY PathParts
          <6>2. \A i \in 1..Len(a) : a[i] = b[i]  BY <5>3, <5>4, <5>6, <5>7
          <6> QED BY <5>3, <5>6, <6>1, <6>2, Same
        <5> QED BY <1>4, <1>6, <3>1, <3>3, <5>1, <5>2, <5>3, <5>4, <5>6, <5>8
      <4> QED BY <4>1, <4>2
    <3> QED BY <1>8, <3>2, <3>3
  <2> QED BY <1>6, <2>2, <2>3 DEF AreOpen
<1>12. ASSUME NEW p \in Paths
       PROVE  AheadOf(u, p) <=> AheadOf(t, p) \/ (Under(p, Here(s)) /\ Len(p) > L)
  <2>1. Len(p) \in Nat /\ \A n \in 1..Len(p) : p[n] \in Nat \ {0}  BY PathParts DEF Names
  <2>2. AheadAt(u, p, L + 1) <=> Under(p, Here(s)) /\ Len(p) > L
    <3>1. L + 1 - 1 = L /\ (Len(p) >= L + 1 <=> Len(p) > L)  BY <1>1, <2>1
    <3>2. Len(p) > L => L + 1 \in 1..Len(p) /\ Len(p) >= L  BY <1>1, <2>1
    <3>3. Len(p) > L => p[L + 1] >= 1
      <4>1. ASSUME Len(p) > L PROVE p[L + 1] \in Nat \ {0}  BY <2>1, <3>2, <4>1
      <4> QED BY <4>1
    <3>4. AheadAt(u, p, L + 1) <=> Len(p) >= L + 1 /\ p[L + 1] >= 1 /\ SubSeq(p, 1, L) = Here(s)
      <4>1. PICK n : n = L + 1  OBVIOUS
      <4>4. n - 1 = L  BY <1>1, <4>1
      <4>2. u[n].path = Here(s) /\ u[n].offset = 1  BY <1>6, <4>1
      <4>3. AheadAt(u, p, n) <=> Len(p) >= n /\ p[n] >= 1 /\ SubSeq(p, 1, n - 1) = Here(s)
        BY <4>2 DEF AheadAt
      <4> QED BY <4>1, <4>3, <4>4
    <3>5. Under(p, Here(s)) <=> Len(p) >= L /\ SubSeq(p, 1, L) = Here(s)  BY <1>4 DEF Under
    <3>6. CASE Len(p) > L  BY <3>1, <3>2, <3>3, <3>4, <3>5, <3>6
    <3>7. CASE ~(Len(p) > L)  BY <3>1, <3>4, <3>7
    <3> QED BY <3>6, <3>7
  <2>3. \A n \in 1..L : AheadAt(u, p, n) <=> AheadAt(t, p, n)  BY <1>6 DEF AheadAt
  <2>4. AheadOf(u, p) <=> \E n \in 1..(L + 1) : AheadAt(u, p, n)  BY <1>6 DEF AheadOf
  <2>5. AheadOf(t, p) <=> \E n \in 1..L : AheadAt(t, p, n)  BY <1>2 DEF AheadOf
  <2>6. \A n : n \in 1..(L + 1) <=> n = L + 1 \/ n \in 1..L  BY <1>1
  <2> QED BY <2>2, <2>3, <2>4, <2>5, <2>6
<1> QED BY <1>11, <1>12 DEF L

(* A directory is left that lists nothing from there on.                   *)
Leaves(s, t) ==
  /\ t \in Seq(Frame) /\ Len(t) = Len(s) - 1 /\ \A n \in 1..(Len(s) - 1) : t[n] = s[n]

LEMMA Leaving ==
  ASSUME image \in Images, NEW s, AreOpen(s), s # <<>>, NEW t, Leaves(s, t),
         s[Len(s)].offset <= Len(image[s[Len(s)].inode].entries) =>
           image[s[Len(s)].inode].entries[s[Len(s)].offset] = Bad
  PROVE  /\ AreOpen(t)
         /\ \A p \in Paths : Lookup[p] \in Inodes => (AheadOf(t, p) <=> AheadOf(s, p))
<1> DEFINE L == Len(s)
           f == s[L]
<1>1. /\ L \in Nat \ {0} /\ L \in 1..L /\ s \in Seq(Frame) /\ IsOpen(f, L)
      /\ f.inode \in Inodes /\ f.offset \in Nat \ {0} /\ f.path \in Paths
      /\ (f.inode = Root \/ image[f.inode].kind = "dir")
  BY TopIs DEF AreOpen
<1>2. /\ t \in Seq(Frame) /\ Len(t) = L - 1 /\ \A n \in 1..(L - 1) : t[n] = s[n]
  BY DEF Leaves
<1>3. /\ \A n \in 1..L : IsOpen(s[n], n)
      /\ \A n, m \in 1..L : n < m =>
           SubSeq(s[m].path, 1, n - 1) = s[n].path /\ s[m].path[n] = s[n].offset - 1
  BY DEF AreOpen
<1>4. f.offset <= Len(image[f.inode].entries) => image[f.inode].entries[f.offset] = Bad
  OBVIOUS
<1>5. f = s[L]  OBVIOUS
<1> HIDE DEF L, f
<1>6. AreOpen(t)
  <2>1. \A n \in 1..(L - 1) : n \in 1..L  BY <1>1
  <2>2. \A n \in 1..(L - 1) : IsOpen(t[n], n)  BY <1>2, <1>3, <2>1
  <2>3. \A n, m \in 1..(L - 1) : n < m =>
           SubSeq(t[m].path, 1, n - 1) = t[n].path /\ t[m].path[n] = t[n].offset - 1
    BY <1>2, <1>3, <2>1
  <2> QED BY <1>2, <2>2, <2>3 DEF AreOpen
<1>7. ASSUME NEW p \in Paths, Lookup[p] \in Inodes PROVE AheadOf(t, p) <=> AheadOf(s, p)
  <2>1. Len(p) \in Nat  BY PathParts
  <2>2. ~AheadAt(s, p, L)
    <3>1. SUFFICES ASSUME AheadAt(s, p, L) PROVE FALSE  OBVIOUS
    <3>2. Len(p) >= L /\ p[L] >= f.offset /\ SubSeq(p, 1, L - 1) = f.path
      BY <1>5, <3>1 DEF AheadAt
    <3>3. L \in 1..Len(p)  BY <1>1, <2>1, <3>2
    <3>4. p[L] \in Listed(Lookup[SubSeq(p, 1, L - 1)])  BY <1>7, <3>3, Ways
    <3>5. Lookup[f.path] = f.inode  BY <1>1 DEF IsOpen
    <3>6. p[L] \in Listed(f.inode)  BY <3>2, <3>4, <3>5
    <3>7. PICK k \in Nat \ {0} : k = p[L] /\ k \in 1..Len(image[f.inode].entries)
            /\ \A j \in 1..k : image[f.inode].entries[j] # Bad
      BY <1>1, <3>6, ListedNames
    <3>8. Len(image[f.inode].entries) \in Nat
      <4>1. image[f.inode].entries \in Seq(Named)  BY <1>1, InodeIs DEF Named
      <4> QED BY <4>1, LenProperties
    <3>9. f.offset \in 1..k /\ f.offset <= Len(image[f.inode].entries)  BY <1>1, <3>2, <3>7, <3>8
    <3> QED BY <1>4, <3>7, <3>9
  <2>3. \A n \in 1..(L - 1) : AheadAt(t, p, n) <=> AheadAt(s, p, n)  BY <1>2 DEF AheadAt
  <2>4. AheadOf(t, p) <=> \E n \in 1..(L - 1) : AheadAt(t, p, n)  BY <1>2 DEF AheadOf
  <2>5. AheadOf(s, p) <=> \E n \in 1..L : AheadAt(s, p, n)  BY DEF AheadOf, L
  <2>6. \A n : n \in 1..L <=> n = L \/ n \in 1..(L - 1)  BY <1>1
  <2> QED BY <2>2, <2>3, <2>4, <2>5, <2>6
<1> QED BY <1>6, <1>7

-----------------------------------------------------------------------------
(* What the image has at the paths the walk is past.                       *)
BehindOf(s) == {p \in Paths : Lookup[p] \in Inodes /\ ~AheadOf(s, p)}

LEMMA NothingOpen ==
  ASSUME NEW p
  PROVE  AreOpen(<<>>) /\ ~AheadOf(<<>>, p)
<1>1. <<>> \in Seq(Frame) /\ Len(<<>>) = 0  BY EmptySeq
<1>2. \A n \in 1..0 : FALSE  OBVIOUS
<1> QED BY <1>1, <1>2 DEF AreOpen, AheadOf

LEMMA Starting ==
  ASSUME image \in Images, NEW u,
         IF image[Root].readable /\ image[Root].dataRead THEN Enters(<<>>, u, Root, <<>>) ELSE u = <<>>
  PROVE  AreOpen(u) /\ BehindOf(u) = {<<>>}
<1>1. <<>> \in Paths /\ Lookup[<<>>] = Root /\ Root \in Inodes /\ Len(<<>>) = 0
  BY RootIs, EmptySeq
<1>2. ASSUME NEW p \in Paths, Lookup[p] \in Inodes, p # <<>>
      PROVE  /\ image[Root].readable /\ image[Root].dataRead /\ Len(p) >= 1 /\ p[1] \in Nat \ {0}
             /\ SubSeq(p, 1, 0) = <<>>
  <2>1. Len(p) \in Nat \ {0} /\ \A n \in 1..Len(p) : p[n] \in Names  BY <1>2, PathParts
  <2>2. 1 \in 1..Len(p) /\ 0 \in 0..Len(p) /\ 1 - 1 = 0 /\ Len(p) >= 1  BY <2>1
  <2>3. SubSeq(p, 1, 0) \in Paths /\ Len(SubSeq(p, 1, 0)) = 0  BY <2>2, Beginnings
  <2>4. SubSeq(p, 1, 0) = <<>>  BY <2>3, PathParts
  <2>5. p[1] \in Listed(Lookup[SubSeq(p, 1, 1 - 1)])  BY <1>2, <2>2, Ways
  <2>6. p[1] \in Listed(Root)  BY <1>1, <2>2, <2>4, <2>5
  <2>7. image[Root].readable /\ image[Root].dataRead  BY <1>1, <2>6, ListedNames
  <2>8. p[1] \in Nat \ {0}  BY <2>1, <2>2 DEF Names
  <2> QED BY <2>2, <2>4, <2>7, <2>8
<1>3. CASE ~(image[Root].readable /\ image[Root].dataRead)
  <2>1. u = <<>>  BY <1>3
  <2>2. BehindOf(<<>>) = {<<>>}
    <3>1. \A p \in Paths : Lookup[p] \in Inodes /\ ~AheadOf(<<>>, p) <=> p = <<>>
      BY <1>1, <1>2, <1>3, NothingOpen
    <3> QED BY <1>1, <3>1 DEF BehindOf
  <2> QED BY <2>1, <2>2, NothingOpen
<1>4. CASE image[Root].readable /\ image[Root].dataRead
  <2>1. /\ u \in Seq(Frame) /\ Len(u) = 1
        /\ u[1].inode = Root /\ u[1].path = <<>> /\ u[1].offset = 1
    <3>1. Enters(<<>>, u, Root, <<>>)  BY <1>4
    <3>2. 0 + 1 = 1  OBVIOUS
    <3> QED BY <1>1, <3>1, <3>2 DEF Enters
  <2>2. AreOpen(u)
    <3>1. image[Root].entries \in Seq(Named)  BY <1>1, InodeIs DEF Named
    <3>2. Len(image[Root].entries) \in Nat  BY <3>1, LenProperties
    <3>3. 1 \in 1..(Len(image[Root].entries) + 1) /\ \A k \in 1..(1 - 1) : FALSE
      <4>1. PICK c \in Nat : c = Len(image[Root].entries)  BY <3>2
      <4>2. 1 \in 1..(c + 1) /\ \A k \in 1..(1 - 1) : FALSE  OBVIOUS
      <4> QED BY <4>1, <4>2
    <3>4. 1 - 1 = 0 /\ 0 <= MaxDirDepth  BY Ext4ExtractorAssumption
    <3>5. IsOpen(u[1], 1)  BY <1>1, <1>4, <2>1, <3>3, <3>4 DEF IsOpen
    <3>6. \A n \in 1..1 : n = 1  OBVIOUS
    <3>7. \A n, m \in 1..1 : ~(n < m)  OBVIOUS
    <3> QED BY <2>1, <3>5, <3>6, <3>7 DEF AreOpen
  <2>3. ASSUME NEW p \in Paths, Lookup[p] \in Inodes PROVE AheadOf(u, p) <=> p # <<>>
    <3>1. AheadAt(u, p, 1) <=> Len(p) >= 1 /\ p[1] >= 1 /\ SubSeq(p, 1, 0) = <<>>
      <4>1. PICK n \in Nat : n = 1  OBVIOUS
      <4>2. u[n].path = <<>> /\ u[n].offset = 1 /\ n - 1 = 0  BY <2>1, <4>1
      <4>3. AheadAt(u, p, n) <=> Len(p) >= n /\ p[n] >= 1 /\ SubSeq(p, 1, n - 1) = <<>>
        BY <4>2 DEF AheadAt
      <4> QED BY <4>1, <4>2, <4>3
    <3>2. AheadOf(u, p) <=> AheadAt(u, p, 1)
      <4>1. \A n : n \in 1..1 <=> n = 1  OBVIOUS
      <4> QED BY <2>1, <4>1 DEF AheadOf
    <3>3. p # <<>> => p[1] >= 1  BY <1>2, <2>3
    <3>4. p = <<>> => ~(Len(p) >= 1)  BY <1>1
    <3> QED BY <1>2, <2>3, <3>1, <3>2, <3>3, <3>4
  <2> QED BY <1>1, <2>2, <2>3 DEF BehindOf
<1> QED BY <1>3, <1>4

LEMMA LeavingKeeps ==
  ASSUME image \in Images, NEW s, AreOpen(s), s # <<>>, NEW t, Leaves(s, t),
         s[Len(s)].offset <= Len(image[s[Len(s)].inode].entries) =>
           image[s[Len(s)].inode].entries[s[Len(s)].offset] = Bad
  PROVE  AreOpen(t) /\ BehindOf(t) = BehindOf(s)
<1>1. AreOpen(t) /\ \A p \in Paths : Lookup[p] \in Inodes => (AheadOf(t, p) <=> AheadOf(s, p))
  BY Leaving, Zenon
<1> QED BY <1>1 DEF BehindOf

(* What lies below an entry is found through it.                           *)
LEMMA Through ==
  ASSUME image \in Images, NEW h \in Paths, NEW p \in Paths, Lookup[p] \in Inodes, Under(p, h)
  PROVE  /\ Lookup[h] \in Inodes
         /\ p # h => /\ Len(p) > Len(h) /\ Len(h) <= MaxDirDepth
                     /\ h # <<>> => image[Lookup[h]].kind = "dir"
                     /\ image[Lookup[h]].readable /\ image[Lookup[h]].dataRead
<1>1. /\ Len(p) \in Nat /\ Len(p) <= MaxDirDepth + 1 /\ Len(h) \in Nat /\ (Len(h) = 0 <=> h = <<>>)
      /\ MaxDirDepth \in Nat
  BY PathParts, Ext4ExtractorAssumption
<1>2. Len(p) >= Len(h) /\ SubSeq(p, 1, Len(h)) = h  BY DEF Under
<1>3. Len(h) \in 0..Len(p)  BY <1>1, <1>2
<1>4. Lookup[h] \in Inodes  BY <1>2, <1>3, Ways
<1>5. ASSUME p # h
      PROVE  /\ Len(p) > Len(h) /\ Len(h) <= MaxDirDepth
             /\ h # <<>> => image[Lookup[h]].kind = "dir"
             /\ image[Lookup[h]].readable /\ image[Lookup[h]].dataRead
  <2>1. Len(p) # Len(h)
    <3>1. Len(h) = Len(p) => SubSeq(p, 1, Len(h)) = p  BY <1>3, Beginnings
    <3> QED BY <1>2, <1>5, <3>1
  <2>2. Len(p) > Len(h) /\ Len(h) <= MaxDirDepth  BY <1>1, <1>2, <2>1
  <2>3. PICK n : n = Len(h) + 1  OBVIOUS
  <2>4. n \in 1..Len(p) /\ n - 1 = Len(h) /\ (n = 1 <=> h = <<>>)  BY <1>1, <2>2, <2>3
  <2>5. PICK d \in Inodes : d = Lookup[h] /\ (n = 1 \/ image[d].kind = "dir") /\ p[n] \in Listed(d)
    <3>1. LET d == Lookup[SubSeq(p, 1, n - 1)] IN
          d \in Inodes /\ (n = 1 \/ image[d].kind = "dir") /\ p[n] \in Listed(d)
      BY <2>4, Ways
    <3>2. SubSeq(p, 1, n - 1) = h  BY <1>2, <2>4
    <3> QED BY <3>1, <3>2
  <2>6. h = <<>> => d = Root  BY <2>5, RootIs
  <2>7. image[d].readable /\ image[d].dataRead  BY <2>4, <2>5, <2>6, ListedNames
  <2> QED BY <2>2, <2>4, <2>5, <2>7
<1> QED BY <1>4, <1>5

(* The walk is past an entry that is no inode, with what lies below it:    *)
(* nothing.                                                                *)
LEMMA PassingSkipped ==
  ASSUME image \in Images, NEW s, AreOpen(s), s # <<>>, NEW t, Passes(s, t),
         s[Len(s)].offset <= Len(image[s[Len(s)].inode].entries),
         image[s[Len(s)].inode].entries[s[Len(s)].offset] = Skipped
  PROVE  AreOpen(t) /\ BehindOf(t) = BehindOf(s)
<1>1. PICK e : e = image[s[Len(s)].inode].entries[s[Len(s)].offset] /\ e = Skipped /\ e # Bad
  BY Ext4ExtractorAssumption
<1>2. /\ AreOpen(t)
      /\ \A p \in Paths : AheadOf(t, p) <=> AheadOf(s, p) /\ ~Under(p, Here(s))
  BY <1>1, Passing
<1>3. Here(s) \in Paths /\ Lookup[Here(s)] = e  BY <1>1, HereIs
<1>4. e \notin Inodes  BY <1>1, Ext4ExtractorAssumption
<1>5. \A p \in Paths : Lookup[p] \in Inodes => ~Under(p, Here(s))  BY <1>3, <1>4, Through
<1> QED BY <1>2, <1>5 DEF BehindOf

(* The entry the walk is at, and what lies below it, is ahead.             *)
LEMMA UnderIsAhead ==
  ASSUME image \in Images, NEW s, AreOpen(s), s # <<>>, NEW h \in Paths, h = Here(s), Len(h) = Len(s),
         SubSeq(h, 1, Len(s) - 1) = s[Len(s)].path, h[Len(s)] = s[Len(s)].offset
  PROVE  /\ Under(h, h)
         /\ \A p \in Paths : Under(p, h) => AheadOf(s, p)
<1>1. Len(s) \in Nat \ {0} /\ Len(s) \in 1..Len(s) /\ s[Len(s)].offset \in Nat  BY TopIs
<1>2. Under(h, h)
  <2>1. Len(h) \in 0..Len(h)  BY <1>1
  <2>2. SubSeq(h, 1, Len(h)) = h  BY <2>1, Beginnings
  <2> QED BY <1>1, <2>2 DEF Under
<1>3. ASSUME NEW p \in Paths, Under(p, h) PROVE AheadOf(s, p)
  <2>1. Len(p) \in Nat /\ Len(p) >= Len(s) /\ SubSeq(p, 1, Len(s)) = h
    BY <1>3, PathParts DEF Under
  <2> DEFINE L == Len(s)
  <2>2. L \in Nat \ {0} /\ L \in 0..Len(p) /\ L - 1 \in 0..L /\ L - 1 \in 0..Len(p) /\ L \in 1..L /\ L > 0
    BY <1>1, <2>1
  <2>3. h = SubSeq(p, 1, L) /\ SubSeq(h, 1, L - 1) = s[L].path /\ h[L] = s[L].offset
    BY <2>1
  <2>4. s[L].offset \in Nat  BY <1>1
  <2> HIDE DEF L
  <2>5. Front(SubSeq(p, 1, L)) = SubSeq(p, 1, L - 1) /\ SubSeq(p, 1, L)[L] = p[L]
    BY <2>2, Beginnings
  <2>6. Len(h) = L  BY DEF L
  <2>7. Front(h) = SubSeq(h, 1, L - 1)  BY <2>6 DEF Front
  <2>8. SubSeq(p, 1, L - 1) = s[L].path /\ p[L] = s[L].offset  BY <2>3, <2>5, <2>7
  <2>9. Len(p) >= L  BY <2>1 DEF L
  <2>10. p[L] >= s[L].offset  BY <2>4, <2>8
  <2>11. AheadAt(s, p, L)  BY <2>8, <2>9, <2>10 DEF AheadAt
  <2> QED BY <2>2, <2>11 DEF AheadOf, L
<1> QED BY <1>2, <1>3

Enterable(e, n) ==
  image[e].kind = "dir" /\ image[e].readable /\ image[e].dataRead /\ n <= MaxDirDepth

(* An inode that is not entered as a directory.                            *)
LEMMA PassingInode ==
  ASSUME image \in Images, NEW s, AreOpen(s), s # <<>>, NEW t, Passes(s, t), NEW e \in Inodes,
         s[Len(s)].offset <= Len(image[s[Len(s)].inode].entries),
         e = image[s[Len(s)].inode].entries[s[Len(s)].offset],
         ~Enterable(e, Len(s))
  PROVE  /\ AreOpen(t) /\ BehindOf(t) = BehindOf(s) \cup {Here(s)}
         /\ Here(s) \notin BehindOf(s)
<1>1. e # Bad  BY Ext4ExtractorAssumption
<1>2. /\ AreOpen(t)
      /\ \A p \in Paths : AheadOf(t, p) <=> AheadOf(s, p) /\ ~Under(p, Here(s))
  BY <1>1, Passing
<1>3. /\ Here(s) \in Paths /\ Here(s) # <<>> /\ Len(Here(s)) = Len(s) /\ Lookup[Here(s)] = e
      /\ SubSeq(Here(s), 1, Len(s) - 1) = s[Len(s)].path /\ Here(s)[Len(s)] = s[Len(s)].offset
  BY <1>1, HereIs
<1>4. ASSUME NEW p \in Paths, Lookup[p] \in Inodes, Under(p, Here(s)) PROVE p = Here(s)
  BY <1>3, <1>4, Through DEF Enterable
<1>6. /\ Under(Here(s), Here(s))
      /\ \A p \in Paths : Under(p, Here(s)) => AheadOf(s, p)
  BY <1>3, UnderIsAhead
<1> QED BY <1>2, <1>3, <1>4, <1>6 DEF BehindOf

(* A directory that is entered: what lies below it is still ahead.         *)
LEMMA PassingDown ==
  ASSUME image \in Images, NEW s, AreOpen(s), s # <<>>, NEW t, Passes(s, t), NEW e \in Inodes,
         s[Len(s)].offset <= Len(image[s[Len(s)].inode].entries),
         e = image[s[Len(s)].inode].entries[s[Len(s)].offset],
         image[e].kind = "dir", image[e].readable, image[e].dataRead, Len(s) <= MaxDirDepth,
         NEW u, Enters(t, u, e, Here(s))
  PROVE  /\ AreOpen(u) /\ BehindOf(u) = BehindOf(s) \cup {Here(s)}
         /\ Here(s) \notin BehindOf(s)
<1>1. e # Bad  BY Ext4ExtractorAssumption
<1>2. \A p \in Paths : AheadOf(t, p) <=> AheadOf(s, p) /\ ~Under(p, Here(s))
  BY <1>1, Passing
<1>3. /\ Here(s) \in Paths /\ Here(s) # <<>> /\ Len(Here(s)) = Len(s) /\ Lookup[Here(s)] = e
      /\ SubSeq(Here(s), 1, Len(s) - 1) = s[Len(s)].path /\ Here(s)[Len(s)] = s[Len(s)].offset
  BY <1>1, HereIs
<1>4. /\ AreOpen(u)
      /\ \A p \in Paths : AheadOf(u, p) <=>
           AheadOf(t, p) \/ (Under(p, Here(s)) /\ Len(p) > Len(s))
  BY Entering DEF EntersFrom
<1>6. /\ Under(Here(s), Here(s))
      /\ \A p \in Paths : Under(p, Here(s)) => AheadOf(s, p)
  BY <1>3, UnderIsAhead
<1>7. image \in Images  OBVIOUS
<1>8. ASSUME NEW p \in Paths, Lookup[p] \in Inodes, Under(p, Here(s)), p # Here(s)
      PROVE  Len(p) > Len(s)
  <2>1. PICK h \in Paths : h = Here(s) /\ Len(h) = Len(s)  BY <1>3
  <2>2. Under(p, h) /\ p # h  BY <1>8, <2>1
  <2>3. Len(p) > Len(h)  BY <1>7, <1>8, <2>2, Through
  <2> QED BY <2>1, <2>3
<1>9. ~(Len(Here(s)) > Len(s))
  <2>1. PICK c \in Nat : c = Len(s)  BY TopIs
  <2>2. Len(Here(s)) = c  BY <1>3, <2>1
  <2>3. ~(c > c)  OBVIOUS
  <2> QED BY <2>1, <2>2, <2>3
<1>10. ASSUME NEW p \in Paths, Lookup[p] \in Inodes
       PROVE  AheadOf(u, p) <=> AheadOf(s, p) /\ p # Here(s)
  <2>1. CASE p = Here(s)  BY <1>2, <1>4, <1>6, <1>9, <2>1
  <2>2. CASE p # Here(s) /\ Under(p, Here(s))  BY <1>4, <1>6, <1>8, <1>10, <2>2
  <2>3. CASE ~Under(p, Here(s))  BY <1>2, <1>4, <1>6, <2>3
  <2> QED BY <2>1, <2>2, <2>3
<1> QED BY <1>3, <1>4, <1>6, <1>10 DEF BehindOf

-----------------------------------------------------------------------------
(* The invariant of the walk: what is on disk and what was counted is what *)
(* the image has at the paths the walk is past.                            *)
Counters == {"files", "dirs", "symlinks", "failed"}

(* The counter a path is to be found in if those in R were refused.        *)
CounterIn(R, p) ==
  LET inode == Lookup[p] IN
  IF p = <<>> THEN "dirs"
  ELSE IF Extractable(p)
  THEN CASE image[inode].kind = "dir"  -> "dirs"
         [] image[inode].kind = "file" ->
              IF p \in R /\ image[inode].file.size # 0 THEN "failed" ELSE "files"
         [] OTHER -> IF p \in R THEN "failed" ELSE "symlinks"
  ELSE IF ~image[inode].readable \/ image[inode].kind = "file" THEN "failed" ELSE "none"

Counter(p) == CounterIn(refused, p)
CountedIn(R, w, paths) == {p \in paths : CounterIn(R, p) = w}
CountedAs(w, paths) == {p \in paths : Counter(p) = w}

Fresh == ~Begun => /\ stack = <<>> /\ DOMAIN out = {} /\ refused = {}
                   /\ count = NoCounts /\ result # "TRUE"
Ended == result # "none" => stack = <<>>
OnDisk ==
  /\ \A p \in DOMAIN out : p \in BehindOf(stack) /\ Extractable(p) /\ out[p].inode = Lookup[p]
  /\ \A p \in refused : p \in BehindOf(stack) /\ Extractable(p) /\ p \notin DOMAIN out
Found == Begun => \A p \in BehindOf(stack) : Extractable(p) => p \in DOMAIN out \cup refused
Tallied ==
  Begun => /\ IsFiniteSet(BehindOf(stack))
           /\ ~shared => \A w \in Counters : count[w] = Cardinality(CountedAs(w, BehindOf(stack)))

(* The paths the walk is past: none before it has begun.                   *)
Walked == IF Begun THEN BehindOf(stack) ELSE {}

WalkInv ==
  /\ image \in Images /\ AreOpen(stack)
  /\ count \in [Counters -> Nat] /\ shared \in BOOLEAN /\ result \in {"none", "TRUE", "FALSE"}
  /\ Fresh /\ Ended /\ OnDisk /\ Found /\ Tallied

(* One more path is counted once.                                          *)
LEMMA CountedOnce ==
  ASSUME NEW B, IsFiniteSet(B), NEW h, h \notin B, NEW w, NEW R
  PROVE  /\ IsFiniteSet(CountedIn(R, w, B)) /\ Cardinality(CountedIn(R, w, B)) \in Nat
         /\ IsFiniteSet(B \cup {h})
         /\ Cardinality(CountedIn(R, w, B \cup {h})) =
              IF CounterIn(R, h) = w THEN Cardinality(CountedIn(R, w, B)) + 1
                                     ELSE Cardinality(CountedIn(R, w, B))
<1>1. CountedIn(R, w, B) \subseteq B  BY DEF CountedIn
<1>2. IsFiniteSet(CountedIn(R, w, B))  BY <1>1, FS_Subset
<1>3. Cardinality(CountedIn(R, w, B)) \in Nat  BY <1>2, FS_CardinalityType
<1>4. IsFiniteSet(B \cup {h})  BY FS_AddElement
<1>5. CASE CounterIn(R, h) = w
  <2>1. CountedIn(R, w, B \cup {h}) = CountedIn(R, w, B) \cup {h}  BY <1>5 DEF CountedIn
  <2>2. h \notin CountedIn(R, w, B)  BY DEF CountedIn
  <2> QED BY <1>2, <1>3, <1>4, <1>5, <2>1, <2>2, FS_AddElement
<1>6. CASE CounterIn(R, h) # w
  <2>1. CountedIn(R, w, B \cup {h}) = CountedIn(R, w, B)  BY <1>6 DEF CountedIn
  <2> QED BY <1>2, <1>3, <1>4, <1>6, <2>1
<1> QED BY <1>5, <1>6

(* The counter of a path depends on its own refusal only.                  *)
LEMMA CounterStays ==
  ASSUME NEW R, NEW S, NEW p, p \in R <=> p \in S
  PROVE  CounterIn(R, p) = CounterIn(S, p)
BY DEF CounterIn

(* What is said of an image stays so while it does.                        *)
LEMMA SameImage ==
  ASSUME image' = image
  PROVE  /\ Lookup' = Lookup
         /\ \A p : Extractable(p)' <=> Extractable(p)
         /\ \A p : Counter(p)' = CounterIn(refused', p)
         /\ AreOpen(stack') => AreOpen(stack)'
         /\ BehindOf(stack)' = BehindOf(stack')
<1>1. Lookup' = Lookup  BY DEF Lookup, Listed
<1>2. \A p : Extractable(p)' <=> Extractable(p)  BY <1>1 DEF Extractable
<1>3. \A p : Counter(p)' = CounterIn(refused', p)  BY <1>1, <1>2 DEF Counter, CounterIn
<1>4. AreOpen(stack') => AreOpen(stack)'  BY <1>1 DEF AreOpen, IsOpen
<1>5. BehindOf(stack)' = BehindOf(stack')  BY <1>1 DEF BehindOf, AheadOf, AheadAt
<1> QED BY <1>1, <1>2, <1>3, <1>4, <1>5

(* What a step does to the tree and the counters when it passes a path.    *)
Visits(h) ==
  /\ shared \in BOOLEAN /\ UNCHANGED <<image, shared, result>>
  /\ count' \in [Counters -> Nat]
  /\ \/ UNCHANGED <<out, refused>> /\ ~Extractable(h)
     \/ /\ Extractable(h) /\ refused' = refused
        /\ DOMAIN out' = DOMAIN out \cup {h} /\ out'[h].inode = Lookup[h]
        /\ \A p \in DOMAIN out \ {h} : out'[p] = out[p]
     \/ Extractable(h) /\ refused' = refused \cup {h} /\ out' = out
  /\ \/ shared
     \/ CounterIn(refused', h) \notin Counters /\ count' = count
     \/ /\ CounterIn(refused', h) \in Counters
        /\ count' = [count EXCEPT ![CounterIn(refused', h)] = @ + 1]

LEMMA Visiting ==
  ASSUME WalkInv, result = "none", NEW h \in Paths, Visits(h), Begun \/ h = <<>>,
         AreOpen(stack'), h \notin Walked, BehindOf(stack') = Walked \cup {h}
  PROVE  WalkInv'
<1> DEFINE B == Walked
<1>1. image' = image /\ result' = result /\ shared' = shared /\ shared \in BOOLEAN
      /\ count' \in [Counters -> Nat]
  BY DEF Visits
<1>2. /\ Lookup' = Lookup /\ \A p : Extractable(p)' <=> Extractable(p)
      /\ \A p : Counter(p)' = CounterIn(refused', p)
      /\ AreOpen(stack)' /\ BehindOf(stack)' = B \cup {h}
  BY <1>1, SameImage
<1>3. /\ \A p \in DOMAIN out : p \in B /\ Extractable(p) /\ out[p].inode = Lookup[p]
      /\ \A p \in refused : p \in B /\ Extractable(p) /\ p \notin DOMAIN out
  BY DEF WalkInv, OnDisk, Walked, Fresh
<1>4. /\ IsFiniteSet(B)
      /\ ~shared => \A w \in Counters : count[w] = Cardinality(CountedAs(w, B))
      /\ \A p \in B : Extractable(p) => p \in DOMAIN out \cup refused
      /\ count \in [Counters -> Nat] /\ image \in Images
  <2>1. CASE Begun  BY <2>1 DEF WalkInv, Tallied, Found, Walked
  <2>2. CASE ~Begun
    <3>1. B = {} /\ IsFiniteSet(B)  BY <2>2, FS_EmptySet DEF Walked
    <3>2. \A w : CountedAs(w, B) = {}  BY <3>1 DEF CountedAs
    <3>3. \A w : Cardinality(CountedAs(w, B)) = 0  BY <3>2, FS_EmptySet
    <3>4. \A w \in Counters : count[w] = 0  BY <2>2 DEF WalkInv, Fresh, NoCounts, Counters
    <3> QED BY <3>1, <3>3, <3>4 DEF WalkInv
  <2> QED BY <2>1, <2>2
<1>5. h \notin B  OBVIOUS
<1> HIDE DEF B
<1>6. /\ \A p \in DOMAIN out' : p \in B \cup {h} /\ Extractable(p) /\ out'[p].inode = Lookup[p]
      /\ \A p \in refused' : p \in B \cup {h} /\ Extractable(p) /\ p \notin DOMAIN out'
      /\ \A p \in B \cup {h} : Extractable(p) => p \in DOMAIN out' \cup refused'
      /\ \A p \in B : p \in refused' <=> p \in refused
      /\ DOMAIN out \subseteq DOMAIN out' /\ refused \subseteq refused'
  <2>1. CASE UNCHANGED <<out, refused>> /\ ~Extractable(h)  BY <1>3, <1>4, <2>1
  <2>2. CASE /\ Extractable(h) /\ refused' = refused
             /\ DOMAIN out' = DOMAIN out \cup {h} /\ out'[h].inode = Lookup[h]
             /\ \A p \in DOMAIN out \ {h} : out'[p] = out[p]
    BY <1>3, <1>4, <1>5, <2>2
  <2>3. CASE Extractable(h) /\ refused' = refused \cup {h} /\ out' = out
    BY <1>3, <1>4, <1>5, <2>3
  <2> QED BY <2>1, <2>2, <2>3 DEF Visits
<1>7. PICK R : R = refused'  OBVIOUS
<1>8. \A w \in Counters : ~shared => count'[w] = Cardinality(CountedIn(R, w, B \cup {h}))
  <2> SUFFICES ASSUME NEW w \in Counters, ~shared
               PROVE  count'[w] = Cardinality(CountedIn(R, w, B \cup {h}))
    OBVIOUS
  <2>1. Cardinality(CountedIn(R, w, B)) \in Nat
        /\ Cardinality(CountedIn(R, w, B \cup {h})) =
             IF CounterIn(R, h) = w THEN Cardinality(CountedIn(R, w, B)) + 1
                                    ELSE Cardinality(CountedIn(R, w, B))
    BY <1>4, <1>5, CountedOnce
  <2>2. CountedIn(R, w, B) = CountedAs(w, B)
    <3>1. \A p \in B : CounterIn(R, p) = Counter(p)  BY <1>6, <1>7, CounterStays DEF Counter
    <3> QED BY <3>1 DEF CountedIn, CountedAs
  <2>3. count[w] = Cardinality(CountedIn(R, w, B))  BY <1>4, <2>2
  <2>4. PICK c : c = CounterIn(R, h)  OBVIOUS
  <2>5. \/ c \notin Counters /\ count' = count
        \/ c \in Counters /\ count' = [count EXCEPT ![c] = @ + 1]
    BY <1>7, <2>4 DEF Visits
  <2>6. count'[w] = IF c = w THEN count[w] + 1 ELSE count[w]
    <3>2. CASE c \notin Counters /\ count' = count  BY <3>2
    <3>3. CASE c \in Counters /\ count' = [count EXCEPT ![c] = @ + 1]  BY <1>4, <3>3
    <3> QED BY <2>5, <3>2, <3>3
  <2> QED BY <2>1, <2>3, <2>4, <2>6
<1>9. IsFiniteSet(B \cup {h})  BY <1>4, FS_AddElement
<1>10. Tallied'
  <2>1. \A w : CountedAs(w, BehindOf(stack))' = CountedIn(R, w, B \cup {h})
    BY <1>2, <1>7 DEF CountedAs, CountedIn
  <2> QED BY <1>1, <1>2, <1>8, <1>9, <2>1 DEF Tallied
<1>11. OnDisk' /\ Found'  BY <1>2, <1>6 DEF OnDisk, Found
<1>12. Begun'
  <2>1. h = <<>> => h \in DOMAIN out' \cup refused'  BY <1>6 DEF Extractable
  <2>2. Begun => <<>> \in DOMAIN out' \cup refused'  BY <1>6 DEF Begun
  <2> QED BY <2>1, <2>2 DEF Begun
<1>13. Fresh' /\ Ended'  BY <1>1, <1>12 DEF Fresh, Ended
<1> QED BY <1>1, <1>2, <1>4, <1>10, <1>11, <1>13 DEF WalkInv

(* Steps that only move.                                                   *)
LEMMA Moving ==
  ASSUME WalkInv, stack # <<>>, UNCHANGED <<image, out, refused, count, shared, result>>,
         AreOpen(stack'), BehindOf(stack') = BehindOf(stack)
  PROVE  WalkInv'
<1>1. /\ Lookup' = Lookup /\ \A p : Extractable(p)' <=> Extractable(p)
      /\ \A p : Counter(p)' = Counter(p)
      /\ AreOpen(stack)' /\ BehindOf(stack)' = BehindOf(stack)
  BY SameImage DEF Counter
<1>2. Begun /\ Begun' /\ result = "none"  BY DEF WalkInv, Fresh, Ended, Begun
<1>3. OnDisk'
  <2>1. OnDisk  BY DEF WalkInv
  <2> QED BY <1>1, <2>1 DEF OnDisk
<1>4. Found'
  <2>1. \A p \in BehindOf(stack) : Extractable(p) => p \in DOMAIN out \cup refused
    BY <1>2 DEF WalkInv, Found
  <2> QED BY <1>1, <2>1 DEF Found
<1>5. Tallied'
  <2>1. /\ IsFiniteSet(BehindOf(stack))
        /\ ~shared => \A w \in Counters : count[w] = Cardinality(CountedAs(w, BehindOf(stack)))
    BY <1>2 DEF WalkInv, Tallied
  <2>2. \A w : CountedAs(w, BehindOf(stack))' = CountedAs(w, BehindOf(stack))
    BY <1>1 DEF CountedAs
  <2> QED BY <1>1, <2>1, <2>2 DEF Tallied
<1>6. Fresh' /\ Ended'  BY <1>2 DEF Fresh, Ended
<1> QED BY <1>1, <1>3, <1>4, <1>5, <1>6 DEF WalkInv

(* Steps that leave the walk and what it left on disk alone.               *)
LEMMA Staying ==
  ASSUME WalkInv, UNCHANGED <<image, stack, out, refused>>,
         UNCHANGED <<count, shared>> \/ (shared' = TRUE /\ count' = NoCounts),
         result' \in {"none", "TRUE", "FALSE"}, Begun \/ result' # "TRUE", Ended'
  PROVE  WalkInv'
<1>1. /\ Lookup' = Lookup /\ \A p : Extractable(p)' <=> Extractable(p)
      /\ \A p : Counter(p)' = Counter(p)
      /\ AreOpen(stack)' /\ BehindOf(stack)' = BehindOf(stack)
  BY SameImage DEF WalkInv, Counter
<1>2. Begun' <=> Begun  BY DEF Begun
<1>3. OnDisk'
  <2>1. OnDisk  BY DEF WalkInv
  <2> QED BY <1>1, <2>1 DEF OnDisk
<1>4. Found'
  <2>1. Begun => \A p \in BehindOf(stack) : Extractable(p) => p \in DOMAIN out \cup refused
    BY DEF WalkInv, Found
  <2> QED BY <1>1, <1>2, <2>1 DEF Found
<1>5. Tallied'
  <2>1. Begun =>
        /\ IsFiniteSet(BehindOf(stack))
        /\ ~shared => \A w \in Counters : count[w] = Cardinality(CountedAs(w, BehindOf(stack)))
    BY DEF WalkInv, Tallied
  <2>2. \A w : CountedAs(w, BehindOf(stack))' = CountedAs(w, BehindOf(stack))
    BY <1>1 DEF CountedAs
  <2>3. ~shared' => UNCHANGED <<count, shared>>  OBVIOUS
  <2> QED BY <1>1, <1>2, <2>1, <2>2, <2>3 DEF Tallied
<1>6. count' \in [Counters -> Nat] /\ shared' \in BOOLEAN
  <2>1. NoCounts \in [Counters -> Nat]  BY DEF NoCounts, Counters
  <2> QED BY <2>1 DEF WalkInv
<1>7. Fresh'  BY <1>2 DEF WalkInv, Fresh
<1> QED BY <1>1, <1>3, <1>4, <1>5, <1>6, <1>7 DEF WalkInv

(* The step past an entry, and down into a directory.                      *)
LEMMA Advancing ==
  ASSUME image \in Images, AreOpen(stack), stack # <<>>
  PROVE  Passes(stack, Advanced)
<1>1. /\ Len(stack) \in Nat \ {0} /\ Len(stack) \in 1..Len(stack) /\ stack \in Seq(Frame)
      /\ stack[Len(stack)] \in Frame
  BY TopIs DEF AreOpen
<1>2. PICK L \in Nat \ {0} : L = Len(stack) /\ L \in 1..L  BY <1>1
<1>3. PICK f \in Frame : f = stack[L]  BY <1>1, <1>2
<1>4. PICK g : g = [f EXCEPT !.offset = @ + 1]  OBVIOUS
<1>5. g \in Frame /\ g.inode = f.inode /\ g.path = f.path /\ g.offset = f.offset + 1
  BY <1>3, <1>4 DEF Frame
<1>6. Advanced = [stack EXCEPT ![L] = g]  BY <1>2, <1>3, <1>4 DEF Advanced
<1>7. stack \in [1..L -> Frame]  BY <1>1, <1>2, LenProperties
<1>8. Advanced \in [1..L -> Frame] /\ Advanced[L] = g /\ \A n \in 1..(L - 1) : Advanced[n] = stack[n]
  BY <1>2, <1>5, <1>6, <1>7
<1>9. Advanced \in Seq(Frame)  BY <1>2, <1>8
<1>10. Len(Advanced) = L  BY <1>2, <1>8, <1>9
<1> QED BY <1>2, <1>3, <1>5, <1>8, <1>9, <1>10 DEF Passes

LEMMA Pushed ==
  ASSUME NEW t \in Seq(Frame), NEW d \in Inodes, NEW h \in Paths
  PROVE  Enters(t, Append(t, [inode |-> d, path |-> h, offset |-> 1]), d, h)
<1>1. PICK f : f = [inode |-> d, path |-> h, offset |-> 1]  OBVIOUS
<1>2. f \in Frame /\ f.inode = d /\ f.path = h /\ f.offset = 1  BY <1>1 DEF Frame
<1>3. /\ Append(t, f) \in Seq(Frame) /\ Len(Append(t, f)) = Len(t) + 1
      /\ Append(t, f)[Len(t) + 1] = f /\ \A i \in 1..Len(t) : Append(t, f)[i] = t[i]
  BY <1>2, Pushing
<1> QED BY <1>1, <1>2, <1>3 DEF Enters

(* Where an entry names an inode, what the step is about.                  *)
LEMMA AtInodeIs ==
  ASSUME WalkInv, AtInode
  PROVE  /\ stack # <<>> /\ Begun /\ result = "none" /\ image \in Images /\ AreOpen(stack)
         /\ Entry \in Inodes /\ Passes(stack, Advanced)
         /\ stack[Len(stack)].offset <= Len(image[stack[Len(stack)].inode].entries)
         /\ Entry = image[stack[Len(stack)].inode].entries[stack[Len(stack)].offset]
         /\ ThisPath = Here(stack) /\ ThisPath \in Paths /\ ThisPath # <<>>
         /\ Len(ThisPath) = Len(stack) /\ Lookup[ThisPath] = Entry
         /\ Walked = BehindOf(stack)
<1>1. stack # <<>> /\ image \in Images /\ AreOpen(stack) /\ Entry \in Inodes
  BY DEF WalkInv, AtInode, AtEntry
<1>2. Begun /\ result = "none" /\ Walked = BehindOf(stack)
  BY <1>1 DEF WalkInv, Fresh, Ended, Walked
<1>3. /\ stack[Len(stack)].offset <= Len(image[stack[Len(stack)].inode].entries)
      /\ Entry = image[stack[Len(stack)].inode].entries[stack[Len(stack)].offset]
      /\ ThisPath = Here(stack)
  BY DEF AtInode, AtEntry, Entry, Entries, Top, Last, ThisPath, Here
<1>4. Entry # Bad  BY <1>1, Ext4ExtractorAssumption
<1>5. /\ Here(stack) \in Paths /\ Here(stack) # <<>> /\ Len(Here(stack)) = Len(stack)
      /\ Lookup[Here(stack)] = Entry
  BY <1>1, <1>3, <1>4, HereIs
<1>6. Passes(stack, Advanced)  BY <1>1, Advancing
<1> QED BY <1>1, <1>2, <1>3, <1>5, <1>6

LEMMA CountingUp ==
  ASSUME WalkInv, NEW w \in Counters, Counted(w)
  PROVE  /\ shared \/ count' = [count EXCEPT ![w] = @ + 1]
         /\ count' \in [Counters -> Nat]
<1>1. count \in [Counters -> Nat]  BY DEF WalkInv
<1>2. CASE shared  BY <1>1, <1>2 DEF Counted
<1>3. CASE ~shared
  <2>1. count' = [count EXCEPT ![w] = @ + 1]  BY <1>3 DEF Counted
  <2> QED BY <1>1, <2>1
<1> QED BY <1>2, <1>3

LEMMA Placing ==
  ASSUME NEW h, NEW e, NEW bytes, Place(h, e, bytes)
  PROVE  /\ DOMAIN out' = DOMAIN out \cup {h} /\ out'[h].inode = e /\ out'[h].data = bytes
         /\ \A p \in DOMAIN out \ {h} : out'[p] = out[p]
         /\ refused' = refused
<1>1. out' = [p \in DOMAIN out \cup {h} |->
                IF p = h THEN [inode |-> e, data |-> bytes] ELSE out[p]]
  BY DEF Place
<1>2. out'[h] = [inode |-> e, data |-> bytes]  BY <1>1
<1>3. refused' = refused  BY DEF Place
<1> QED BY <1>1, <1>2, <1>3

(* What becomes of a path that can be extracted, and what is counted.      *)
LEMMA Placed ==
  ASSUME WalkInv, NEW h, Extractable(h), NEW e, Lookup[h] = e, NEW bytes, Place(h, e, bytes),
         NEW w \in Counters, CounterIn(refused, h) = w, Counted(w),
         UNCHANGED <<image, shared, result>>
  PROVE  Visits(h)
<1>1. /\ DOMAIN out' = DOMAIN out \cup {h} /\ out'[h].inode = Lookup[h]
      /\ \A p \in DOMAIN out \ {h} : out'[p] = out[p]
      /\ refused' = refused
  BY Placing
<1>2. /\ shared \/ count' = [count EXCEPT ![w] = @ + 1]
      /\ count' \in [Counters -> Nat]
  BY CountingUp
<1>3. shared \in BOOLEAN  BY DEF WalkInv
<1> QED BY <1>1, <1>2, <1>3 DEF Visits

LEMMA Refused ==
  ASSUME WalkInv, NEW h, Extractable(h), Deny(h),
         NEW w \in Counters, CounterIn(refused \cup {h}, h) = w, Counted(w),
         UNCHANGED <<image, shared, result>>
  PROVE  Visits(h)
<1>1. refused' = refused \cup {h} /\ out' = out  BY DEF Deny
<1>2. /\ shared \/ count' = [count EXCEPT ![w] = @ + 1]
      /\ count' \in [Counters -> Nat]
  BY CountingUp
<1>3. shared \in BOOLEAN  BY DEF WalkInv
<1> QED BY <1>1, <1>2, <1>3 DEF Visits

LEMMA PassingBy ==
  ASSUME WalkInv, AtInode, stack' = Advanced, ~Enterable(Entry, Len(stack)), Visits(ThisPath)
  PROVE  WalkInv'
<1>1. PICK t : t = stack'  OBVIOUS
<1>2. PICK e \in Inodes : e = Entry  BY AtInodeIs
<1>3. Passes(stack, t) /\ ~Enterable(e, Len(stack))  BY <1>1, <1>2, AtInodeIs
<1>4. /\ stack[Len(stack)].offset <= Len(image[stack[Len(stack)].inode].entries)
      /\ e = image[stack[Len(stack)].inode].entries[stack[Len(stack)].offset]
      /\ image \in Images /\ AreOpen(stack) /\ stack # <<>>
  BY <1>2, AtInodeIs
<1>5. /\ AreOpen(t) /\ BehindOf(t) = BehindOf(stack) \cup {Here(stack)}
      /\ Here(stack) \notin BehindOf(stack)
  BY <1>3, <1>4, PassingInode
<1>6. /\ AreOpen(stack') /\ BehindOf(stack') = Walked \cup {ThisPath}
      /\ ThisPath \notin Walked /\ ThisPath \in Paths /\ result = "none" /\ Begun
  BY <1>1, <1>5, AtInodeIs
<1> QED BY <1>6, Visiting

(* What a path is counted as.                                              *)
LEMMA CounterIs ==
  ASSUME WalkInv, AtInode, NEW e, e = Entry, NEW R
  PROVE  /\ ~image[e].readable => ~Extractable(ThisPath) /\ CounterIn(R, ThisPath) = "failed"
         /\ image[e].readable /\ image[e].kind = "other" =>
              ~Extractable(ThisPath) /\ CounterIn(R, ThisPath) = "none"
         /\ image[e].readable /\ image[e].kind = "dir" =>
              /\ Extractable(ThisPath) <=> Len(stack) <= MaxDirDepth
              /\ CounterIn(R, ThisPath) = IF Extractable(ThisPath) THEN "dirs" ELSE "none"
         /\ image[e].readable /\ image[e].kind = "link" =>
              /\ Extractable(ThisPath) <=> DataIsRead(image[e].file)
              /\ CounterIn(R, ThisPath) =
                   IF ~Extractable(ThisPath) THEN "none"
                   ELSE IF ThisPath \in R THEN "failed" ELSE "symlinks"
         /\ image[e].readable /\ image[e].kind = "file" =>
              /\ Extractable(ThisPath) <=> image[e].file.large \/ DataIsRead(image[e].file)
              /\ CounterIn(R, ThisPath) =
                   IF ~Extractable(ThisPath) \/ (ThisPath \in R /\ image[e].file.size # 0)
                   THEN "failed" ELSE "files"
<1>1. /\ ThisPath # <<>> /\ Lookup[ThisPath] = e /\ e \in Inodes /\ Len(ThisPath) = Len(stack)
  BY AtInodeIs
<1> DEFINE h == ThisPath
<1> HIDE DEF h
<1>2. h # <<>> /\ Lookup[h] = e /\ e \in Inodes /\ Len(h) = Len(stack)  BY <1>1 DEF h
<1>3. /\ ~image[e].readable => ~Extractable(h)
      /\ image[e].readable =>
           /\ image[e].kind = "other" => ~Extractable(h)
           /\ image[e].kind = "dir" => (Extractable(h) <=> Len(stack) <= MaxDirDepth)
           /\ image[e].kind = "link" => (Extractable(h) <=> DataIsRead(image[e].file))
           /\ image[e].kind = "file" =>
                (Extractable(h) <=> image[e].file.large \/ DataIsRead(image[e].file))
  BY <1>2 DEF Extractable
<1>4. /\ ~image[e].readable => CounterIn(R, h) = "failed"
      /\ image[e].readable =>
           /\ image[e].kind = "other" => CounterIn(R, h) = "none"
           /\ image[e].kind = "dir" => CounterIn(R, h) = IF Extractable(h) THEN "dirs" ELSE "none"
           /\ image[e].kind = "link" =>
                CounterIn(R, h) = IF ~Extractable(h) THEN "none"
                                  ELSE IF h \in R THEN "failed" ELSE "symlinks"
           /\ image[e].kind = "file" =>
                CounterIn(R, h) = IF ~Extractable(h) \/ (h \in R /\ image[e].file.size # 0)
                                  THEN "failed" ELSE "files"
  BY <1>2, <1>3 DEF CounterIn
<1> QED BY <1>3, <1>4 DEF h

(* The walk comes to every path for the first time.                        *)
LEMMA ComesOnce ==
  ASSUME WalkInv, AtInode
  PROVE  ThisPath \notin refused
<1>1. PICK e \in Inodes : e = Entry  BY AtInodeIs
<1>2. /\ stack[Len(stack)].offset <= Len(image[stack[Len(stack)].inode].entries)
      /\ e = image[stack[Len(stack)].inode].entries[stack[Len(stack)].offset]
      /\ image \in Images /\ AreOpen(stack) /\ stack # <<>> /\ ThisPath = Here(stack)
  BY <1>1, AtInodeIs
<1>3. e # Bad  BY Ext4ExtractorAssumption
<1>4. /\ Here(stack) \in Paths /\ Len(Here(stack)) = Len(stack)
      /\ SubSeq(Here(stack), 1, Len(stack) - 1) = stack[Len(stack)].path
      /\ Here(stack)[Len(stack)] = stack[Len(stack)].offset
  BY <1>2, <1>3, HereIs
<1>5. AheadOf(stack, Here(stack))  BY <1>2, <1>4, UnderIsAhead
<1> QED BY <1>2, <1>5 DEF WalkInv, OnDisk, BehindOf

-----------------------------------------------------------------------------
(* One lemma for each action.                                              *)

LEMMA UnreadableStep ==
  ASSUME WalkInv, UnreadableInode
  PROVE  WalkInv'
<1>1. AtInode /\ ~image[Entry].readable /\ Counted("failed") /\ stack' = Advanced
      /\ UNCHANGED <<image, out, refused, shared, result>>
  BY DEF UnreadableInode
<1>2. ~Extractable(ThisPath) /\ CounterIn(refused, ThisPath) = "failed" /\ "failed" \in Counters
  BY <1>1, CounterIs DEF Counters
<1>3. Visits(ThisPath)
  <2>1. shared \in BOOLEAN  BY DEF WalkInv
  <2> QED BY <1>1, <1>2, <2>1, CountingUp DEF Visits
<1>4. ~Enterable(Entry, Len(stack))  BY <1>1 DEF Enterable
<1> QED BY <1>1, <1>3, <1>4, PassingBy

LEMMA SymlinkStep ==
  ASSUME WalkInv, Symlink
  PROVE  WalkInv'
<1> DEFINE link == image[Entry].file
<1>1. AtInode /\ image[Entry].readable /\ image[Entry].kind = "link" /\ stack' = Advanced
      /\ UNCHANGED <<image, shared, result>>
  BY DEF Symlink
<1>2. /\ Extractable(ThisPath) <=> DataIsRead(link)
      /\ \A R : CounterIn(R, ThisPath) =
                   IF ~Extractable(ThisPath) THEN "none"
                   ELSE IF ThisPath \in R THEN "failed" ELSE "symlinks"
  BY <1>1, CounterIs
<1>3. "symlinks" \in Counters /\ "none" \notin Counters /\ "failed" \in Counters
      /\ count \in [Counters -> Nat] /\ shared \in BOOLEAN /\ Lookup[ThisPath] = Entry
      /\ ThisPath \notin refused
  BY <1>1, AtInodeIs, ComesOnce DEF WalkInv, Counters
<1>4. Visits(ThisPath)
  <2>1. CASE ~DataIsRead(link) /\ UNCHANGED <<out, refused, count>>
    BY <1>1, <1>2, <1>3, <2>1 DEF Visits
  <2>2. CASE /\ DataIsRead(link)
             /\ Counted("symlinks") /\ Place(ThisPath, Entry, Data(link))
    <3>1. Extractable(ThisPath) /\ CounterIn(refused, ThisPath) = "symlinks"
      BY <1>2, <1>3, <2>2
    <3> QED BY <1>1, <1>3, <2>2, <3>1, Placed
  <2>3. CASE DataIsRead(link) /\ Counted("failed") /\ Deny(ThisPath)
    <3>1. Extractable(ThisPath) /\ CounterIn(refused \cup {ThisPath}, ThisPath) = "failed"
      BY <1>2, <2>3
    <3> QED BY <1>1, <1>3, <2>3, <3>1, Refused
  <2> QED BY <2>1, <2>2, <2>3 DEF Symlink
<1>5. ~Enterable(Entry, Len(stack))  BY <1>1 DEF Enterable
<1> QED BY <1>1, <1>4, <1>5, PassingBy

LEMMA FileStep ==
  ASSUME WalkInv, RegularFile
  PROVE  WalkInv'
<1> DEFINE content == image[Entry].file
           whole == content.large \/ DataIsRead(content)
<1>1. AtInode /\ image[Entry].readable /\ image[Entry].kind = "file" /\ stack' = Advanced
      /\ UNCHANGED <<image, shared, result>>
      /\ \/ ~whole /\ Counted("failed") /\ UNCHANGED <<out, refused>>
         \/ whole /\ Counted("files") /\ Place(ThisPath, Entry, Data(content))
         \/ /\ whole /\ Counted(IF content.size = 0 THEN "files" ELSE "failed")
            /\ Deny(ThisPath)
  BY DEF RegularFile
<1>2. /\ Extractable(ThisPath) <=> whole
      /\ \A R : CounterIn(R, ThisPath) =
                   IF ~Extractable(ThisPath) \/ (ThisPath \in R /\ content.size # 0)
                   THEN "failed" ELSE "files"
  BY <1>1, CounterIs
<1>3. "files" \in Counters /\ "failed" \in Counters /\ shared \in BOOLEAN
      /\ Lookup[ThisPath] = Entry /\ ThisPath \notin refused
  BY <1>1, AtInodeIs, ComesOnce DEF WalkInv, Counters
<1> HIDE DEF whole, content
<1>4. Visits(ThisPath)
  <2>1. CASE ~whole /\ Counted("failed") /\ UNCHANGED <<out, refused>>
    <3>1. /\ shared \/ count' = [count EXCEPT !["failed"] = @ + 1]
          /\ count' \in [Counters -> Nat]
      BY <1>3, <2>1, CountingUp
    <3>2. ~Extractable(ThisPath) /\ CounterIn(refused, ThisPath) = "failed"  BY <1>2, <2>1
    <3> QED BY <1>1, <1>3, <2>1, <3>1, <3>2 DEF Visits
  <2>2. CASE whole /\ Counted("files") /\ Place(ThisPath, Entry, Data(content))
    <3>1. Extractable(ThisPath) /\ CounterIn(refused, ThisPath) = "files"  BY <1>2, <1>3, <2>2
    <3> QED BY <1>1, <1>3, <2>2, <3>1, Placed
  <2>3. CASE /\ whole /\ Counted(IF content.size = 0 THEN "files" ELSE "failed")
             /\ Deny(ThisPath)
    <3>1. PICK w \in Counters : w = IF content.size = 0 THEN "files" ELSE "failed"  BY <1>3
    <3>2. Extractable(ThisPath) /\ CounterIn(refused \cup {ThisPath}, ThisPath) = w
      BY <1>2, <2>3, <3>1
    <3>3. Counted(w) /\ Deny(ThisPath)  BY <2>3, <3>1
    <3> QED BY <1>1, <3>2, <3>3, Refused
  <2> QED BY <1>1, <2>1, <2>2, <2>3
<1>5. ~Enterable(Entry, Len(stack))  BY <1>1 DEF Enterable
<1> QED BY <1>1, <1>4, <1>5, PassingBy

LEMMA CutStep ==
  ASSUME WalkInv, WriteIsCut
  PROVE  WalkInv'
<1> DEFINE content == image[Entry].file
<1>1. AtInode /\ image[Entry].readable /\ image[Entry].kind = "file" /\ stack' = Advanced
      /\ UNCHANGED <<image, shared, result>>
      /\ (content.large \/ DataIsRead(content)) /\ Counted("files")
  BY DEF WriteIsCut
<1>2. PICK bytes : Place(ThisPath, Entry, bytes)  BY DEF WriteIsCut
<1>3. "files" \in Counters /\ Lookup[ThisPath] = Entry /\ ThisPath \notin refused
  BY <1>1, AtInodeIs, ComesOnce DEF Counters
<1>4. Extractable(ThisPath) /\ CounterIn(refused, ThisPath) = "files"  BY <1>1, <1>3, CounterIs
<1>5. Visits(ThisPath)  BY <1>1, <1>2, <1>3, <1>4, Placed
<1>6. ~Enterable(Entry, Len(stack))  BY <1>1 DEF Enterable
<1> QED BY <1>1, <1>5, <1>6, PassingBy

LEMMA SubdirectoryStep ==
  ASSUME WalkInv, Subdirectory
  PROVE  WalkInv'
<1>1. AtInode /\ image[Entry].readable /\ image[Entry].kind = "dir"
      /\ EnterDirectory(Entry, ThisPath, Advanced) /\ UNCHANGED <<image, shared, result>>
  BY DEF Subdirectory
<1>2. /\ Extractable(ThisPath) <=> Len(stack) <= MaxDirDepth
      /\ \A R : CounterIn(R, ThisPath) = IF Extractable(ThisPath) THEN "dirs" ELSE "none"
  BY <1>1, CounterIs
<1>3. shared \in BOOLEAN /\ "dirs" \in Counters /\ "none" \notin Counters
      /\ Begun /\ count \in [Counters -> Nat] /\ Lookup[ThisPath] = Entry
      /\ Len(ThisPath) = Len(stack) /\ image \in Images
  BY <1>1, AtInodeIs DEF WalkInv, Counters
<1>4. Len(stack) \in Nat /\ MaxDirDepth \in Nat /\ Len(ThisPath) \in Nat
  BY <1>1, <1>3, AtInodeIs, TopIs, Ext4ExtractorAssumption
<1>5. CASE TooDeep(ThisPath)
  <2>1. stack' = Advanced /\ UNCHANGED <<out, refused, count>>  BY <1>1, <1>5 DEF EnterDirectory
  <2>2. ~(Len(stack) <= MaxDirDepth)  BY <1>3, <1>4, <1>5 DEF TooDeep
  <2>3. Visits(ThisPath)  BY <1>1, <1>2, <1>3, <2>1, <2>2 DEF Visits
  <2>4. ~Enterable(Entry, Len(stack))  BY <2>2 DEF Enterable
  <2> QED BY <1>1, <2>1, <2>3, <2>4, PassingBy
<1>6. CASE ~TooDeep(ThisPath)
  <2>1. /\ Counted("dirs")
        /\ Place(ThisPath, Entry, <<>>) \/ Deny(ThisPath)
        /\ stack' = IF image[Entry].readable /\ image[Entry].dataRead
                    THEN Append(Advanced, [inode |-> Entry, path |-> ThisPath, offset |-> 1])
                    ELSE Advanced
    BY <1>1, <1>6 DEF EnterDirectory
  <2>2. Len(stack) <= MaxDirDepth  BY <1>3, <1>4, <1>6 DEF TooDeep
  <2>3. Extractable(ThisPath) /\ \A R : CounterIn(R, ThisPath) = "dirs"  BY <1>2, <2>2
  <2>5. Visits(ThisPath)
    <3>1. CASE Deny(ThisPath)  BY <1>1, <1>3, <2>1, <2>3, <3>1, Refused
    <3>2. CASE Place(ThisPath, Entry, <<>>)  BY <1>1, <1>3, <2>1, <2>3, <3>2, Placed
    <3> QED BY <2>1, <3>1, <3>2
  <2>6. CASE ~image[Entry].dataRead
    <3>1. stack' = Advanced /\ ~Enterable(Entry, Len(stack))  BY <2>1, <2>6 DEF Enterable
    <3> QED BY <1>1, <2>5, <3>1, PassingBy
  <2>7. CASE image[Entry].dataRead
    <3>1. PICK t : t = Advanced  OBVIOUS
    <3>2. PICK e \in Inodes : e = Entry  BY <1>1, AtInodeIs
    <3>3. PICK u : u = stack'  OBVIOUS
    <3>4. /\ Passes(stack, t) /\ image \in Images /\ AreOpen(stack) /\ stack # <<>>
          /\ stack[Len(stack)].offset <= Len(image[stack[Len(stack)].inode].entries)
          /\ e = image[stack[Len(stack)].inode].entries[stack[Len(stack)].offset]
          /\ ThisPath = Here(stack) /\ Here(stack) \in Paths
      BY <1>1, <3>1, <3>2, AtInodeIs
    <3>5. image[e].kind = "dir" /\ image[e].readable /\ image[e].dataRead
      BY <1>1, <2>7, <3>2
    <3>6. Enters(t, u, e, Here(stack))
      <4>1. t \in Seq(Frame)  BY <3>4 DEF Passes
      <4>2. PICK h \in Paths : h = Here(stack)  BY <3>4
      <4>3. u = Append(t, [inode |-> e, path |-> h, offset |-> 1])
        BY <1>1, <2>1, <2>7, <3>1, <3>2, <3>3, <3>4, <4>2
      <4> QED BY <4>1, <4>2, <4>3, Pushed
    <3>7. /\ AreOpen(u) /\ BehindOf(u) = BehindOf(stack) \cup {Here(stack)}
          /\ Here(stack) \notin BehindOf(stack)
      BY <2>2, <3>4, <3>5, <3>6, PassingDown
    <3>8. /\ AreOpen(stack') /\ BehindOf(stack') = Walked \cup {ThisPath}
          /\ ThisPath \notin Walked /\ ThisPath \in Paths /\ result = "none"
      BY <1>1, <3>3, <3>4, <3>7, AtInodeIs
    <3> QED BY <1>3, <2>5, <3>8, Visiting
  <2> QED BY <2>6, <2>7
<1> QED BY <1>5, <1>6

LEMMA SkipStep ==
  ASSUME WalkInv, SkipEntry
  PROVE  WalkInv'
<1>1. AtEntry /\ stack' = Advanced
      /\ UNCHANGED <<image, out, refused, count, shared, result>>
      /\ stack # <<>> /\ image \in Images /\ AreOpen(stack)
  BY DEF SkipEntry, AtEntry, WalkInv
<1>2. PICK t : t = stack'  OBVIOUS
<1>3. CASE Entry = Skipped
  <2>1. /\ stack[Len(stack)].offset <= Len(image[stack[Len(stack)].inode].entries)
        /\ image[stack[Len(stack)].inode].entries[stack[Len(stack)].offset] = Skipped
    BY <1>1, <1>3 DEF AtEntry, Entry, Entries, Top, Last
  <2>2. Passes(stack, t)  BY <1>1, <1>2, Advancing
  <2>3. AreOpen(t) /\ BehindOf(t) = BehindOf(stack)  BY <1>1, <2>1, <2>2, PassingSkipped
  <2> QED BY <1>1, <1>2, <2>3, Moving
<1>4. CASE Entry \in Inodes /\ image[Entry].readable /\ image[Entry].kind = "other"
  <2>1. AtInode  BY <1>1, <1>4 DEF AtInode
  <2>2. ~Extractable(ThisPath) /\ CounterIn(refused, ThisPath) = "none"  BY <1>4, <2>1, CounterIs
  <2>3. ~Enterable(Entry, Len(stack))  BY <1>4 DEF Enterable
  <2>4. shared \in BOOLEAN /\ "none" \notin Counters /\ count \in [Counters -> Nat]
    BY DEF WalkInv, Counters
  <2>5. Visits(ThisPath)  BY <1>1, <2>2, <2>4 DEF Visits
  <2> QED BY <1>1, <2>1, <2>3, <2>5, PassingBy
<1> QED BY <1>3, <1>4 DEF SkipEntry

LEMMA ReturnStep ==
  ASSUME WalkInv, Return
  PROVE  WalkInv'
<1>1. stack # <<>> /\ (AtEntry => Entry = Bad) /\ stack' = Front(stack)
      /\ UNCHANGED <<image, out, refused, count, shared, result>>
      /\ image \in Images /\ AreOpen(stack) /\ stack \in Seq(Frame)
  BY DEF Return, WalkInv, AreOpen
<1>2. PICK t : t = stack'  OBVIOUS
<1>3. Leaves(stack, t)
  <2>1. /\ Front(stack) \in Seq(Frame) /\ Len(Front(stack)) = Len(stack) - 1
        /\ \A i \in 1..(Len(stack) - 1) : Front(stack)[i] = stack[i]
    BY <1>1, Popping
  <2> QED BY <1>1, <1>2, <2>1 DEF Leaves
<1>4. stack[Len(stack)].offset <= Len(image[stack[Len(stack)].inode].entries) =>
        image[stack[Len(stack)].inode].entries[stack[Len(stack)].offset] = Bad
  BY <1>1 DEF AtEntry, Entry, Entries, Top, Last
<1>5. AreOpen(t) /\ BehindOf(t) = BehindOf(stack)  BY <1>1, <1>3, <1>4, LeavingKeeps
<1> QED BY <1>1, <1>2, <1>5, Moving

LEMMA BeginStep ==
  ASSUME WalkInv, Begin
  PROVE  WalkInv'
<1>1. result = "none" /\ stack = <<>> /\ ~Begun /\ EnterDirectory(Root, <<>>, <<>>)
      /\ UNCHANGED <<image, shared, result>> /\ image \in Images
  BY DEF Begin, WalkInv, Fresh
<1>2. PICK h \in Paths : h = <<>>  BY <1>1, RootIs
<1>3. Lookup[h] = Root /\ Root \in Inodes  BY <1>1, <1>2, RootIs
<1>4. ~TooDeep(h)
  <2>1. Len(h) = 0  BY <1>2, PathParts
  <2>2. ~(0 > MaxDirDepth)  BY Ext4ExtractorAssumption
  <2> QED BY <2>1, <2>2 DEF TooDeep
<1>5. /\ Counted("dirs")
      /\ Place(h, Root, <<>>) \/ Deny(h)
      /\ stack' = IF image[Root].readable /\ image[Root].dataRead
                  THEN Append(<<>>, [inode |-> Root, path |-> h, offset |-> 1])
                  ELSE <<>>
  BY <1>1, <1>2, <1>4 DEF EnterDirectory
<1>6. Extractable(h) /\ \A R : CounterIn(R, h) = "dirs"  BY <1>2 DEF Extractable, CounterIn
<1>7. "dirs" \in Counters  BY DEF Counters
<1>8. Visits(h)
  <2>1. CASE Deny(h)  BY <1>1, <1>5, <1>6, <1>7, <2>1, Refused
  <2>2. CASE Place(h, Root, <<>>)  BY <1>1, <1>3, <1>5, <1>6, <1>7, <2>2, Placed
  <2> QED BY <1>5, <2>1, <2>2
<1>9. PICK u : u = stack'  OBVIOUS
<1>10. AreOpen(u) /\ BehindOf(u) = {<<>>}
  <2>1. CASE image[Root].readable /\ image[Root].dataRead
    <3>1. <<>> \in Seq(Frame)  BY EmptySeq
    <3>2. Enters(<<>>, Append(<<>>, [inode |-> Root, path |-> h, offset |-> 1]), Root, h)
      <4>1. PICK t \in Seq(Frame) : t = <<>>  BY <3>1
      <4>2. Enters(t, Append(t, [inode |-> Root, path |-> h, offset |-> 1]), Root, h)
        BY <1>3, Pushed
      <4> QED BY <4>1, <4>2
    <3>3. Enters(<<>>, u, Root, <<>>)  BY <1>2, <1>5, <1>9, <2>1, <3>2
    <3> QED BY <1>1, <2>1, <3>3, Starting
  <2>2. CASE ~(image[Root].readable /\ image[Root].dataRead)
    <3>1. u = <<>>  BY <1>5, <1>9, <2>2
    <3> QED BY <1>1, <2>2, <3>1, Starting
  <2> QED BY <2>1, <2>2
<1>11. Walked = {}  BY <1>1 DEF Walked
<1>12. AreOpen(stack') /\ h \notin Walked /\ BehindOf(stack') = Walked \cup {h}
  BY <1>2, <1>9, <1>10, <1>11
<1> QED BY <1>1, <1>2, <1>8, <1>12, Visiting

LEMMA OtherSteps ==
  ASSUME WalkInv, NotAnImage \/ Finish \/ AnotherExtraction \/ Done \/ UNCHANGED walkVars
  PROVE  WalkInv'
<1>1. Fresh /\ Ended /\ result \in {"none", "TRUE", "FALSE"}  BY DEF WalkInv
<1>2. CASE NotAnImage
  <2>1. UNCHANGED <<image, stack, out, refused, count, shared>> /\ result' = "FALSE" /\ stack = <<>>
    BY <1>1, <1>2 DEF NotAnImage, Fresh
  <2> QED BY <2>1, Staying DEF Ended
<1>3. CASE Finish
  <2>1. UNCHANGED <<image, stack, out, refused, count, shared>> /\ stack = <<>> /\ Begun
        /\ result' \in {"none", "TRUE", "FALSE"}
    BY <1>3 DEF Finish
  <2> QED BY <2>1, Staying DEF Ended
<1>4. CASE AnotherExtraction
  <2>1. /\ UNCHANGED <<image, stack, out, refused, result>> /\ result = "none"
        /\ shared' = TRUE /\ count' = NoCounts
    BY <1>4 DEF AnotherExtraction
  <2> QED BY <2>1, Staying DEF Ended
<1>5. CASE Done \/ UNCHANGED walkVars
  <2>1. UNCHANGED <<image, stack, out, refused, count, shared, result>>
    BY <1>5 DEF Done, walkVars
  <2> QED BY <1>1, <2>1, Staying DEF Ended, Fresh
<1> QED BY <1>2, <1>3, <1>4, <1>5

LEMMA WalkStarts == WalkInit => WalkInv
<1> SUFFICES ASSUME WalkInit PROVE WalkInv  OBVIOUS
<1>1. image \in Images /\ stack = <<>> /\ out = <<>> /\ refused = {} /\ count = NoCounts
      /\ shared = FALSE /\ result = "none"
  BY DEF WalkInit
<1>2. AreOpen(stack)  BY <1>1, NothingOpen
<1>3. count \in [Counters -> Nat]  BY <1>1 DEF NoCounts, Counters
<1>4. DOMAIN out = {}
  <2>1. Len(<<>>) = 0 /\ DOMAIN <<>> = 1..0  BY EmptySeq
  <2> QED BY <1>1, <2>1
<1>5. ~Begun  BY <1>1, <1>4 DEF Begun
<1> QED BY <1>1, <1>2, <1>3, <1>4, <1>5 DEF WalkInv, Fresh, Ended, OnDisk, Found, Tallied

LEMMA WalkSteps == WalkInv /\ [WalkNext]_walkVars => WalkInv'
<1> SUFFICES ASSUME WalkInv, [WalkNext]_walkVars PROVE WalkInv'  OBVIOUS
<1>1. CASE Begin  BY <1>1, BeginStep
<1>2. CASE SkipEntry  BY <1>2, SkipStep
<1>3. CASE UnreadableInode  BY <1>3, UnreadableStep
<1>4. CASE Subdirectory  BY <1>4, SubdirectoryStep
<1>5. CASE Symlink  BY <1>5, SymlinkStep
<1>6. CASE RegularFile  BY <1>6, FileStep
<1>7. CASE WriteIsCut  BY <1>7, CutStep
<1>8. CASE Return  BY <1>8, ReturnStep
<1>9. CASE NotAnImage \/ Finish \/ AnotherExtraction \/ Done \/ UNCHANGED walkVars
  BY <1>9, OtherSteps
<1> QED BY <1>1, <1>2, <1>3, <1>4, <1>5, <1>6, <1>7, <1>8, <1>9 DEF WalkNext

LEMMA WalkHolds == WalkSpec => []WalkInv
BY WalkStarts, WalkSteps, PTL DEF WalkSpec

-----------------------------------------------------------------------------
LEMMA OpenIs ==
  ASSUME WalkInv, NEW n \in 1..Len(stack)
  PROVE  /\ stack[n].inode \in Inodes /\ stack[n].path \in Paths
         /\ stack[n].offset \in 1..(MaxEntries + 1)
<1>1. image \in Images /\ stack \in Seq(Frame) /\ IsOpen(stack[n], n)  BY DEF WalkInv, AreOpen
<1>2. stack[n] \in Frame  BY <1>1, ElementOfSeq
<1>3. PICK f \in Frame : f = stack[n]  BY <1>2
<1>4. f.inode \in Inodes /\ f.path \in Paths /\ f.offset \in Nat  BY DEF Frame
<1>5. Len(f.path) = n - 1 /\ Lookup[f.path] = f.inode /\ (n = 1 \/ image[f.inode].kind = "dir")
      /\ f.offset \in 1..(Len(image[f.inode].entries) + 1)
  BY <1>1, <1>3 DEF IsOpen
<1>6. n = 1 => f.inode = Root
  <2>1. n = 1 => f.path = <<>>  BY <1>4, <1>5, PathParts
  <2> QED BY <1>1, <1>5, <2>1, RootIs
<1>7. image[f.inode].entries \in Seq(Named) /\ Len(image[f.inode].entries) <= MaxEntries
  BY <1>1, <1>4, <1>5, <1>6, InodeIs DEF Named
<1>8. PICK c \in Nat : c = Len(image[f.inode].entries) /\ c <= MaxEntries  BY <1>7, LenProperties
<1>9. f.offset \in 1..(c + 1) /\ MaxEntries \in Nat  BY <1>5, <1>8, Ext4ExtractorAssumption
<1>10. f.offset \in 1..(MaxEntries + 1)  BY <1>8, <1>9
<1> QED BY <1>3, <1>4, <1>10

LEMMA WalkTypes == WalkInv => WalkTypeOK
<1> SUFFICES ASSUME WalkInv PROVE WalkTypeOK  OBVIOUS
<1>1. \A n \in 1..Len(stack) :
        stack[n].inode \in Inodes /\ stack[n].path \in Paths /\ stack[n].offset \in 1..(MaxEntries + 1)
  BY OpenIs
<1>2. /\ \A p \in DOMAIN out : p \in Paths /\ out[p].inode \in Inodes
      /\ \A p \in refused : p \in Paths
  BY DEF WalkInv, OnDisk, BehindOf
<1>3. /\ count \in [{"files", "dirs", "symlinks", "failed"} -> Nat]
      /\ shared \in BOOLEAN /\ result \in {"none", "TRUE", "FALSE"}
  BY DEF WalkInv, Counters
<1> QED BY <1>1, <1>2, <1>3 DEF WalkTypeOK

(* When the walk has come to its end, it is past all there is.             *)
LEMMA EndIs ==
  ASSUME WalkInv, Begun, stack = <<>>
  PROVE  /\ BehindOf(stack) = {p \in Paths : Lookup[p] \in Inodes}
         /\ \A p \in BehindOf(stack) : Extractable(p) => p \in DOMAIN out \cup refused
         /\ ~shared => \A w \in Counters : count[w] = Cardinality(CountedAs(w, BehindOf(stack)))
         /\ IsFiniteSet(BehindOf(stack))
<1>1. BehindOf(stack) = {p \in Paths : Lookup[p] \in Inodes}  BY NothingOpen DEF BehindOf
<1>2. \A p \in BehindOf(stack) : Extractable(p) => p \in DOMAIN out \cup refused
  BY DEF WalkInv, Found
<1>3. /\ ~shared => \A w \in Counters : count[w] = Cardinality(CountedAs(w, BehindOf(stack)))
      /\ IsFiniteSet(BehindOf(stack))
  BY DEF WalkInv, Tallied
<1> QED BY <1>1, <1>2, <1>3

LEMMA FoundIfExtractable ==
  ASSUME image \in Images, NEW p \in Paths, Extractable(p)
  PROVE  Lookup[p] \in Inodes
BY RootIs DEF Extractable

LEMMA TreeHolds == WalkInv => TreeIsFaithful
<1> SUFFICES ASSUME WalkInv PROVE TreeIsFaithful  OBVIOUS
<1>1. WalkTypeOK  BY WalkTypes
<1>2. /\ \A p \in DOMAIN out : Extractable(p) /\ out[p].inode = Lookup[p]
      /\ \A p \in refused : Extractable(p) /\ p \notin DOMAIN out
  BY DEF WalkInv, OnDisk
<1>3. ASSUME Begun, stack = <<>>, NEW p \in Paths, Extractable(p)
      PROVE  p \in DOMAIN out \cup refused
  <2>1. Lookup[p] \in Inodes  BY <1>3, FoundIfExtractable DEF WalkInv
  <2> QED BY <1>3, <2>1, EndIs
<1> QED BY <1>1, <1>2, <1>3 DEF TreeIsFaithful

(* What is counted of a path.                                              *)
LEMMA CountedIs ==
  ASSUME image \in Images, NEW p \in Paths, p # <<>>, Lookup[p] \in Inodes, NEW inode,
         inode = image[Lookup[p]]
  PROVE  /\ Counter(p) = "dirs" <=> Extractable(p) /\ inode.kind = "dir"
         /\ Counter(p) = "symlinks" <=> Extractable(p) /\ inode.kind = "link" /\ p \notin refused
         /\ Counter(p) = "files" <=> /\ Extractable(p) /\ inode.kind = "file"
                                     /\ p \notin refused \/ inode.file.size = 0
         /\ Counter(p) = "failed" <=>
              \/ ~inode.readable \/ (inode.kind = "file" /\ ~Extractable(p))
              \/ Extractable(p) /\ inode.kind = "link" /\ p \in refused
              \/ Extractable(p) /\ inode.kind = "file" /\ p \in refused /\ inode.file.size # 0
<1>1. inode.kind \in {"dir", "link", "file", "other"}  BY InodeIs
<1>2. Extractable(p) => inode.readable /\ inode.kind # "other"  BY DEF Extractable
<1>3. CASE Extractable(p)
  <2>1. inode.readable /\ inode.kind \in {"dir", "link", "file"}  BY <1>1, <1>2, <1>3
  <2>2. CASE inode.kind = "dir"  BY <1>3, <2>1, <2>2 DEF Counter, CounterIn
  <2>3. CASE inode.kind = "link"  BY <1>3, <2>1, <2>3 DEF Counter, CounterIn
  <2>4. CASE inode.kind = "file"  BY <1>3, <2>1, <2>4 DEF Counter, CounterIn
  <2> QED BY <2>1, <2>2, <2>3, <2>4
<1>4. CASE ~Extractable(p)
  <2>1. Counter(p) = IF ~inode.readable \/ inode.kind = "file" THEN "failed" ELSE "none"
    BY <1>4 DEF Counter, CounterIn
  <2> QED BY <1>4, <2>1
<1> QED BY <1>3, <1>4

LEMMA CountersHold == WalkInv => CountersTellTheTree
<1> SUFFICES ASSUME WalkInv PROVE CountersTellTheTree  OBVIOUS
<1> DEFINE created(kind) == {p \in DOMAIN out \ {<<>>} : image[out[p].inode].kind = kind}
           denied(kind)  == {p \in refused \ {<<>>} : image[Lookup[p]].kind = kind}
           empty  == {p \in denied("file") : image[Lookup[p]].file.size = 0}
           unread == {p \in Paths : /\ p # <<>> /\ Lookup[p] \in Inodes
                                    /\ \/ ~image[Lookup[p]].readable
                                       \/ image[Lookup[p]].kind = "file" /\ ~Extractable(p)}
           B == BehindOf(stack)
<1> SUFFICES ASSUME result = "TRUE", ~shared
             PROVE  /\ count.files = Cardinality(created("file") \cup empty)
                    /\ count.dirs = Cardinality(created("dir") \cup denied("dir")) + 1
                    /\ count.symlinks = Cardinality(created("link"))
                    /\ count.failed =
                         Cardinality(unread \cup denied("link") \cup (denied("file") \ empty))
  BY DEF CountersTellTheTree
<1>1. /\ \A p : p \in B <=> p \in Paths /\ Lookup[p] \in Inodes
      /\ \A p \in DOMAIN out : p \in B /\ Extractable(p) /\ out[p].inode = Lookup[p]
      /\ \A p \in refused : p \in B /\ Extractable(p) /\ p \notin DOMAIN out
      /\ \A p \in B : Extractable(p) => p \in DOMAIN out \cup refused
      /\ \A w \in Counters : count[w] = Cardinality(CountedAs(w, B))
      /\ IsFiniteSet(B) /\ image \in Images
  <2>1. image \in Images /\ Begun /\ stack = <<>>  BY DEF WalkInv, Ended, Fresh
  <2>2. /\ \A p \in DOMAIN out : p \in B /\ Extractable(p) /\ out[p].inode = Lookup[p]
        /\ \A p \in refused : p \in B /\ Extractable(p) /\ p \notin DOMAIN out
    BY DEF WalkInv, OnDisk
  <2> QED BY <2>1, <2>2, EndIs
<1> HIDE DEF B
<1>2. /\ \A p : p \in created("file") <=>
             p \in DOMAIN out /\ p # <<>> /\ image[Lookup[p]].kind = "file"
      /\ \A p : p \in created("link") <=>
             p \in DOMAIN out /\ p # <<>> /\ image[Lookup[p]].kind = "link"
      /\ \A p : p \in created("dir") <=>
             p \in DOMAIN out /\ p # <<>> /\ image[Lookup[p]].kind = "dir"
  BY <1>1
<1>3. /\ \A p : p \in denied("file") <=>
             p \in refused /\ p # <<>> /\ image[Lookup[p]].kind = "file"
      /\ \A p : p \in denied("link") <=>
             p \in refused /\ p # <<>> /\ image[Lookup[p]].kind = "link"
      /\ \A p : p \in denied("dir") <=>
             p \in refused /\ p # <<>> /\ image[Lookup[p]].kind = "dir"
      /\ \A p : p \in empty <=> p \in denied("file") /\ image[Lookup[p]].file.size = 0
      /\ \A p : p \in unread <=>
             /\ p \in B /\ p # <<>>
             /\ ~image[Lookup[p]].readable \/ (image[Lookup[p]].kind = "file" /\ ~Extractable(p))
  BY <1>1
<1>4. Counter(<<>>) = "dirs" /\ <<>> \in B  BY <1>1, RootIs DEF Counter, CounterIn
<1>5. /\ \A p \in B : p \in CountedAs("files", B) <=> Counter(p) = "files"
      /\ \A p \in B : p \in CountedAs("dirs", B) <=> Counter(p) = "dirs"
      /\ \A p \in B : p \in CountedAs("symlinks", B) <=> Counter(p) = "symlinks"
      /\ \A p \in B : p \in CountedAs("failed", B) <=> Counter(p) = "failed"
      /\ \A w : CountedAs(w, B) \subseteq B
  BY DEF CountedAs
<1> HIDE DEF created, denied, empty, unread
<1>6. ASSUME NEW p \in B
      PROVE  /\ p \in CountedAs("files", B) <=> p \in created("file") \cup empty
             /\ p \in CountedAs("dirs", B) <=> p \in (created("dir") \cup denied("dir")) \cup {<<>>}
             /\ p \in CountedAs("symlinks", B) <=> p \in created("link")
             /\ p \in CountedAs("failed", B) <=>
                  p \in unread \cup denied("link") \cup (denied("file") \ empty)
  <2>1. CASE p = <<>>  BY <1>2, <1>3, <1>4, <1>5, <2>1
  <2>2. CASE p # <<>>
    <3>1. PICK inode : inode = image[Lookup[p]]  OBVIOUS
    <3>2. p \in Paths /\ Lookup[p] \in Inodes /\ image \in Images  BY <1>1
    <3>3. /\ Counter(p) = "dirs" <=> Extractable(p) /\ inode.kind = "dir"
          /\ Counter(p) = "symlinks" <=> Extractable(p) /\ inode.kind = "link" /\ p \notin refused
          /\ Counter(p) = "files" <=> /\ Extractable(p) /\ inode.kind = "file"
                                      /\ p \notin refused \/ inode.file.size = 0
          /\ Counter(p) = "failed" <=>
               \/ ~inode.readable \/ (inode.kind = "file" /\ ~Extractable(p))
               \/ Extractable(p) /\ inode.kind = "link" /\ p \in refused
               \/ Extractable(p) /\ inode.kind = "file" /\ p \in refused /\ inode.file.size # 0
      BY <2>2, <3>1, <3>2, CountedIs
    <3>4. /\ p \in DOMAIN out <=> Extractable(p) /\ p \notin refused
          /\ p \in refused => Extractable(p)
      BY <1>1
    <3>5. /\ p \in CountedAs("files", B) <=> p \in created("file") \cup empty
          /\ p \in CountedAs("dirs", B) <=> p \in (created("dir") \cup denied("dir")) \cup {<<>>}
      BY <1>2, <1>3, <1>5, <2>2, <3>1, <3>3, <3>4
    <3>6. /\ p \in CountedAs("symlinks", B) <=> p \in created("link")
          /\ p \in CountedAs("failed", B) <=>
               p \in unread \cup denied("link") \cup (denied("file") \ empty)
      BY <1>2, <1>3, <1>5, <2>2, <3>1, <3>3, <3>4
    <3> QED BY <3>5, <3>6
  <2> QED BY <2>1, <2>2
<1>7. /\ \A p : p \in created("file") \cup empty => p \in B
      /\ \A p : p \in (created("dir") \cup denied("dir")) \cup {<<>>} => p \in B
      /\ \A p : p \in created("link") => p \in B
      /\ \A p : p \in unread \cup denied("link") \cup (denied("file") \ empty) => p \in B
  BY <1>1, <1>2, <1>3, <1>4
<1>8. /\ CountedAs("files", B) = created("file") \cup empty
      /\ CountedAs("dirs", B) = (created("dir") \cup denied("dir")) \cup {<<>>}
      /\ CountedAs("symlinks", B) = created("link")
      /\ CountedAs("failed", B) = unread \cup denied("link") \cup (denied("file") \ empty)
  BY <1>5, <1>6, <1>7
<1>9. count.dirs = Cardinality(created("dir") \cup denied("dir")) + 1
  <2>1. PICK D : D = created("dir") \cup denied("dir")  OBVIOUS
  <2>2. CountedAs("dirs", B) = D \cup {<<>>}  BY <1>8, <2>1
  <2>3. <<>> \notin D  BY <1>2, <1>3, <2>1
  <2>4. IsFiniteSet(D)
    <3>1. IsFiniteSet(CountedAs("dirs", B))  BY <1>1, <1>5, FS_Subset
    <3> QED BY <2>2, <3>1, FS_Subset
  <2>5. Cardinality(D \cup {<<>>}) = Cardinality(D) + 1  BY <2>3, <2>4, FS_AddElement
  <2> QED BY <1>1, <2>1, <2>2, <2>5 DEF Counters
<1> QED BY <1>1, <1>8, <1>9 DEF Counters

(* The walk moves on: the frame on top advances, or is left.               *)
LEMMA LaterPlaces ==
  ASSUME WalkInv, [WalkNext]_walkVars
  PROVE  shared' # shared \/ stack = <<>> \/ Later(stack', stack) \/ UNCHANGED walkVars
<1> SUFFICES ASSUME stack # <<>>, shared' = shared, ~UNCHANGED walkVars PROVE Later(stack', stack)
  OBVIOUS
<1>1. /\ image \in Images /\ AreOpen(stack) /\ stack \in Seq(Frame) /\ result = "none"
  BY DEF WalkInv, AreOpen, Ended
<1>2. /\ Len(stack) \in Nat \ {0} /\ Len(stack) \in 1..Len(stack) /\ stack[Len(stack)].offset \in Nat
  BY <1>1, TopIs
<1>3. Passes(stack, Advanced)  BY <1>1, Advancing
<1>4. ASSUME stack' = Advanced PROVE Later(stack', stack)
  <2>1. PICK c \in Nat : c = stack[Len(stack)].offset  BY <1>2
  <2>2. Advanced[Len(stack)].offset > stack[Len(stack)].offset
    <3>1. Advanced[Len(stack)].offset = c + 1  BY <1>3, <2>1 DEF Passes
    <3> QED BY <2>1, <3>1
  <2>3. Len(Advanced) = Len(stack) /\ \A m \in 1..(Len(stack) - 1) : Advanced[m] = stack[m]
    BY <1>3 DEF Passes
  <2>4. Len(Advanced) >= Len(stack)
    <3>1. PICK n \in Nat : n = Len(stack)  BY <1>2
    <3> QED BY <2>3, <3>1
  <2> QED BY <1>2, <1>4, <2>2, <2>3, <2>4 DEF Later
<1>5. CASE SkipEntry \/ UnreadableInode \/ Symlink \/ RegularFile \/ WriteIsCut
  <2>1. stack' = Advanced  BY <1>5 DEF SkipEntry, UnreadableInode, Symlink, RegularFile, WriteIsCut
  <2> QED BY <1>4, <2>1
<1>6. CASE Subdirectory
  <2>1. AtInode /\ EnterDirectory(Entry, ThisPath, Advanced)  BY <1>6 DEF Subdirectory
  <2>2. CASE stack' = Advanced  BY <1>4, <2>2
  <2>3. CASE stack' = Append(Advanced, [inode |-> Entry, path |-> ThisPath, offset |-> 1])
    <3>1. PICK t \in Seq(Frame) : t = Advanced /\ Len(t) = Len(stack)  BY <1>3 DEF Passes
    <3>2. PICK f \in Frame : f = [inode |-> Entry, path |-> ThisPath, offset |-> 1]
      <4>1. PICK e \in Inodes, h \in Paths : e = Entry /\ h = ThisPath  BY <2>1, AtInodeIs
      <4>2. [inode |-> e, path |-> h, offset |-> 1] \in Frame  BY DEF Frame
      <4> QED BY <4>1, <4>2
    <3>3. PICK u : u = stack'  OBVIOUS
    <3>4. u = Append(t, f)  BY <2>3, <3>1, <3>2, <3>3
    <3>5. Len(u) = Len(t) + 1 /\ \A i \in 1..Len(t) : u[i] = t[i]  BY <3>4, Pushing
    <3>6. PICK n \in Nat \ {0} : n = Len(stack) /\ n \in 1..n  BY <1>2
    <3>7. Len(u) >= n  BY <3>1, <3>5, <3>6
    <3>8. t[n].offset > stack[n].offset
      <4>1. PICK c \in Nat : c = stack[n].offset  BY <1>2, <3>6
      <4>2. t[n].offset = c + 1  BY <1>3, <3>1, <3>6, <4>1 DEF Passes
      <4> QED BY <4>1, <4>2
    <3>9. \A m \in 1..(n - 1) : t[m] = stack[m] /\ m \in 1..n  BY <1>3, <3>1, <3>6 DEF Passes
    <3>10. u[n].offset > stack[n].offset /\ \A m \in 1..(n - 1) : u[m] = stack[m]
      BY <3>1, <3>5, <3>6, <3>8, <3>9
    <3> QED BY <3>3, <3>6, <3>7, <3>10 DEF Later
  <2> QED BY <2>1, <2>2, <2>3 DEF EnterDirectory
<1>7. CASE Return
  <2>1. stack' = Front(stack)  BY <1>7 DEF Return
  <2>2. IsStrictPrefix(Front(stack), stack)
    <3>1. /\ Front(stack) \in Seq(Frame) /\ Len(Front(stack)) = Len(stack) - 1
          /\ \A i \in 1..(Len(stack) - 1) : Front(stack)[i] = stack[i]
      BY <1>1, Popping
    <3>8. PICK n \in Nat : n = Len(stack) - 1 /\ ~(n = Len(stack)) /\ n <= Len(stack) /\ n \in 0..n
      <4>1. PICK m \in Nat \ {0} : m = Len(stack)  BY <1>2
      <4>2. PICK n \in Nat : n = m - 1  BY <4>1
      <4>3. ~(n = m) /\ n <= m /\ n \in 0..n  BY <4>1, <4>2
      <4> QED BY <4>1, <4>2, <4>3
    <3>2. PICK t \in Seq(Frame) : t = Front(stack) /\ Len(t) = n /\ t = SubSeq(stack, 1, n)
      BY <3>1, <3>8 DEF Front
    <3>3. n \in 0..Len(t) /\ ~(n = Len(stack)) /\ n <= Len(stack)  BY <3>2, <3>8
    <3>4. /\ SubSeq(t, 1, n) \in Seq(Frame) /\ Len(SubSeq(t, 1, n)) = n
          /\ \A i \in 1..n : SubSeq(t, 1, n)[i] = t[i]
      BY <3>2, <3>3, Cutting
    <3>5. SubSeq(t, 1, n) = t  BY <3>2, <3>4, Same
    <3>6. t # stack  BY <3>2, <3>3
    <3>7. Len(t) <= Len(stack) /\ SubSeq(t, 1, Len(t)) = SubSeq(stack, 1, Len(t))
      BY <3>2, <3>3, <3>5
    <3> QED BY <3>2, <3>6, <3>7 DEF IsStrictPrefix, IsPrefix
  <2> QED BY <2>1, <2>2 DEF Later
<1>8. ~(NotAnImage \/ Begin \/ Finish \/ AnotherExtraction \/ Done)
  <2>1. Begun  BY DEF WalkInv, Fresh
  <2> QED BY <1>1, <2>1 DEF NotAnImage, Begin, Finish, AnotherExtraction, Done
<1> QED BY <1>5, <1>6, <1>7, <1>8 DEF WalkNext

-----------------------------------------------------------------------------
(* However the image is damaged and whatever the file system refuses, what *)
(* is created at a path is what the image has there, and when the walk is  *)
(* over, all that can be found and read has been created or was refused    *)
(* (extractDirectory and what it calls).                                   *)
THEOREM TreeCorrect == WalkSpec => []TreeIsFaithful
BY WalkHolds, TreeHolds, PTL

(* Unless another extraction of the process has been at them, the counters *)
(* of the last message are those of the tree: every path is counted once,  *)
(* also one that failed or was refused.                                    *)
THEOREM CountersCorrect == WalkSpec => []CountersTellTheTree
BY WalkHolds, CountersHold, PTL

(* Every step of the walk takes it to a later place of the image, also     *)
(* where directories contain one another.                                  *)
THEOREM WalkCorrect == WalkSpec => WalkGoesOn
<1>1. WalkInv /\ [WalkNext]_walkVars
        => [shared' # shared \/ stack = <<>> \/ Later(stack', stack)]_walkVars
  BY LaterPlaces
<1> QED BY <1>1, WalkHolds, PTL DEF WalkSpec, WalkGoesOn

-----------------------------------------------------------------------------
(* What is read of a file.                                                 *)

(* A value that is made step by step.                                      *)
StepOf(g, S) == g \in [Nat \X S -> S]
StepsOf(f, g, S, N, a) ==
  f \in [0..N -> S] /\ f[0] = a /\ \A n \in 1..N : f[n] = g[<<n, f[n - 1]>>]

LEMMA StepByStep ==
  ASSUME NEW S, NEW N \in Nat, NEW a \in S, NEW g, StepOf(g, S)
  PROVE  \E f : StepsOf(f, g, S, N, a)
<1> USE DEF StepOf
<1> DEFINE Good(n, f) == f \in [0..n -> S] /\ f[0] = a /\ \A m \in 1..n : f[m] = g[<<m, f[m - 1]>>]
           T == {n \in Nat : ~\E f : Good(n, f)}
<1>1. T = {}
  <2>1. SUFFICES ASSUME T # {} PROVE FALSE  OBVIOUS
  <2>2. PICK n \in T : \A m \in T : n <= m
    <3>1. T \subseteq Nat  OBVIOUS
    <3> HIDE DEF T
    <3> QED BY <2>1, <3>1, Least
  <2>3. n \in Nat /\ ~\E f : Good(n, f)  OBVIOUS
  <2>4. CASE n = 0
    <3> DEFINE f == [m \in 0..0 |-> a]
    <3>1. Good(0, f)
      <4>1. f \in [0..0 -> S] /\ f[0] = a  OBVIOUS
      <4>2. \A m \in 1..0 : FALSE  OBVIOUS
      <4> QED BY <4>1, <4>2
    <3> HIDE DEF Good, f
    <3> QED BY <2>3, <2>4, <3>1
  <2>5. CASE n # 0
    <3>1. n - 1 \in Nat /\ ~(n <= n - 1)  BY <2>3, <2>5
    <3>2. PICK h : Good(n - 1, h)  BY <2>2, <3>1
    <3>3. h \in [0..(n - 1) -> S] /\ h[0] = a /\ \A m \in 1..(n - 1) : h[m] = g[<<m, h[m - 1]>>]
      BY <3>2
    <3> DEFINE f == [m \in 0..n |-> IF m = n THEN g[<<n, h[n - 1]>>] ELSE h[m]]
    <3>4. h[n - 1] \in S  BY <3>1, <3>3
    <3>5. g[<<n, h[n - 1]>>] \in S  BY <2>3, <3>4
    <3>6. \A m \in 0..n : m # n => m \in 0..(n - 1)  BY <2>3
    <3>7. f \in [0..n -> S]  BY <3>3, <3>5, <3>6
    <3>8. \A m \in 0..(n - 1) : m \in 0..n /\ m # n /\ f[m] = h[m]  BY <2>3
    <3>9. n \in 0..n /\ f[n] = g[<<n, h[n - 1]>>] /\ n - 1 \in 0..(n - 1) /\ 0 \in 0..(n - 1)
      BY <2>3, <3>1
    <3>10. \A m \in 1..n : m = n \/ (m \in 1..(n - 1) /\ m - 1 \in 0..(n - 1) /\ m \in 0..(n - 1))
      BY <2>3
    <3> HIDE DEF f
    <3>11. f[0] = a  BY <3>3, <3>8, <3>9
    <3>12. \A m \in 1..n : f[m] = g[<<m, f[m - 1]>>]
      <4> SUFFICES ASSUME NEW m \in 1..n PROVE f[m] = g[<<m, f[m - 1]>>]  OBVIOUS
      <4>1. CASE m = n  BY <3>8, <3>9, <4>1
      <4>2. CASE m \in 1..(n - 1) /\ m - 1 \in 0..(n - 1) /\ m \in 0..(n - 1)
        BY <3>3, <3>8, <4>2
      <4> QED BY <3>10, <4>1, <4>2
    <3>13. Good(n, f)  BY <3>7, <3>11, <3>12
    <3> HIDE DEF Good
    <3> QED BY <2>3, <3>13
  <2> QED BY <2>4, <2>5
<1>2. N \notin T  BY <1>1
<1>3. PICK f : Good(N, f)  BY <1>2
<1> QED BY <1>3 DEF StepsOf

(* What comes step by step has a property that every step keeps.           *)
LEMMA Climbing ==
  ASSUME NEW N \in Nat, NEW P, 0 \in P, \A n \in 1..N : n - 1 \in P => n \in P
  PROVE  \A n \in 0..N : n \in P
<1> DEFINE T == {n \in 0..N : n \notin P}
<1>1. SUFFICES ASSUME T # {} PROVE FALSE  OBVIOUS
<1>2. PICK n \in T : \A m \in T : n <= m
  <2>1. T \subseteq Nat  OBVIOUS
  <2> HIDE DEF T
  <2> QED BY <1>1, <2>1, Least
<1>3. n \in 0..N /\ n \notin P  OBVIOUS
<1>4. n # 0  BY <1>3
<1>5. n - 1 \in 0..N /\ n \in 1..N /\ ~(n <= n - 1)  BY <1>3, <1>4
<1> QED BY <1>2, <1>3, <1>5

LEMMA Elements ==
  ASSUME NEW S, NEW s \in Seq(S)
  PROVE  Len(s) \in Nat /\ \A n \in 1..Len(s) : s[n] \in S
BY LenProperties, ElementOfSeq

LEMMA NumbersIn ==
  ASSUME NEW s \in Seq(Nat)
  PROVE  Len(s) \in Nat /\ \A n \in 1..Len(s) : s[n] \in Nat
<1>1. PICK S : S = Nat /\ s \in Seq(S)  OBVIOUS
<1>2. Len(s) \in Nat /\ \A n \in 1..Len(s) : s[n] \in S  BY <1>1, Elements, Zenon
<1> QED BY <1>1, <1>2, Zenon

(* The elements of s, then those of t.                                     *)
LEMMA Joining ==
  ASSUME NEW S, NEW s \in Seq(S), NEW t \in Seq(S)
  PROVE  /\ s \o t \in Seq(S) /\ Len(s \o t) = Len(s) + Len(t)
         /\ \A i \in 1..Len(s) : (s \o t)[i] = s[i]
         /\ \A i \in 1..Len(t) : (s \o t)[Len(s) + i] = t[i]
<1>1. Len(s) \in Nat /\ Len(t) \in Nat  BY LenProperties
<1>2. /\ s \o t \in Seq(S) /\ Len(s \o t) = Len(s) + Len(t)
      /\ \A i \in 1..(Len(s) + Len(t)) : (s \o t)[i] = IF i <= Len(s) THEN s[i] ELSE t[i - Len(s)]
  BY ConcatProperties
<1> QED BY <1>1, <1>2

(* What is read of a row, block by block.                                  *)
LEMMA ReadableIs ==
  ASSUME NEW row \in Seq(Nat), NEW further \in BOOLEAN
  PROVE  \E f \in [0..Len(row) -> Seq(Nat)] :
           /\ f[0] = <<>> /\ Readable(row, further) = f[Len(row)]
           /\ \A n \in 1..Len(row) :
                f[n] = IF row[n] \in Present /\ (further \/ Len(f[n - 1]) = n - 1)
                       THEN Append(f[n - 1], row[n]) ELSE f[n - 1]
<1> DEFINE N == Len(row)
           D(f) == [n \in 0..N |->
                      IF n = 0 THEN <<>>
                      ELSE IF row[n] \in Present /\ (further \/ Len(f[n - 1]) = n - 1)
                      THEN Append(f[n - 1], row[n]) ELSE f[n - 1]]
           Read == CHOOSE f : f = D(f)
           G(ns) == IF ns[1] \in 1..N /\ row[ns[1]] \in Present
                       /\ (further \/ Len(ns[2]) = ns[1] - 1)
                    THEN Append(ns[2], row[ns[1]]) ELSE ns[2]
           g == [ns \in Nat \X Seq(Nat) |-> G(ns)]
<1>1. N \in Nat /\ \A n \in 1..N : row[n] \in Nat /\ n \in Nat /\ n - 1 \in 0..N /\ n # 0
  <2>1. N \in Nat /\ \A n \in 1..N : row[n] \in Nat  BY NumbersIn
  <2> HIDE DEF N
  <2> QED BY <2>1
<1>2. Readable(row, further) = Read[N]  BY DEF Readable
<1>3. <<>> \in Seq(Nat)  BY EmptySeq
<1>4. g \in [Nat \X Seq(Nat) -> Seq(Nat)]
  <2>1. ASSUME NEW ns \in Nat \X Seq(Nat) PROVE G(ns) \in Seq(Nat)
    <3>0. PICK n : n = ns[1]  OBVIOUS
    <3>1. PICK s \in Seq(Nat) : s = ns[2]  OBVIOUS
    <3>2. ASSUME n \in 1..N PROVE Append(s, row[n]) \in Seq(Nat)
      <4>1. PICK k \in Nat : k = row[n]  BY <1>1, <3>2
      <4> QED BY <4>1, Pushing
    <3> QED BY <3>0, <3>1, <3>2
  <2> HIDE DEF G
  <2> QED BY <2>1
<1>5. \A n \in 1..N : \A s \in Seq(Nat) :
        g[<<n, s>>] = IF row[n] \in Present /\ (further \/ Len(s) = n - 1) THEN Append(s, row[n]) ELSE s
  <2> SUFFICES ASSUME NEW n \in 1..N, NEW s \in Seq(Nat)
               PROVE  g[<<n, s>>] = IF row[n] \in Present /\ (further \/ Len(s) = n - 1)
                                    THEN Append(s, row[n]) ELSE s
    OBVIOUS
  <2>3. n \in Nat  BY <1>1
  <2>4. <<n, s>> \in Nat \X Seq(Nat) /\ <<n, s>>[1] = n /\ <<n, s>>[2] = s
    <3> HIDE DEF g, G, N, D, Read
    <3> QED BY <2>3
  <2>1. PICK ns \in Nat \X Seq(Nat) : ns = <<n, s>> /\ ns[1] = n /\ ns[2] = s
    <3> HIDE DEF g, G, N, D, Read
    <3> QED BY <2>4
  <2>2. g[ns] = G(ns)
    <3> HIDE DEF G
    <3> QED OBVIOUS
  <2> QED BY <2>1, <2>2
<1> HIDE DEF g
<1>6. PICK f \in [0..N -> Seq(Nat)] : f[0] = <<>> /\ \A n \in 1..N : f[n] = g[<<n, f[n - 1]>>]
  <2>1. PICK S, e, h, M : S = Seq(Nat) /\ e = <<>> /\ h = g /\ M = N  OBVIOUS
  <2>2. M \in Nat /\ e \in S /\ h \in [Nat \X S -> S]  BY <1>1, <1>3, <1>4, <2>1
  <2>3. StepOf(h, S)  BY <2>2 DEF StepOf
  <2>4. PICK f : StepsOf(f, h, S, M, e)  BY <2>2, <2>3, StepByStep
  <2> QED BY <2>1, <2>4 DEF StepsOf
<1>7. \A n \in 1..N : f[n] = IF row[n] \in Present /\ (further \/ Len(f[n - 1]) = n - 1)
                             THEN Append(f[n - 1], row[n]) ELSE f[n - 1]
  BY <1>1, <1>5, <1>6
<1>8. \A n \in 0..N : n = 0 \/ n \in 1..N  BY <1>1
<1>9. f = D(f)  BY <1>6, <1>7, <1>8
<1> HIDE DEF D
<1>10. Read = D(Read)  BY <1>9
<1> DEFINE r == Read
<1>11. r = D(r)  BY <1>10
<1> HIDE DEF r
<1>12. /\ r[0] = <<>>
       /\ \A n \in 1..N : r[n] = IF row[n] \in Present /\ (further \/ Len(r[n - 1]) = n - 1)
                                 THEN Append(r[n - 1], row[n]) ELSE r[n - 1]
  <2>1. r = [n \in 0..N |->
               IF n = 0 THEN <<>>
               ELSE IF row[n] \in Present /\ (further \/ Len(r[n - 1]) = n - 1)
               THEN Append(r[n - 1], row[n]) ELSE r[n - 1]]
    BY <1>11 DEF D
  <2>2. 0 \in 0..N /\ \A n \in 1..N : n \in 0..N /\ n # 0  BY <1>1
  <2>3. r[0] = <<>>  BY <2>1, <2>2
  <2>4. \A n \in 1..N : r[n] = IF row[n] \in Present /\ (further \/ Len(r[n - 1]) = n - 1)
                               THEN Append(r[n - 1], row[n]) ELSE r[n - 1]
    BY <2>1, <2>2
  <2> QED BY <2>3, <2>4
<1>13. \A n \in 0..N : n \in {m \in 0..N : r[m] = f[m]}
  <2> DEFINE P == {m \in 0..N : r[m] = f[m]}
  <2>1. 0 \in P  BY <1>1, <1>6, <1>12
  <2>2. ASSUME NEW n \in 1..N, n - 1 \in P PROVE n \in P
    <3>1. r[n - 1] = f[n - 1]  BY <2>2
    <3>2. r[n] = f[n]  BY <1>7, <1>12, <3>1
    <3>3. n \in 0..N  BY <1>1
    <3> QED BY <3>2, <3>3
  <2> HIDE DEF P
  <2>3. \A n \in 0..N : n \in P  BY <1>1, <2>1, <2>2, Climbing
  <2> QED BY <2>3 DEF P
<1>14. r[N] = f[N]
  <2>1. N \in 0..N  BY <1>1
  <2> QED BY <1>13, <2>1
<1> QED BY <1>2, <1>6, <1>7, <1>14 DEF r

(* The blocks before the first that cannot be read are read, in place.     *)
LEMMA ReadableBegins ==
  ASSUME NEW row \in Seq(Nat), NEW further \in BOOLEAN, NEW m \in 0..Len(row),
         \A i \in 1..m : row[i] \in Present
  PROVE  /\ Readable(row, further) \in Seq(Nat) /\ Len(Readable(row, further)) <= Len(row)
         /\ Len(Readable(row, further)) >= m
         /\ \A i \in 1..m : Readable(row, further)[i] = row[i]
<1> DEFINE N == Len(row)
<1>1. N \in Nat /\ m \in Nat /\ m <= N /\ \A n \in 1..N : row[n] \in Nat /\ n - 1 \in 0..N /\ n \in 0..N
  <2>1. N \in Nat /\ \A n \in 1..N : row[n] \in Nat  BY NumbersIn
  <2>2. m \in 0..N  OBVIOUS
  <2> HIDE DEF N
  <2> QED BY <2>1, <2>2
<1>2. PICK f \in [0..N -> Seq(Nat)] :
           /\ f[0] = <<>> /\ Readable(row, further) = f[N]
           /\ \A n \in 1..N :
                f[n] = IF row[n] \in Present /\ (further \/ Len(f[n - 1]) = n - 1)
                       THEN Append(f[n - 1], row[n]) ELSE f[n - 1]
  BY ReadableIs
<1> HIDE DEF N
<1> DEFINE Q(n) == /\ Len(f[n]) <= n /\ (n <= m => Len(f[n]) = n) /\ (n >= m => Len(f[n]) >= m)
                   /\ \A i \in 1..m : i <= n => f[n][i] = row[i]
           P == {n \in 0..N : Q(n)}
<1>3. 0 \in P
  <2>1. Len(f[0]) = 0 /\ 0 \in 0..N /\ \A i \in 1..m : ~(i <= 0)  BY <1>1, <1>2, EmptySeq
  <2> QED BY <1>1, <2>1
<1>4. ASSUME NEW n \in 1..N, n - 1 \in P PROVE n \in P
  <2>1. Q(n - 1)  BY <1>4
  <2>2. PICK s \in Seq(Nat) : s = f[n - 1]  BY <1>1, <1>2
  <2>3. PICK t \in Seq(Nat) : t = f[n]  BY <1>1, <1>2
  <2>4. t = IF row[n] \in Present /\ (further \/ Len(s) = n - 1) THEN Append(s, row[n]) ELSE s
    BY <1>2, <2>2, <2>3
  <2>5. /\ Len(s) <= n - 1 /\ (n - 1 <= m => Len(s) = n - 1) /\ (n - 1 >= m => Len(s) >= m)
        /\ \A i \in 1..m : i <= n - 1 => s[i] = row[i]
    BY <2>1, <2>2
  <2>6. Len(s) \in Nat /\ n \in Nat \ {0}  BY LenProperties
  <2>7. /\ Len(Append(s, row[n])) = Len(s) + 1 /\ Append(s, row[n])[Len(s) + 1] = row[n]
        /\ \A i \in 1..Len(s) : Append(s, row[n])[i] = s[i]
    BY <1>1, Pushing
  <2>8. Len(t) <= n /\ (n <= m => Len(t) = n) /\ (n >= m => Len(t) >= m)
        /\ \A i \in 1..m : i <= n => t[i] = row[i]
    <3>1. CASE n <= m
      <4>1. Len(s) = n - 1 /\ row[n] \in Present  BY <1>1, <2>5, <2>6, <3>1
      <4>2. t = Append(s, row[n])  BY <2>4, <4>1
      <4>3. Len(t) = n /\ t[n] = row[n] /\ \A i \in 1..(n - 1) : t[i] = s[i]
        <5>1. Len(s) + 1 = n  BY <2>6, <4>1
        <5> QED BY <2>7, <4>1, <4>2, <5>1
      <4>4. \A i \in 1..m : i <= n => i = n \/ (i \in 1..(n - 1) /\ i <= n - 1)  BY <1>1, <2>6
      <4>5. \A i \in 1..m : i <= n => t[i] = row[i]  BY <2>5, <4>3, <4>4
      <4>6. n <= n /\ (n >= m => n >= m)  BY <2>6
      <4> QED BY <3>1, <4>3, <4>5, <4>6
    <3>2. CASE ~(n <= m)
      <4>1. Len(s) >= m /\ \A i \in 1..m : i <= n - 1 /\ s[i] = row[i] /\ i \in 1..Len(s)
        BY <1>1, <2>5, <2>6, <3>2
      <4>2. CASE t = s
        <5>1. Len(s) <= n  BY <2>5, <2>6
        <5> QED BY <3>2, <4>1, <4>2, <5>1
      <4>3. CASE t = Append(s, row[n])
        <5>1. Len(t) <= n /\ Len(t) >= m
          <6>1. PICK c \in Nat : c = Len(s) /\ c <= n - 1 /\ c >= m  BY <2>5, <2>6, <4>1
          <6>2. c + 1 <= n /\ c + 1 >= m  BY <1>1, <2>6, <6>1
          <6> QED BY <2>7, <4>3, <6>1, <6>2
        <5>2. \A i \in 1..m : t[i] = row[i]  BY <2>7, <4>1, <4>3
        <5> QED BY <3>2, <5>1, <5>2
      <4> QED BY <2>4, <4>2, <4>3
    <3> QED BY <3>1, <3>2
  <2>9. Q(n)  BY <2>3, <2>8
  <2> HIDE DEF Q
  <2> QED BY <1>1, <2>9
<1>5. \A n \in 0..N : n \in P
  <2> HIDE DEF P
  <2> QED BY <1>1, <1>3, <1>4, Climbing
<1>6. Q(N)
  <2>1. N \in 0..N  BY <1>1
  <2> HIDE DEF Q
  <2> QED BY <1>5, <2>1
<1>7. f[N] \in Seq(Nat)  BY <1>1, <1>2
<1>8. \A i \in 1..m : i <= N  BY <1>1
<1> QED BY <1>1, <1>2, <1>6, <1>7, <1>8 DEF N

(* Sequences joined one after the other.                                   *)
Joins(F, x, S) ==
  /\ F \in [0..Len(x) -> Seq(S)] /\ F[0] = <<>> /\ F[Len(x)] = FlattenSeq(x)
  /\ \A n \in 1..Len(x) : F[n] = F[n - 1] \o x[n]

LEMMA Flattening ==
  ASSUME NEW S, NEW x \in Seq(Seq(S))
  PROVE  (\E F : Joins(F, x, S)) /\ FlattenSeq(x) \in Seq(S)
<1> DEFINE N == Len(x)
           D(f) == [i \in 1..N |-> IF i = 1 THEN x[i] ELSE f[i - 1] \o x[i]]
           Flat == CHOOSE f : f = D(f)
           G(ns) == IF ns[1] \in 1..N THEN ns[2] \o x[ns[1]] ELSE ns[2]
           g == [ns \in Nat \X Seq(S) |-> G(ns)]
<1>1. N \in Nat /\ \A n \in 1..N : x[n] \in Seq(S) /\ n \in Nat /\ n - 1 \in 0..N /\ n # 0
  <2>1. N \in Nat /\ \A n \in 1..N : x[n] \in Seq(S)  BY Elements
  <2> HIDE DEF N
  <2> QED BY <2>1
<1>2. <<>> \in Seq(S)  BY EmptySeq
<1>3. N # 0 => FlattenSeq(x) = Flat[N]  BY DEF FlattenSeq
<1>4. N = 0 => FlattenSeq(x) = <<>>
  <2>1. N = 0 => x = <<>>
    <3>1. PICK T : T = Seq(S) /\ x \in Seq(T)  OBVIOUS
    <3> QED BY <3>1, EmptySeq
  <2> QED BY <2>1 DEF FlattenSeq
<1> HIDE DEF N
<1>5. StepOf(g, Seq(S))
  <2>1. ASSUME NEW ns \in Nat \X Seq(S) PROVE G(ns) \in Seq(S)
    <3>0. PICK n : n = ns[1]  OBVIOUS
    <3>1. PICK s \in Seq(S) : s = ns[2]  OBVIOUS
    <3>2. ASSUME n \in 1..N PROVE s \o x[n] \in Seq(S)
      <4>1. PICK t \in Seq(S) : t = x[n]  BY <1>1, <3>2
      <4> QED BY <4>1, Joining
    <3> QED BY <3>0, <3>1, <3>2
  <2> HIDE DEF G
  <2> QED BY <2>1 DEF StepOf
<1>6. \A n \in 1..N : \A s \in Seq(S) : g[<<n, s>>] = s \o x[n]
  <2> SUFFICES ASSUME NEW n \in 1..N, NEW s \in Seq(S) PROVE g[<<n, s>>] = s \o x[n]
    OBVIOUS
  <2>1. n \in Nat  BY <1>1
  <2>2. <<n, s>> \in Nat \X Seq(S) /\ <<n, s>>[1] = n /\ <<n, s>>[2] = s
    <3> HIDE DEF g, G, D, Flat
    <3> QED BY <2>1
  <2>3. PICK ns \in Nat \X Seq(S) : ns = <<n, s>> /\ ns[1] = n /\ ns[2] = s
    <3> HIDE DEF g, G, D, Flat
    <3> QED BY <2>2
  <2>4. g[ns] = G(ns)
    <3> HIDE DEF G
    <3> QED OBVIOUS
  <2> QED BY <2>3, <2>4
<1> HIDE DEF g
<1>7. PICK f : f \in [0..N -> Seq(S)] /\ f[0] = <<>> /\ \A n \in 1..N : f[n] = g[<<n, f[n - 1]>>]
  <2>1. PICK T, e, h, M : T = Seq(S) /\ e = <<>> /\ h = g /\ M = N  OBVIOUS
  <2>2. M \in Nat /\ e \in T /\ StepOf(h, T)  BY <1>1, <1>2, <1>5, <2>1
  <2>3. PICK f : StepsOf(f, h, T, M, e)  BY <2>2, StepByStep
  <2> QED BY <2>1, <2>3 DEF StepsOf
<1>8. \A n \in 1..N : f[n] = f[n - 1] \o x[n]  BY <1>1, <1>6, <1>7
<1>9. N # 0 => f[1] = x[1]
  <2>1. ASSUME N # 0 PROVE f[1] = x[1]
    <3>1. 1 \in 1..N /\ 1 - 1 = 0  BY <1>1, <2>1
    <3>2. PICK t \in Seq(S) : t = x[1]  BY <1>1, <3>1
    <3>3. f[1] = <<>> \o t  BY <1>7, <1>8, <3>1, <3>2
    <3>4. <<>> \o t = t  BY <3>2, ConcatEmptySeq
    <3> QED BY <3>2, <3>3, <3>4
  <2> QED BY <2>1
<1>10. \E h : h = D(h)
  <2> DEFINE h == [i \in 1..N |-> f[i]]
  <2>1. \A i \in 1..N : i # 1 => i - 1 \in 1..N  BY <1>1
  <2>2. \A i \in 1..N : h[i] = IF i = 1 THEN x[i] ELSE h[i - 1] \o x[i]
    <3> SUFFICES ASSUME NEW i \in 1..N PROVE h[i] = IF i = 1 THEN x[i] ELSE h[i - 1] \o x[i]
      OBVIOUS
    <3>1. CASE i = 1
      <4>1. N # 0  BY <1>1, <3>1
      <4> QED BY <1>9, <3>1, <4>1
    <3>2. CASE i # 1
      <4>1. h[i] = f[i] /\ h[i - 1] = f[i - 1]  BY <2>1, <3>2
      <4> QED BY <1>8, <3>2, <4>1
    <3> QED BY <3>1, <3>2
  <2>3. h = [i \in 1..N |-> h[i]]  OBVIOUS
  <2> HIDE DEF h
  <2>4. h = D(h)  BY <2>2, <2>3
  <2> QED BY <2>4
<1> HIDE DEF D
<1>11. Flat = D(Flat)  BY <1>10
<1> DEFINE r == Flat
<1>12. r = D(r)  BY <1>11
<1> HIDE DEF r
<1>13. \A n \in 1..N : r[n] = IF n = 1 THEN x[n] ELSE r[n - 1] \o x[n]
  <2>1. r = [i \in 1..N |-> IF i = 1 THEN x[i] ELSE r[i - 1] \o x[i]]  BY <1>12 DEF D
  <2> QED BY <2>1
<1>14. \A n \in 0..N : n \in {m \in 0..N : m = 0 \/ r[m] = f[m]}
  <2> DEFINE P == {m \in 0..N : m = 0 \/ r[m] = f[m]}
  <2>1. 0 \in P  BY <1>1
  <2>2. ASSUME NEW n \in 1..N, n - 1 \in P PROVE n \in P
    <3>1. n \in 0..N /\ (n # 1 => n - 1 # 0) /\ (n = 1 => N # 0)  BY <1>1
    <3>2. n - 1 = 0 \/ r[n - 1] = f[n - 1]  BY <2>2
    <3>3. r[n] = f[n]
      <4>1. CASE n = 1  BY <1>9, <1>13, <3>1, <4>1
      <4>2. CASE n # 1  BY <1>8, <1>13, <3>1, <3>2, <4>2
      <4> QED BY <4>1, <4>2
    <3> QED BY <3>1, <3>3
  <2> HIDE DEF P
  <2>3. \A n \in 0..N : n \in P  BY <1>1, <2>1, <2>2, Climbing
  <2> QED BY <2>3 DEF P
<1>15. f[N] = FlattenSeq(x)
  <2>1. N \in 0..N  BY <1>1
  <2>2. N # 0 => r[N] = f[N]  BY <1>14, <2>1
  <2> QED BY <1>3, <1>4, <1>7, <2>2 DEF r
<1>16. f[N] \in Seq(S)
  <2>1. N \in 0..N  BY <1>1
  <2> QED BY <1>7, <2>1
<1>17. Joins(f, x, S)  BY <1>7, <1>8, <1>15 DEF Joins, N
<1> QED BY <1>15, <1>16, <1>17

(* The extents of an extent tree are extents.                              *)
LEMMA ExtentsAre ==
  ASSUME NEW tree, \A n \in Nodes : IsNode(tree[n])
  PROVE  Extents(tree) \in Seq(ExtentRecord)
<1> DEFINE E == Seq(ExtentRecord)
           M == MaxExtentDepth + 1
           Leaves1(lower, n) ==
             IF tree[n].leaf THEN tree[n].extents
             ELSE FlattenSeq([i \in 1..Len(tree[n].children) |->
                    IF tree[n].children[i] = NoNode THEN <<>> ELSE lower[tree[n].children[i]]])
           Level(lower) == [n \in Nodes |-> IF ~tree[n].valid THEN <<>> ELSE Leaves1(lower, n)]
           Cell(f, d, n) ==
             IF d > MaxExtentDepth \/ ~tree[n].valid THEN <<>>
             ELSE IF tree[n].leaf THEN tree[n].extents
             ELSE FlattenSeq([i \in 1..Len(tree[n].children) |->
                    IF tree[n].children[i] = NoNode THEN <<>>
                    ELSE f[d + 1][tree[n].children[i]]])
           D(f) == [d \in 0..M |-> [n \in Nodes |-> Cell(f, d, n)]]
           Below1 == CHOOSE f : f = D(f)
<1>1. M \in Nat /\ MaxExtentDepth \in Nat /\ RootNode \in Nodes /\ NoNode \notin Nodes
  BY Ext4BlocksAssumption
<1>2. Extents(tree) = Below1[0][RootNode]  BY DEF Extents
<1>3. <<>> \in E  BY EmptySeq
<1>4. \A lower \in [Nodes -> E] : Level(lower) \in [Nodes -> E]
  <2> SUFFICES ASSUME NEW lower \in [Nodes -> E], NEW n \in Nodes, tree[n].valid
               PROVE  Leaves1(lower, n) \in E
    <3> HIDE DEF E, Leaves1
    <3> QED BY <1>3
  <2>1. CASE tree[n].leaf  BY <2>1 DEF IsNode
  <2>2. CASE ~tree[n].leaf
    <3>1. tree[n].children \in Seq(Nodes \cup {NoNode})  BY <2>2 DEF IsNode
    <3>2. PICK c : c = tree[n].children  OBVIOUS
    <3>3. Len(c) \in Nat /\ \A i \in 1..Len(c) : c[i] \in Nodes \cup {NoNode}  BY <3>1, <3>2, Elements
    <3> DEFINE s == [i \in 1..Len(c) |-> IF c[i] = NoNode THEN <<>> ELSE lower[c[i]]]
    <3>4. Leaves1(lower, n) = FlattenSeq(s)  BY <2>2, <3>2
    <3>5. s \in [1..Len(c) -> E]
      <4> HIDE DEF E, Leaves1
      <4> QED BY <1>3, <3>3
    <3> HIDE DEF s
    <3>6. s \in Seq(E)
      <4>0. PICK T : T = E /\ s \in [1..Len(c) -> T]  BY <3>5
      <4>1. PICK k \in Nat : k = Len(c) /\ s \in [1..k -> T]  BY <3>3, <4>0
      <4>2. s \in Seq(T)  BY <4>1
      <4> QED BY <4>0, <4>1, <4>2
    <3>7. FlattenSeq(s) \in E  BY <3>6, Flattening
    <3> QED BY <3>4, <3>7
  <2> QED BY <2>1, <2>2
<1>5. \A f : \A d \in 0..M : D(f)[d] = IF d = M THEN [n \in Nodes |-> <<>>] ELSE Level(f[d + 1])
  <2>1. ASSUME NEW f, NEW d \in 0..M, d = M PROVE [n \in Nodes |-> Cell(f, d, n)] = [n \in Nodes |-> <<>>]
    <3>1. d > MaxExtentDepth  BY <1>1, <2>1
    <3> QED BY <3>1
  <2>2. ASSUME NEW f, NEW d \in 0..M, d # M PROVE [n \in Nodes |-> Cell(f, d, n)] = Level(f[d + 1])
    <3>1. ~(d > MaxExtentDepth)  BY <1>1, <2>2
    <3>2. \A n \in Nodes : Cell(f, d, n) = IF ~tree[n].valid THEN <<>> ELSE Leaves1(f[d + 1], n)
      BY <3>1
    <3> HIDE DEF Cell, Leaves1
    <3> QED BY <3>2
  <2> HIDE DEF Cell, Level, M
  <2> QED BY <2>1, <2>2
<1> HIDE DEF Cell, Leaves1
<1>6. [n \in Nodes |-> <<>>] \in [Nodes -> E]
  <2> HIDE DEF E
  <2> QED BY <1>3
<1> DEFINE none == [n \in Nodes |-> <<>>]
<1>7. \E f : f = D(f)
  <2> DEFINE g == [ns \in Nat \X [Nodes -> E] |-> Level(ns[2])]
  <2>1. StepOf(g, [Nodes -> E])
    <3>1. \A ns \in Nat \X [Nodes -> E] : Level(ns[2]) \in [Nodes -> E]
      <4> HIDE DEF Level, E
      <4> QED BY <1>4
    <3> HIDE DEF Level, E
    <3> QED BY <3>1 DEF StepOf
  <2>2. \A k \in Nat : \A l \in [Nodes -> E] : g[<<k, l>>] = Level(l)
    <3> HIDE DEF Level, E
    <3> QED OBVIOUS
  <2> HIDE DEF g
  <2>3. PICK h : h \in [0..M -> [Nodes -> E]] /\ h[0] = none /\ \A k \in 1..M : h[k] = g[<<k, h[k - 1]>>]
    <3>1. PICK T, e, r, m : T = [Nodes -> E] /\ e = none /\ r = g /\ m = M  OBVIOUS
    <3>2. m \in Nat /\ e \in T /\ StepOf(r, T)  BY <1>1, <1>6, <2>1, <3>1
    <3>3. PICK f : StepsOf(f, r, T, m, e)  BY <3>2, StepByStep
    <3> QED BY <3>1, <3>3 DEF StepsOf
  <2> HIDE DEF none, Level, E
  <2>4. \A k \in 1..M : k \in Nat /\ k - 1 \in 0..M  BY <1>1
  <2>5. \A k \in 1..M : h[k] = Level(h[k - 1])  BY <2>2, <2>3, <2>4
  <2> DEFINE f == [d \in 0..M |-> h[M - d]]
  <2>6. \A d \in 0..M : d # M => d + 1 \in 0..M /\ M - d \in 1..M /\ M - d - 1 = M - (d + 1)
    BY <1>1
  <2>7. M - M = 0  BY <1>1
  <2>8. \A d \in 0..M : f[d] = IF d = M THEN none ELSE Level(f[d + 1])  BY <2>3, <2>5, <2>6, <2>7
  <2>9. f = [d \in 0..M |-> f[d]]  OBVIOUS
  <2> HIDE DEF f
  <2>10. \A d \in 0..M : D(f)[d] = f[d]
    <3> HIDE DEF D
    <3> QED BY <1>5, <2>8 DEF none
  <2>11. D(f) = [d \in 0..M |-> D(f)[d]]
    <3> HIDE DEF M
    <3> QED OBVIOUS
  <2> HIDE DEF D
  <2>12. f = D(f)  BY <2>9, <2>10, <2>11
  <2> QED BY <2>12
<1>8. Below1 = D(Below1)
  <2> HIDE DEF D
  <2> QED BY <1>7
<1> DEFINE b == Below1
<1>9. b = D(b)  BY <1>8
<1> HIDE DEF b, Level, E
<1>10. \A d \in 0..M : b[d] = IF d = M THEN none ELSE Level(b[d + 1])
  <2> HIDE DEF D
  <2> QED BY <1>5, <1>9
<1> DEFINE P == {t \in 0..M : b[M - t] \in [Nodes -> E]}
<1>11. 0 \in P
  <2>1. M \in 0..M /\ M - 0 = M /\ 0 \in 0..M  BY <1>1
  <2>2. b[M] = none  BY <1>10, <2>1
  <2>3. none \in [Nodes -> E]  BY <1>6
  <2> HIDE DEF none
  <2> QED BY <2>1, <2>2, <2>3
<1>12. ASSUME NEW t \in 1..M, t - 1 \in P PROVE t \in P
  <2>1. M - t \in 0..M /\ M - t # M /\ M - t + 1 = M - (t - 1) /\ t \in 0..M  BY <1>1
  <2>2. b[M - (t - 1)] \in [Nodes -> E]  BY <1>12
  <2>3. b[M - t] = Level(b[M - (t - 1)])  BY <1>10, <2>1
  <2> QED BY <1>4, <2>1, <2>2, <2>3
<1>13. \A t \in 0..M : t \in P
  <2> HIDE DEF P, M
  <2> QED BY <1>1, <1>11, <1>12, Climbing
<1>14. b[0] \in [Nodes -> E]
  <2>1. M \in 0..M /\ M - M = 0  BY <1>1
  <2> QED BY <1>13, <2>1
<1>15. b[0][RootNode] \in E  BY <1>1, <1>14
<1> QED BY <1>2, <1>15 DEF b, E

(* The blocks of an extent are read in place as far as they are there.     *)
LEMMA ExtentIsRead ==
  ASSUME NEW e \in ExtentRecord, NEW large \in BOOLEAN, NEW m \in 0..e.len,
         \A j \in 1..m : e.start + (j - 1) \in Present
  PROVE  /\ BlocksOf(e, large) \in Seq(Nat) /\ Len(BlocksOf(e, large)) <= e.len
         /\ Len(BlocksOf(e, large)) >= m
         /\ \A j \in 1..m : BlocksOf(e, large)[j] = e.start + (j - 1)
<1>1. PICK a \in Nat, l \in Nat : a = e.start /\ l = e.len  BY DEF ExtentRecord
<1>2. m \in Nat /\ m <= l /\ 0 \notin Present
  <2>1. m \in 0..l  BY <1>1
  <2> QED BY <2>1, Ext4BlocksAssumption
<1>3. \A j \in 1..m : a + (j - 1) \in Present  BY <1>1
<1>4. CASE a = 0
  <2>1. m = 0
    <3>1. SUFFICES ASSUME m # 0 PROVE FALSE  OBVIOUS
    <3>2. 1 \in 1..m /\ a + (1 - 1) = 0  BY <1>2, <1>4, <3>1
    <3>3. 0 \in Present  BY <1>3, <3>2
    <3> QED BY <1>2, <3>3
  <2>2. BlocksOf(e, large) = <<>>  BY <1>1, <1>4 DEF BlocksOf
  <2>3. <<>> \in Seq(Nat) /\ Len(<<>>) = 0  BY EmptySeq
  <2>4. \A j \in 1..m : FALSE  BY <2>1
  <2> QED BY <1>1, <1>2, <2>1, <2>2, <2>3, <2>4
<1>5. CASE a # 0
  <2> DEFINE s == [j \in 1..l |-> a + j - 1]
  <2>1. s \in [1..l -> Nat]  BY <1>1
  <2>2. PICK row : row = s  OBVIOUS
  <2>3. BlocksOf(e, large) = Readable(row, large)  BY <1>1, <1>5, <2>2 DEF BlocksOf
  <2>4. \A j \in 1..l : row[j] = a + (j - 1)  BY <1>1, <2>2
  <2> HIDE DEF s
  <2>5. row \in Seq(Nat) /\ Len(row) = l  BY <1>1, <2>1, <2>2
  <2>6. m \in 0..Len(row) /\ \A j \in 1..m : j \in 1..l  BY <1>1, <1>2, <2>5
  <2>7. \A j \in 1..m : row[j] \in Present  BY <1>3, <2>4, <2>6
  <2>8. /\ Readable(row, large) \in Seq(Nat) /\ Len(Readable(row, large)) <= Len(row)
        /\ Len(Readable(row, large)) >= m
        /\ \A i \in 1..m : Readable(row, large)[i] = row[i]
    BY <2>5, <2>6, <2>7, ReadableBegins
  <2> QED BY <1>1, <2>3, <2>4, <2>5, <2>6, <2>8
<1> QED BY <1>4, <1>5

-----------------------------------------------------------------------------
(* The blocks of a file in place.                                          *)
HasBlock(e, j) == e.block < j /\ j <= e.block + e.len

(* The first k blocks have the meaning M as far as they were read.         *)
AgreesWith(s, M, k) == \A j \in 1..k : j <= Len(s) => s[j] = M[j]

(* An extent that is read next when it is next in the file.                *)
LEMMA ExtentJoins ==
  ASSUME NEW s \in Seq(Nat), NEW e \in ExtentRecord, NEW large \in BOOLEAN, NEW k \in Nat, NEW M,
         NEW L \in Nat, L = Len(s), L < k, e.block = L, AgreesWith(s, M, k),
         \A j \in 1..k : HasBlock(e, j) => M[j] \in Present /\ M[j] = e.start + (j - 1 - e.block)
  PROVE  /\ s \o BlocksOf(e, large) \in Seq(Nat)
         /\ Len(s \o BlocksOf(e, large)) >= k \/ Len(s \o BlocksOf(e, large)) = e.block + e.len
         /\ AgreesWith(s \o BlocksOf(e, large), M, k)
<1>1. PICK a \in Nat, l \in Nat : a = e.start /\ l = e.len  BY DEF ExtentRecord
<1>2. PICK m \in Nat : m <= l /\ m <= k - L /\ (m = l \/ m = k - L)
  <2>1. PICK r \in Nat : r = k - L  OBVIOUS
  <2>2. CASE l <= r  BY <2>1, <2>2
  <2>3. CASE ~(l <= r)  BY <2>1, <2>3
  <2> QED BY <2>2, <2>3
<1>3. \A j \in 1..m : M[L + j] \in Present /\ M[L + j] = a + (j - 1)
  <2> SUFFICES ASSUME NEW j \in 1..m PROVE M[L + j] \in Present /\ M[L + j] = a + (j - 1)
    OBVIOUS
  <2>1. j \in Nat /\ 1 <= j /\ j <= m /\ L + m <= k /\ m <= l  BY <1>2
  <2>2. PICK i \in Nat : i = L + j  BY <2>1
  <2>3. i \in 1..k /\ i - 1 - L = j - 1 /\ L < i /\ i <= L + l  BY <2>1, <2>2
  <2>4. HasBlock(e, i)  BY <1>1, <2>3 DEF HasBlock
  <2>5. M[i] \in Present /\ M[i] = a + (i - 1 - L)  BY <1>1, <2>3, <2>4
  <2> QED BY <2>2, <2>3, <2>5
<1>4. m \in 0..e.len /\ \A j \in 1..m : e.start + (j - 1) \in Present  BY <1>1, <1>2, <1>3
<1>6. PICK b : b = BlocksOf(e, large)  OBVIOUS
<1>7. /\ b \in Seq(Nat) /\ Len(b) <= l /\ Len(b) >= m /\ Len(b) \in Nat
      /\ \A j \in 1..m : b[j] = a + (j - 1)
  <2>1. /\ b \in Seq(Nat) /\ Len(b) <= l /\ Len(b) >= m /\ \A j \in 1..m : b[j] = a + (j - 1)
    BY <1>1, <1>4, <1>6, ExtentIsRead
  <2> QED BY <2>1, LenProperties
<1>8. /\ s \o b \in Seq(Nat) /\ Len(s \o b) = L + Len(b)
      /\ \A i \in 1..L : (s \o b)[i] = s[i]
      /\ \A i \in 1..Len(b) : (s \o b)[L + i] = b[i]
  BY <1>7, Joining
<1>9. Len(s \o b) >= k \/ Len(s \o b) = e.block + e.len
  <2>1. PICK c \in Nat : c = Len(b) /\ c <= l /\ c >= m  BY <1>7
  <2>2. L + c >= k \/ L + c = L + l  BY <1>2, <2>1
  <2> QED BY <1>1, <1>8, <2>1, <2>2
<1>10. ASSUME NEW j \in 1..k, j <= Len(s \o b) PROVE (s \o b)[j] = M[j]
  <2>1. CASE j <= L
    <3>1. j \in 1..L  BY <2>1
    <3>2. s[j] = M[j]  BY <2>1 DEF AgreesWith
    <3> QED BY <1>8, <3>1, <3>2
  <2>2. CASE ~(j <= L)
    <3>1. PICK c \in Nat : c = Len(b) /\ c <= l /\ c >= m /\ j <= L + c  BY <1>7, <1>8, <1>10
    <3>2. PICK i \in 1..m : i = j - L /\ L + i = j /\ i <= c
      <4>1. j - L \in 1..m /\ j - L <= c /\ L + (j - L) = j  BY <1>2, <2>2, <3>1
      <4> QED BY <4>1
    <3>3. i \in 1..Len(b)  BY <3>1, <3>2
    <3>4. (s \o b)[L + i] = b[i]  BY <1>8, <3>3
    <3>5. M[L + i] = b[i]  BY <1>3, <1>7
    <3> QED BY <3>2, <3>4, <3>5
  <2> QED BY <2>1, <2>2
<1>11. AgreesWith(s \o b, M, k)  BY <1>10 DEF AgreesWith
<1> QED BY <1>6, <1>8, <1>9, <1>11

(* Their blocks, one extent after the other.                               *)
ReadsAll(F, x, large) == Joins(F, [i \in 1..Len(x) |-> BlocksOf(x[i], large)], Nat)

(* Each of the first k blocks is in an extent, which says where it is.     *)
Covered(x, k) == \A j \in 1..k : \E i \in 1..Len(x) : HasBlock(x[i], j)
Located(x, M, k) ==
  \A j \in 1..k : \A i \in 1..Len(x) :
    HasBlock(x[i], j) => M[j] \in Present /\ M[j] = x[i].start + (j - 1 - x[i].block)
Ordered(x) == \A i, j \in 1..Len(x) : i < j => x[i].block + x[i].len <= x[j].block

(* All extents one after the other give the first k blocks, if these are   *)
(* all in extents and the extents are in order.                            *)
LEMMA ExtentsInPlace ==
  ASSUME NEW x \in Seq(ExtentRecord), NEW large \in BOOLEAN, NEW k \in Nat, NEW M, NEW F,
         ReadsAll(F, x, large), Ordered(x), Covered(x, k), Located(x, M, k)
  PROVE  Len(F[Len(x)]) >= k /\ \A j \in 1..k : F[Len(x)][j] = M[j]
<1> DEFINE N == Len(x)
           y == [i \in 1..N |-> BlocksOf(x[i], large)]
           End(n) == IF n = 0 THEN 0 ELSE x[n].block + x[n].len
           Good(n) == (Len(F[n]) >= k \/ Len(F[n]) = End(n)) /\ AgreesWith(F[n], M, k)
           P == {n \in 0..N : Good(n)}
<1>1. N \in Nat /\ \A n \in 1..N : x[n] \in ExtentRecord /\ n - 1 \in 0..N /\ n \in 0..N /\ n # 0
  <2>1. N \in Nat /\ \A n \in 1..N : x[n] \in ExtentRecord  BY Elements
  <2> HIDE DEF N
  <2> QED BY <2>1
<1>2. Len(y) = N  BY <1>1
<1>3. /\ F \in [0..N -> Seq(Nat)] /\ F[0] = <<>>
      /\ \A n \in 1..N : F[n] = F[n - 1] \o BlocksOf(x[n], large)
  <2>1. \A n \in 1..N : y[n] = BlocksOf(x[n], large)  OBVIOUS
  <2>2. /\ F \in [0..Len(y) -> Seq(Nat)] /\ F[0] = <<>>
        /\ \A n \in 1..Len(y) : F[n] = F[n - 1] \o y[n]
    <3>1. Joins(F, y, Nat)  BY DEF ReadsAll
    <3> HIDE DEF y
    <3> QED BY <3>1 DEF Joins
  <2> HIDE DEF y, N
  <2> QED BY <1>2, <2>1, <2>2
<1> HIDE DEF y
<1>4. \A n \in 1..N : \E b, l \in Nat : b = x[n].block /\ l = x[n].len
  BY <1>1 DEF ExtentRecord
<1>5. \A i, j \in 1..N : i < j => x[i].block + x[i].len <= x[j].block  BY DEF Ordered
<1>6. \A j \in 1..k : \E i \in 1..N : HasBlock(x[i], j)  BY DEF Covered
<1>7. \A j \in 1..k : \A i \in 1..N :
        HasBlock(x[i], j) => M[j] \in Present /\ M[j] = x[i].start + (j - 1 - x[i].block)
  BY DEF Located
<1> HIDE DEF N
(* The extent of the next block is none of the first n.                    *)
<1>8. ASSUME NEW n \in 0..N, NEW j \in Nat, End(n) < j, NEW i \in 1..N, HasBlock(x[i], j)
      PROVE  i > n
  <2>1. SUFFICES ASSUME i <= n PROVE FALSE  BY <1>1
  <2>2. PICK bi \in Nat, li \in Nat : bi = x[i].block /\ li = x[i].len  BY <1>4
  <2>3. j <= bi + li  BY <1>8, <2>2 DEF HasBlock
  <2>4. n \in 1..N  BY <1>1, <2>1
  <2>5. PICK bn \in Nat, ln \in Nat : bn = x[n].block /\ ln = x[n].len  BY <1>4, <2>4
  <2>6. bn + ln < j  BY <1>1, <1>8, <2>4, <2>5
  <2>7. CASE i = n  BY <2>2, <2>3, <2>5, <2>6, <2>7
  <2>8. CASE i < n
    <3>1. bi + li <= bn  BY <1>5, <2>2, <2>4, <2>5, <2>8
    <3> QED BY <2>3, <2>6, <3>1
  <2> QED BY <2>1, <2>7, <2>8
<1>9. 0 \in P
  <2>1. Len(F[0]) = 0 /\ End(0) = 0 /\ 0 \in 0..N  BY <1>1, <1>3, EmptySeq
  <2>2. AgreesWith(F[0], M, k)  BY <2>1 DEF AgreesWith
  <2> QED BY <2>1, <2>2
<1>10. ASSUME NEW n \in 1..N, n - 1 \in P PROVE n \in P
  <2>1. PICK e \in ExtentRecord : e = x[n]  BY <1>1
  <2>2. PICK s \in Seq(Nat), L \in Nat : s = F[n - 1] /\ L = Len(s)
    <3>1. F[n - 1] \in Seq(Nat)  BY <1>1, <1>3
    <3> QED BY <3>1, LenProperties
  <2>3. F[n] = s \o BlocksOf(e, large)  BY <1>3, <2>1, <2>2
  <2>4. (L >= k \/ L = End(n - 1)) /\ AgreesWith(s, M, k)  BY <1>10, <2>2
  <2>5. PICK b \in Nat, l \in Nat : b = e.block /\ l = e.len  BY DEF ExtentRecord
  <2>6. CASE L >= k
    <3>1. 0 \in 0..e.len /\ \A j \in 1..0 : e.start + (j - 1) \in Present  BY <2>5
    <3>2. PICK t \in Seq(Nat) : t = BlocksOf(e, large)
      <4>1. PICK z : z = 0 /\ z \in 0..e.len /\ \A j \in 1..z : e.start + (j - 1) \in Present  BY <3>1
      <4>2. BlocksOf(e, large) \in Seq(Nat)  BY <4>1, ExtentIsRead
      <4> QED BY <4>2
    <3>3. /\ Len(s \o t) = L + Len(t) /\ Len(t) \in Nat
          /\ \A i \in 1..L : (s \o t)[i] = s[i]
      BY <2>2, Joining, LenProperties
    <3>4. Len(s \o t) >= k
      <4>1. PICK c \in Nat : c = Len(t)  BY <3>3
      <4> QED BY <2>6, <3>3, <4>1
    <3>5. AgreesWith(s \o t, M, k)
      <4>1. \A j \in 1..k : j \in 1..L /\ j <= L  BY <2>6
      <4>2. \A j \in 1..k : s[j] = M[j]  BY <2>2, <2>4, <4>1 DEF AgreesWith
      <4> QED BY <3>3, <4>1, <4>2 DEF AgreesWith
    <3> QED BY <1>1, <2>3, <3>2, <3>4, <3>5
  <2>7. CASE ~(L >= k)
    <3>1. L = End(n - 1) /\ L < k  BY <2>4, <2>7
    <3>2. PICK j \in 1..k : j = L + 1  BY <3>1
    <3>3. PICK i \in 1..N : HasBlock(x[i], j)  BY <1>6
    <3>4. i > n - 1
      <4>1. PICK m \in 0..N : m = n - 1  BY <1>1
      <4>2. End(m) < j  BY <3>1, <3>2, <4>1
      <4> HIDE DEF End
      <4> QED BY <1>8, <3>2, <3>3, <4>1, <4>2
    <3>5. PICK bi \in Nat, li \in Nat : bi = x[i].block /\ li = x[i].len  BY <1>4
    <3>6. bi < L + 1  BY <3>2, <3>3, <3>5 DEF HasBlock
    <3>7. b <= bi
      <4>1. CASE i = n  BY <2>1, <2>5, <3>5, <4>1
      <4>2. CASE i # n
        <5>1. n < i  BY <1>1, <3>4, <4>2
        <5>2. b + l <= bi  BY <1>5, <2>1, <2>5, <3>5, <5>1
        <5> QED BY <5>2
      <4> QED BY <4>1, <4>2
    <3>8. b >= L
      <4>1. CASE n = 1  BY <3>1, <4>1
      <4>2. CASE n # 1
        <5>1. PICK m \in 1..N : m = n - 1 /\ m < n /\ m # 0  BY <1>1, <4>2
        <5>2. PICK bm \in Nat, lm \in Nat : bm = x[m].block /\ lm = x[m].len  BY <1>4
        <5>3. bm + lm <= b  BY <1>5, <2>1, <2>5, <5>1, <5>2
        <5>4. L = bm + lm  BY <3>1, <5>1, <5>2
        <5> QED BY <5>3, <5>4
      <4> QED BY <4>1, <4>2
    <3>9. e.block = L  BY <2>5, <3>6, <3>7, <3>8
    <3>10. \A jj \in 1..k : HasBlock(e, jj) => M[jj] \in Present /\ M[jj] = e.start + (jj - 1 - e.block)
      BY <1>7, <2>1
    <3>11. /\ Len(s \o BlocksOf(e, large)) >= k \/ Len(s \o BlocksOf(e, large)) = e.block + e.len
           /\ AgreesWith(s \o BlocksOf(e, large), M, k)
      BY <2>2, <2>4, <3>1, <3>9, <3>10, ExtentJoins
    <3>12. End(n) = e.block + e.len  BY <1>1, <2>1
    <3> QED BY <1>1, <2>3, <3>11, <3>12
  <2> QED BY <2>6, <2>7
<1>11. \A n \in 0..N : n \in P
  <2> HIDE DEF P
  <2> QED BY <1>1, <1>9, <1>10, Climbing
<1>12. N \in 0..N /\ Good(N)
  <2>1. N \in 0..N  BY <1>1
  <2> HIDE DEF Good
  <2> QED BY <1>11, <2>1
<1>13. PICK L \in Nat : L = Len(F[N])  BY <1>3, <1>12, LenProperties
<1>14. L >= k
  <2>1. SUFFICES ASSUME L < k PROVE FALSE  OBVIOUS
  <2>2. L = End(N)  BY <1>12, <1>13, <2>1
  <2>3. PICK j \in 1..k : j = L + 1  BY <2>1
  <2>4. PICK i \in 1..N : HasBlock(x[i], j)  BY <1>6
  <2>5. End(N) < j  BY <2>2, <2>3
  <2>6. i > N
    <3> HIDE DEF End
    <3> QED BY <1>8, <1>12, <2>3, <2>4, <2>5
  <2> QED BY <1>1, <2>6
<1>15. \A j \in 1..k : F[N][j] = M[j]
  <2>1. AgreesWith(F[N], M, k)  BY <1>12
  <2>2. \A j \in 1..k : j <= L  BY <1>14
  <2> QED BY <1>13, <2>1, <2>2 DEF AgreesWith
<1> QED BY <1>13, <1>14, <1>15 DEF N

LEMMA TakeIs ==
  ASSUME NEW S, NEW s \in Seq(S), NEW n \in Nat
  PROVE  /\ Take(s, n) \in Seq(S) /\ Len(Take(s, n)) \in Nat /\ Len(Take(s, n)) <= n
         /\ Len(Take(s, n)) = n \/ Len(Take(s, n)) = Len(s)
         /\ \A i \in 1..Len(Take(s, n)) : Take(s, n)[i] = s[i]
<1>1. Len(s) \in Nat  BY LenProperties
<1>2. CASE n < Len(s)
  <2>1. n \in 0..Len(s)  BY <1>1, <1>2
  <2>2. /\ SubSeq(s, 1, n) \in Seq(S) /\ Len(SubSeq(s, 1, n)) = n
        /\ \A i \in 1..n : SubSeq(s, 1, n)[i] = s[i]
    BY <2>1, Cutting
  <2> QED BY <1>2, <2>2 DEF Take
<1>3. CASE ~(n < Len(s))
  <2>1. Take(s, n) = s  BY <1>3 DEF Take
  <2> QED BY <1>1, <1>3, <2>1
<1> QED BY <1>2, <1>3

(* The blocks of a file with extents.                                      *)
LEMMA BlocksOfExtents ==
  ASSUME NEW content, IsFile(content), content.form = "extents"
  PROVE  \E F, x : /\ x = Extents(content.tree) /\ x \in Seq(ExtentRecord)
                   /\ ReadsAll(F, x, content.large)
                   /\ Blocks(content) = F[Len(x)] /\ Blocks(content) \in Seq(Nat)
<1>1. content.large \in BOOLEAN /\ \A n \in Nodes : IsNode(content.tree[n])  BY DEF IsFile
<1>0. PICK tree : tree = content.tree  OBVIOUS
<1>2. PICK large \in BOOLEAN : large = content.large  BY <1>1, Zenon
<1>3. \A n \in Nodes : IsNode(tree[n])  BY <1>0, <1>1
<1>4. PICK x \in Seq(ExtentRecord) : x = Extents(tree)  BY <1>3, ExtentsAre
<1>5. PICK N \in Nat : N = Len(x) /\ \A i \in 1..N : x[i] \in ExtentRecord  BY Elements
<1> DEFINE y == [i \in 1..N |-> BlocksOf(x[i], large)]
<1>6. PICK z : z = y  OBVIOUS
<1>7. z \in Seq(Seq(Nat)) /\ Len(z) = N
  <2>1. ASSUME NEW i \in 1..N PROVE BlocksOf(x[i], large) \in Seq(Nat)
    <3>1. PICK e \in ExtentRecord : e = x[i]  BY <1>5
    <3>2. PICK m \in Nat : m = 0 /\ m \in 0..e.len /\ \A j \in 1..m : e.start + (j - 1) \in Present
      <4>1. e.len \in Nat  BY DEF ExtentRecord
      <4>2. 0 \in 0..e.len /\ \A j \in 1..0 : e.start + (j - 1) \in Present  BY <4>1
      <4> QED BY <4>2
    <3>3. BlocksOf(e, large) \in Seq(Nat)  BY <3>2, ExtentIsRead
    <3> QED BY <3>1, <3>3
  <2>2. PICK T : T = Seq(Nat)  OBVIOUS
  <2>3. y \in [1..N -> T]  BY <2>1, <2>2
  <2> HIDE DEF y
  <2>4. y \in Seq(T) /\ Len(y) = N  BY <2>3
  <2> QED BY <1>6, <2>2, <2>4
<1>8. (\E F : Joins(F, z, Nat)) /\ FlattenSeq(z) \in Seq(Nat)
  <2>1. PICK S : S = Nat  OBVIOUS
  <2>2. z \in Seq(Seq(S))  BY <1>7, <2>1
  <2>3. (\E F : Joins(F, z, S)) /\ FlattenSeq(z) \in Seq(S)  BY <2>2, Flattening
  <2> QED BY <2>1, <2>3
<1>9. PICK F : Joins(F, z, Nat)  BY <1>8
<1>10. F[N] = FlattenSeq(z)  BY <1>7, <1>9 DEF Joins
<1>11. Blocks(content) = FlattenSeq(z)
  <2>1. Blocks(content) = FlattenSeq([i \in 1..Len(Extents(content.tree)) |->
                                      BlocksOf(Extents(content.tree)[i], content.large)])
    BY DEF Blocks
  <2> QED BY <1>0, <1>2, <1>4, <1>5, <1>6, <2>1
<1>12. ReadsAll(F, x, content.large)
  <2>1. z = [i \in 1..Len(x) |-> BlocksOf(x[i], content.large)]  BY <1>2, <1>5, <1>6
  <2> QED BY <1>9, <2>1 DEF ReadsAll
<1> QED BY <1>0, <1>4, <1>5, <1>8, <1>10, <1>11, <1>12

(* What a block of such a file means.                                      *)
LEMMA MeantByExtents ==
  ASSUME NEW content, IsFile(content), content.form = "extents", InOrder(content),
         NEW x \in Seq(ExtentRecord),
         x = Extents(content.tree), NEW j \in 1..content.size, Meaning(content)[j] \in Present
  PROVE  /\ \E i \in 1..Len(x) : HasBlock(x[i], j)
         /\ \A i \in 1..Len(x) :
              HasBlock(x[i], j) => Meaning(content)[j] = x[i].start + (j - 1 - x[i].block)
<1> DEFINE written == {e \in ToSet(Extents(content.tree)) : e.written}
           cover == {e \in written : e.block < j /\ j <= e.block + e.len}
           here == CHOOSE e \in cover : TRUE
           Sense(jj) == LET c == {e \in written : e.block < jj /\ jj <= e.block + e.len}
                        IN  IF c = {} THEN 0
                            ELSE LET e == CHOOSE e \in c : TRUE IN e.start + (jj - 1 - e.block)
<1>1. Meaning(content) = [jj \in 1..content.size |-> Sense(jj)]  BY DEF Meaning
<1>2. Meaning(content)[j] = Sense(j)
  <2> HIDE DEF Sense
  <2> QED BY <1>1
<1>3. Sense(j) = IF cover = {} THEN 0 ELSE here.start + (j - 1 - here.block)  OBVIOUS
<1>4. cover # {}
  <2>1. 0 \notin Present  BY Ext4BlocksAssumption
  <2> HIDE DEF cover, Sense
  <2> QED BY <1>2, <1>3, <2>1
<1>5. here \in cover
  <2> HIDE DEF cover
  <2> QED BY <1>4
<1>6. PICK N \in Nat : N = Len(x) /\ \A i \in 1..N : x[i] \in ExtentRecord  BY Elements
<1>7. PICK h \in 1..N : here = x[h]
  <2>1. ToSet(x) = {x[i] : i \in DOMAIN x}  BY DEF ToSet
  <2>2. DOMAIN x = 1..N  BY <1>6
  <2>3. here \in ToSet(x)  BY <1>5, Zenon
  <2> HIDE DEF here
  <2> QED BY <2>1, <2>2, <2>3
<1>8. HasBlock(x[h], j)
  <2>1. here.block < j /\ j <= here.block + here.len  BY <1>5
  <2> HIDE DEF here
  <2> QED BY <1>7, <2>1 DEF HasBlock
<1>9. Meaning(content)[j] = x[h].start + (j - 1 - x[h].block)
  <2> HIDE DEF here, cover, Sense
  <2> QED BY <1>2, <1>3, <1>4, <1>7
<1> HIDE DEF here, cover, written, Sense
<1>10. \A a, b \in 1..N : a < b => x[a].block + x[a].len <= x[b].block  BY <1>6 DEF InOrder
<1>11. ASSUME NEW i \in 1..N, HasBlock(x[i], j) PROVE i = h
  <2>1. PICK bi \in Nat, li \in Nat : bi = x[i].block /\ li = x[i].len  BY <1>6 DEF ExtentRecord
  <2>2. PICK bh \in Nat, lh \in Nat : bh = x[h].block /\ lh = x[h].len  BY <1>6 DEF ExtentRecord
  <2>3. bi < j /\ j <= bi + li /\ bh < j /\ j <= bh + lh  BY <1>8, <1>11, <2>1, <2>2 DEF HasBlock
  <2>4. i < h => bi + li <= bh  BY <1>10, <2>1, <2>2
  <2>5. h < i => bh + lh <= bi  BY <1>10, <2>1, <2>2
  <2>6. j \in Int /\ i \in Int /\ h \in Int  OBVIOUS
  <2> QED BY <2>3, <2>4, <2>5, <2>6
<1>12. \A i \in 1..N : HasBlock(x[i], j) => Meaning(content)[j] = x[i].start + (j - 1 - x[i].block)
  BY <1>9, <1>11
<1> QED BY <1>6, <1>8, <1>12

(* The blocks that are read of a file are in place up to the first that    *)
(* is a hole or cannot be read, as far as its kind is read at all.         *)
LEMMA BlocksInPlace ==
  ASSUME NEW content, IsFile(content), InOrder(content), NEW k \in 1..content.size,
         content.form # "extents" => k <= Limit(content), Gapless(Meaning(content), k)
  PROVE  Len(Blocks(content)) >= k /\ Blocks(content)[k] = Meaning(content)[k]
<1>1. PICK size \in Nat : size = content.size  BY DEF IsFile
<1>2. k \in Nat \ {0} /\ k <= size /\ \A j \in 1..k : j \in 1..content.size  BY <1>1
<1>3. 0 \notin Present /\ Present \subseteq Nat /\ Reach \in Nat  BY Ext4BlocksAssumption
<1>4. \A j \in 1..k : Meaning(content)[j] \in Present  BY DEF Gapless
<1>5. k \in 1..k  BY <1>2
<1>6. CASE content.form = "extents"
  <2>1. PICK F, x : /\ x = Extents(content.tree) /\ x \in Seq(ExtentRecord)
                    /\ ReadsAll(F, x, content.large)
                    /\ Blocks(content) = F[Len(x)]
    BY <1>6, BlocksOfExtents
  <2>2. PICK large \in BOOLEAN : large = content.large
    <3>1. content.large \in BOOLEAN  BY DEF IsFile
    <3> QED BY <3>1, Zenon
  <2>3. PICK M : M = Meaning(content)  OBVIOUS
  <2>4. PICK q \in Nat : q = k  BY <1>2
  <2>5. \A i, j \in 1..Len(x) : i < j => x[i].block + x[i].len <= x[j].block
    BY <1>6, <2>1 DEF InOrder
  <2>6. \A j \in 1..q : \E i \in 1..Len(x) : HasBlock(x[i], j)
    BY <1>2, <1>4, <1>6, <2>1, <2>4, MeantByExtents
  <2>7. \A j \in 1..q : \A i \in 1..Len(x) :
          HasBlock(x[i], j) => M[j] \in Present /\ M[j] = x[i].start + (j - 1 - x[i].block)
    <3> SUFFICES ASSUME NEW j \in 1..q, NEW i \in 1..Len(x), HasBlock(x[i], j)
                 PROVE  M[j] \in Present /\ M[j] = x[i].start + (j - 1 - x[i].block)
      OBVIOUS
    <3>1. j \in 1..content.size /\ M[j] \in Present  BY <1>2, <1>4, <2>3, <2>4
    <3>2. M[j] = x[i].start + (j - 1 - x[i].block)  BY <1>6, <2>1, <2>3, <3>1, MeantByExtents
    <3> QED BY <3>1, <3>2
  <2>8. ReadsAll(F, x, large)  BY <2>1, <2>2
  <2>9. Ordered(x) /\ Covered(x, q) /\ Located(x, M, q)
    BY <2>5, <2>6, <2>7 DEF Ordered, Covered, Located
  <2>10. Len(F[Len(x)]) >= q /\ \A j \in 1..q : F[Len(x)][j] = M[j]
    BY <2>1, <2>8, <2>9, ExtentsInPlace
  <2> QED BY <1>5, <2>1, <2>3, <2>4, <2>10
<1>7. CASE content.form # "extents"
  <2>1. content.form \in {"pointers", "inline"} /\ content.pointers \in Seq(Nat)  BY <1>7 DEF IsFile
  <2>2. PICK s \in Seq(Nat) : s = content.pointers  BY <2>1
  <2>3. \A j \in 1..content.size : Meaning(content)[j] = IF j <= Len(s) THEN s[j] ELSE 0
    BY <1>7, <2>2 DEF Meaning
  <2>4. Len(s) \in Nat  BY LenProperties
  <2>5. k <= Len(s) /\ \A j \in 1..k : s[j] = Meaning(content)[j]
    <3>1. \A j \in 1..k : j <= Len(s)  BY <1>2, <1>3, <1>4, <2>3
    <3>2. \A j \in 1..k : s[j] = Meaning(content)[j]  BY <1>2, <2>3, <3>1
    <3> QED BY <1>5, <3>1, <3>2
  <2>6. CASE content.form = "pointers"
    <3>1. k <= Reach
      <4>1. Limit(content) \in {0, Reach}  BY <2>6 DEF Limit
      <4> QED BY <1>2, <1>3, <1>7, <4>1
    <3>2. PICK row : row = Take(s, Reach)  OBVIOUS
    <3>3. /\ row \in Seq(Nat) /\ Len(row) \in Nat /\ (Len(row) = Reach \/ Len(row) = Len(s))
          /\ \A i \in 1..Len(row) : row[i] = s[i]
      BY <1>3, <3>2, TakeIs
    <3>4. Blocks(content) = Readable(row, TRUE)  BY <2>2, <2>6, <3>2 DEF Blocks
    <3>5. k <= Len(row)  BY <2>5, <3>1, <3>3
    <3>6. PICK m \in 0..Len(row) : m = k  BY <1>2, <3>3, <3>5
    <3>7. \A j \in 1..m : j \in 1..Len(row) /\ j \in 1..k  BY <1>2, <3>3, <3>5, <3>6
    <3>8. \A j \in 1..m : row[j] = Meaning(content)[j] /\ row[j] \in Present
      BY <1>4, <2>5, <3>3, <3>7
    <3>9. Len(Readable(row, TRUE)) >= m /\ \A i \in 1..m : Readable(row, TRUE)[i] = row[i]
      <4>1. PICK b \in BOOLEAN : b = TRUE  OBVIOUS
      <4>2. Len(Readable(row, b)) >= m /\ \A i \in 1..m : Readable(row, b)[i] = row[i]
        BY <3>3, <3>8, ReadableBegins
      <4> QED BY <4>1, <4>2
    <3> QED BY <1>5, <3>4, <3>6, <3>8, <3>9
  <2>7. CASE content.form = "inline"
    <3>1. k = 1
      <4>1. Limit(content) = 1  BY <2>7 DEF Limit
      <4> QED BY <1>2, <1>7, <4>1
    <3>2. PICK row : row = Take(s, 1)  OBVIOUS
    <3>3. PICK n \in Nat : n = 1  OBVIOUS
    <3>4. /\ Len(row) = n \/ Len(row) = Len(s)
          /\ \A i \in 1..Len(row) : row[i] = s[i]
      BY <3>2, <3>3, TakeIs
    <3>5. Blocks(content) = row  BY <2>2, <2>7, <3>2 DEF Blocks
    <3>6. Len(row) >= 1 /\ 1 \in 1..Len(row)
      <4>1. PICK c \in Nat : c = Len(s) /\ c >= 1  BY <2>4, <2>5, <3>1
      <4>2. PICK r : r = Len(row)  OBVIOUS
      <4>3. r = 1 \/ r = c  BY <3>3, <3>4, <4>1, <4>2
      <4>4. r >= 1 /\ 1 \in 1..r
        <5>1. CASE r = 1  BY <5>1
        <5>2. CASE r = c  BY <4>1, <5>2
        <5> QED BY <4>3, <5>1, <5>2
      <4> QED BY <4>2, <4>4
    <3> QED BY <1>5, <2>5, <3>1, <3>4, <3>5, <3>6
  <2> QED BY <2>1, <2>6, <2>7
<1> QED BY <1>6, <1>7

(* What is written of a file is no longer than the file, and means what    *)
(* the file means, up to the first hole.                                   *)
LEMMA DataIs ==
  ASSUME NEW content, IsFile(content)
  PROVE  /\ Data(content) \in Seq(Nat)
         /\ \A k \in 1..Len(Data(content)) :
              /\ k \in 1..content.size
              /\ InOrder(content) /\ k <= Limit(content) /\ Gapless(Meaning(content), k)
                   => Data(content)[k] = Meaning(content)[k]
<1>1. PICK size \in Nat : size = content.size  BY DEF IsFile
<1>2. content.large \in BOOLEAN  BY DEF IsFile
<1>3. PICK blocks : blocks = Blocks(content)  OBVIOUS
<1>4. blocks \in Seq(Nat)
  <2>1. CASE content.form = "extents"  BY <1>3, <2>1, BlocksOfExtents
  <2>2. CASE content.form # "extents"
    <3>1. content.form \in {"pointers", "inline"} /\ content.pointers \in Seq(Nat)  BY <2>2 DEF IsFile
    <3>2. PICK s \in Seq(Nat) : s = content.pointers  BY <3>1
    <3>3. CASE content.form = "pointers"
      <4>1. PICK row \in Seq(Nat) : row = Take(s, Reach)  BY Ext4BlocksAssumption, TakeIs
      <4>2. PICK m : m = 0 /\ m \in 0..Len(row)
        <5>1. Len(row) \in Nat  BY LenProperties
        <5> QED BY <5>1
      <4>3. PICK b \in BOOLEAN : b = TRUE  OBVIOUS
      <4>4. \A i \in 1..m : row[i] \in Present  BY <4>2
      <4>5. Readable(row, b) \in Seq(Nat)  BY <4>2, <4>4, ReadableBegins
      <4>6. blocks = Readable(row, b)  BY <1>3, <3>2, <3>3, <4>1, <4>3 DEF Blocks
      <4> QED BY <4>5, <4>6
    <3>4. CASE content.form = "inline"
      <4>1. PICK n \in Nat : n = 1  OBVIOUS
      <4>2. Take(s, n) \in Seq(Nat)  BY TakeIs
      <4>3. blocks = Take(s, n)  BY <1>3, <3>2, <3>4, <4>1 DEF Blocks
      <4> QED BY <4>2, <4>3
    <3> QED BY <3>1, <3>3, <3>4
  <2> QED BY <2>1, <2>2
<1>5. Len(blocks) \in Nat /\ \A i \in 1..Len(blocks) : blocks[i] \in Nat  BY <1>4, NumbersIn
<1>6. ASSUME NEW k \in 1..content.size, InOrder(content), k <= Limit(content),
             Gapless(Meaning(content), k)
      PROVE  k <= Len(blocks) /\ blocks[k] = Meaning(content)[k]
  <2>1. Len(blocks) >= k /\ blocks[k] = Meaning(content)[k]  BY <1>3, <1>6, BlocksInPlace
  <2> QED BY <1>1, <1>5, <2>1
<1>7. CASE ~content.large
  <2> DEFINE d == [k \in 1..size |-> IF k <= Len(blocks) THEN blocks[k] ELSE 0]
  <2>1. Data(content) = d  BY <1>1, <1>3, <1>7 DEF Data
  <2>2. d \in [1..size -> Nat]
    <3>1. \A k \in 1..size : k <= Len(blocks) => k \in 1..Len(blocks)  BY <1>5
    <3> QED BY <1>5, <3>1
  <2>3. \A k \in 1..size : k <= Len(blocks) => d[k] = blocks[k]  OBVIOUS
  <2> HIDE DEF d
  <2>4. d \in Seq(Nat) /\ Len(d) = size  BY <2>2
  <2> QED BY <1>1, <1>6, <2>1, <2>3, <2>4
<1>8. CASE content.large /\ content.form = "extents"
  <2>1. Data(content) = Take(blocks, size)  BY <1>1, <1>3, <1>8 DEF Data
  <2>2. /\ Take(blocks, size) \in Seq(Nat) /\ Len(Take(blocks, size)) \in Nat
        /\ Len(Take(blocks, size)) <= size
        /\ \A i \in 1..Len(Take(blocks, size)) : Take(blocks, size)[i] = blocks[i]
    BY <1>4, TakeIs
  <2>3. PICK d : d = Take(blocks, size)  OBVIOUS
  <2>4. \A k \in 1..Len(d) : k \in 1..content.size  BY <1>1, <2>2, <2>3
  <2> QED BY <1>6, <2>1, <2>2, <2>3, <2>4
<1>9. CASE content.large /\ content.form # "extents"
  <2>1. Data(content) = <<>>  BY <1>9 DEF Data
  <2>2. <<>> \in Seq(Nat) /\ \A k \in 1..Len(<<>>) : FALSE  BY EmptySeq
  <2> QED BY <2>1, <2>2
<1> QED BY <1>2, <1>7, <1>8, <1>9, Zenon

-----------------------------------------------------------------------------
(* What is on disk of a link or a file is the beginning of its data.       *)
IsCopy(inode, bytes) ==
  \/ inode.kind = "dir"
  \/ /\ IsFile(inode.file)
     /\ \A k \in DOMAIN bytes : k \in 1..Len(Data(inode.file)) /\ bytes[k] = Data(inode.file)[k]

Copied == \A p \in DOMAIN out \ {<<>>} : IsCopy(image[out[p].inode], out[p].data)

LEMMA CopyIs ==
  ASSUME NEW inode, IsFile(inode.file)
  PROVE  /\ IsCopy(inode, Data(inode.file))
         /\ \A k \in 0..Len(Data(inode.file)) : IsCopy(inode, SubSeq(Data(inode.file), 1, k))
<1>1. PICK d \in Seq(Nat) : d = Data(inode.file)  BY DataIs
<1>2. Len(d) \in Nat /\ DOMAIN d = 1..Len(d)  BY LenProperties
<1>3. IsCopy(inode, d)  BY <1>1, <1>2 DEF IsCopy
<1>4. ASSUME NEW k \in 0..Len(d) PROVE IsCopy(inode, SubSeq(d, 1, k))
  <2>1. PICK c : c = SubSeq(d, 1, k)  OBVIOUS
  <2>2. PICK S : S = Nat  OBVIOUS
  <2>3. c \in Seq(S) /\ Len(c) = k /\ \A i \in 1..k : c[i] = d[i]  BY <2>1, <2>2, Cutting
  <2>4. DOMAIN c = 1..k  BY <2>3, LenProperties
  <2>5. \A i \in 1..k : i \in 1..Len(d)  BY <1>2
  <2>6. IsCopy(inode, c)  BY <1>1, <2>3, <2>4, <2>5 DEF IsCopy
  <2> QED BY <2>1, <2>6
<1> QED BY <1>1, <1>3, <1>4

LEMMA CopyPlaced ==
  ASSUME Copied, image' = image, NEW h, NEW e, NEW bytes, Place(h, e, bytes),
         h = <<>> \/ IsCopy(image[e], bytes)
  PROVE  Copied'
<1>1. /\ DOMAIN out' = DOMAIN out \cup {h} /\ out'[h].inode = e /\ out'[h].data = bytes
      /\ \A p \in DOMAIN out \ {h} : out'[p] = out[p]
  BY Placing
<1>2. ASSUME NEW p \in DOMAIN out' \ {<<>>} PROVE IsCopy(image'[out'[p].inode], out'[p].data)
  <2>1. CASE p = h  BY <1>1, <1>2, <2>1
  <2>2. CASE p # h
    <3>1. p \in DOMAIN out \ {<<>>} /\ out'[p] = out[p]  BY <1>1, <1>2, <2>2
    <3> QED BY <3>1 DEF Copied
  <2> QED BY <2>1, <2>2
<1> QED BY <1>2 DEF Copied

LEMMA CopySteps == WalkInv /\ Copied /\ [WalkNext]_walkVars => Copied'
<1> SUFFICES ASSUME WalkInv, Copied, [WalkNext]_walkVars PROVE Copied'  OBVIOUS
<1>1. CASE UNCHANGED <<image, out>>  BY <1>1 DEF Copied
<1>2. CASE UNCHANGED walkVars  BY <1>1, <1>2 DEF walkVars
<1>3. CASE NotAnImage \/ SkipEntry \/ UnreadableInode \/ Return \/ Finish \/ AnotherExtraction \/ Done
  BY <1>1, <1>3 DEF NotAnImage, SkipEntry, UnreadableInode, Return, Finish, AnotherExtraction,
              Done, walkVars
<1>4. CASE Begin
  <2>1. image' = image /\ (UNCHANGED out \/ Place(<<>>, Root, <<>>))
    BY <1>4 DEF Begin, EnterDirectory, Deny
  <2> QED BY <1>1, <2>1, CopyPlaced
<1>5. CASE Subdirectory
  <2>1. image' = image /\ (UNCHANGED out \/ Place(ThisPath, Entry, <<>>)) /\ image[Entry].kind = "dir"
    BY <1>5 DEF Subdirectory, EnterDirectory, Deny
  <2>2. IsCopy(image[Entry], <<>>)  BY <2>1 DEF IsCopy
  <2> QED BY <1>1, <2>1, <2>2, CopyPlaced
<1>6. ASSUME AtInode, image[Entry].kind \in {"link", "file"}
      PROVE  /\ IsCopy(image[Entry], Data(image[Entry].file))
             /\ \A k \in 0..Len(Data(image[Entry].file)) :
                  IsCopy(image[Entry], SubSeq(Data(image[Entry].file), 1, k))
  <2>1. image \in Images /\ Entry \in Inodes  BY <1>6, AtInodeIs
  <2>2. IsFile(image[Entry].file)  BY <1>6, <2>1, InodeIs
  <2> QED BY <2>2, CopyIs
<1>7. CASE Symlink
  <2>1. /\ image' = image /\ AtInode /\ image[Entry].kind \in {"link", "file"}
        /\ UNCHANGED out \/ Place(ThisPath, Entry, Data(image[Entry].file))
    BY <1>7 DEF Symlink, Deny
  <2> QED BY <1>1, <1>6, <2>1, CopyPlaced
<1>8. CASE RegularFile
  <2>1. /\ image' = image /\ AtInode /\ image[Entry].kind \in {"link", "file"}
        /\ UNCHANGED out \/ Place(ThisPath, Entry, Data(image[Entry].file))
    BY <1>8 DEF RegularFile, Deny
  <2> QED BY <1>1, <1>6, <2>1, CopyPlaced
<1>9. CASE WriteIsCut
  <2>1. image' = image /\ AtInode /\ image[Entry].kind \in {"link", "file"}  BY <1>9 DEF WriteIsCut
  <2>2. PICK k \in 0..Len(Data(image[Entry].file)) :
             Place(ThisPath, Entry, SubSeq(Data(image[Entry].file), 1, k))
    BY <1>9 DEF WriteIsCut
  <2> QED BY <1>6, <2>1, <2>2, CopyPlaced
<1> QED BY <1>2, <1>3, <1>4, <1>5, <1>7, <1>8, <1>9 DEF WalkNext

LEMMA FilesHold == WalkInv /\ Copied => FilesAreFaithful
<1> SUFFICES ASSUME WalkInv, Copied, NEW p \in DOMAIN out \ {<<>>},
                    image[out[p].inode].kind # "dir", InOrder(image[out[p].inode].file),
                    NEW k \in DOMAIN out[p].data, k <= Limit(image[out[p].inode].file),
                    Gapless(Meaning(image[out[p].inode].file), k)
             PROVE  out[p].data[k] = Meaning(image[out[p].inode].file)[k]
  BY DEF FilesAreFaithful
<1>1. IsCopy(image[out[p].inode], out[p].data)  BY DEF Copied
<1>2. PICK content, bytes : content = image[out[p].inode].file /\ bytes = out[p].data  OBVIOUS
<1>3. IsFile(content) /\ k \in 1..Len(Data(content)) /\ bytes[k] = Data(content)[k]
  BY <1>1, <1>2 DEF IsCopy
<1>4. Data(content)[k] = Meaning(content)[k]  BY <1>2, <1>3, DataIs
<1> QED BY <1>2, <1>3, <1>4

(* The blocks of a file or the target of a link on disk are where they     *)
(* belong up to the first hole or unreadable block, whichever way its data *)
(* is mapped and wherever the write of it is cut off (readInodeData,       *)
(* readExtentBlocks and the loops of extractRegularFile).                  *)
THEOREM FilesCorrect == WalkSpec => []FilesAreFaithful
<1>1. WalkInit => Copied  BY DEF WalkInit, Copied
<1> QED BY <1>1, CopySteps, FilesHold, WalkHolds, PTL DEF WalkSpec
=============================================================================
