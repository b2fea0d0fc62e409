----------------------------- MODULE PathRouter -----------------------------
(***************************************************************************)
(* What the VFS router promises the threads of a guest: a path is answered *)
(* at one moment, from the files there are at that moment, by the most     *)
(* specific mount it lies in.                                              *)
(*                                                                         *)
(* A path is the sequence of what its slashes separate: "/data//x/" is     *)
(* <<"", "data", "", "x", "">> and "/" is <<"", "">>.                      *)
(***************************************************************************)
EXTENDS Naturals, Sequences, SequencesExt

CONSTANTS Threads, Paths,
          NoPath,    (* nothing is being asked, or no answer yet            *)
          Home,      (* [mount |-> the directory where it is kept]          *)
          Sockets,   (* [virtual device |-> the socket that stands for it]  *)
          IsOurs(_), (* paths of the app itself, which are not the guest's  *)
          Host       (* the paths the phone itself has                      *)

VARIABLES sandbox,   (* the files there are in the guest's directories      *)
          asked,     (* per thread: the path it waits for                   *)
          answer     (* per thread: the answer, until it asks again         *)

(* The meaning of a path: slashes in a row count once, and the last one    *)
(* only in "/".                                                            *)
Meant(path) ==
  LET Names[n \in 0..Len(path)] ==
        IF n = 0 THEN <<>>
        ELSE IF n > 1 /\ path[n] = "" THEN Names[n - 1]
        ELSE Append(Names[n - 1], path[n])
      names == Names[Len(path)]
  IN  IF Len(path) > 1 /\ names = <<"">> THEN <<"", "">> ELSE names

MostSpecific(path) ==
  CHOOSE mount \in DOMAIN Home :
    /\ IsPrefix(mount, path)
    /\ \A other \in DOMAIN Home : IsPrefix(other, path) => Len(other) <= Len(mount)

(* A file of a mount is the guest's own, or the phone's if only that has   *)
(* one; a mount itself is always the guest's.                              *)
Answer(path, files) ==
  IF IsOurs(path) THEN path
  ELSE IF path \in DOMAIN Sockets THEN Sockets[path]
  ELSE IF ~\E mount \in DOMAIN Home : IsPrefix(mount, path) THEN path
  ELSE LET mount  == MostSpecific(path)
           target == Home[mount] \o SubSeq(path, Len(mount) + 1, Len(path))
       IN  IF path \in Host /\ target \notin files /\ path # mount THEN path ELSE target

Init ==
  /\ sandbox = {}
  /\ asked = [t \in Threads |-> NoPath] /\ answer = [t \in Threads |-> NoPath]

Ask(t, path) ==
  /\ asked[t] = NoPath
  /\ asked' = [asked EXCEPT ![t] = path]
  /\ answer' = [answer EXCEPT ![t] = NoPath]
  /\ UNCHANGED sandbox

Reply(t) ==
  /\ asked[t] # NoPath
  /\ asked' = [asked EXCEPT ![t] = NoPath]
  /\ answer' = [answer EXCEPT ![t] = Answer(Meant(asked[t]), sandbox)]
  /\ UNCHANGED sandbox

FilesChange == sandbox' # sandbox /\ UNCHANGED <<asked, answer>>

Next == FilesChange \/ \E t \in Threads : Reply(t) \/ \E path \in Paths : Ask(t, path)

Spec == Init /\ [][Next]_<<sandbox, asked, answer>>
=============================================================================
