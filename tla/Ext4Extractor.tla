--------------------------- MODULE Ext4Extractor ---------------------------
(***************************************************************************)
(* Ext4Extractor::extractExt4Image (storage/ext4_extractor.cpp): the walk  *)
(* over the directories of an image, which may be damaged in any way, and  *)
(* what it creates.                                                        *)
(*                                                                         *)
(* A recursive call of extractDirectory is a frame of the stack; a step is *)
(* one entry of the directory on top.  An entry is the inode it names,     *)
(* Skipped ("." and "..", unused ones) or Bad (a length that ends the      *)
(* directory).  An inode is readable or not and of a kind; its data is a   *)
(* file as Ext4Blocks describes it, for a directory the entries and        *)
(* whether its data can be read.                                           *)
(*                                                                         *)
(* A path is the sequence of the entries that lead to it, each known by    *)
(* its place in its directory.  The names in the entries are left out: two *)
(* entries may have one name, and a name may hold a slash or lead upwards. *)
(* What that does is a matter of the file system, and so is what a full    *)
(* disk or a tree an earlier extraction left there does: any call may be   *)
(* refused, and the code is to cope.  Where the entries of a directory     *)
(* have plain and different names, the paths are those of the file system. *)
(***************************************************************************)
EXTENDS Ext4Blocks, FiniteSets

CONSTANTS Inodes, Root,     (* the inodes of an image; the root directory  *)
          Skipped, Bad,     (* entries that name no inode                  *)
          Images,           (* the images to extract                       *)
          MaxDirDepth,      (* 20: deeper directories are left out         *)
          MaxEntries        (* bound: the entries of a directory           *)

ASSUME Ext4ExtractorAssumption ==
  /\ Root \in Inodes /\ {Skipped, Bad} \cap Inodes = {} /\ Skipped # Bad
  /\ MaxDirDepth \in Nat /\ MaxEntries \in Nat

(* What reading an image yields, however damaged it is: the root is read   *)
(* as a directory whatever its inode says.                                 *)
ASSUME ImagesAssumption ==
  \A img \in Images : \A n \in Inodes :
    /\ img[n].readable \in BOOLEAN /\ img[n].kind \in {"dir", "link", "file", "other"}
    /\ n = Root \/ img[n].kind = "dir" =>
         /\ img[n].dataRead \in BOOLEAN /\ img[n].entries \in Seq(Inodes \cup {Skipped, Bad})
         /\ Len(img[n].entries) <= MaxEntries
    /\ img[n].kind \in {"link", "file"} => IsFile(img[n].file)
    /\ img[n].kind = "link" => ~img[n].file.large

VARIABLES image,  (* [Inodes -> inode], fixed                              *)
          stack,  (* the directories being extracted: [inode, path, offset]*)
          out,    (* what each path was created from                       *)
          refused,(* the paths the file system did not let be created      *)
          count,  (* extractedFiles, ..Dirs, ..Symlinks, failedFiles       *)
          shared, (* another extraction of the process used the counters   *)
          result  (* none yet, or what extractExt4Image returned           *)

walkVars == <<image, stack, out, refused, count, shared, result>>

Names == 1..MaxEntries
Paths == UNION {[1..n -> Names] : n \in 0..(MaxDirDepth + 1)}

NoCounts == [files |-> 0, dirs |-> 0, symlinks |-> 0, failed |-> 0]

(* The counters are the process's: once another extraction has been at     *)
(* them, what they say is no longer followed.                              *)
Counted(what) == count' = IF shared THEN count ELSE [count EXCEPT ![what] = @ + 1]

WalkInit ==
  /\ image \in Images
  /\ stack = <<>> /\ out = <<>> /\ refused = {}
  /\ count = NoCounts /\ shared = FALSE
  /\ result = "none"

-----------------------------------------------------------------------------
(* Whatever is created there, the path now stands for the inode's data.    *)
Place(path, inode, data) ==
  /\ out' = [p \in DOMAIN out \cup {path} |->
               IF p = path THEN [inode |-> inode, data |-> data] ELSE out[p]]
  /\ UNCHANGED refused

(* mkdir, symlink or open fails.                                           *)
Deny(path) == refused' = refused \cup {path} /\ UNCHANGED out

(* Mutation: a directory one level up is the last one taken.               *)
TooDeepEarly(path) == Len(path) >= MaxDirDepth

TooDeep(path) == Len(path) > MaxDirDepth

(* extractDirectory: the directory is made and counted before it is known  *)
(* whether it can be read, and its frame goes on top of the others; what   *)
(* mkdir returns is not looked at.                                         *)
EnterDirectory(inode, path, frames) ==
  IF TooDeep(path) THEN stack' = frames /\ UNCHANGED <<out, refused, count>>
  ELSE /\ Counted("dirs")
       /\ Place(path, inode, <<>>) \/ Deny(path)
       /\ stack' = IF image[inode].readable /\ image[inode].dataRead
                   THEN Append(frames, [inode |-> inode, path |-> path, offset |-> 1])
                   ELSE frames

(* The root has been entered.                                              *)
Begun == <<>> \in DOMAIN out \cup refused

(* A superblock that cannot be read or has the wrong magic number.         *)
NotAnImage ==
  /\ result = "none" /\ ~Begun
  /\ result' = "FALSE"
  /\ UNCHANGED <<image, stack, out, refused, count, shared>>

Begin ==
  /\ result = "none" /\ ~Begun
  /\ EnterDirectory(Root, <<>>, <<>>)
  /\ UNCHANGED <<image, shared, result>>

Top == Last(stack)
Entries == image[Top.inode].entries
Entry == Entries[Top.offset]
ThisPath == Append(Top.path, Top.offset)
AtEntry == stack # <<>> /\ Top.offset <= Len(Entries)
AtInode == AtEntry /\ Entry \in Inodes
Advanced == [stack EXCEPT ![Len(stack)].offset = @ + 1]

SkipEntry ==
  /\ AtEntry
  /\ \/ Entry = Skipped
     \/ Entry \in Inodes /\ image[Entry].readable /\ image[Entry].kind = "other"
  /\ stack' = Advanced
  /\ UNCHANGED <<image, out, refused, count, shared, result>>

(* Mutations: readInode fails and nobody counts it, or the loop goes on    *)
(* without passing over the entry.                                         *)
UnreadableIsSkipped ==
  /\ AtInode /\ ~image[Entry].readable
  /\ stack' = Advanced
  /\ UNCHANGED <<image, out, refused, count, shared, result>>

UnreadableIsRetried ==
  /\ AtInode /\ ~image[Entry].readable
  /\ Counted("failed")
  /\ UNCHANGED <<image, stack, out, refused, shared, result>>

UnreadableInode ==
  /\ AtInode /\ ~image[Entry].readable
  /\ Counted("failed")
  /\ stack' = Advanced
  /\ UNCHANGED <<image, out, refused, shared, result>>

Subdirectory ==
  /\ AtInode /\ image[Entry].readable /\ image[Entry].kind = "dir"
  /\ EnterDirectory(Entry, ThisPath, Advanced)
  /\ UNCHANGED <<image, shared, result>>

(* Something is left of the target without the zeros at its end.           *)
HasTarget(file) == \E k \in DOMAIN Data(file) : Data(file)[k] # 0

(* A link whose target cannot be read is neither made nor counted; symlink *)
(* refuses an empty target, and may refuse any.                            *)
Symlink ==
  LET file == image[Entry].file IN
  /\ AtInode /\ image[Entry].readable /\ image[Entry].kind = "link"
  /\ \/ ~DataIsRead(file) /\ UNCHANGED <<out, refused, count>>
     \/ /\ DataIsRead(file) /\ HasTarget(file)
        /\ Counted("symlinks") /\ Place(ThisPath, Entry, Data(file))
     \/ DataIsRead(file) /\ Counted("failed") /\ Deny(ThisPath)
  /\ stack' = Advanced
  /\ UNCHANGED <<image, shared, result>>

(* A file: one up to 64 MB is read before it is created, a larger one      *)
(* afterwards; an empty one counts even if it could not be created.        *)
RegularFile ==
  LET file == image[Entry].file
      kept == file.large \/ DataIsRead(file)
  IN
  /\ AtInode /\ image[Entry].readable /\ image[Entry].kind = "file"
  /\ \/ ~kept /\ Counted("failed") /\ UNCHANGED <<out, refused>>
     \/ kept /\ Counted("files") /\ Place(ThisPath, Entry, Data(file))
     \/ /\ kept /\ Counted(IF file.size = 0 THEN "files" ELSE "failed")
        /\ Deny(ThisPath)
  /\ stack' = Advanced
  /\ UNCHANGED <<image, shared, result>>

(* The disk fills up while the file is written: what is left of it counts. *)
WriteIsCut ==
  LET file == image[Entry].file IN
  /\ AtInode /\ image[Entry].readable /\ image[Entry].kind = "file"
  /\ file.size > 0 /\ (file.large \/ DataIsRead(file))
  /\ \E k \in 0..Len(Data(file)) : Place(ThisPath, Entry, SubSeq(Data(file), 1, k))
  /\ Counted("files") /\ stack' = Advanced
  /\ UNCHANGED <<image, shared, result>>

(* The end of a directory, or an entry that ends it; what the call returns *)
(* is used for the log only.                                               *)
Return ==
  /\ stack # <<>> /\ (AtEntry => Entry = Bad)
  /\ stack' = Front(stack)
  /\ UNCHANGED <<image, out, refused, count, shared, result>>

Finish ==
  /\ result = "none" /\ Begun /\ stack = <<>>
  /\ result' \in IF shared THEN {"TRUE", "FALSE"}
                ELSE {IF count.files + count.dirs > 0 THEN "TRUE" ELSE "FALSE"}
  /\ UNCHANGED <<image, stack, out, refused, count, shared>>

(* A second import extracts its image at the same time: it zeroes the      *)
(* counters and counts with them.                                          *)
AnotherExtraction ==
  /\ ~shared /\ result = "none"
  /\ shared' = TRUE /\ count' = NoCounts
  /\ UNCHANGED <<image, stack, out, refused, result>>

Done == result # "none" /\ UNCHANGED walkVars

WalkNext ==
  \/ NotAnImage \/ Begin \/ SkipEntry \/ UnreadableInode \/ Subdirectory
  \/ Symlink \/ RegularFile \/ WriteIsCut \/ Return \/ Finish
  \/ AnotherExtraction \/ Done

WalkSpec == WalkInit /\ [][WalkNext]_walkVars

-----------------------------------------------------------------------------
WalkTypeOK ==
  /\ \A n \in 1..Len(stack) :
       stack[n].inode \in Inodes /\ stack[n].path \in Paths /\ stack[n].offset \in 1..(MaxEntries + 1)
  /\ DOMAIN out \subseteq Paths /\ refused \subseteq Paths
  /\ \A p \in DOMAIN out : out[p].inode \in Inodes
  /\ count \in [{"files", "dirs", "symlinks", "failed"} -> Nat]
  /\ shared \in BOOLEAN /\ result \in {"none", "TRUE", "FALSE"}

(* The names of a directory that are there to be found: those before a bad *)
(* entry, if its data can be read at all.                                  *)
Listed(dir) ==
  IF ~(image[dir].readable /\ image[dir].dataRead) THEN {}
  ELSE {k \in 1..Len(image[dir].entries) :
          \A j \in 1..k : image[dir].entries[j] # Bad}

(* The inode a path leads to through directories that can be listed.       *)
Lookup ==
  LET At[p \in Paths] ==
        IF p = <<>> THEN Root
        ELSE LET dir == At[Front(p)] IN
             IF dir \in Inodes /\ (Len(p) = 1 \/ image[dir].kind = "dir") /\ Last(p) \in Listed(dir)
             THEN image[dir].entries[Last(p)] ELSE Skipped
  IN  At

(* What the image has at a path can be extracted; the root always "can".   *)
Extractable(p) ==
  LET inode == Lookup[p] IN
  \/ p = <<>>
  \/ /\ inode \in Inodes /\ image[inode].readable
     /\ CASE image[inode].kind = "dir"  -> Len(p) <= MaxDirDepth
          [] image[inode].kind = "link" -> DataIsRead(image[inode].file)
          [] image[inode].kind = "file" -> image[inode].file.large \/ DataIsRead(image[inode].file)
          [] OTHER                      -> FALSE

(* However the image is damaged and whatever the file system refuses: what *)
(* is created at a path is what the image has there, and when the walk is  *)
(* over, everything that can be found and read has been created or was     *)
(* refused, also behind entries that failed, below a directory that could  *)
(* not be made, and in directories met more than once.                     *)
TreeIsFaithful ==
  /\ WalkTypeOK
  /\ \A p \in DOMAIN out : Extractable(p) /\ out[p].inode = Lookup[p]
  /\ \A p \in refused : Extractable(p) /\ p \notin DOMAIN out
  /\ Begun /\ stack = <<>> =>
       \A p \in Paths : Extractable(p) => p \in DOMAIN out \cup refused

(* The blocks of a file are where they belong up to the first hole or      *)
(* unreadable block, however the data is mapped, read or cut off.          *)
FilesAreFaithful ==
  \A p \in DOMAIN out \ {<<>>} :
    LET inode == image[out[p].inode] IN
    (inode.kind # "dir" /\ InOrder(inode.file)) =>
      LET meaning == Meaning(inode.file) IN
      \A k \in DOMAIN out[p].data :
        (k <= Limit(inode.file) /\ Gapless(meaning, k)) => out[p].data[k] = meaning[k]

(* Unless another extraction has been at them, the counters of the last    *)
(* message are those of the tree: every path is counted once, and what is  *)
(* missing has failed, except links without data, other kinds and          *)
(* directories too deep, which are lost without a count, and directories   *)
(* and empty files, which count as made when they were refused.            *)
CountersTellTheTree ==
  LET created(kind) == {p \in DOMAIN out \ {<<>>} : image[out[p].inode].kind = kind}
      denied(kind)  == {p \in refused \ {<<>>} : image[Lookup[p]].kind = kind}
      empty  == {p \in denied("file") : image[Lookup[p]].file.size = 0}
      unread == {p \in Paths : /\ p # <<>> /\ Lookup[p] \in Inodes
                               /\ \/ ~image[Lookup[p]].readable
                                  \/ image[Lookup[p]].kind = "file" /\ ~Extractable(p)}
  IN (result = "TRUE" /\ ~shared) =>
       /\ count.files = Cardinality(created("file") \cup empty)
       /\ count.dirs = Cardinality(created("dir") \cup denied("dir")) + 1
       /\ count.symlinks = Cardinality(created("link"))
       /\ count.failed = Cardinality(unread \cup denied("link") \cup (denied("file") \ empty))

(* The walk is at a later place of the image: further on in a directory    *)
(* that was open, with those above it as they were, or done with the last. *)
Later(now, before) ==
  \/ \E n \in 1..Len(before) :
       /\ Len(now) >= n /\ now[n].offset > before[n].offset
       /\ \A m \in 1..(n - 1) : now[m] = before[m]
  \/ IsStrictPrefix(now, before)

(* Every step takes the walk to a later place, so that it comes to an end  *)
(* although directories may contain one another, down to the deepest level.*)
WalkGoesOn == [][shared' # shared \/ stack = <<>> \/ Later(stack', stack)]_walkVars
=============================================================================
