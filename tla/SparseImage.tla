---------------------------- MODULE SparseImage ----------------------------
(***************************************************************************)
(* SparseParser::unsparse: from an image in Android's sparse format to the *)
(* raw image it stands for.                                                *)
(*                                                                         *)
(* The input is a row of units: the file header, then for each chunk its   *)
(* header and its data, where a unit of data is what a block of the raw    *)
(* image is made of.  The file may end early.  A block of the raw image is *)
(* known by the unit it comes from.  The copy buffer, extra header bytes   *)
(* and the size of a block are left out.                                   *)
(***************************************************************************)
EXTENDS Integers, Sequences

CONSTANTS MaxChunks, (* bound: the chunks of an image                       *)
          MaxSize    (* bound: the blocks of a chunk                        *)

ASSUME SparseImageAssumption == MaxChunks \in Nat \ {0} /\ MaxSize \in Nat \ {0}

(* A chunk: its type, its size in blocks, and the units of data after its  *)
(* header ("other" is a type the code does not know).                      *)
Chunk(type, size, units) == [type |-> type, size |-> size, units |-> units]
Chunks ==
  {Chunk("raw", n, n) : n \in 0..MaxSize} \cup {Chunk("fill", n, 1) : n \in 0..MaxSize}
    \cup {Chunk("dont_care", n, 0) : n \in 0..MaxSize} \cup {Chunk("crc32", 0, 1)}
    \cup {Chunk("other", n, u) : n \in 0..MaxSize, u \in 0..1}

Zero   == -1
Blocks == 0..(MaxChunks * MaxSize - 1)
Places == {"open", "chunk", "raw", "fill", "filling", "dont_care", "crc32", "other", "closed"}

VARIABLES
  chunks, (* the chunks of the input                                        *)
  total,  (* its header's total_blks                                        *)
  length, (* the units of the input that are there                          *)
  magic,  (* it starts with SPARSE_HEADER_MAGIC                             *)
  pc,     (* where unsparse stands; in a chunk, its type                    *)
  pos,    (* the input's position                                           *)
  done,   (* the chunk headers read                                         *)
  todo,   (* the blocks of the chunk still to be copied or written          *)
  value,  (* the unit a fill chunk repeats                                  *)
  image,  (* the blocks of the output                                       *)
  end,    (* the output's position                                          *)
  size,   (* the output's size in blocks                                    *)
  result, (* what unsparse returned                                         *)
  full,   (* the disk is full: writes fail                                  *)
  astray  (* a chunk header was read where there is none                    *)

inputVars  == <<chunks, total, length, magic>>
outputVars == <<image, end, size>>
vars == <<inputVars, pc, pos, done, todo, value, outputVars, result, full, astray>>

(* Where a chunk starts in the input and in the raw image.                 *)
Start[k \in 1..(Len(chunks) + 1)] == IF k = 1 THEN 1 ELSE Start[k - 1] + 1 + chunks[k - 1].units
First[k \in 1..(Len(chunks) + 1)] == IF k = 1 THEN 0 ELSE First[k - 1] + chunks[k - 1].size

Whole == Start[Len(chunks) + 1]
Sum   == First[Len(chunks) + 1]

Init ==
  /\ chunks \in UNION {[1..n -> Chunks] : n \in 0..MaxChunks}
  /\ total \in {0, Sum, Sum + 1}
  /\ length \in 0..Whole /\ magic \in BOOLEAN
  /\ pc = "open" /\ pos = 0 /\ done = 0 /\ todo = 0 /\ value = Zero
  /\ image = [n \in Blocks |-> Zero] /\ end = 0 /\ size = 0
  /\ result = "none" /\ full = FALSE /\ astray = FALSE

-----------------------------------------------------------------------------

Return(r) ==
  /\ result' = r /\ pc' = "closed"
  /\ UNCHANGED <<inputVars, pos, done, todo, value, outputVars, full, astray>>

(* A file cannot be opened or made, or does not start with the header.     *)
Refuse == pc = "open" /\ Return("false")

(* The header is read; the output gets its size upfront.                   *)
Open ==
  /\ pc = "open" /\ length > 0 /\ magic
  /\ pc' = "chunk" /\ pos' = 1 /\ size' = total
  /\ UNCHANGED <<inputVars, done, todo, value, image, end, result, full, astray>>

(* A header that is read where there is none may be anything.              *)
Headers == IF pos = Start[done + 1] /\ ~astray THEN {chunks[done + 1]} ELSE Chunks

(* The header of the next chunk; the loop runs as often as the file header *)
(* says, whatever has gone wrong in between.                               *)
ReadChunk ==
  /\ pc = "chunk" /\ done < Len(chunks) /\ pos < length
  /\ \E c \in Headers : pc' = c.type /\ todo' = c.size
  /\ pos' = pos + 1 /\ done' = done + 1
  /\ astray' = (astray \/ pos # Start[done + 1])
  /\ UNCHANGED <<inputVars, value, outputVars, result, full>>

ChunkMissing == pc = "chunk" /\ done < Len(chunks) /\ pos >= length /\ Return("false")

Finish == pc = "chunk" /\ done = Len(chunks) /\ Return("true")

(* write: its result is ignored.                                           *)
Write(unit) ==
  IF full THEN UNCHANGED outputVars
  ELSE /\ image' = [image EXCEPT ![end] = unit]
       /\ end' = end + 1
       /\ size' = IF end + 1 > size THEN end + 1 ELSE size

CopyBlock ==
  /\ pc = "raw" /\ todo > 0 /\ pos < length
  /\ Write(pos)
  /\ pos' = pos + 1 /\ todo' = todo - 1
  /\ UNCHANGED <<inputVars, pc, done, value, result, full, astray>>

(* The value of a fill chunk; it is zero where the input ends.             *)
ReadValue ==
  /\ pc = "fill"
  /\ pc' = "filling"
  /\ IF pos < length THEN value' = pos /\ pos' = pos + 1
                     ELSE value' = Zero /\ pos' = pos
  /\ UNCHANGED <<inputVars, done, todo, outputVars, result, full, astray>>

FillBlock ==
  /\ pc = "filling" /\ todo > 0
  /\ Write(value)
  /\ todo' = todo - 1
  /\ UNCHANGED <<inputVars, pc, pos, done, value, result, full, astray>>

(* Mutation: the loop does not end where the input does.                   *)
EndCompleteChunk ==
  /\ pc \in {"raw", "filling"} /\ todo = 0
  /\ pc' = "chunk" /\ todo' = 0
  /\ UNCHANGED <<inputVars, pos, done, value, outputVars, result, full, astray>>

(* A chunk is over; a raw one also when its data ends early.               *)
EndChunk ==
  /\ \/ pc \in {"raw", "filling"} /\ todo = 0
     \/ pc = "raw" /\ pos >= length
  /\ pc' = "chunk" /\ todo' = 0
  /\ UNCHANGED <<inputVars, pos, done, value, outputVars, result, full, astray>>

(* Mutation: the output's position stays.                                  *)
StayInPlace ==
  /\ pc = "dont_care"
  /\ pc' = "chunk" /\ todo' = 0
  /\ UNCHANGED <<inputVars, pos, done, value, outputVars, result, full, astray>>

(* lseek passes over blocks that do not matter.                            *)
SkipBlocks ==
  /\ pc = "dont_care"
  /\ pc' = "chunk" /\ todo' = 0 /\ end' = end + todo
  /\ UNCHANGED <<inputVars, pos, done, value, image, size, result, full, astray>>

(* Mutation: the checksum is taken for part of the header.                 *)
LeaveChecksum ==
  /\ pc = "crc32"
  /\ pc' = "chunk" /\ todo' = 0
  /\ UNCHANGED <<inputVars, pos, done, value, outputVars, result, full, astray>>

SkipChecksum ==
  /\ pc = "crc32"
  /\ pc' = "chunk" /\ todo' = 0 /\ pos' = IF pos < length THEN pos + 1 ELSE pos
  /\ UNCHANGED <<inputVars, done, value, outputVars, result, full, astray>>

(* The data of an unknown chunk is not passed over.                        *)
IgnoreChunk ==
  /\ pc = "other"
  /\ pc' = "chunk" /\ todo' = 0
  /\ UNCHANGED <<inputVars, pos, done, value, outputVars, result, full, astray>>

DiskFills ==
  /\ pc # "closed" /\ ~full
  /\ full' = TRUE
  /\ UNCHANGED <<inputVars, pc, pos, done, todo, value, outputVars, result, astray>>

Step ==
  \/ Refuse \/ Open \/ ReadChunk \/ ChunkMissing \/ CopyBlock \/ ReadValue \/ FillBlock
  \/ EndChunk \/ SkipBlocks \/ SkipChecksum \/ IgnoreChunk \/ Finish

Next == Step \/ DiskFills

Spec == Init /\ [][Next]_vars /\ WF_vars(Step)

-----------------------------------------------------------------------------
(* Properties.                                                             *)

(* Types; the two positions stay within the files.                         *)
TypeOK ==
  /\ pc \in Places /\ pos \in 0..length /\ done \in 0..Len(chunks)
  /\ todo \in 0..MaxSize /\ value \in Nat \cup {Zero}
  /\ image \in [Blocks -> Nat \cup {Zero}] /\ end \in 0..MaxChunks * MaxSize
  /\ size \in 0..MaxChunks * MaxSize + 1 /\ result \in {"none", "true", "false"}
  /\ full \in BOOLEAN /\ astray \in BOOLEAN

(* What the format says of a block: the unit it comes from.                *)
Meaning(n) ==
  LET k == CHOOSE j \in 1..Len(chunks) : First[j] <= n /\ n < First[j + 1] IN
  CASE chunks[k].type = "raw"  -> Start[k] + 1 + n - First[k]
    [] chunks[k].type = "fill" -> Start[k] + 1
    [] OTHER                   -> Zero

(* An input as the format has it: all there, no unknown chunks with data,  *)
(* as many blocks as its header says.                                      *)
Intact ==
  /\ length = Whole /\ total = Sum
  /\ \A k \in 1..Len(chunks) : chunks[k].type # "other"

(* A block that has been passed is what the format says, for any input,    *)
(* also one that ends early: the loops of unsparse keep both positions in  *)
(* step, unless a write failed or an unknown chunk led the reading astray. *)
BlocksInPlace ==
  /\ TypeOK
  /\ ~full /\ ~astray /\ (\A k \in 1..Len(chunks) : chunks[k].type # "other") =>
       \A n \in 0..(end - 1) : Meaning(n) < length => image[n] = Meaning(n)

(* unsparse turns an intact input into the image it stands for, of the     *)
(* right size, and returns true.  If it returns true for another input,    *)
(* only the data of the last chunk may be missing: an early end anywhere   *)
(* else is noticed at the next header.                                     *)
SuccessIsWhole ==
  /\ pc = "closed" /\ Intact /\ ~full /\ size > 0 =>
       /\ result = "true" /\ size = total
       /\ \A n \in 0..(total - 1) : image[n] = Meaning(n)
  /\ result = "true" /\ ~astray => \A k \in 1..Len(chunks) : Start[k] < length

(* unsparse returns, whatever the input.                                   *)
Returns == <>(pc = "closed")
=============================================================================
