------------------------- MODULE SparseImageProofs -------------------------
(* Theorems about SparseImage, for images of any number and size of        *)
(* chunks.                                                                 *)
EXTENDS SparseImage, SequenceTheorems, WellFoundedInduction, TLAPS

-----------------------------------------------------------------------------
(* Induction on numbers: sums and sequences that rise.                     *)

(* A set of natural numbers has a least one.                               *)
LEMMA Least ==
  ASSUME NEW T, T \subseteq Nat, T # {}
  PROVE  \E n \in T : \A m \in T : n <= m
<1> DEFINE R == {ss \in Nat \X Nat : ss[1] < ss[2]}
<1>1. R = OpToRel(<, Nat)  BY Zenon DEF OpToRel
<1>2. IsWellFoundedOn(R, Nat)  BY <1>1, NatLessThanWellFounded, Zenon
<1>3. \E n \in T : \A m \in T : ~(<<m, n>> \in R)
  <2> HIDE DEF R
  <2> QED BY <1>2, WFMin
<1>4. PICK n \in T : \A m \in T : ~(<<m, n>> \in R)  BY <1>3
<1>5. ASSUME NEW m \in T PROVE n <= m
  <2>1. <<m, n>> \notin R BY <1>4
  <2> QED BY <2>1
<1> QED BY <1>5

(* The sums of a row of numbers.                                           *)
AddsUp(g, n, a, d) ==
  /\ g \in [1..(n + 1) -> Nat] /\ g[1] = a
  /\ \A k \in 1..n : g[k + 1] = g[k] + d[k]

LEMMA SumsExist ==
  ASSUME NEW n \in Nat, NEW a \in Nat, NEW d \in [1..n -> Nat]
  PROVE  \E g : AddsUp(g, n, a, d)
<1> DEFINE T == {m \in 0..n : ~\E g : AddsUp(g, m, a, d)}
<1>1. SUFFICES ASSUME T # {} PROVE FALSE  OBVIOUS
<1>2. PICK m \in T : \A j \in T : m <= j
  <2>1. T \subseteq Nat  OBVIOUS
  <2> HIDE DEF T
  <2> QED BY <1>1, <2>1, Least
<1>3. m # 0
  <2>1. AddsUp([k \in 1..1 |-> a], 0, a, d)  BY DEF AddsUp
  <2> QED BY <2>1
<1>4. m \in 1..n /\ m - 1 \in 0..n /\ ~(m <= m - 1)  BY <1>3
<1>5. PICK g : AddsUp(g, m - 1, a, d)
  <2>1. m - 1 \notin T  BY <1>2, <1>4
  <2> QED BY <1>4, <2>1
<1>6. g \in [1..m -> Nat] /\ g[1] = a /\ \A k \in 1..(m - 1) : g[k + 1] = g[k] + d[k]
  BY <1>4, <1>5 DEF AddsUp
<1> DEFINE f == [k \in 1..(m + 1) |-> IF k = m + 1 THEN g[m] + d[m] ELSE g[k]]
<1>7. f \in [1..(m + 1) -> Nat]
  <2>1. g[m] \in Nat /\ d[m] \in Nat  BY <1>4, <1>6
  <2>2. \A k \in 1..(m + 1) : k # m + 1 => g[k] \in Nat  BY <1>4, <1>6
  <2> QED BY <2>1, <2>2
<1>8. f[1] = a  BY <1>4, <1>6
<1>9. ASSUME NEW k \in 1..m PROVE f[k + 1] = f[k] + d[k]
  <2>1. f[k] = g[k]  BY <1>4
  <2>2. CASE k = m  BY <1>4, <2>1, <2>2
  <2>3. CASE k # m
    <3>1. k \in 1..(m - 1) /\ f[k + 1] = g[k + 1]  BY <1>4, <2>3
    <3> QED BY <1>6, <2>1, <3>1
  <2> QED BY <2>2, <2>3
<1>10. AddsUp(f, m, a, d)
  <2> HIDE DEF f
  <2> QED BY <1>7, <1>8, <1>9 DEF AddsUp
<1> QED BY <1>2, <1>10

LEMMA SumsRise ==
  ASSUME NEW n \in Nat, NEW a, NEW d, NEW g, AddsUp(g, n, a, d), \A k \in 1..n : d[k] \in Nat,
         NEW j \in 1..(n + 1), NEW k \in 1..(n + 1), j <= k
  PROVE  g[j] <= g[k]
<1> DEFINE T == {m \in j..(n + 1) : ~(g[j] <= g[m])}
<1>1. SUFFICES ASSUME T # {} PROVE FALSE
  <2>1. k \in j..(n + 1)  OBVIOUS
  <2> QED BY <2>1
<1>2. PICK m \in T : \A i \in T : m <= i
  <2>1. T \subseteq Nat  OBVIOUS
  <2> HIDE DEF T
  <2> QED BY <1>1, <2>1, Least
<1>3. g \in [1..(n + 1) -> Nat]  BY DEF AddsUp
<1>4. m # j
  <2>1. g[j] \in Nat  BY <1>3
  <2> QED BY <2>1
<1>5. m - 1 \in j..(n + 1) /\ m - 1 \in 1..n /\ ~(m <= m - 1)  BY <1>4
<1>6. g[j] <= g[m - 1]  BY <1>2, <1>5
<1>7. g[(m - 1) + 1] = g[m - 1] + d[m - 1]  BY <1>5 DEF AddsUp
<1>8. (m - 1) + 1 = m /\ d[m - 1] \in Nat /\ g[m - 1] \in Nat /\ g[j] \in Nat  BY <1>3, <1>5
<1> QED BY <1>6, <1>7, <1>8

LEMMA SumsBounded ==
  ASSUME NEW n \in Nat, NEW d, NEW g, AddsUp(g, n, 0, d),
         NEW b \in Nat, \A k \in 1..n : d[k] \in 0..b, NEW k \in 0..n
  PROVE  g[k + 1] <= k * b
<1> DEFINE T == {m \in 0..n : ~(g[m + 1] <= m * b)}
<1>1. SUFFICES ASSUME T # {} PROVE FALSE  OBVIOUS
<1>2. PICK m \in T : \A i \in T : m <= i
  <2>1. T \subseteq Nat  OBVIOUS
  <2> HIDE DEF T
  <2> QED BY <1>1, <2>1, Least
<1>3. g \in [1..(n + 1) -> Nat]  BY DEF AddsUp
<1>4. m # 0  BY DEF AddsUp
<1>5. m - 1 \in 0..n /\ m \in 1..n /\ ~(m <= m - 1)  BY <1>4
<1>6. g[(m - 1) + 1] <= (m - 1) * b  BY <1>2, <1>5
<1>7. g[m + 1] = g[m] + d[m]  BY <1>5 DEF AddsUp
<1>8. (m - 1) + 1 = m /\ d[m] <= b /\ d[m] \in Nat /\ g[m] \in Nat  BY <1>3, <1>5
<1>9. (m - 1) * b = m * b - b  BY <1>5
<1> QED BY <1>6, <1>7, <1>8, <1>9, <1>5

-----------------------------------------------------------------------------
(* The layout of an image.                                                 *)

LEMMA ChunkIs ==
  ASSUME NEW c \in Chunks
  PROVE  /\ c.type \in {"raw", "fill", "dont_care", "crc32", "other"}
         /\ c.size \in 0..MaxSize /\ c.units \in Nat
         /\ c.type = "raw" => c.units = c.size
         /\ c.type = "fill" => c.units = 1
         /\ c.type = "dont_care" => c.units = 0
         /\ c.type = "crc32" => c.size = 0 /\ c.units = 1
BY SparseImageAssumption DEF Chunks, Chunk

StartOf(cs) == CHOOSE f : f = [k \in 1..(Len(cs) + 1) |-> IF k = 1 THEN 1
                                                          ELSE f[k - 1] + 1 + cs[k - 1].units]
FirstOf(cs) == CHOOSE f : f = [k \in 1..(Len(cs) + 1) |-> IF k = 1 THEN 0
                                                          ELSE f[k - 1] + cs[k - 1].size]

Units(cs) == [k \in 1..Len(cs) |-> 1 + cs[k].units]
Sizes(cs) == [k \in 1..Len(cs) |-> cs[k].size]

LEMMA StartAddsUp ==
  ASSUME NEW cs \in Seq(Chunks)
  PROVE  AddsUp(StartOf(cs), Len(cs), 1, Units(cs))
<1> DEFINE n == Len(cs)
<1>1. n \in Nat /\ \A k \in 1..n : cs[k] \in Chunks  BY LenProperties, ElementOfSeq
<1>2. Units(cs) \in [1..n -> Nat]
  <2>1. \A k \in 1..n : 1 + cs[k].units \in Nat  BY <1>1, ChunkIs
  <2> QED BY <2>1 DEF Units
<1>3. PICK g : AddsUp(g, n, 1, Units(cs))  BY <1>1, <1>2, SumsExist
<1>4. \A k \in 1..n : g[k + 1] = g[k] + (1 + cs[k].units)  BY <1>3 DEF AddsUp, Units
<1> DEFINE row == [k \in 1..(n + 1) |-> IF k = 1 THEN 1 ELSE g[k - 1] + 1 + cs[k - 1].units]
<1>5. g \in [1..(n + 1) -> Nat] /\ g[1] = 1  BY <1>3 DEF AddsUp
<1>6. ASSUME NEW k \in 1..(n + 1), k # 1 PROVE g[k] = g[k - 1] + 1 + cs[k - 1].units
  <2>1. k - 1 \in 1..n /\ (k - 1) + 1 = k  BY <1>1, <1>6
  <2>2. g[k - 1] \in Nat /\ cs[k - 1].units \in Nat  BY <1>1, <1>5, <2>1, ChunkIs
  <2>3. g[(k - 1) + 1] = g[k - 1] + (1 + cs[k - 1].units)  BY <1>4, <2>1
  <2> QED BY <2>1, <2>2, <2>3
<1>7. g = row
  <2>1. \A k \in 1..(n + 1) : g[k] = row[k]  BY <1>5, <1>6
  <2> QED BY <1>5, <2>1
<1> DEFINE s == StartOf(cs)
<1>8. s = [k \in 1..(n + 1) |-> IF k = 1 THEN 1 ELSE s[k - 1] + 1 + cs[k - 1].units]
  BY <1>7 DEF StartOf
<1> HIDE DEF s, row
<1>9. s = g
  <2> DEFINE T == {m \in 1..(n + 1) : s[m] # g[m]}
  <2>1. ASSUME T # {} PROVE FALSE
    <3>1. PICK m \in T : \A j \in T : m <= j
      <4>1. T \subseteq Nat  OBVIOUS
      <4> HIDE DEF T
      <4> QED BY <2>1, <4>1, Least
    <3>2. m # 1  BY <1>5, <1>8
    <3>3. m - 1 \in 1..(n + 1) /\ ~(m <= m - 1)  BY <1>1, <3>2
    <3>4. s[m - 1] = g[m - 1]  BY <3>1, <3>3
    <3>5. s[m] = s[m - 1] + 1 + cs[m - 1].units  BY <1>8, <3>2
    <3> QED BY <1>6, <3>2, <3>4, <3>5
  <2>2. \A k \in 1..(n + 1) : s[k] = g[k]  BY <2>1
  <2>3. s = [k \in 1..(n + 1) |-> s[k]] /\ g = [k \in 1..(n + 1) |-> g[k]]  BY <1>5, <1>8
  <2> QED BY <2>2, <2>3
<1> QED BY <1>3, <1>9 DEF s

LEMMA FirstAddsUp ==
  ASSUME NEW cs \in Seq(Chunks)
  PROVE  AddsUp(FirstOf(cs), Len(cs), 0, Sizes(cs))
<1> DEFINE n == Len(cs)
<1>1. n \in Nat /\ \A k \in 1..n : cs[k] \in Chunks  BY LenProperties, ElementOfSeq
<1>2. Sizes(cs) \in [1..n -> Nat]
  <2>1. \A k \in 1..n : cs[k].size \in Nat  BY <1>1, ChunkIs, SparseImageAssumption
  <2> QED BY <2>1 DEF Sizes
<1>3. PICK g : AddsUp(g, n, 0, Sizes(cs))  BY <1>1, <1>2, SumsExist
<1>4. \A k \in 1..n : g[k + 1] = g[k] + cs[k].size  BY <1>3 DEF AddsUp, Sizes
<1> DEFINE row == [k \in 1..(n + 1) |-> IF k = 1 THEN 0 ELSE g[k - 1] + cs[k - 1].size]
<1>5. g \in [1..(n + 1) -> Nat] /\ g[1] = 0  BY <1>3 DEF AddsUp
<1>6. ASSUME NEW k \in 1..(n + 1), k # 1 PROVE g[k] = g[k - 1] + cs[k - 1].size
  <2>1. k - 1 \in 1..n /\ (k - 1) + 1 = k  BY <1>1, <1>6
  <2> QED BY <1>4, <2>1
<1>7. g = row
  <2>1. \A k \in 1..(n + 1) : g[k] = row[k]  BY <1>5, <1>6
  <2> QED BY <1>5, <2>1
<1> DEFINE s == FirstOf(cs)
<1>8. s = [k \in 1..(n + 1) |-> IF k = 1 THEN 0 ELSE s[k - 1] + cs[k - 1].size]
  BY <1>7 DEF FirstOf
<1> HIDE DEF s, row
<1>9. s = g
  <2> DEFINE T == {m \in 1..(n + 1) : s[m] # g[m]}
  <2>1. ASSUME T # {} PROVE FALSE
    <3>1. PICK m \in T : \A j \in T : m <= j
      <4>1. T \subseteq Nat  OBVIOUS
      <4> HIDE DEF T
      <4> QED BY <2>1, <4>1, Least
    <3>2. m # 1  BY <1>5, <1>8
    <3>3. m - 1 \in 1..(n + 1) /\ ~(m <= m - 1)  BY <1>1, <3>2
    <3>4. s[m - 1] = g[m - 1]  BY <3>1, <3>3
    <3>5. s[m] = s[m - 1] + cs[m - 1].size  BY <1>8, <3>2
    <3> QED BY <1>6, <3>2, <3>4, <3>5
  <2>2. \A k \in 1..(n + 1) : s[k] = g[k]  BY <2>1
  <2>3. s = [k \in 1..(n + 1) |-> s[k]] /\ g = [k \in 1..(n + 1) |-> g[k]]  BY <1>5, <1>8
  <2> QED BY <2>2, <2>3
<1> QED BY <1>3, <1>9 DEF s

(* The input, which no step changes.                                       *)
Input ==
  /\ chunks \in UNION {[1..n -> Chunks] : n \in 0..MaxChunks}
  /\ total \in {0, Sum, Sum + 1} /\ length \in 0..Whole /\ magic \in BOOLEAN

(* The positions at which the chunks start, one after another.             *)
Layout ==
  /\ Len(chunks) \in 0..MaxChunks
  /\ Start \in [1..(Len(chunks) + 1) -> Nat] /\ Start[1] = 1
  /\ First \in [1..(Len(chunks) + 1) -> Nat] /\ First[1] = 0
  /\ \A k \in 1..Len(chunks) : /\ chunks[k] \in Chunks
                               /\ Start[k + 1] = Start[k] + 1 + chunks[k].units
                               /\ First[k + 1] = First[k] + chunks[k].size

LEMMA LayoutIs ==
  ASSUME Input
  PROVE  /\ Layout
         /\ AddsUp(Start, Len(chunks), 1, Units(chunks))
         /\ AddsUp(First, Len(chunks), 0, Sizes(chunks))
<1>1. PICK n \in 0..MaxChunks : chunks \in [1..n -> Chunks]  BY DEF Input
<1>2. n \in Nat  BY <1>1, SparseImageAssumption
<1>3. chunks \in Seq(Chunks) /\ Len(chunks) = n
  <2>1. chunks \in Seq(Chunks)  BY <1>1, <1>2, SeqDef
  <2>2. DOMAIN chunks = 1..n /\ DOMAIN chunks = 1..Len(chunks) /\ Len(chunks) \in Nat
    BY <1>1, <2>1, LenProperties
  <2> QED BY <1>2, <2>1, <2>2
<1>4. Start = StartOf(chunks) /\ First = FirstOf(chunks)
  BY DEF Start, First, StartOf, FirstOf
<1>5. AddsUp(Start, n, 1, Units(chunks)) /\ AddsUp(First, n, 0, Sizes(chunks))
  BY <1>3, <1>4, StartAddsUp, FirstAddsUp
<1>6. ASSUME NEW k \in 1..n
      PROVE  /\ chunks[k] \in Chunks
             /\ Start[k + 1] = Start[k] + 1 + chunks[k].units
             /\ First[k + 1] = First[k] + chunks[k].size
  <2>1. chunks[k] \in Chunks  BY <1>1
  <2>2. Units(chunks)[k] = 1 + chunks[k].units /\ Sizes(chunks)[k] = chunks[k].size
    BY <1>3 DEF Units, Sizes
  <2>3. /\ Start[k + 1] = Start[k] + Units(chunks)[k]
        /\ First[k + 1] = First[k] + Sizes(chunks)[k] /\ Start[k] \in Nat
    <3>1. k \in 1..(n + 1)  BY <1>2
    <3> QED BY <1>5, <3>1 DEF AddsUp
  <2>4. chunks[k].units \in Nat  BY <2>1, ChunkIs
  <2> QED BY <2>1, <2>2, <2>3, <2>4
<1> QED BY <1>1, <1>3, <1>5, <1>6 DEF Layout, AddsUp

(* They rise, and leave room for every block.                              *)
LEMMA Rise ==
  ASSUME Input, NEW j \in 1..(Len(chunks) + 1), NEW k \in 1..(Len(chunks) + 1), j <= k
  PROVE  Start[j] <= Start[k] /\ First[j] <= First[k]
<1> DEFINE n == Len(chunks)
<1>1. n \in Nat /\ \A i \in 1..n : chunks[i].units \in Nat /\ chunks[i].size \in Nat
  BY LayoutIs, ChunkIs, SparseImageAssumption DEF Layout
<1>2. \A i \in 1..n : Units(chunks)[i] \in Nat /\ Sizes(chunks)[i] \in Nat
  BY <1>1 DEF Units, Sizes
<1>3. AddsUp(Start, n, 1, Units(chunks)) /\ AddsUp(First, n, 0, Sizes(chunks))  BY LayoutIs
<1>4. Start[j] <= Start[k]  BY <1>1, <1>2, <1>3, SumsRise
<1>5. First[j] <= First[k]  BY <1>1, <1>2, <1>3, SumsRise
<1> QED BY <1>4, <1>5

LEMMA SumFits ==
  ASSUME Input PROVE Sum \in 0..(MaxChunks * MaxSize)
<1> DEFINE n == Len(chunks)
<1>1. n \in 0..MaxChunks /\ n \in Nat /\ MaxSize \in Nat /\ MaxChunks \in Nat /\ Sum \in Nat
  BY LayoutIs, SparseImageAssumption DEF Layout, Sum
<1>2. \A i \in 1..n : Sizes(chunks)[i] \in 0..MaxSize
  BY LayoutIs, ChunkIs DEF Layout, Sizes
<1>3. AddsUp(First, n, 0, Sizes(chunks))  BY LayoutIs
<1>4. Sum <= n * MaxSize
  <2>1. n \in 0..n  BY <1>1
  <2>2. First[n + 1] <= n * MaxSize  BY <1>1, <1>2, <1>3, <2>1, SumsBounded
  <2> QED BY <2>2 DEF Sum
<1>5. n * MaxSize <= MaxChunks * MaxSize
  <2>1. MaxChunks * MaxSize = n * MaxSize + (MaxChunks - n) * MaxSize
        /\ (MaxChunks - n) * MaxSize \in Nat  BY <1>1
  <2> QED BY <1>1, <2>1
<1> QED BY <1>1, <1>4, <1>5

(* The unit a block of chunk k comes from.                                 *)
LEMMA MeaningIs ==
  ASSUME Input, NEW k \in 1..Len(chunks), NEW n \in Nat, First[k] <= n, n < First[k + 1]
  PROVE  Meaning(n) = CASE chunks[k].type = "raw"  -> Start[k] + 1 + n - First[k]
                        [] chunks[k].type = "fill" -> Start[k] + 1
                        [] OTHER                   -> Zero
<1>1. ASSUME NEW j \in 1..Len(chunks), First[j] <= n /\ n < First[j + 1] PROVE j = k
  <2>1. /\ Len(chunks) \in Nat /\ First[j] \in Nat /\ First[k] \in Nat
        /\ First[j + 1] \in Nat /\ First[k + 1] \in Nat
    BY LayoutIs DEF Layout
  <2>2. CASE j < k
    <3>1. First[j + 1] <= First[k]  BY Rise, <2>1, <2>2
    <3> QED BY <1>1, <2>1, <3>1
  <2>3. CASE k < j
    <3>1. First[k + 1] <= First[j]  BY Rise, <2>1, <2>3
    <3> QED BY <1>1, <2>1, <3>1
  <2> QED BY <2>1, <2>2, <2>3
<1>2. k = CHOOSE j \in 1..Len(chunks) : First[j] <= n /\ n < First[j + 1]  BY <1>1
<1> QED BY <1>2, Zenon DEF Meaning

(* Every block belongs to a chunk.                                         *)
LEMMA Located ==
  ASSUME Input, NEW n \in Nat, n < Sum
  PROVE  \E k \in 1..Len(chunks) : First[k] <= n /\ n < First[k + 1]
<1> DEFINE T == {m \in 1..(Len(chunks) + 1) : n < First[m]}
<1>1. Layout /\ Len(chunks) \in Nat  BY LayoutIs DEF Layout
<1>2. Len(chunks) + 1 \in T  BY <1>1 DEF Sum
<1>3. PICK m \in T : \A i \in T : m <= i
  <2>1. T \subseteq Nat  OBVIOUS
  <2> HIDE DEF T
  <2> QED BY <1>2, <2>1, Least
<1>4. m # 1  BY <1>1 DEF Layout
<1>5. m - 1 \in 1..Len(chunks) /\ (m - 1) + 1 = m /\ ~(m <= m - 1)  BY <1>1, <1>4
<1>6. ~(n < First[m - 1]) /\ First[m - 1] \in Nat
  <2>1. m - 1 \in 1..(Len(chunks) + 1)  BY <1>1, <1>5
  <2> QED BY <1>1, <1>3, <1>5, <2>1 DEF Layout
<1> QED BY <1>3, <1>5, <1>6

-----------------------------------------------------------------------------
(* The inductive invariant: what unsparse knows wherever it stands.        *)

Kinds ==
  /\ pc \in Places /\ pos \in 0..length /\ done \in 0..Len(chunks)
  /\ todo \in 0..MaxSize /\ value \in Nat \cup {Zero}
  /\ image \in [Blocks -> Nat \cup {Zero}] /\ end \in Nat
  /\ size \in 0..(MaxChunks * MaxSize + 1) /\ result \in {"none", "true", "false"}
  /\ full \in BOOLEAN /\ astray \in BOOLEAN

(* What is still to be written has room in the output.                     *)
Room == end + todo <= done * MaxSize

Results ==
  /\ pc = "open" => pos = 0 /\ done = 0 /\ end = 0 /\ size = 0
  /\ result = "none" <=> pc # "closed"
  /\ result = "true" => done = Len(chunks)

HeadersRead == ~astray => \A k \in 1..done : Start[k] < length

(* unsparse stands before a header, or has read all; or is in a chunk.     *)
AtHeader == pc = "chunk" \/ result = "true"
InChunk  == pc \in {"raw", "fill", "filling", "dont_care", "crc32", "other"}

Known == \A k \in 1..Len(chunks) : chunks[k].type # "other"

(* The input has ended in the chunk before.                                *)
Cut == pos = length /\ length < Start[done + 1]

(* The position in a chunk tells what of it has been copied.               *)
Inside ==
  /\ done > 0 /\ todo <= chunks[done].size
  /\ chunks[done].type = IF pc = "filling" THEN "fill" ELSE pc
  /\ pc = "raw" => pos = Start[done] + 1 + chunks[done].size - todo
  /\ pc \in {"fill", "dont_care", "crc32"} =>
       pos = Start[done] + 1 /\ todo = chunks[done].size
  /\ pc = "filling" =>
       IF Start[done] + 1 < length THEN value = Start[done] + 1 /\ pos = Start[done] + 2
                                   ELSE pos = length

(* The input's position and the output's position keep step.               *)
InStep ==
  Known /\ ~astray =>
    /\ AtHeader => pos = Start[done + 1] \/ Cut
    /\ InChunk => Inside

EndInStep ==
  Known /\ ~astray /\ ~full =>
    /\ AtHeader => end = First[done + 1] \/ (Cut /\ end <= First[done + 1])
    /\ InChunk => end = First[done] + chunks[done].size - todo

(* What has not been reached is still empty.                               *)
Fresh == \A n \in Blocks : n >= end => image[n] = Zero

Faithful ==
  Known /\ ~astray /\ ~full =>
    \A n \in 0..(end - 1) : Meaning(n) < length => image[n] = Meaning(n)

Sized ==
  Intact =>
    /\ ~astray
    /\ ~full /\ pc # "open" => IF result = "false" THEN size = 0 ELSE size = total

SparseInv ==
  /\ Input /\ Kinds /\ Room /\ Results /\ HeadersRead
  /\ InStep /\ EndInStep /\ Fresh /\ Faithful /\ Sized

LEMMA Initially == Init => SparseInv
<1> SUFFICES ASSUME Init PROVE SparseInv  OBVIOUS
<1>1. Input /\ Layout
  <2>1. Input  BY DEF Init, Input
  <2> QED BY <2>1, LayoutIs
<1>2. Kinds /\ Room /\ Results
  <2>1. MaxSize \in Nat /\ MaxChunks \in Nat /\ MaxChunks * MaxSize \in Nat
    BY SparseImageAssumption
  <2>2. Len(chunks) \in Nat /\ length \in Nat  BY <1>1 DEF Layout, Input, Whole
  <2>3. 0 \in 0..length /\ 0 \in 0..Len(chunks) /\ 0 \in 0..MaxSize
        /\ 0 \in 0..(MaxChunks * MaxSize + 1) /\ 0 + 0 <= 0 * MaxSize  BY <2>1, <2>2
  <2>4. Kinds  BY <2>3 DEF Init, Kinds, Places
  <2>5. Room  BY <2>3 DEF Init, Room
  <2> QED BY <2>4, <2>5 DEF Init, Results
<1>3. HeadersRead /\ InStep /\ EndInStep /\ Faithful
  BY DEF Init, HeadersRead, InStep, EndInStep, Faithful, AtHeader, InChunk
<1>4. Fresh /\ Sized  BY DEF Init, Fresh, Sized
<1> QED BY <1>1, <1>2, <1>3, <1>4 DEF SparseInv

(* No step changes the input, nor what is said of it.                      *)
LEMMA InputStays ==
  ASSUME Input, [Next]_vars
  PROVE  /\ chunks' = chunks /\ length' = length /\ total' = total /\ Input'
         /\ Start' = Start /\ First' = First /\ Known' = Known /\ Intact' = Intact
<1>1. UNCHANGED inputVars
  <2>1. CASE Step
    BY <2>1 DEF Step, Refuse, Open, ReadChunk, ChunkMissing, CopyBlock, ReadValue, FillBlock,
                EndChunk, SkipBlocks, SkipChecksum, IgnoreChunk, Finish, Return
  <2>2. CASE DiskFills  BY <2>2 DEF DiskFills
  <2>3. CASE UNCHANGED vars  BY <2>3 DEF vars
  <2> QED BY <2>1, <2>2, <2>3 DEF Next
<1>2. chunks' = chunks /\ length' = length /\ total' = total /\ magic' = magic
  BY <1>1 DEF inputVars
<1>3. Start' = Start /\ First' = First  BY <1>2 DEF Start, First
<1>4. Input' /\ Known' = Known /\ Intact' = Intact
  BY <1>2, <1>3 DEF Input, Known, Intact, Sum, Whole
<1> QED BY <1>2, <1>3, <1>4

LEMMA MeaningStays ==
  ASSUME Input, [Next]_vars, NEW n PROVE Meaning(n)' = Meaning(n)
<1>1. chunks' = chunks /\ Start' = Start /\ First' = First  BY InputStays
<1> QED BY <1>1 DEF Meaning

(* Numbers the steps count with.                                           *)
LEMMA Numbers ==
  ASSUME Input, Kinds
  PROVE  /\ MaxSize \in Nat /\ MaxChunks \in Nat /\ MaxChunks * MaxSize \in Nat
         /\ Len(chunks) \in Nat /\ Len(chunks) <= MaxChunks
         /\ length \in Nat /\ total \in 0..(MaxChunks * MaxSize + 1)
         /\ pos \in Nat /\ done \in Nat /\ done <= Len(chunks) /\ todo \in Nat
         /\ done * MaxSize \in Nat /\ done * MaxSize <= MaxChunks * MaxSize
         /\ (done + 1) * MaxSize = done * MaxSize + MaxSize
<1>1. MaxSize \in Nat /\ MaxChunks \in Nat /\ MaxChunks * MaxSize \in Nat
  BY SparseImageAssumption
<1>2. Len(chunks) \in Nat /\ Len(chunks) <= MaxChunks /\ Whole \in Nat
  BY <1>1, LayoutIs DEF Layout, Whole
<1>3. length \in Nat  BY <1>2 DEF Input
<1>4. total \in 0..(MaxChunks * MaxSize + 1)  BY <1>1, SumFits DEF Input
<1>5. pos \in Nat /\ done \in Nat /\ done <= Len(chunks) /\ todo \in Nat
  BY <1>1, <1>2, <1>3 DEF Kinds
<1>6. done * MaxSize \in Nat /\ (done + 1) * MaxSize = done * MaxSize + MaxSize
  BY <1>1, <1>5
<1>7. done * MaxSize <= MaxChunks * MaxSize
  <2>1. MaxChunks - done \in Nat  BY <1>1, <1>2, <1>5
  <2>2. MaxChunks * MaxSize = done * MaxSize + (MaxChunks - done) * MaxSize
        /\ (MaxChunks - done) * MaxSize \in Nat  BY <1>1, <1>5, <2>1
  <2> QED BY <1>1, <1>6, <2>2
<1> QED BY <1>1, <1>2, <1>3, <1>4, <1>5, <1>6, <1>7

LEMMA ChunkRead ==
  ASSUME SparseInv, ReadChunk
  PROVE  /\ \E c \in Chunks : pc' = c.type /\ todo' = c.size
         /\ ~astray' => /\ ~astray /\ pos = Start[done + 1]
                        /\ pc' = chunks[done + 1].type /\ todo' = chunks[done + 1].size
<1>1. done + 1 \in 1..Len(chunks) /\ chunks[done + 1] \in Chunks
  <2>1. done + 1 \in 1..Len(chunks)  BY Numbers DEF SparseInv, ReadChunk
  <2> QED BY <2>1, LayoutIs DEF Layout, SparseInv
<1>2. astray \in BOOLEAN  BY DEF SparseInv, Kinds
<1> QED BY <1>1, <1>2 DEF ReadChunk, Headers

LEMMA RoomGrows ==
  ASSUME NEW a \in Nat, NEW b \in Nat, NEW m \in Nat, NEW u \in Nat, NEW t \in 0..m, a + b <= u
  PROVE  a + t <= u + m
OBVIOUS

LEMMA KindsRoomStay == SparseInv /\ [Next]_vars => Kinds' /\ Room'
<1> SUFFICES ASSUME SparseInv, [Next]_vars PROVE Kinds' /\ Room'  OBVIOUS
<1> USE DEF Kinds, Room
<1>1. Input /\ Kinds /\ Room  BY DEF SparseInv
<1>2. length' = length /\ Len(chunks') = Len(chunks)  BY <1>1, InputStays
<1>3. CASE Refuse \/ ChunkMissing \/ Finish
  BY <1>1, <1>2, <1>3 DEF Refuse, ChunkMissing, Finish, Return, Places, outputVars
<1>4. CASE Open
  <2>1. total \in 0..(MaxChunks * MaxSize + 1) /\ length \in Nat  BY <1>1, Numbers
  <2> QED BY <1>1, <1>2, <1>4, <2>1 DEF Open, Places, inputVars
<1>5. CASE ReadChunk
  <2>1. PICK c \in Chunks : pc' = c.type /\ todo' = c.size  BY <1>5, ChunkRead
  <2>2. pc' \in Places /\ todo' \in 0..MaxSize  BY <2>1, ChunkIs DEF Places
  <2>3. done' \in 0..Len(chunks) /\ pos' \in 0..length /\ astray' \in BOOLEAN
    BY <1>1, <1>5, Numbers DEF ReadChunk
  <2>4. UNCHANGED <<value, image, end, size, result, full>>  BY <1>5 DEF ReadChunk, outputVars
  <2>5. Kinds'  BY <1>1, <1>2, <2>2, <2>3, <2>4
  <2>6. end' + todo' <= done' * MaxSize
    <3>1. done' = done + 1 /\ end' = end  BY <1>5, <2>4 DEF ReadChunk
    <3>2. PICK used \in Nat : used = done * MaxSize  BY <1>1, Numbers
    <3>3. end + todo <= used /\ todo \in Nat /\ end \in Nat /\ MaxSize \in Nat
      <4>1. todo \in Nat /\ MaxSize \in Nat  BY <1>1, Numbers
      <4> QED BY <1>1, <3>2, <4>1
    <3>4. end + todo' <= used + MaxSize
      <4>1. used \in Nat /\ todo' \in 0..MaxSize  BY <2>2, <3>2
      <4> QED BY <3>3, <4>1, RoomGrows
    <3>5. done' * MaxSize = used + MaxSize  BY <1>1, <3>1, <3>2, Numbers
    <3> QED BY <3>1, <3>4, <3>5
  <2> QED BY <2>5, <2>6
<1>6. ASSUME CopyBlock \/ FillBlock PROVE Kinds' /\ Room'
  <2>1. \E u \in Nat \cup {Zero} : Write(u)
    <3>1. pos \in Nat \cup {Zero} /\ value \in Nat \cup {Zero}  BY <1>1, Numbers
    <3> QED BY <1>6, <3>1, Zenon DEF CopyBlock, FillBlock
  <2>2. PICK u \in Nat \cup {Zero} : Write(u)  BY <2>1
  <2>3. todo > 0 /\ todo' = todo - 1 /\ UNCHANGED <<pc, done, value, result, full, astray>>
    BY <1>6 DEF CopyBlock, FillBlock
  <2>4. pos' \in 0..length
    <3>1. pos' = pos \/ (pos' = pos + 1 /\ pos < length)  BY <1>6 DEF CopyBlock, FillBlock
    <3>2. pos \in 0..length /\ length \in Nat  BY <1>1, Numbers
    <3> QED BY <3>1, <3>2
  <2>5. PICK cap \in Nat : cap = MaxChunks * MaxSize  BY <1>1, Numbers
  <2>6. PICK used \in Nat : used = done * MaxSize  BY <1>1, Numbers
  <2>7. /\ used <= cap /\ end + todo <= used /\ todo \in Nat /\ todo <= MaxSize /\ MaxSize \in Nat
        /\ end \in Nat /\ size \in 0..(cap + 1)
    <3>1. done * MaxSize <= MaxChunks * MaxSize /\ todo \in Nat /\ MaxSize \in Nat
      BY <1>1, Numbers
    <3>2. end + todo <= done * MaxSize /\ end \in Nat /\ todo \in 0..MaxSize
          /\ size \in 0..(MaxChunks * MaxSize + 1)  BY <1>1
    <3> QED BY <2>5, <2>6, <3>1, <3>2
  <2>8. end \in Blocks  BY <2>3, <2>5, <2>7 DEF Blocks
  <2>9. image' \in [Blocks -> Nat \cup {Zero}]
    <3>1. image' = image \/ image' = [image EXCEPT ![end] = u]  BY <2>2 DEF Write, outputVars
    <3>2. image \in [Blocks -> Nat \cup {Zero}]  BY <1>1
    <3> QED BY <2>8, <3>1, <3>2
  <2>10. end' \in {end, end + 1} /\ size' \in {size, end + 1}  BY <2>2 DEF Write, outputVars
  <2>11. size' \in 0..(cap + 1) /\ end' \in Nat /\ todo' \in 0..MaxSize /\ end' + todo' <= used
    <3>1. end + 1 \in 0..cap /\ todo - 1 \in 0..MaxSize /\ (end + 1) + (todo - 1) <= used
          /\ end + (todo - 1) <= used  BY <2>3, <2>7
    <3>2. size \in 0..(cap + 1) /\ end + 1 \in 0..(cap + 1)  BY <2>7, <3>1
    <3>3. end \in Nat /\ end + 1 \in Nat  BY <2>7
    <3> QED BY <2>3, <2>10, <3>1, <3>2, <3>3, Zenon
  <2>12. done' = done  BY <2>3
  <2>13. Room'  BY <2>6, <2>11, <2>12
  <2> QED BY <1>1, <1>2, <2>3, <2>4, <2>5, <2>9, <2>11, <2>13
<1>7. CASE ReadValue
  <2>1. value' \in Nat \cup {Zero} /\ pos' \in 0..length
    <3>1. pos \in 0..length /\ length \in Nat /\ pos \in Nat  BY <1>1, Numbers
    <3>2. (value' = pos /\ pos' = pos + 1 /\ pos < length) \/ (value' = Zero /\ pos' = pos)
      BY <1>7 DEF ReadValue
    <3> QED BY <3>1, <3>2
  <2> QED BY <1>1, <1>2, <1>7, <2>1 DEF ReadValue, Places, outputVars
<1>8. CASE EndChunk \/ IgnoreChunk
  <2>1. end + 0 <= done * MaxSize  BY <1>1, Numbers
  <2>2. 0 \in 0..MaxSize  BY <1>1, Numbers
  <2> QED BY <1>1, <1>2, <1>8, <2>1, <2>2 DEF EndChunk, IgnoreChunk, Places, outputVars
<1>9. CASE SkipBlocks
  <2>1. end + todo + 0 <= done * MaxSize /\ end + todo \in Nat  BY <1>1, Numbers
  <2>2. 0 \in 0..MaxSize  BY <1>1, Numbers
  <2> QED BY <1>1, <1>2, <1>9, <2>1, <2>2 DEF SkipBlocks, Places
<1>10. CASE SkipChecksum
  <2>1. end + 0 <= done * MaxSize  BY <1>1, Numbers
  <2>2. 0 \in 0..MaxSize /\ pos' \in 0..length  BY <1>1, <1>10, Numbers DEF SkipChecksum
  <2> QED BY <1>1, <1>2, <1>10, <2>1, <2>2 DEF SkipChecksum, Places, outputVars
<1>11. CASE DiskFills  BY <1>1, <1>2, <1>11 DEF DiskFills, outputVars
<1>12. CASE UNCHANGED vars  BY <1>1, <1>2, <1>12 DEF vars, outputVars
<1> QED BY <1>3, <1>4, <1>5, <1>6, <1>7, <1>8, <1>9, <1>10, <1>11, <1>12 DEF Next, Step

LEMMA ResultsStay == SparseInv /\ [Next]_vars => Results'
<1> SUFFICES ASSUME SparseInv, [Next]_vars PROVE Results'  OBVIOUS
<1>1. Input /\ Results /\ Kinds  BY DEF SparseInv
<1>2. Len(chunks') = Len(chunks)  BY <1>1, InputStays
<1>3. CASE Refuse \/ ChunkMissing \/ Finish
  BY <1>1, <1>2, <1>3 DEF Refuse, ChunkMissing, Finish, Return, Results
<1>4. CASE Open  BY <1>1, <1>2, <1>4 DEF Open, Results
<1>5. CASE ReadChunk
  <2>1. PICK c \in Chunks : pc' = c.type  BY <1>5, ChunkRead
  <2>2. pc' \notin {"open", "closed"}  BY <2>1, ChunkIs
  <2> QED BY <1>1, <1>2, <1>5, <2>2 DEF ReadChunk, Results
<1>6. CASE CopyBlock \/ ReadValue \/ FillBlock
  BY <1>1, <1>2, <1>6 DEF CopyBlock, ReadValue, FillBlock, Results
<1>7. CASE EndChunk \/ SkipBlocks \/ SkipChecksum \/ IgnoreChunk
  BY <1>1, <1>2, <1>7 DEF EndChunk, SkipBlocks, SkipChecksum, IgnoreChunk, Results
<1>8. CASE DiskFills  BY <1>1, <1>2, <1>8 DEF DiskFills, Results, outputVars
<1>9. CASE UNCHANGED vars  BY <1>1, <1>2, <1>9 DEF vars, Results, outputVars
<1> QED BY <1>3, <1>4, <1>5, <1>6, <1>7, <1>8, <1>9 DEF Next, Step

LEMMA HeadersStay == SparseInv /\ [Next]_vars => HeadersRead'
<1> SUFFICES ASSUME SparseInv, [Next]_vars PROVE HeadersRead'  OBVIOUS
<1>1. Input /\ HeadersRead /\ Kinds  BY DEF SparseInv
<1>2. length' = length /\ Start' = Start  BY <1>1, InputStays
<1>3. CASE ReadChunk
  <2>1. done' = done + 1 /\ done \in Nat  BY <1>1, <1>3, Numbers DEF ReadChunk
  <2>2. ASSUME ~astray' PROVE Start[done + 1] < length /\ ~astray
    BY <1>3, <2>2, ChunkRead DEF ReadChunk
  <2>3. ASSUME ~astray', NEW k \in 1..(done + 1) PROVE Start[k] < length
    <3>1. k \in 1..done \/ k = done + 1  BY <2>1
    <3> QED BY <1>1, <2>2, <2>3, <3>1 DEF HeadersRead
  <2> QED BY <1>2, <2>1, <2>3 DEF HeadersRead
<1>4. CASE done' = done /\ astray' = astray  BY <1>1, <1>2, <1>4 DEF HeadersRead
<1>5. (done' = done /\ astray' = astray) \/ ReadChunk
  BY DEF Next, Step, Refuse, Open, ChunkMissing, CopyBlock, ReadValue, FillBlock, EndChunk,
         SkipBlocks, SkipChecksum, IgnoreChunk, Finish, Return, DiskFills, vars
<1> QED BY <1>3, <1>4, <1>5

(* What holds in a chunk: where it ends, and what comes next.              *)
LEMMA ChunkEnds ==
  ASSUME Input, Kinds, Inside, InChunk
  PROVE  /\ done \in 1..Len(chunks) /\ chunks[done] \in Chunks
         /\ Start[done] \in Nat /\ First[done] \in Nat
         /\ Start[done + 1] = Start[done] + 1 + chunks[done].units
         /\ First[done + 1] = First[done] + chunks[done].size
         /\ chunks[done].size \in Nat /\ chunks[done].units \in Nat
<1>1. done \in 1..Len(chunks) /\ done \in 1..(Len(chunks) + 1)
  BY Numbers DEF Inside
<1>2. Layout  BY LayoutIs
<1>3. chunks[done].size \in 0..MaxSize /\ chunks[done].units \in Nat /\ MaxSize \in Nat
  BY <1>1, <1>2, ChunkIs, SparseImageAssumption DEF Layout
<1> QED BY <1>1, <1>2, <1>3 DEF Layout

(* A step that leaves the counts alone keeps both positions in step.       *)
LEMMA InStepStays == SparseInv /\ [Next]_vars => InStep'
<1> SUFFICES ASSUME SparseInv, [Next]_vars PROVE InStep'  OBVIOUS
<1> SUFFICES ASSUME Known, ~astray'
             PROVE  (AtHeader' => pos' = Start[done' + 1] \/ Cut') /\ (InChunk' => Inside')
  <2>1. Input /\ Known' = Known /\ Start' = Start  BY InputStays DEF SparseInv
  <2> QED BY <2>1 DEF InStep
<1>1. Input /\ Kinds /\ Results /\ InStep  BY DEF SparseInv
<1>2. chunks' = chunks /\ length' = length /\ Start' = Start /\ Layout
  BY <1>1, InputStays, LayoutIs
<1>3. /\ done \in Nat /\ done <= Len(chunks) /\ length \in Nat /\ pos \in Nat /\ todo \in Nat
      /\ pos <= length
  BY <1>1, Numbers DEF Kinds
<1>4. ~astray => (AtHeader => pos = Start[done + 1] \/ Cut) /\ (InChunk => Inside)
  BY <1>1 DEF InStep
<1>5. CASE Refuse \/ ChunkMissing
  BY <1>5 DEF Refuse, ChunkMissing, Return, AtHeader, InChunk
<1>6. CASE Finish
  BY <1>2, <1>4, <1>6 DEF Finish, Return, AtHeader, InChunk, Cut
<1>7. CASE Open
  BY <1>1, <1>2, <1>7 DEF Open, AtHeader, InChunk, Results, Layout
<1>8. CASE ReadChunk
  <2>1. /\ pos = Start[done + 1] /\ pc' = chunks[done + 1].type
        /\ todo' = chunks[done + 1].size
    BY <1>8, ChunkRead
  <2>2. done' = done + 1 /\ pos' = pos + 1 /\ done + 1 \in 1..Len(chunks) /\ result' = result
    BY <1>3, <1>8 DEF ReadChunk
  <2>3. chunks[done + 1] \in Chunks /\ chunks[done + 1].type # "other"
    BY <1>2, <2>2 DEF Layout, Known
  <2>4. pc' \in {"raw", "fill", "dont_care", "crc32"} /\ todo' \in Nat
    BY <2>1, <2>3, ChunkIs, SparseImageAssumption
  <2>5. ~AtHeader'
    BY <1>1, <1>8, <2>2, <2>4 DEF ReadChunk, AtHeader, Results
  <2>6. pos' = Start[done'] + 1 /\ todo' = chunks'[done'].size /\ done' > 0
        /\ chunks'[done'].type = pc'
    BY <1>2, <1>3, <2>1, <2>2
  <2>7. pos' = Start[done'] + 1 + chunks'[done'].size - todo' /\ todo' <= chunks'[done'].size
    BY <1>3, <2>2, <2>4, <2>6
  <2>8. Inside'  BY <1>2, <2>4, <2>6, <2>7 DEF Inside
  <2> QED BY <2>5, <2>8
<1>9. CASE CopyBlock
  <2>1. ~astray /\ Inside /\ InChunk  BY <1>4, <1>9 DEF CopyBlock, InChunk
  <2>2. /\ pc = "raw" /\ todo > 0 /\ pos' = pos + 1 /\ todo' = todo - 1
        /\ pc' = pc /\ done' = done /\ result' = result
    BY <1>9 DEF CopyBlock
  <2>3. chunks[done].size \in Nat /\ Start[done] \in Nat  BY <1>1, <2>1, ChunkEnds
  <2>4. pos' = Start[done] + 1 + chunks[done].size - todo' /\ todo' <= chunks[done].size
    <3>1. pos = Start[done] + 1 + chunks[done].size - todo /\ todo <= chunks[done].size
      BY <2>1, <2>2 DEF Inside
    <3>2. PICK s \in Nat, c \in Nat : s = Start[done] /\ c = chunks[done].size  BY <2>3
    <3>3. todo \in Nat  BY <1>3
    <3>4. pos + 1 = s + 1 + c - (todo - 1) /\ todo - 1 <= c  BY <3>1, <3>2, <3>3
    <3> QED BY <2>2, <3>2, <3>4
  <2>5. Inside'  BY <1>2, <2>1, <2>2, <2>4 DEF Inside
  <2>6. ~AtHeader'  BY <1>1, <2>2 DEF AtHeader, Results
  <2> QED BY <2>5, <2>6
<1>10. CASE ReadValue
  <2>1. ~astray /\ Inside /\ InChunk  BY <1>4, <1>10 DEF ReadValue, InChunk
  <2>2. pos = Start[done] + 1 /\ Start[done] \in Nat
    BY <1>1, <1>10, <2>1, ChunkEnds DEF ReadValue, Inside
  <2>3. IF Start[done] + 1 < length THEN value' = Start[done] + 1 /\ pos' = Start[done] + 2
                                    ELSE pos' = length
    BY <1>3, <1>10, <2>2 DEF ReadValue
  <2>4. Inside'  BY <1>2, <1>10, <2>1, <2>3 DEF Inside, ReadValue
  <2>5. ~AtHeader'  BY <1>1, <1>10 DEF AtHeader, Results, ReadValue
  <2> QED BY <2>4, <2>5
<1>11. CASE FillBlock
  <2>1. ~astray /\ Inside /\ InChunk  BY <1>4, <1>11 DEF FillBlock, InChunk
  <2>2. /\ pc = "filling" /\ todo > 0 /\ pos' = pos /\ todo' = todo - 1 /\ value' = value
        /\ pc' = pc /\ done' = done /\ result' = result
    BY <1>11 DEF FillBlock
  <2>3. chunks[done].size \in Nat  BY <1>1, <2>1, ChunkEnds
  <2>4. todo' <= chunks[done].size  BY <1>3, <2>1, <2>2, <2>3 DEF Inside
  <2>5. Inside'  BY <1>2, <2>1, <2>2, <2>4 DEF Inside
  <2>6. ~AtHeader'  BY <1>1, <2>2 DEF AtHeader, Results
  <2> QED BY <2>5, <2>6
<1>12. ASSUME EndChunk \/ SkipBlocks \/ SkipChecksum \/ IgnoreChunk
       PROVE  (AtHeader' => pos' = Start[done' + 1] \/ Cut') /\ (InChunk' => Inside')
  <2>1. ~astray /\ Inside /\ InChunk
    BY <1>4, <1>12 DEF EndChunk, SkipBlocks, SkipChecksum, IgnoreChunk, InChunk
  <2>2. pc' = "chunk" /\ done' = done
    BY <1>12 DEF EndChunk, SkipBlocks, SkipChecksum, IgnoreChunk
  <2>3. /\ done \in 1..Len(chunks) /\ chunks[done] \in Chunks /\ Start[done] \in Nat
        /\ Start[done + 1] = Start[done] + 1 + chunks[done].units
        /\ chunks[done].size \in Nat /\ chunks[done].units \in Nat
    BY <1>1, <2>1, ChunkEnds
  <2>4. pos' = Start[done + 1] \/ (pos' = length /\ length < Start[done + 1])
    <3>1. CASE EndChunk /\ pc = "raw"
      <4>1. pos = Start[done] + 1 + chunks[done].size - todo /\ chunks[done].type = "raw"
        BY <2>1, <3>1 DEF Inside
      <4>2. chunks[done].units = chunks[done].size  BY <2>3, <4>1, ChunkIs
      <4>3. pos' = pos /\ (todo = 0 \/ pos >= length)  BY <3>1 DEF EndChunk
      <4> QED BY <1>3, <2>3, <4>1, <4>2, <4>3
    <3>2. CASE EndChunk /\ pc = "filling"
      <4>1. /\ chunks[done].type = "fill"
            /\ IF Start[done] + 1 < length THEN pos = Start[done] + 2 ELSE pos = length
        BY <2>1, <3>2 DEF Inside
      <4>2. chunks[done].units = 1  BY <2>3, <4>1, ChunkIs
      <4>3. pos' = pos  BY <3>2 DEF EndChunk
      <4> QED BY <1>3, <2>3, <4>1, <4>2, <4>3
    <3>3. CASE SkipBlocks
      <4>1. pos = Start[done] + 1 /\ chunks[done].type = "dont_care" /\ pos' = pos
        BY <2>1, <3>3 DEF Inside, SkipBlocks
      <4>2. chunks[done].units = 0  BY <2>3, <4>1, ChunkIs
      <4> QED BY <2>3, <4>1, <4>2
    <3>4. CASE SkipChecksum
      <4>1. /\ pos = Start[done] + 1 /\ chunks[done].type = "crc32"
            /\ pos' = IF pos < length THEN pos + 1 ELSE pos
        BY <2>1, <3>4 DEF Inside, SkipChecksum
      <4>2. chunks[done].units = 1  BY <2>3, <4>1, ChunkIs
      <4> QED BY <1>3, <2>3, <4>1, <4>2
    <3>5. CASE IgnoreChunk
      BY <2>1, <2>3, <3>5 DEF Inside, IgnoreChunk, Known
    <3> QED BY <1>12, <3>1, <3>2, <3>3, <3>4, <3>5 DEF EndChunk
  <2> QED BY <1>2, <2>2, <2>4 DEF Cut, InChunk
<1>13. CASE DiskFills
  BY <1>2, <1>4, <1>13 DEF DiskFills, AtHeader, InChunk, Cut, Inside
<1>14. CASE UNCHANGED vars
  BY <1>2, <1>4, <1>14 DEF vars, AtHeader, InChunk, Cut, Inside
<1> QED BY <1>5, <1>6, <1>7, <1>8, <1>9, <1>10, <1>11, <1>12, <1>13, <1>14 DEF Next, Step

(* What a write does when the disk is not full.                            *)
LEMMA Written ==
  ASSUME NEW u, Write(u), ~full', UNCHANGED full, Kinds, Room, todo > 0, Input
  PROVE  /\ end \in Blocks /\ end' = end + 1 /\ image' = [image EXCEPT ![end] = u]
         /\ image \in [Blocks -> Nat \cup {Zero}] /\ end < done * MaxSize
         /\ size' = IF end + 1 > size THEN end + 1 ELSE size
<1>1. end' = end + 1 /\ image' = [image EXCEPT ![end] = u]
      /\ size' = IF end + 1 > size THEN end + 1 ELSE size  BY DEF Write
<1>2. PICK cap \in Nat, used \in Nat : cap = MaxChunks * MaxSize /\ used = done * MaxSize
  BY Numbers
<1>3. used <= cap /\ todo \in Nat  BY <1>2, Numbers
<1>4. end \in Nat /\ end + todo <= used /\ image \in [Blocks -> Nat \cup {Zero}]
  BY <1>2 DEF Kinds, Room
<1>5. end \in 0..(cap - 1) /\ end < used  BY <1>2, <1>3, <1>4
<1>6. end \in Blocks  BY <1>2, <1>5 DEF Blocks
<1> QED BY <1>1, <1>2, <1>4, <1>5, <1>6

LEMMA EndInStepStays == SparseInv /\ [Next]_vars => EndInStep'
<1> SUFFICES ASSUME SparseInv, [Next]_vars PROVE EndInStep'  OBVIOUS
<1> SUFFICES ASSUME Known, ~astray', ~full'
             PROVE  /\ AtHeader' => \/ end' = First[done' + 1]
                                    \/ Cut' /\ end' <= First[done' + 1]
                    /\ InChunk' => end' = First[done'] + chunks[done'].size - todo'
  <2>1. Input /\ Known' = Known /\ First' = First /\ chunks' = chunks
    BY InputStays DEF SparseInv
  <2> QED BY <2>1 DEF EndInStep
<1>1. Input /\ Kinds /\ Results /\ Room /\ InStep /\ EndInStep  BY DEF SparseInv
<1>2. length' = length /\ Start' = Start /\ Layout  BY <1>1, InputStays, LayoutIs
<1>3. /\ done \in Nat /\ done <= Len(chunks) /\ length \in Nat /\ pos \in Nat /\ todo \in Nat
      /\ pos <= length /\ end \in Nat
  BY <1>1, Numbers DEF Kinds
<1>4. ~astray => (AtHeader => pos = Start[done + 1] \/ Cut) /\ (InChunk => Inside)
  BY <1>1 DEF InStep
<1>5. ~astray /\ ~full =>
        /\ AtHeader => end = First[done + 1] \/ (Cut /\ end <= First[done + 1])
        /\ InChunk => end = First[done] + chunks[done].size - todo
  BY <1>1 DEF EndInStep
<1>6. CASE Refuse \/ ChunkMissing
  BY <1>6 DEF Refuse, ChunkMissing, Return, AtHeader, InChunk
<1>7. CASE Finish
  BY <1>2, <1>5, <1>7 DEF Finish, Return, AtHeader, InChunk, Cut, outputVars
<1>8. CASE Open
  BY <1>1, <1>2, <1>8 DEF Open, AtHeader, InChunk, Results, Layout
<1>9. CASE ReadChunk
  <2>1. ~astray /\ pos = Start[done + 1] /\ todo' = chunks[done + 1].size
    BY <1>9, ChunkRead
  <2>2. /\ done' = done + 1 /\ done + 1 \in 1..Len(chunks) /\ result' = result /\ end' = end
        /\ pos < length /\ pc = "chunk" /\ full' = full
    BY <1>3, <1>9 DEF ReadChunk, outputVars
  <2>3. end = First[done + 1]  BY <1>3, <1>5, <2>1, <2>2 DEF AtHeader, Cut
  <2>4. chunks[done + 1].size \in Nat /\ First[done + 1] \in Nat
    BY <1>2, <2>2, ChunkIs, SparseImageAssumption DEF Layout
  <2>5. end' = First[done'] + chunks[done'].size - todo'  BY <2>1, <2>2, <2>3, <2>4
  <2>6. ~AtHeader'
    <3>1. PICK c \in Chunks : pc' = c.type  BY <1>9, ChunkRead
    <3>2. pc' # "chunk"  BY <3>1, ChunkIs
    <3> QED BY <1>1, <2>2, <3>2 DEF AtHeader, Results
  <2> QED BY <2>5, <2>6
<1>10. ASSUME CopyBlock \/ FillBlock
       PROVE  ~AtHeader' /\ end' = First[done'] + chunks[done'].size - todo'
  <2>1. /\ InChunk /\ todo > 0 /\ todo' = todo - 1 /\ \E u : Write(u)
        /\ pc # "chunk" /\ UNCHANGED <<pc, done, result, full, astray>>
    BY <1>10 DEF CopyBlock, FillBlock, InChunk
  <2>2. ~astray /\ Inside /\ end = First[done] + chunks[done].size - todo  BY <1>4, <1>5, <2>1
  <2>3. chunks[done].size \in Nat /\ First[done] \in Nat  BY <1>1, <2>1, <2>2, ChunkEnds
  <2>4. end' = end + 1  BY <1>1, <2>1, Written
  <2>5. end' = First[done] + chunks[done].size - todo'  BY <1>3, <2>1, <2>2, <2>3, <2>4
  <2>6. ~AtHeader'  BY <1>1, <2>1 DEF AtHeader, InChunk, Results
  <2> QED BY <2>1, <2>5, <2>6
<1>11. CASE ReadValue
  <2>1. /\ InChunk /\ pc' = "filling" /\ pc = "fill"
        /\ UNCHANGED <<end, todo, done, result, full, astray>>
    BY <1>11 DEF ReadValue, InChunk, outputVars
  <2>2. end = First[done] + chunks[done].size - todo  BY <1>5, <2>1
  <2> QED BY <1>1, <2>1, <2>2 DEF AtHeader, Results
<1>12. ASSUME EndChunk \/ SkipBlocks \/ SkipChecksum \/ IgnoreChunk
       PROVE  /\ ~InChunk'
              /\ end' = First[done' + 1] \/ (Cut' /\ end' <= First[done' + 1])
  <2>1. InChunk /\ pc' = "chunk" /\ UNCHANGED <<done, full, astray>>
    BY <1>12 DEF EndChunk, SkipBlocks, SkipChecksum, IgnoreChunk, InChunk
  <2>2. ~astray /\ Inside /\ end = First[done] + chunks[done].size - todo  BY <1>4, <1>5, <2>1
  <2>3. /\ done \in 1..Len(chunks) /\ chunks[done] \in Chunks
        /\ Start[done] \in Nat /\ First[done] \in Nat
        /\ Start[done + 1] = Start[done] + 1 + chunks[done].units
        /\ First[done + 1] = First[done] + chunks[done].size
        /\ chunks[done].size \in Nat /\ chunks[done].units \in Nat
    BY <1>1, <2>1, <2>2, ChunkEnds
  <2>4. /\ \/ end' = First[done + 1]
           \/ pos' = length /\ length < Start[done + 1] /\ end' <= First[done + 1]
    <3>1. CASE EndChunk /\ todo = 0
      BY <2>2, <2>3, <3>1 DEF EndChunk, outputVars
    <3>2. CASE EndChunk /\ pc = "raw" /\ pos >= length /\ todo # 0
      <4>1. /\ pos = Start[done] + 1 + chunks[done].size - todo /\ chunks[done].type = "raw"
            /\ todo <= chunks[done].size
        BY <2>2, <3>2 DEF Inside
      <4>2. chunks[done].units = chunks[done].size  BY <2>3, <4>1, ChunkIs
      <4>3. pos' = pos /\ end' = end  BY <3>2 DEF EndChunk, outputVars
      <4> QED BY <1>3, <2>2, <2>3, <3>2, <4>1, <4>2, <4>3
    <3>3. CASE SkipBlocks
      <4>1. end' = end + todo  BY <3>3 DEF SkipBlocks
      <4> QED BY <1>3, <2>2, <2>3, <4>1
    <3>4. CASE SkipChecksum
      <4>1. todo = chunks[done].size /\ chunks[done].type = "crc32" /\ end' = end
        BY <2>2, <3>4 DEF Inside, SkipChecksum, outputVars
      <4>2. chunks[done].size = 0  BY <2>3, <4>1, ChunkIs
      <4> QED BY <2>2, <2>3, <4>1, <4>2
    <3>5. CASE IgnoreChunk
      BY <2>2, <2>3, <3>5 DEF Inside, IgnoreChunk, Known
    <3> QED BY <1>12, <3>1, <3>2, <3>3, <3>4, <3>5 DEF EndChunk
  <2> QED BY <1>2, <2>1, <2>4 DEF Cut, InChunk
<1>13. CASE DiskFills  BY <1>13 DEF DiskFills
<1>14. CASE UNCHANGED vars
  BY <1>2, <1>5, <1>14 DEF vars, AtHeader, InChunk, Cut, outputVars
<1> QED BY <1>6, <1>7, <1>8, <1>9, <1>10, <1>11, <1>12, <1>13, <1>14 DEF Next, Step

(* Steps that leave the output alone, but for its size.                    *)
LEMMA WhoWrites ==
  ASSUME [Next]_vars
  PROVE  CopyBlock \/ FillBlock \/ SkipBlocks \/ UNCHANGED <<image, end>>
BY DEF Next, Step, Refuse, Open, ReadChunk, ChunkMissing, ReadValue, EndChunk, SkipChecksum,
       IgnoreChunk, Finish, Return, DiskFills, vars, outputVars

LEMMA FreshStays == SparseInv /\ [Next]_vars => Fresh'
<1> SUFFICES ASSUME SparseInv, [Next]_vars, NEW n \in Blocks, n >= end'
             PROVE  image'[n] = Zero
  BY DEF Fresh
<1>1. Input /\ Kinds /\ Room /\ Fresh  BY DEF SparseInv
<1>2. n \in Int /\ end \in Nat /\ todo \in Nat  BY <1>1, Numbers DEF Blocks, Kinds
<1>3. CASE CopyBlock \/ FillBlock
  <2>1. PICK u : Write(u)  BY <1>3 DEF CopyBlock, FillBlock
  <2>2. CASE full  BY <1>1, <2>1, <2>2 DEF Write, outputVars, Fresh
  <2>3. CASE ~full
    <3>1. todo > 0 /\ full' = full  BY <1>3 DEF CopyBlock, FillBlock
    <3>2. /\ end' = end + 1 /\ image' = [image EXCEPT ![end] = u]
          /\ image \in [Blocks -> Nat \cup {Zero}]
      BY <1>1, <2>1, <2>3, <3>1, Written
    <3>3. n > end  BY <1>2, <3>2
    <3>4. image'[n] = image[n]  BY <1>2, <3>2, <3>3
    <3> QED BY <1>1, <1>2, <3>3, <3>4 DEF Fresh
  <2> QED BY <2>2, <2>3
<1>4. CASE SkipBlocks
  <2>1. image' = image /\ end' = end + todo  BY <1>4 DEF SkipBlocks
  <2>2. n >= end  BY <1>2, <2>1
  <2> QED BY <1>1, <2>1, <2>2 DEF Fresh
<1>5. CASE UNCHANGED <<image, end>>  BY <1>1, <1>5 DEF Fresh
<1> QED BY <1>3, <1>4, <1>5, WhoWrites

LEMMA FaithfulStays == SparseInv /\ [Next]_vars => Faithful'
<1> SUFFICES ASSUME SparseInv, [Next]_vars PROVE Faithful'  OBVIOUS
<1> SUFFICES ASSUME Known, ~astray', ~full', NEW n \in 0..(end' - 1), Meaning(n) < length
             PROVE  image'[n] = Meaning(n)
  <2>1. Known' = Known /\ length' = length /\ \A n \in 0..(end' - 1) : Meaning(n)' = Meaning(n)
    BY InputStays, MeaningStays DEF SparseInv
  <2> QED BY <2>1 DEF Faithful
<1>1. Input /\ Kinds /\ Room /\ InStep /\ EndInStep /\ Fresh /\ Faithful  BY DEF SparseInv
<1>2. ~astray /\ ~full
  <2>1. astray \in BOOLEAN /\ full \in BOOLEAN  BY <1>1 DEF Kinds
  <2>2. astray => astray'
    <3>1. CASE ReadChunk  BY <3>1, ChunkRead
    <3>2. CASE astray' = astray  BY <3>2
    <3> QED BY <3>1, <3>2
        DEF Next, Step, Refuse, Open, ChunkMissing, CopyBlock, ReadValue, FillBlock, EndChunk,
            SkipBlocks, SkipChecksum, IgnoreChunk, Finish, Return, DiskFills, vars
  <2>3. full => full'
    BY DEF Next, Step, Refuse, Open, ReadChunk, ChunkMissing, CopyBlock, ReadValue, FillBlock,
           EndChunk, SkipBlocks, SkipChecksum, IgnoreChunk, Finish, Return, DiskFills, vars
  <2> QED BY <2>1, <2>2, <2>3
<1>3. end \in Nat /\ todo \in Nat /\ length \in Nat  BY <1>1, Numbers DEF Kinds
<1>4. ASSUME n < end PROVE image[n] = Meaning(n)
  <2>1. n \in 0..(end - 1)  BY <1>3, <1>4
  <2> QED BY <1>1, <1>2, <2>1 DEF Faithful
<1>5. ASSUME InChunk, n >= end, n < end + todo
      PROVE  /\ Inside
             /\ end = First[done] + chunks[done].size - todo
             /\ Start[done] \in Nat /\ First[done] \in Nat /\ chunks[done].size \in Nat
             /\ Meaning(n) = CASE chunks[done].type = "raw"  -> Start[done] + 1 + n - First[done]
                               [] chunks[done].type = "fill" -> Start[done] + 1
                               [] OTHER                      -> Zero
  <2>1. Inside /\ end = First[done] + chunks[done].size - todo
    BY <1>1, <1>2, <1>5 DEF InStep, EndInStep
  <2>2. /\ done \in 1..Len(chunks) /\ Start[done] \in Nat /\ First[done] \in Nat
        /\ First[done + 1] = First[done] + chunks[done].size /\ chunks[done].size \in Nat
    BY <1>1, <1>5, <2>1, ChunkEnds
  <2>3. todo <= chunks[done].size  BY <2>1 DEF Inside
  <2>4. n \in Nat /\ First[done] <= n /\ n < First[done + 1]
    BY <1>3, <1>5, <2>1, <2>2, <2>3
  <2>5. Meaning(n) = CASE chunks[done].type = "raw"  -> Start[done] + 1 + n - First[done]
                       [] chunks[done].type = "fill" -> Start[done] + 1
                       [] OTHER                      -> Zero
    BY <1>1, <2>2, <2>4, MeaningIs
  <2> QED BY <2>1, <2>2, <2>5
<1>6. ASSUME CopyBlock \/ FillBlock PROVE image'[n] = Meaning(n)
  <2>1. todo > 0 /\ UNCHANGED full /\ InChunk
        /\ ((pc = "raw" /\ Write(pos)) \/ (pc = "filling" /\ Write(value)))
    BY <1>6 DEF CopyBlock, FillBlock, InChunk
  <2>2. PICK u : Write(u) /\ ((pc = "raw" /\ u = pos) \/ (pc = "filling" /\ u = value))  BY <2>1
  <2>3. /\ end \in Blocks /\ end' = end + 1 /\ image' = [image EXCEPT ![end] = u]
        /\ image \in [Blocks -> Nat \cup {Zero}]
    BY <1>1, <2>1, <2>2, Written
  <2>4. CASE n # end
    <3>1. n < end  BY <1>3, <2>3, <2>4
    <3>2. image'[n] = image[n]  BY <2>3, <2>4
    <3> QED BY <1>4, <3>1, <3>2
  <2>5. CASE n = end
    <3>1. image'[n] = u  BY <2>3, <2>5
    <3>2. n >= end /\ n < end + todo  BY <1>3, <2>1, <2>5
    <3>3. CASE pc = "raw"
      <4>1. /\ chunks[done].type = "raw" /\ pos = Start[done] + 1 + chunks[done].size - todo
        BY <1>5, <2>1, <3>2, <3>3 DEF Inside
      <4>2. /\ Meaning(n) = Start[done] + 1 + n - First[done]
            /\ end = First[done] + chunks[done].size - todo
            /\ Start[done] \in Nat /\ First[done] \in Nat /\ chunks[done].size \in Nat
        BY <1>5, <2>1, <3>2, <4>1
      <4>3. Meaning(n) = pos  BY <1>3, <2>5, <4>1, <4>2
      <4> QED BY <2>2, <3>1, <3>3, <4>3
    <3>4. CASE pc = "filling"
      <4>1. chunks[done].type = "fill" /\ (Start[done] + 1 < length => value = Start[done] + 1)
        BY <1>5, <2>1, <3>2, <3>4 DEF Inside
      <4>2. Meaning(n) = Start[done] + 1  BY <1>5, <2>1, <3>2, <4>1
      <4> QED BY <2>2, <3>1, <3>4, <4>1, <4>2
    <3> QED BY <2>1, <3>3, <3>4
  <2> QED BY <2>4, <2>5
<1>7. CASE SkipBlocks
  <2>1. image' = image /\ end' = end + todo /\ pc = "dont_care" /\ InChunk
    BY <1>7 DEF SkipBlocks, InChunk
  <2>2. CASE n < end  BY <1>4, <2>1, <2>2
  <2>3. CASE n >= end
    <3>1. n < end + todo  BY <1>3, <2>1
    <3>2. chunks[done].type = "dont_care"  BY <1>5, <2>1, <2>3, <3>1 DEF Inside
    <3>3. Meaning(n) = Zero  BY <1>5, <2>1, <2>3, <3>1, <3>2
    <3>4. n \in Blocks
      <4>1. PICK cap \in Nat, used \in Nat : cap = MaxChunks * MaxSize /\ used = done * MaxSize
        BY <1>1, Numbers
      <4>2. end + todo <= used /\ used <= cap  BY <1>1, <4>1, Numbers DEF Room
      <4>3. n \in 0..(cap - 1)  BY <1>3, <3>1, <4>1, <4>2
      <4> QED BY <4>1, <4>3 DEF Blocks
    <3> QED BY <1>1, <2>1, <2>3, <3>3, <3>4 DEF Fresh
  <2> QED BY <1>3, <2>2, <2>3
<1>8. CASE UNCHANGED <<image, end>>
  <2>1. n < end  BY <1>3, <1>8
  <2> QED BY <1>4, <1>8, <2>1
<1> QED BY <1>6, <1>7, <1>8, WhoWrites

(* Where the whole input is there, no chunk is cut.                        *)
LEMMA NoCut ==
  ASSUME Input, Kinds, Intact
  PROVE  /\ Start[done + 1] <= length /\ First[done + 1] <= total
         /\ First[done + 1] \in Nat /\ Start[done + 1] \in Nat
         /\ length \in Nat /\ total \in Nat /\ Known
<1>1. Layout /\ Len(chunks) \in Nat /\ done \in Nat /\ done <= Len(chunks)
  BY LayoutIs, Numbers
<1>2. done + 1 \in 1..(Len(chunks) + 1) /\ Len(chunks) + 1 \in 1..(Len(chunks) + 1)
      /\ done + 1 <= Len(chunks) + 1  BY <1>1
<1>3. Start[done + 1] <= Whole /\ First[done + 1] <= Sum  BY <1>2, Rise DEF Whole, Sum
<1>4. Whole \in Nat /\ Sum \in Nat /\ First[done + 1] \in Nat /\ Start[done + 1] \in Nat
  BY <1>1, <1>2 DEF Layout, Whole, Sum
<1> QED BY <1>3, <1>4 DEF Intact, Known

LEMMA SizedStays == SparseInv /\ [Next]_vars => Sized'
<1> SUFFICES ASSUME SparseInv, [Next]_vars PROVE Sized'  OBVIOUS
<1> SUFFICES ASSUME Intact
             PROVE  /\ ~astray'
                    /\ ~full' /\ pc' # "open" =>
                         IF result' = "false" THEN size' = 0 ELSE size' = total
  <2>1. Intact' = Intact /\ total' = total  BY InputStays DEF SparseInv
  <2> QED BY <2>1 DEF Sized
<1>1. Input /\ Kinds /\ Room /\ Results /\ InStep /\ EndInStep /\ Sized  BY DEF SparseInv
<1>2. ~astray /\ (~full /\ pc # "open" => IF result = "false" THEN size = 0 ELSE size = total)
  BY <1>1 DEF Sized
<1>3. /\ Start[done + 1] <= length /\ First[done + 1] <= total
      /\ First[done + 1] \in Nat /\ Start[done + 1] \in Nat
      /\ length \in Nat /\ total \in Nat /\ Known
  BY <1>1, NoCut
<1>4. ~Cut  BY <1>3 DEF Cut
<1>5. (AtHeader => pos = Start[done + 1]) /\ (InChunk => Inside)
  BY <1>1, <1>2, <1>3, <1>4 DEF InStep
<1>6. CASE Refuse  BY <1>1, <1>2, <1>6 DEF Refuse, Return, Results, outputVars
<1>7. CASE Open  BY <1>1, <1>2, <1>7 DEF Open, Results
<1>8. CASE ReadChunk
  <2>1. pos = Start[done + 1] /\ pc = "chunk"  BY <1>5, <1>8 DEF ReadChunk, AtHeader
  <2>2. ~astray'  BY <1>2, <1>8, <2>1 DEF ReadChunk
  <2>3. UNCHANGED <<size, result, full>>  BY <1>8 DEF ReadChunk, outputVars
  <2> QED BY <1>2, <2>1, <2>2, <2>3
<1>9. CASE ChunkMissing
  <2>1. pc = "chunk" /\ pos >= length /\ done < Len(chunks)  BY <1>9 DEF ChunkMissing
  <2>2. pos = Start[done + 1]  BY <1>5, <2>1 DEF AtHeader
  <2>3. done + 1 \in 1..Len(chunks) /\ Len(chunks) \in Nat
        /\ (done + 1) + 1 \in 1..(Len(chunks) + 1) /\ (done + 1) + 1 <= Len(chunks) + 1
        /\ Len(chunks) + 1 \in 1..(Len(chunks) + 1)
    BY <1>1, <2>1, Numbers
  <2>4. Start[(done + 1) + 1] <= Whole  BY <1>1, <2>3, Rise DEF Whole
  <2>5. Start[(done + 1) + 1] = Start[done + 1] + 1 + chunks[done + 1].units
        /\ chunks[done + 1].units \in Nat
    BY <1>1, <2>3, LayoutIs, ChunkIs DEF Layout
  <2>6. Whole = length  BY DEF Intact
  <2> QED BY <1>3, <2>1, <2>2, <2>4, <2>5, <2>6
<1>10. CASE Finish  BY <1>1, <1>2, <1>10 DEF Finish, Return, Results, outputVars
<1>11. CASE CopyBlock \/ FillBlock
  <2>1. /\ InChunk /\ todo > 0 /\ \E u : Write(u)
        /\ pc # "open" /\ pc # "closed" /\ UNCHANGED <<pc, result, full, astray>>
    BY <1>11 DEF CopyBlock, FillBlock, InChunk
  <2>2. ASSUME ~full' PROVE size' = total
    <3>1. result = "none" /\ size = total  BY <1>1, <1>2, <2>1, <2>2 DEF Results
    <3>2. end = First[done] + chunks[done].size - todo /\ Inside
      BY <1>1, <1>2, <1>3, <1>5, <2>1, <2>2 DEF EndInStep
    <3>3. First[done + 1] = First[done] + chunks[done].size
          /\ First[done] \in Nat /\ chunks[done].size \in Nat
      BY <1>1, <2>1, <3>2, ChunkEnds
    <3>4. todo \in Nat /\ end + 1 <= total
      <4>1. todo \in Nat  BY <1>1, Numbers
      <4> QED BY <1>3, <2>1, <3>2, <3>3, <4>1
    <3>5. size' = IF end + 1 > size THEN end + 1 ELSE size  BY <1>1, <2>1, <2>2, Written
    <3>6. end \in Nat  BY <1>1 DEF Kinds
    <3> QED BY <1>3, <3>1, <3>4, <3>5, <3>6
  <2>3. result' # "false"  BY <1>1, <2>1 DEF Results
  <2> QED BY <1>2, <2>1, <2>2, <2>3
<1>12. CASE ReadValue  BY <1>2, <1>12 DEF ReadValue, outputVars
<1>13. CASE EndChunk \/ SkipBlocks \/ SkipChecksum \/ IgnoreChunk
  BY <1>2, <1>13 DEF EndChunk, SkipBlocks, SkipChecksum, IgnoreChunk, outputVars
<1>14. CASE DiskFills  BY <1>2, <1>14 DEF DiskFills
<1>15. CASE UNCHANGED vars  BY <1>2, <1>15 DEF vars, outputVars
<1> QED BY <1>6, <1>7, <1>8, <1>9, <1>10, <1>11, <1>12, <1>13, <1>14, <1>15 DEF Next, Step

-----------------------------------------------------------------------------
(* The theorems.                                                           *)

LEMMA Stays == SparseInv /\ [Next]_vars => SparseInv'
<1> SUFFICES ASSUME SparseInv, [Next]_vars PROVE SparseInv'  OBVIOUS
<1>1. Input'  BY InputStays DEF SparseInv
<1> QED BY <1>1, KindsRoomStay, ResultsStay, HeadersStay, InStepStays, EndInStepStays,
           FreshStays, FaithfulStays, SizedStays DEF SparseInv

LEMMA InPlace == SparseInv => BlocksInPlace
<1> SUFFICES ASSUME SparseInv PROVE BlocksInPlace  OBVIOUS
<1>1. Input /\ Kinds /\ Room /\ Faithful  BY DEF SparseInv
<1>2. end \in 0..(MaxChunks * MaxSize)
  <2>1. PICK cap \in Nat, used \in Nat : cap = MaxChunks * MaxSize /\ used = done * MaxSize
    BY <1>1, Numbers
  <2>2. end + todo <= used /\ used <= cap /\ todo \in Nat /\ end \in Nat
    BY <1>1, <2>1, Numbers DEF Room, Kinds
  <2> QED BY <2>1, <2>2
<1>3. TypeOK  BY <1>1, <1>2 DEF TypeOK, Kinds
<1> QED BY <1>1, <1>3 DEF BlocksInPlace, Faithful, Known

LEMMA WholeOne == SparseInv => SuccessIsWhole
<1> SUFFICES ASSUME SparseInv PROVE SuccessIsWhole  OBVIOUS
<1>1. /\ Input /\ Kinds /\ Results /\ HeadersRead /\ InStep /\ EndInStep /\ Faithful /\ Sized
  BY DEF SparseInv
<1>2. ASSUME result = "true", ~astray, NEW k \in 1..Len(chunks) PROVE Start[k] < length
  <2>1. done = Len(chunks)  BY <1>1, <1>2 DEF Results
  <2> QED BY <1>1, <1>2, <2>1 DEF HeadersRead
<1>3. ASSUME pc = "closed", Intact, ~full, size > 0
      PROVE  /\ result = "true" /\ size = total
             /\ \A n \in 0..(total - 1) : image[n] = Meaning(n)
  <2>1. ~astray /\ (IF result = "false" THEN size = 0 ELSE size = total)
    BY <1>1, <1>3 DEF Sized
  <2>2. result = "true" /\ size = total /\ done = Len(chunks)
    <3>1. result \in {"true", "false"}  BY <1>1, <1>3 DEF Results, Kinds
    <3>2. result # "false"  BY <1>3, <2>1
    <3> QED BY <1>1, <2>1, <3>1, <3>2 DEF Results
  <2>3. /\ Start[done + 1] <= length /\ First[done + 1] \in Nat /\ Start[done + 1] \in Nat
        /\ length \in Nat /\ total \in Nat /\ Known
    BY <1>1, <1>3, NoCut
  <2>4. end = total
    <3>1. ~Cut  BY <2>3 DEF Cut
    <3>2. end = First[done + 1]  BY <1>1, <1>3, <2>1, <2>2, <2>3, <3>1 DEF EndInStep, AtHeader
    <3>3. total = First[Len(chunks) + 1]  BY <1>3 DEF Intact, Sum
    <3> QED BY <2>2, <3>2, <3>3
  <2>5. ASSUME NEW n \in 0..(total - 1) PROVE image[n] = Meaning(n)
    <3>1. n \in Nat /\ n < Sum /\ n \in 0..(end - 1)  BY <1>3, <2>3, <2>4 DEF Intact
    <3>2. PICK k \in 1..Len(chunks) : First[k] <= n /\ n < First[k + 1]
      BY <1>1, <3>1, Located
    <3>3. Meaning(n) = CASE chunks[k].type = "raw"  -> Start[k] + 1 + n - First[k]
                         [] chunks[k].type = "fill" -> Start[k] + 1
                         [] OTHER                   -> Zero
      BY <1>1, <3>1, <3>2, MeaningIs
    <3>4. /\ Layout /\ Len(chunks) \in Nat /\ chunks[k] \in Chunks
          /\ k + 1 \in 1..(Len(chunks) + 1) /\ Len(chunks) + 1 \in 1..(Len(chunks) + 1)
          /\ k + 1 <= Len(chunks) + 1 /\ k \in 1..(Len(chunks) + 1)
      BY <1>1, LayoutIs DEF Layout
    <3>5. /\ Start[k + 1] = Start[k] + 1 + chunks[k].units
          /\ First[k + 1] = First[k] + chunks[k].size
          /\ Start[k] \in Nat /\ First[k] \in Nat /\ Start[k + 1] <= Whole /\ Whole = length
          /\ chunks[k].units \in Nat /\ chunks[k].size \in Nat
      <4>1. Start[k + 1] <= Whole  BY <1>1, <3>4, Rise DEF Whole
      <4>2. chunks[k].units \in Nat /\ chunks[k].size \in Nat
        BY <3>4, ChunkIs, SparseImageAssumption
      <4> QED BY <1>3, <3>4, <4>1, <4>2 DEF Layout, Intact
    <3>6. Meaning(n) < length
      <4>1. CASE chunks[k].type = "raw"
        <5>1. chunks[k].units = chunks[k].size  BY <3>4, <4>1, ChunkIs
        <5>2. Meaning(n) = Start[k] + 1 + n - First[k]  BY <3>3, <4>1
        <5> QED BY <2>3, <3>1, <3>2, <3>5, <5>1, <5>2
      <4>2. CASE chunks[k].type = "fill"
        <5>1. chunks[k].units = 1  BY <3>4, <4>2, ChunkIs
        <5>2. Meaning(n) = Start[k] + 1  BY <3>3, <4>2
        <5> QED BY <2>3, <3>5, <5>1, <5>2
      <4>3. CASE chunks[k].type \notin {"raw", "fill"}
        <5>1. Meaning(n) = Zero  BY <3>3, <4>3
        <5> QED BY <2>3, <5>1 DEF Zero
      <4> QED BY <4>1, <4>2, <4>3
    <3> QED BY <1>1, <1>3, <2>1, <2>3, <3>1, <3>6 DEF Faithful
  <2> QED BY <2>2, <2>5
<1> QED BY <1>2, <1>3 DEF SuccessIsWhole

(* Whatever the input, a block that unsparse has passed is the one the     *)
(* format means, unless a write failed or a chunk of unknown type led the  *)
(* reading astray; and both positions stay within their files.             *)
THEOREM PlaceCorrect == Spec => []BlocksInPlace
<1> USE Initially, Stays, InPlace
<1> QED BY PTL DEF Spec

(* An intact input becomes the whole image it stands for, and if unsparse  *)
(* returns true for another one, every chunk's header was there.           *)
THEOREM WholeCorrect == Spec => []SuccessIsWhole
<1> USE Initially, Stays, WholeOne
<1> QED BY PTL DEF Spec
=============================================================================
