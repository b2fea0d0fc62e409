-------------------------- MODULE VfsRouterProofs --------------------------
(* Theorems about VfsRouter, for any threads, paths, files and root        *)
(* directory.                                                              *)
EXTENDS VfsRouter, Integers, SequenceTheorems, WellFoundedInduction, TLAPS

-----------------------------------------------------------------------------
(* Induction and recursion on numbers.                                     *)

(* A set of natural numbers has a least one.                               *)
LEMMA Least ==
  ASSUME NEW T, T \subseteq Nat, T # {}
  PROVE  \E n \in T : \A m \in T : n <= m
<1> DEFINE R == {ss \in Nat \X Nat : ss[1] < ss[2]}
<1>1. R = OpToRel(<, Nat)  BY Zenon DEF OpToRel
<1>2. IsWellFoundedOn(R, Nat)  BY <1>1, NatLessThanWellFounded, Zenon
<1>3. \E n \in T : \A m \in T : ~(<<m, n>> \in R)
  <2> HIDE DEF R
  <2> QED BY <1>2, WFMin
<1>4. PICK n \in T : \A m \in T : ~(<<m, n>> \in R)  BY <1>3
<1>5. ASSUME NEW m \in T PROVE n <= m
  <2>1. <<m, n>> \notin R BY <1>4
  <2> QED BY <2>1
<1> QED BY <1>5

(* A function that is defined from its value one place before exists.      *)
Stepwise(S, a, size, h) ==
  {g \in [0..size -> S] : g[0] = a /\ \A k \in 1..size : g[k] = h[<<k, g[k - 1]>>]}

LEMMA Recursion ==
  ASSUME NEW S, NEW a \in S, NEW size \in Nat,
         NEW h \in [(1..size) \X S -> S]
  PROVE  Stepwise(S, a, size, h) # {}
<1> DEFINE Good(n, g) == g[0] = a /\ \A k \in 1..n : g[k] = h[<<k, g[k - 1]>>]
           T == {n \in 0..size : ~\E g \in [0..n -> S] : Good(n, g)}
<1>1. SUFFICES ASSUME T # {} PROVE FALSE
  BY DEF Stepwise
<1>2. PICK n \in T : \A m \in T : n <= m
  <2> HIDE DEF Good
  <2>1. T \subseteq Nat  OBVIOUS
  <2> HIDE DEF T
  <2> QED BY <1>1, <2>1, Least
<1>3. n # 0
  <2>1. [i \in 0..0 |-> a] \in [0..0 -> S] /\ Good(0, [i \in 0..0 |-> a])  OBVIOUS
  <2> QED BY <2>1
<1>4. n \in 1..size  BY <1>3
<1>5. PICK g \in [0..(n - 1) -> S] : Good(n - 1, g)
  <2>1. n - 1 \in 0..size /\ ~(n <= n - 1)  BY <1>4
  <2>2. n - 1 \notin T  BY <1>2, <2>1
  <2> QED BY <2>1, <2>2
<1> DEFINE f == [i \in 0..n |-> IF i = n THEN h[<<n, g[n - 1]>>] ELSE g[i]]
<1>6. f \in [0..n -> S]
  <2>1. n - 1 \in 0..(n - 1)  BY <1>4
  <2>2. g[n - 1] \in S  BY <2>1
  <2>3. h[<<n, g[n - 1]>>] \in S  BY <2>2, <1>4
  <2>4. \A i \in 0..n : i # n => i \in 0..(n - 1)  BY <1>4
  <2> QED BY <2>3, <2>4
<1>7. f[0] = a
  BY <1>4, <1>5
<1>8. ASSUME NEW k \in 1..n PROVE f[k] = h[<<k, f[k - 1]>>]
  <2>1. k - 1 \in 0..n /\ k - 1 # n /\ f[k - 1] = g[k - 1]  BY <1>4
  <2>2. CASE k = n  BY <2>1, <2>2
  <2>3. CASE k # n
    <3>1. k \in 1..(n - 1) /\ f[k] = g[k]  BY <1>4, <2>3
    <3> QED BY <2>1, <3>1, <1>5
  <2> QED BY <2>2, <2>3
<1>9. Good(n, f)  BY <1>7, <1>8
<1> HIDE DEF f
<1> QED BY <1>6, <1>9, <1>2

-----------------------------------------------------------------------------
(* Paths.                                                                  *)

(* A loop over the names of a path that drops some of them.                *)
Loop(path, drop, f) ==
  [n \in 0..Len(path) |->
     IF n = 0 THEN <<>> ELSE IF n \in drop THEN f[n - 1] ELSE Append(f[n - 1], path[n])]

(* What it has kept of the first n names is a path, each time.             *)
LEMMA LoopKeeps ==
  ASSUME NEW path \in Seq(STRING), NEW drop, NEW f, f = Loop(path, drop, f)
  PROVE  /\ f \in [0..Len(path) -> Seq(STRING)] /\ f[0] = <<>>
         /\ \A n \in 1..Len(path) :
              f[n] = IF n \in drop THEN f[n - 1] ELSE Append(f[n - 1], path[n])
<1> DEFINE size == Len(path)
           S == Seq(STRING)
<1>1. size \in Nat /\ <<>> \in S  OBVIOUS
<1>2. DOMAIN f = 0..size  BY Zenon DEF Loop
<1>3. \A n \in 0..size :
        f[n] = IF n = 0 THEN <<>> ELSE IF n \in drop THEN f[n - 1] ELSE Append(f[n - 1], path[n])
  BY Zenon DEF Loop
<1>4. 0 \in 0..size /\ \A n \in 1..size : n \in 0..size /\ n # 0  OBVIOUS
<1>5. /\ f[0] = <<>>
      /\ \A n \in 1..size : f[n] = IF n \in drop THEN f[n - 1] ELSE Append(f[n - 1], path[n])
  <2> HIDE DEF size
  <2> QED BY <1>3, <1>4
<1>6. \A n \in 0..size : f[n] \in S
  <2> DEFINE T == {n \in 0..size : f[n] \notin S}
  <2>1. SUFFICES ASSUME T # {} PROVE FALSE
    OBVIOUS
  <2>2. T \subseteq Nat  OBVIOUS
  <2>3. PICK n \in T : \A m \in T : n <= m
    <3> HIDE DEF T
    <3> QED BY <2>1, <2>2, Least
  <2>4. n \in 1..size
    <3>1. n \in 0..size /\ n # 0  BY <1>1, <1>5
    <3> QED BY <3>1
  <2>5. n - 1 \in 0..size /\ ~(n <= n - 1)  BY <2>4
  <2>6. f[n - 1] \in S  BY <2>3, <2>5
  <2>7. path[n] \in STRING  BY <2>4
  <2>8. Append(f[n - 1], path[n]) \in S  BY <2>6, <2>7
  <2>9. f[n] \in S
    <3> HIDE DEF S, size
    <3> QED BY <2>4, <2>6, <2>8, <1>5
  <2> QED BY <2>9
<1>7. f = [n \in 0..size |-> f[n]]  BY <1>2, Zenon DEF Loop
<1>8. f \in [0..size -> S]
  <2> HIDE DEF S, size
  <2> QED BY <1>6, <1>7
<1> QED BY <1>5, <1>8

(* The function that such a loop defines exists.                           *)
LEMMA LoopExists ==
  ASSUME NEW path \in Seq(STRING), NEW drop
  PROVE  \E f : f = Loop(path, drop, f)
<1> DEFINE size == Len(path)
           S == Seq(STRING)
           h == [p \in (1..size) \X S |-> IF p[1] \in drop THEN p[2] ELSE Append(p[2], path[p[1]])]
<1>1. size \in Nat /\ <<>> \in S  OBVIOUS
<1>2. ASSUME NEW k \in 1..size, NEW s \in S
      PROVE  /\ h[<<k, s>>] = IF k \in drop THEN s ELSE Append(s, path[k])
             /\ h[<<k, s>>] \in S
  <2>1. path[k] \in STRING  OBVIOUS
  <2>2. Append(s, path[k]) \in S  BY <2>1
  <2>3. <<k, s>> \in (1..size) \X S  OBVIOUS
  <2>4. h[<<k, s>>] = IF k \in drop THEN s ELSE Append(s, path[k])  BY <2>3
  <2> QED BY <2>2, <2>4
<1>3. h \in [(1..size) \X S -> S]
  <2>1. \A p \in (1..size) \X S : p = <<p[1], p[2]>> /\ p[1] \in 1..size /\ p[2] \in S  OBVIOUS
  <2>2. \A p \in (1..size) \X S : h[p] \in S  BY <2>1, <1>2
  <2>3. h = [p \in (1..size) \X S |-> h[p]]  OBVIOUS
  <2> HIDE DEF h
  <2> QED BY <2>2, <2>3
<1>4. PICK g \in [0..size -> S] : g[0] = <<>> /\ \A k \in 1..size : g[k] = h[<<k, g[k - 1]>>]
  <2>1. Stepwise(S, <<>>, size, h) # {}
    <3> HIDE DEF size, S, h
    <3> QED BY <1>1, <1>3, Recursion
  <2> HIDE DEF h
  <2> QED BY <2>1 DEF Stepwise
<1>5. ASSUME NEW k \in 1..size
      PROVE  g[k] = IF k \in drop THEN g[k - 1] ELSE Append(g[k - 1], path[k])
  <2>1. g[k - 1] \in S  OBVIOUS
  <2> HIDE DEF h, S
  <2> QED BY <1>2, <1>4, <2>1
<1>6. g = Loop(path, drop, g)
  <2>1. \A n \in 0..size : n = 0 \/ n \in 1..size  OBVIOUS
  <2> QED BY <1>4, <1>5, <2>1 DEF Loop
<1> QED BY <1>6

(* The loop of cleanPath, and that of PathRouter's Meant.                  *)
Kept(path) ==
  CHOOSE f : f = [n \in 0..Len(path) |->
    IF n = 0 THEN <<>>
    ELSE IF n > 1 /\ n < Len(path) /\ path[n] = "" THEN f[n - 1]
    ELSE Append(f[n - 1], path[n])]

Names(path) ==
  CHOOSE f : f = [n \in 0..Len(path) |->
    IF n = 0 THEN <<>>
    ELSE IF n > 1 /\ path[n] = "" THEN f[n - 1]
    ELSE Append(f[n - 1], path[n])]

LEMMA KeptIs ==
  ASSUME NEW path \in Seq(STRING)
  PROVE  /\ Kept(path) \in [0..Len(path) -> Seq(STRING)]
         /\ Kept(path)[0] = <<>>
         /\ \A n \in 1..Len(path) :
              Kept(path)[n] = IF n > 1 /\ n < Len(path) /\ path[n] = "" THEN Kept(path)[n - 1]
                              ELSE Append(Kept(path)[n - 1], path[n])
<1> DEFINE drop == {n \in 0..Len(path) : n > 1 /\ n < Len(path) /\ path[n] = ""}
           D(f) == [n \in 0..Len(path) |->
                      IF n = 0 THEN <<>>
                      ELSE IF n > 1 /\ n < Len(path) /\ path[n] = "" THEN f[n - 1]
                      ELSE Append(f[n - 1], path[n])]
<1>1. \A n \in 0..Len(path) : (n \in drop) <=> (n > 1 /\ n < Len(path) /\ path[n] = "")  BY Zenon
<1>2. ASSUME NEW f PROVE D(f) = Loop(path, drop, f)
  <2> HIDE DEF drop
  <2> QED BY <1>1 DEF Loop
<1> HIDE DEF drop
<1>3. \E f : f = D(f)
  <2> HIDE DEF D
  <2> QED BY <1>2, LoopExists
<1>4. Kept(path) = D(Kept(path))  BY <1>3 DEF Kept
<1>5. Kept(path) = Loop(path, drop, Kept(path))
  <2> HIDE DEF D
  <2> QED BY <1>2, <1>4
<1> HIDE DEF D
<1>6. ASSUME NEW f, f = Loop(path, drop, f)
      PROVE  /\ f \in [0..Len(path) -> Seq(STRING)] /\ f[0] = <<>>
             /\ \A n \in 1..Len(path) :
                  f[n] = IF n \in drop THEN f[n - 1] ELSE Append(f[n - 1], path[n])
  BY <1>6, LoopKeeps
<1>7. \A n \in 1..Len(path) : n \in 0..Len(path)  OBVIOUS
<1> QED BY <1>1, <1>5, <1>6, <1>7, Zenon

LEMMA NamesIs ==
  ASSUME NEW path \in Seq(STRING)
  PROVE  /\ Names(path) \in [0..Len(path) -> Seq(STRING)]
         /\ Names(path)[0] = <<>>
         /\ \A n \in 1..Len(path) :
              Names(path)[n] = IF n > 1 /\ path[n] = "" THEN Names(path)[n - 1]
                               ELSE Append(Names(path)[n - 1], path[n])
<1> DEFINE drop == {n \in 0..Len(path) : n > 1 /\ path[n] = ""}
           D(f) == [n \in 0..Len(path) |->
                      IF n = 0 THEN <<>>
                      ELSE IF n > 1 /\ path[n] = "" THEN f[n - 1]
                      ELSE Append(f[n - 1], path[n])]
<1>1. \A n \in 0..Len(path) : (n \in drop) <=> (n > 1 /\ path[n] = "")  BY Zenon
<1>2. ASSUME NEW f PROVE D(f) = Loop(path, drop, f)
  <2> HIDE DEF drop
  <2> QED BY <1>1 DEF Loop
<1> HIDE DEF drop
<1>3. \E f : f = D(f)
  <2> HIDE DEF D
  <2> QED BY <1>2, LoopExists
<1>4. Names(path) = D(Names(path))  BY <1>3 DEF Names
<1>5. Names(path) = Loop(path, drop, Names(path))
  <2> HIDE DEF D
  <2> QED BY <1>2, <1>4
<1> HIDE DEF D
<1>6. ASSUME NEW f, f = Loop(path, drop, f)
      PROVE  /\ f \in [0..Len(path) -> Seq(STRING)] /\ f[0] = <<>>
             /\ \A n \in 1..Len(path) :
                  f[n] = IF n \in drop THEN f[n - 1] ELSE Append(f[n - 1], path[n])
  BY <1>6, LoopKeeps
<1>7. \A n \in 1..Len(path) : n \in 0..Len(path)  OBVIOUS
<1> QED BY <1>1, <1>5, <1>6, <1>7, Zenon

LEMMA CleanIs ==
  ASSUME NEW path \in Seq(STRING)
  PROVE  LET kept == Kept(path)[Len(path)]
         IN  cleanPath(path) = IF Len(kept) > 1 /\ Last(kept) = "" /\ kept # <<"", "">>
                               THEN Front(kept) ELSE kept
BY DEF cleanPath, Kept

LEMMA MeantIs ==
  ASSUME NEW path \in Seq(STRING)
  PROVE  LET names == Names(path)[Len(path)]
         IN  Promise!Meant(path) = IF Len(path) > 1 /\ names = <<"">> THEN <<"", "">> ELSE names
BY DEF Promise!Meant, Names

(* Up to the last name the two loops agree.                                *)
LEMMA LoopsAgree ==
  ASSUME NEW path \in Seq(STRING)
  PROVE  /\ \A n \in 0..(Len(path) - 1) : Kept(path)[n] = Names(path)[n]
         /\ \A n \in 1..Len(path) : Len(Names(path)[n]) > 0
<1> DEFINE K == Kept(path)
           N == Names(path)
           L == Len(path)
<1>1. /\ L \in Nat
      /\ K \in [0..L -> Seq(STRING)] /\ K[0] = <<>> /\ N \in [0..L -> Seq(STRING)] /\ N[0] = <<>>
  <2>1. L \in Nat  OBVIOUS
  <2> QED BY <2>1, KeptIs, NamesIs, Zenon
<1>2. \A n \in 1..L :
        K[n] = IF n > 1 /\ n < L /\ path[n] = "" THEN K[n - 1] ELSE Append(K[n - 1], path[n])
  BY KeptIs
<1>3. \A n \in 1..L : N[n] = IF n > 1 /\ path[n] = "" THEN N[n - 1] ELSE Append(N[n - 1], path[n])
  BY NamesIs
<1>4. \A n \in 1..L : path[n] \in STRING  OBVIOUS
<1> HIDE DEF K, N, L
<1>5. \A n \in 0..(L - 1) : K[n] = N[n]
  <2> DEFINE T == {n \in 0..(L - 1) : K[n] # N[n]}
  <2>1. SUFFICES ASSUME T # {} PROVE FALSE  OBVIOUS
  <2>2. T \subseteq Nat  OBVIOUS
  <2>3. PICK n \in T : \A m \in T : n <= m
    <3> HIDE DEF T
    <3> QED BY <2>1, <2>2, Least
  <2>4. n # 0  BY <1>1
  <2>5. n \in 1..L /\ n < L /\ n - 1 \in 0..(L - 1) /\ ~(n <= n - 1)  BY <1>1, <2>4
  <2>6. K[n - 1] = N[n - 1]  BY <2>3, <2>5
  <2> QED BY <1>2, <1>3, <2>5, <2>6
<1>6. \A n \in 1..L : Len(N[n]) > 0
  <2> DEFINE T == {n \in 1..L : ~(Len(N[n]) > 0)}
  <2>1. SUFFICES ASSUME T # {} PROVE FALSE  OBVIOUS
  <2>2. T \subseteq Nat  OBVIOUS
  <2>3. PICK n \in T : \A m \in T : n <= m
    <3> HIDE DEF T
    <3> QED BY <2>1, <2>2, Least
  <2>4. n \in 1..L  OBVIOUS
  <2>5. N[n - 1] \in Seq(STRING)  BY <1>1, <2>4
  <2>6. Len(Append(N[n - 1], path[n])) > 0  BY <2>5, <2>4, <1>4
  <2>7. N[n] = N[n - 1] /\ n > 1  BY <1>3, <2>3, <2>4, <2>6
  <2>8. n - 1 \in 1..L /\ ~(n <= n - 1)  BY <2>4, <2>7, <1>1
  <2>9. Len(N[n - 1]) > 0  BY <2>3, <2>8
  <2> QED BY <2>7, <2>9
<1> QED BY <1>5, <1>6 DEF K, N, L

(* What follows holds of the sequences over any set, with any name none.   *)
LEMMA Appended ==
  ASSUME NEW S, NEW s \in Seq(S), NEW e \in S
  PROVE  /\ Append(s, e) \in Seq(S) /\ Len(Append(s, e)) = Len(s) + 1
         /\ Last(Append(s, e)) = e /\ Front(Append(s, e)) = s /\ Len(s) \in Nat
<1>1. /\ Append(s, e) \in Seq(S) /\ Len(Append(s, e)) = Len(s) + 1
      /\ Append(s, e)[Len(s) + 1] = e /\ Len(s) \in Nat
      /\ \A i \in 1..Len(s) : Append(s, e)[i] = s[i]
  BY AppendProperties
<1>2. Front(Append(s, e)) = s
  BY <1>1, SubSeqProperties, SeqEqual DEF Front
<1> QED BY <1>1, <1>2 DEF Last

(* The root directory, without and with its slash.                         *)
LEMMA Root ==
  ASSUME NEW S, NEW none \in S
  PROVE  /\ <<none>> \in Seq(S) /\ Len(<<none>>) = 1 /\ Append(<<none>>, none) = <<none, none>>
         /\ Front(<<none, none>>) = <<none>>
<1>1. <<none>> \in Seq(S)  OBVIOUS
<1>2. Len(<<none>>) = 1  OBVIOUS
<1>3. Append(<<none>>, none) = <<none, none>>
  <2>1. <<none, none>> = <<none>> \o <<none>>  OBVIOUS
  <2> QED BY <1>1, <2>1, AppendIsConcat
<1>4. Front(Append(<<none>>, none)) = <<none>>  BY <1>1, Appended
<1> QED BY <1>1, <1>2, <1>3, <1>4

(* The root directory is told from what the last name is put behind.       *)
RootIsTold(S, none, s, e) ==
  /\ Append(s, e) \in Seq(S) /\ Len(Append(s, e)) > 1
  /\ Last(Append(s, e)) = e /\ Front(Append(s, e)) = s
  /\ (Append(s, e) = <<none, none>>) <=> (s = <<none>> /\ e = none)
  /\ Append(s, e) # <<none>>

LEMMA RootTold ==
  ASSUME NEW S, NEW none \in S, NEW s \in Seq(S), Len(s) > 0, NEW e \in S
  PROVE  RootIsTold(S, none, s, e)
<1>1. /\ Append(s, e) \in Seq(S) /\ Len(Append(s, e)) = Len(s) + 1
      /\ Last(Append(s, e)) = e /\ Front(Append(s, e)) = s /\ Len(s) \in Nat
  BY Appended
<1>2. s = <<none>> /\ e = none => Append(s, e) = <<none, none>>  BY Root, Zenon
<1>3. Append(s, e) = <<none, none>> => s = <<none>>  BY <1>1, Root, Zenon
<1>4. Append(s, e) = <<none, none>> => e = none
  <2>1. <<none, none>> = Append(<<none>>, none) /\ <<none>> \in Seq(S)  BY Root, Zenon
  <2>2. Last(Append(<<none>>, none)) = none  BY <2>1, Appended, Zenon
  <2> QED BY <1>1, <2>1, <2>2, Zenon
<1>5. Len(Append(s, e)) > 1  BY <1>1
<1>6. Append(s, e) # <<none>>
  <2>1. SUFFICES ASSUME Append(s, e) = <<none>> PROVE FALSE  OBVIOUS
  <2>2. Len(Append(s, e)) = 1  BY <2>1, Root, Zenon
  <2> QED BY <2>2, <1>5
<1> QED BY <1>1, <1>2, <1>3, <1>4, <1>5, <1>6 DEF RootIsTold

(* cleanPath gives a path, and that is what PathRouter says it means.      *)
LEMMA CleanIsMeant ==
  ASSUME NEW path \in Seq(STRING), path # <<>>
  PROVE  cleanPath(path) \in Seq(STRING) /\ cleanPath(path) = Promise!Meant(path)
<1> DEFINE K == Kept(path)
           N == Names(path)
           L == Len(path)
<1>1. /\ L \in Nat /\ L > 0
      /\ K \in [0..L -> Seq(STRING)] /\ K[0] = <<>> /\ N \in [0..L -> Seq(STRING)] /\ N[0] = <<>>
      /\ \A n \in 1..L : path[n] \in STRING
  <2>1. L \in Nat /\ L > 0  BY EmptySeq
  <2>2. /\ K \in [0..L -> Seq(STRING)] /\ K[0] = <<>> /\ N \in [0..L -> Seq(STRING)] /\ N[0] = <<>>
    BY KeptIs, NamesIs
  <2>3. \A n \in 1..L : path[n] \in STRING  OBVIOUS
  <2> QED BY <2>1, <2>2, <2>3
<1>2. \A n \in 1..L :
        K[n] = IF n > 1 /\ n < L /\ path[n] = "" THEN K[n - 1] ELSE Append(K[n - 1], path[n])
  BY KeptIs
<1>3. \A n \in 1..L : N[n] = IF n > 1 /\ path[n] = "" THEN N[n - 1] ELSE Append(N[n - 1], path[n])
  BY NamesIs
<1>4. cleanPath(path) = IF Len(K[L]) > 1 /\ Last(K[L]) = "" /\ K[L] # <<"", "">>
                        THEN Front(K[L]) ELSE K[L]
  BY CleanIs
<1>5. Promise!Meant(path) = IF L > 1 /\ N[L] = <<"">> THEN <<"", "">> ELSE N[L]
  BY MeantIs
<1>6. (\A n \in 0..(L - 1) : K[n] = N[n]) /\ \A n \in 1..L : Len(N[n]) > 0
  BY LoopsAgree
<1> HIDE DEF K, N, L
<1>7. K[L] = Append(N[L - 1], path[L]) /\ N[L - 1] \in Seq(STRING) /\ path[L] \in STRING
  <2>1. L \in 1..L /\ L - 1 \in 0..(L - 1) /\ L - 1 \in 0..L /\ ~(L < L)  BY <1>1
  <2>2. K[L] = Append(K[L - 1], path[L])  BY <1>2, <2>1, Zenon
  <2>3. K[L - 1] = N[L - 1]  BY <1>6, <2>1, Zenon
  <2>4. N[L - 1] \in Seq(STRING) /\ path[L] \in STRING  BY <1>1, <2>1, Zenon
  <2> QED BY <2>2, <2>3, <2>4, Zenon
<1>8. CASE L = 1
  <2>1. N[0] = <<>> /\ K[L] = N[L] /\ K[L] = Append(N[0], path[L])
    <3>1. 1 \in 1..L /\ ~(1 > 1) /\ 1 - 1 = 0 /\ L - 1 = 0  BY <1>8
    <3>2. N[L] = Append(N[0], path[L])  BY <1>3, <3>1, <1>8, Zenon
    <3> QED BY <1>1, <3>1, <3>2, <1>7, Zenon
  <2>2. K[L] \in Seq(STRING) /\ Len(K[L]) = 1
    <3>1. N[0] \in Seq(STRING) /\ Len(N[0]) = 0  BY <1>1
    <3> QED BY <2>1, <3>1, <1>7, Appended
  <2> QED BY <1>4, <1>5, <1>8, <2>1, <2>2
<1>9. CASE L > 1
  <2>1. Len(N[L - 1]) > 0  BY <1>1, <1>6, <1>9
  <2>2. L \in 1..L  BY <1>1
  <2>3. N[L] = IF path[L] = "" THEN N[L - 1] ELSE Append(N[L - 1], path[L])  BY <1>3, <1>9, <2>2
  <2>4. /\ K[L] \in Seq(STRING) /\ Len(K[L]) > 1
        /\ Last(K[L]) = path[L] /\ Front(K[L]) = N[L - 1]
        /\ (K[L] = <<"", "">>) <=> (N[L - 1] = <<"">> /\ path[L] = "")
        /\ K[L] # <<"">>
    <3>1. "" \in STRING  BY NamesAssumption
    <3>2. RootIsTold(STRING, "", N[L - 1], path[L])  BY <1>7, <2>1, <3>1, RootTold
    <3> QED BY <1>7, <3>2 DEF RootIsTold
  <2>5. CASE path[L] # ""
    <3>1. N[L] = K[L] /\ cleanPath(path) = K[L]  BY <1>4, <1>7, <2>3, <2>4, <2>5
    <3> QED BY <1>5, <2>4, <3>1
  <2>6. CASE path[L] = "" /\ N[L - 1] = <<"">>
    <3>1. K[L] = <<"", "">> /\ N[L] = <<"">>  BY <2>3, <2>4, <2>6, Zenon
    <3>2. cleanPath(path) = K[L]  BY <1>4, <3>1
    <3> QED BY <1>5, <1>9, <2>4, <3>1, <3>2
  <2>7. CASE path[L] = "" /\ N[L - 1] # <<"">>
    <3>1. K[L] # <<"", "">> /\ N[L] = N[L - 1]  BY <2>3, <2>4, <2>7, Zenon
    <3>2. cleanPath(path) = N[L]  BY <1>4, <2>4, <2>7, <3>1
    <3> QED BY <1>5, <1>7, <2>7, <3>1, <3>2
  <2> QED BY <2>5, <2>6, <2>7
<1> QED BY <1>1, <1>8, <1>9

-----------------------------------------------------------------------------
(* The mounts.                                                             *)

LEMMA PrefixIs ==
  ASSUME NEW S, NEW s \in Seq(S), NEW t \in Seq(S)
  PROVE  IsPrefix(s, t) <=> Len(s) <= Len(t) /\ \A i \in 1..Len(s) : t[i] = s[i]
<1>1. Len(s) \in Nat /\ Len(t) \in Nat  OBVIOUS
<1>2. SubSeq(s, 1, Len(s)) = s  BY SubSeqFull
<1>3. ASSUME Len(s) <= Len(t)
      PROVE  /\ SubSeq(t, 1, Len(s)) \in Seq(S) /\ Len(SubSeq(t, 1, Len(s))) = Len(s)
             /\ \A i \in 1..Len(s) : SubSeq(t, 1, Len(s))[i] = t[i]
  <2>1. \A i \in 1..Len(s) : t[i] \in S  BY <1>1, <1>3
  <2> QED BY <1>1, <2>1, SubSeqProperties
<1>4. ASSUME Len(s) <= Len(t), \A i \in 1..Len(s) : t[i] = s[i]
      PROVE  SubSeq(t, 1, Len(s)) = s
  BY <1>3, <1>4, SeqEqual
<1> QED BY <1>2, <1>3, <1>4 DEF IsPrefix

Mount(n)     == mountTable[n][1]
Directory(n) == mountTable[n][2]

LEMMA MountsAre ==
  /\ DOMAIN mountTable = 1..5
  /\ Mount(1) = <<"", "apex">> /\ Mount(2) = <<"", "vendor">>
  /\ Mount(3) = <<"", "system", "vendor">> /\ Mount(4) = <<"", "system">> /\ Mount(5) = <<"", "data">>
  /\ Directory(1) = Rootfs \o <<"apex">> /\ Directory(2) = Rootfs \o <<"vendor">>
  /\ Directory(3) = Rootfs \o <<"vendor">> /\ Directory(4) = Rootfs \o <<"system">>
  /\ Directory(5) = Rootfs \o <<"data">>
<1> DEFINE m1 == <<"", "apex">>
           m2 == <<"", "vendor">>
           m3 == <<"", "system", "vendor">>
           m4 == <<"", "system">>
           m5 == <<"", "data">>
           d1 == Rootfs \o <<"apex">>
           d2 == Rootfs \o <<"vendor">>
           d4 == Rootfs \o <<"system">>
           d5 == Rootfs \o <<"data">>
<1>1. mountTable = <<<<m1, d1>>, <<m2, d2>>, <<m3, d2>>, <<m4, d4>>, <<m5, d5>>>>
  BY Zenon DEF mountTable
<1> HIDE DEF m1, m2, m3, m4, m5, d1, d2, d4, d5
<1>2. DOMAIN mountTable = 1..5  BY <1>1
<1>3. /\ Mount(1) = m1 /\ Mount(2) = m2 /\ Mount(3) = m3 /\ Mount(4) = m4 /\ Mount(5) = m5
      /\ Directory(1) = d1 /\ Directory(2) = d2 /\ Directory(3) = d2 /\ Directory(4) = d4
      /\ Directory(5) = d5
  BY <1>1 DEF Mount, Directory
<1> QED BY <1>2, <1>3, Zenon DEF m1, m2, m3, m4, m5, d1, d2, d4, d5

IsPair(S, s, a, b) == s \in Seq(S) /\ Len(s) = 2 /\ s[1] = a /\ s[2] = b

LEMMA TwoNames ==
  ASSUME NEW S, NEW a \in S, NEW b \in S PROVE IsPair(S, <<a, b>>, a, b)
BY DEF IsPair

IsTriple(S, s, a, b, c) == s \in Seq(S) /\ Len(s) = 3 /\ s[1] = a /\ s[2] = b /\ s[3] = c

LEMMA ThreeNames ==
  ASSUME NEW S, NEW a \in S, NEW b \in S, NEW c \in S PROVE IsTriple(S, <<a, b, c>>, a, b, c)
BY DEF IsTriple

LEMMA MountsArePaths ==
  /\ \A n \in 1..5 : Mount(n) \in Seq(STRING) /\ Mount(n)[1] = ""
  /\ \A n \in {1, 2, 4, 5} : Len(Mount(n)) = 2
  /\ Len(Mount(3)) = 3 /\ Mount(3)[3] = "vendor"
  /\ Mount(1)[2] = "apex" /\ Mount(2)[2] = "vendor" /\ Mount(3)[2] = "system"
  /\ Mount(4)[2] = "system" /\ Mount(5)[2] = "data"
<1>1. /\ "" \in STRING /\ "apex" \in STRING /\ "vendor" \in STRING
      /\ "system" \in STRING /\ "data" \in STRING
  BY NamesAssumption
<1>2. /\ IsPair(STRING, Mount(1), "", "apex") /\ IsPair(STRING, Mount(2), "", "vendor")
      /\ IsPair(STRING, Mount(4), "", "system") /\ IsPair(STRING, Mount(5), "", "data")
  BY <1>1, TwoNames, MountsAre, Zenon
<1>3. IsTriple(STRING, Mount(3), "", "system", "vendor")
  BY <1>1, ThreeNames, MountsAre, Zenon
<1>4. \A n \in 1..5 : n = 1 \/ n = 2 \/ n = 3 \/ n = 4 \/ n = 5  OBVIOUS
<1> QED BY <1>2, <1>3, <1>4, Zenon DEF IsPair, IsTriple

(* Which mounts a path may lie in, by its first names.                     *)
LEMMA MatchingIs ==
  ASSUME NEW path \in Seq(STRING)
  PROVE  /\ Matching(path) \subseteq 1..5
         /\ \A n \in Matching(path) : Len(path) > 1 /\ path[1] = "" /\ path[2] = Mount(n)[2]
         /\ 3 \in Matching(path) => 4 \in Matching(path)
<1>1. Matching(path) = {n \in 1..5 : IsPrefix(Mount(n), path)}
  BY MountsAre, Zenon DEF Matching, Mount
<1>2. ASSUME NEW n \in 1..5
      PROVE  (n \in Matching(path)) <=>
               (Len(Mount(n)) <= Len(path) /\ \A i \in 1..Len(Mount(n)) : path[i] = Mount(n)[i])
  <2>1. Mount(n) \in Seq(STRING)  BY MountsArePaths, Zenon
  <2>2. IsPrefix(Mount(n), path) <=>
          Len(Mount(n)) <= Len(path) /\ \A i \in 1..Len(Mount(n)) : path[i] = Mount(n)[i]
    BY <2>1, PrefixIs
  <2> QED BY <1>1, <2>2, Zenon
<1>3. Matching(path) \subseteq 1..5  BY <1>1, Zenon
<1>4. Len(path) \in Nat  OBVIOUS
<1>5. ASSUME NEW n \in Matching(path) PROVE Len(path) > 1 /\ path[1] = "" /\ path[2] = Mount(n)[2]
  <2>1. n \in 1..5  BY <1>3
  <2>2. Len(Mount(n)) = 2 \/ Len(Mount(n)) = 3
    <3>1. n = 3 \/ n \in {1, 2, 4, 5}  BY <2>1
    <3> QED BY <3>1, MountsArePaths, Zenon
  <2>3. PICK k : k = Len(Mount(n)) /\ (k = 2 \/ k = 3)  BY <2>2, Zenon
  <2>4. Len(Mount(n)) <= Len(path) /\ \A i \in 1..Len(Mount(n)) : path[i] = Mount(n)[i]
    BY <1>2, <2>1, Zenon
  <2>5. 1 \in 1..k /\ 2 \in 1..k  BY <2>3
  <2>6. Len(path) > 1
    <3>1. k <= Len(path)  BY <2>3, <2>4, Zenon
    <3> QED BY <1>4, <2>3, <3>1
  <2> QED BY <2>1, <2>3, <2>4, <2>5, <2>6, MountsArePaths, Zenon
<1>6. ASSUME 3 \in Matching(path) PROVE 4 \in Matching(path)
  <2>1. 3 \in 1..5 /\ 4 \in 1..5 /\ 4 \in {1, 2, 4, 5}  OBVIOUS
  <2>2. 3 <= Len(path) /\ \A i \in 1..3 : path[i] = Mount(3)[i]
    BY <1>2, <1>6, <2>1, MountsArePaths, Zenon
  <2>3. 2 <= Len(path)  BY <2>2, <1>4
  <2>4. \A i \in 1..2 : path[i] = Mount(4)[i]
    <3>1. 1 \in 1..3 /\ 2 \in 1..3 /\ \A i \in 1..2 : i = 1 \/ i = 2  OBVIOUS
    <3> QED BY <2>1, <2>2, <3>1, MountsArePaths, Zenon
  <2>5. Len(Mount(4)) = 2  BY <2>1, MountsArePaths, Zenon
  <2> QED BY <1>2, <2>1, <2>3, <2>4, <2>5, Zenon
<1> QED BY <1>3, <1>5, <1>6

(* The first mount of the table that a path lies in is the most specific.  *)
LEMMA FirstIs ==
  ASSUME NEW path \in Seq(STRING), Matching(path) # {}
  PROVE  FirstMatch(path) \in Matching(path) /\ \A n \in Matching(path) : FirstMatch(path) <= n
<1>1. Matching(path) \subseteq 1..5  BY MatchingIs, Zenon
<1>2. Matching(path) \subseteq Nat  BY <1>1
<1>3. \E n \in Matching(path) : \A other \in Matching(path) : n <= other  BY <1>2, Least
<1> QED BY <1>3, Zenon DEF FirstMatch

LEMMA MountsDiffer == \A n, k \in 1..5 : Mount(n) = Mount(k) => n = k
<1>1. \A n, k \in 1..5 : Mount(n)[2] = Mount(k)[2] => n = k \/ (n = 3 /\ k = 4) \/ (n = 4 /\ k = 3)
  <2>1. \A n \in 1..5 : n = 1 \/ n = 2 \/ n = 3 \/ n = 4 \/ n = 5  OBVIOUS
  <2> QED BY <2>1, MountsArePaths
<1>2. Mount(3) # Mount(4)
  <2>1. 4 \in {1, 2, 4, 5} /\ 2 # 3  OBVIOUS
  <2> QED BY <2>1, MountsArePaths, Zenon
<1> QED BY <1>1, <1>2, Zenon

LEMMA SpecificIs ==
  ASSUME NEW path \in Seq(STRING), Matching(path) # {}
  PROVE  Promise!MostSpecific(path) = Mount(FirstMatch(path))
<1> DEFINE first == FirstMatch(path)
           Home == DOMAIN [mount \in {mountTable[n][1] : n \in DOMAIN mountTable} |->
                             mountTable[CHOOSE n \in DOMAIN mountTable : mountTable[n][1] = mount][2]]
           Fits(mount) == /\ IsPrefix(mount, path)
                          /\ \A other \in Home : IsPrefix(other, path) => Len(other) <= Len(mount)
<1>1. first \in Matching(path) /\ \A n \in Matching(path) : first <= n  BY FirstIs, Zenon
<1>2. Matching(path) = {n \in 1..5 : IsPrefix(Mount(n), path)}
  BY MountsAre, Zenon DEF Matching, Mount
<1>3. Home = {Mount(n) : n \in 1..5}
  BY MountsAre, Zenon DEF Mount
<1>4. \A n \in Matching(path) : n # first => first = 3 /\ n = 4
  <2>1. ASSUME NEW n \in Matching(path), n # first PROVE first = 3 /\ n = 4
    <3>1. n \in 1..5 /\ first \in 1..5 /\ first <= n  BY <1>1, <1>2, Zenon
    <3>2. path[2] = Mount(n)[2] /\ path[2] = Mount(first)[2]
      <4>1. \A k \in Matching(path) : path[2] = Mount(k)[2]  BY MatchingIs, Zenon
      <4> QED BY <1>1, <4>1, Zenon
    <3>3. \A k \in 1..5 : k = 1 \/ k = 2 \/ k = 3 \/ k = 4 \/ k = 5  OBVIOUS
    <3>4. (first = 3 /\ n = 4) \/ (first = 4 /\ n = 3)
      <4> HIDE DEF first
      <4> QED BY <2>1, <3>1, <3>2, <3>3, MountsArePaths
    <3>5. ~(4 <= 3)  OBVIOUS
    <3> QED BY <3>1, <3>4, <3>5, Zenon
  <2> QED BY <2>1, Zenon
<1>5. /\ \A n \in {1, 2, 4, 5} : Len(Mount(n)) = 2
      /\ Len(Mount(3)) = 3 /\ 4 \in {1, 2, 4, 5} /\ 2 <= 3 /\ ~(3 <= 2) /\ 2 <= 2 /\ 3 <= 3
  <2>1. 4 \in {1, 2, 4, 5} /\ 2 <= 3 /\ ~(3 <= 2) /\ 2 <= 2 /\ 3 <= 3  OBVIOUS
  <2> QED BY <2>1, MountsArePaths, Zenon
<1>6. \A n \in 1..5 : Len(Mount(n)) <= Len(Mount(n))
  <2>1. \A n \in 1..5 : n = 3 \/ n \in {1, 2, 4, 5}  OBVIOUS
  <2> QED BY <1>5, <2>1, Zenon
<1> HIDE DEF Home
<1>7. Mount(first) \in Home /\ Fits(Mount(first))
  <2>1. ASSUME NEW n \in 1..5, IsPrefix(Mount(n), path) PROVE Len(Mount(n)) <= Len(Mount(first))
    BY <1>2, <1>4, <1>5, <1>6, <2>1, Zenon
  <2> QED BY <1>1, <1>2, <1>3, <2>1, Zenon
<1>8. ASSUME NEW mount \in Home, Fits(mount) PROVE mount = Mount(first)
  <2>1. PICK n \in 1..5 : mount = Mount(n)  BY <1>3, Zenon
  <2>2. n \in Matching(path)  BY <1>2, <1>8, <2>1, Zenon
  <2>3. Len(Mount(first)) <= Len(Mount(n))  BY <1>7, <1>8, <2>1, Zenon
  <2> QED BY <1>4, <1>5, <2>1, <2>2, <2>3, Zenon
<1>9. Promise!MostSpecific(path) = CHOOSE mount \in Home : Fits(mount)
  BY Zenon DEF Promise!MostSpecific, Promise!IsPrefix, IsPrefix, Home
<1> HIDE DEF Fits
<1>10. (CHOOSE mount \in Home : Fits(mount)) = Mount(first)  BY <1>7, <1>8, Zenon
<1> QED BY <1>9, <1>10, Zenon

-----------------------------------------------------------------------------
(* Answers.                                                                *)

(* What lies below the root directory is told apart from other paths.      *)
LEMMA HasNameInside ==
  ASSUME NEW S, NEW s \in Seq(S), NEW t \in Seq(S), Len(t) > 0, NEW k \in 3..Len(s)
  PROVE  s \o t \in Seq(S) /\ k \in 2..(Len(s \o t) - 1) /\ (s \o t)[k] = s[k]
<1>1. Len(s) \in Nat /\ Len(t) \in Nat  OBVIOUS
<1>2. /\ s \o t \in Seq(S) /\ Len(s \o t) = Len(s) + Len(t)
      /\ \A i \in 1..(Len(s) + Len(t)) : (s \o t)[i] = IF i <= Len(s) THEN s[i] ELSE t[i - Len(s)]
  BY ConcatProperties
<1>3. k \in 1..(Len(s) + Len(t)) /\ k <= Len(s)  BY <1>1
<1> QED BY <1>1, <1>2, <1>3

LEMMA BelowRoot ==
  ASSUME NEW rest \in Seq(STRING), Len(rest) > 0
  PROVE  Rootfs \o rest \in Seq(STRING) /\ IsSandboxPath(Rootfs \o rest)
<1>1. PICK k \in 3..Len(Rootfs) : Rootfs[k] = AppId  BY VfsRouterAssumption, Zenon
<1>2. /\ Rootfs \o rest \in Seq(STRING)
      /\ k \in 2..(Len(Rootfs \o rest) - 1) /\ (Rootfs \o rest)[k] = Rootfs[k]
  BY VfsRouterAssumption, HasNameInside
<1> QED BY <1>1, <1>2, Zenon DEF IsSandboxPath

LEMMA DirectoriesAre ==
  \A n \in 1..5 : \E name \in STRING : Directory(n) = Rootfs \o <<name>>
<1>1. \A n \in 1..5 : n = 1 \/ n = 2 \/ n = 3 \/ n = 4 \/ n = 5  OBVIOUS
<1>2. "apex" \in STRING /\ "vendor" \in STRING /\ "system" \in STRING /\ "data" \in STRING
  BY NamesAssumption
<1> QED BY <1>1, <1>2, MountsAre, Zenon

LEMMA NameThenRest ==
  ASSUME NEW S, NEW s \in Seq(S), NEW name \in S, NEW rest \in Seq(S)
  PROVE  \E t \in Seq(S) : Len(t) > 0 /\ (s \o <<name>>) \o rest = s \o t
<1>1. <<name>> \in Seq(S) /\ Len(<<name>>) = 1  OBVIOUS
<1>2. (s \o <<name>>) \o rest = s \o (<<name>> \o rest)  BY <1>1, ConcatAssociative
<1>3. <<name>> \o rest \in Seq(S) /\ Len(<<name>> \o rest) = 1 + Len(rest)
  BY <1>1, ConcatProperties
<1>4. Len(<<name>> \o rest) > 0
  <2>1. Len(rest) \in Nat  OBVIOUS
  <2> QED BY <1>3, <2>1
<1> QED BY <1>2, <1>3, <1>4, Zenon

LEMMA TargetIs ==
  ASSUME NEW path \in Seq(STRING), Matching(path) # {}
  PROVE  Target(path) \in Seq(STRING) /\ IsSandboxPath(Target(path))
<1> DEFINE rest == SubSeq(path, Len(Mount(FirstMatch(path))) + 1, Len(path))
<1>1. Target(path) = Directory(FirstMatch(path)) \o rest
  BY Zenon DEF Target, Mount, Directory
<1>2. FirstMatch(path) \in 1..5  BY FirstIs, MatchingIs
<1>3. rest \in Seq(STRING)
  <2>1. Mount(FirstMatch(path)) \in Seq(STRING)  BY <1>2, MountsArePaths, Zenon
  <2>2. PICK k \in Nat : k = Len(Mount(FirstMatch(path)))  BY <2>1, LenProperties
  <2>3. ASSUME NEW S, NEW s \in Seq(S), NEW j \in Nat PROVE SubSeq(s, j + 1, Len(s)) \in Seq(S)
    <3>1. Len(s) \in Nat /\ \A i \in (j + 1)..Len(s) : s[i] \in S  OBVIOUS
    <3> QED BY <3>1, SubSeqProperties
  <2> QED BY <2>2, <2>3, Zenon
<1>4. PICK name \in STRING : Directory(FirstMatch(path)) = Rootfs \o <<name>>  BY <1>2, DirectoriesAre
<1> HIDE DEF rest
<1>5. PICK t \in Seq(STRING) : Len(t) > 0 /\ (Rootfs \o <<name>>) \o rest = Rootfs \o t
  BY <1>3, NameThenRest, VfsRouterAssumption
<1> QED BY <1>1, <1>4, <1>5, BelowRoot, Zenon

LEMMA DeviceIs ==
  ASSUME NEW path \in DOMAIN virtualDevTable
  PROVE  virtualDevTable[path] \in Seq(STRING) /\ IsSandboxPath(virtualDevTable[path])
<1> DEFINE name == CASE Last(path) = "event0" -> "input_event0.sock"
                     [] Last(path) = "event1" -> "input_event1.sock"
                     [] Last(path) = "ashmem" -> "ashmem.sock"
                     [] OTHER                 -> "qemu_pipe.sock"
<1>1. virtualDevTable[path] = Rootfs \o <<"dev", name>>  BY Zenon DEF virtualDevTable
<1>2. "dev" \in STRING /\ name \in STRING  BY NamesAssumption
<1> HIDE DEF name
<1>3. IsPair(STRING, <<"dev", name>>, "dev", name)  BY <1>2, TwoNames
<1>4. <<"dev", name>> \in Seq(STRING) /\ Len(<<"dev", name>>) = 2  BY <1>3, Zenon DEF IsPair
<1>5. Len(<<"dev", name>>) > 0  BY <1>4
<1> QED BY <1>1, <1>4, <1>5, BelowRoot, Zenon

LEMMA PassedLiesInNoMount ==
  ASSUME NEW path \in Seq(STRING), IsPassedThrough(path)
  PROVE  Matching(path) = {}
<1>1. path[2] \in {"proc", "sys", "dev"}
  <2>1. CASE Len(path) > 2 /\ path[1] = "" /\ path[2] \in {"proc", "sys"}  BY <2>1
  <2>2. CASE path \in {<<"", "dev", name>> : name \in {"null", "zero", "urandom"}}
    <3>1. \A a, b, c : <<a, b, c>>[2] = b  OBVIOUS
    <3>2. path[2] = "dev"  BY <2>2, <3>1, Zenon
    <3> QED BY <3>2
  <2> QED BY <2>1, <2>2, Zenon DEF IsPassedThrough
<1>2. ASSUME NEW n \in Matching(path) PROVE FALSE
  <2>1. n \in 1..5 /\ path[2] = Mount(n)[2]  BY MatchingIs, Zenon
  <2>2. n = 1 \/ n = 2 \/ n = 3 \/ n = 4 \/ n = 5  BY <2>1
  <2> QED BY <1>1, <2>1, <2>2, MountsArePaths
<1> QED BY <1>2, Zenon

(* A mount and the directory where it is kept.                             *)
LEMMA HomeIs ==
  ASSUME NEW n \in 1..5
  PROVE  [mount \in {mountTable[k][1] : k \in DOMAIN mountTable} |->
            mountTable[CHOOSE k \in DOMAIN mountTable : mountTable[k][1] = mount][2]][Mount(n)]
           = Directory(n)
<1>1. Mount(n) \in {mountTable[k][1] : k \in DOMAIN mountTable}  BY MountsAre, Zenon DEF Mount
<1>2. (CHOOSE k \in DOMAIN mountTable : mountTable[k][1] = Mount(n)) = n
  BY MountsAre, MountsDiffer, Zenon DEF Mount
<1> QED BY <1>1, <1>2, Zenon DEF Directory

LEMMA AnswerInMount ==
  ASSUME NEW path \in Seq(STRING), NEW files, Matching(path) # {},
         ~IsSandboxPath(path), path \notin DOMAIN virtualDevTable
  PROVE  Promise!Answer(path, files) =
           IF path \in Host /\ Target(path) \notin files /\ path # Mount(FirstMatch(path))
           THEN path ELSE Target(path)
<1>1. FirstMatch(path) \in Matching(path) /\ FirstMatch(path) \in 1..5  BY FirstIs, MatchingIs
<1>2. Promise!MostSpecific(path) = Mount(FirstMatch(path))  BY SpecificIs
<1>3. \E mount \in DOMAIN [mount \in {mountTable[k][1] : k \in DOMAIN mountTable} |->
            mountTable[CHOOSE k \in DOMAIN mountTable : mountTable[k][1] = mount][2]] :
         Promise!IsPrefix(mount, path)
  BY <1>1, Zenon DEF Matching, Promise!IsPrefix, IsPrefix
<1>4. Target(path) = Directory(FirstMatch(path))
                       \o SubSeq(path, Len(Mount(FirstMatch(path))) + 1, Len(path))
  BY Zenon DEF Target, Mount, Directory
<1> QED BY <1>1, <1>2, <1>3, <1>4, HomeIs, Zenon DEF Promise!Answer

LEMMA AnswerOutside ==
  ASSUME NEW path \in Seq(STRING), NEW files
  PROVE  /\ IsSandboxPath(path) => Promise!Answer(path, files) = path
         /\ ~IsSandboxPath(path) /\ path \in DOMAIN virtualDevTable =>
              Promise!Answer(path, files) = virtualDevTable[path]
         /\ ~IsSandboxPath(path) /\ path \notin DOMAIN virtualDevTable /\ Matching(path) = {} =>
              Promise!Answer(path, files) = path
<1>1. ASSUME Matching(path) = {}
      PROVE  ~\E mount \in DOMAIN [mount \in {mountTable[k][1] : k \in DOMAIN mountTable} |->
                  mountTable[CHOOSE k \in DOMAIN mountTable : mountTable[k][1] = mount][2]] :
               Promise!IsPrefix(mount, path)
  BY <1>1, Zenon DEF Matching, Promise!IsPrefix, IsPrefix
<1> QED BY <1>1, Zenon DEF Promise!Answer

(* What is answered without a look at the files, whatever they are.        *)
LEMMA AtOnceIs ==
  ASSUME NEW path \in Seq(STRING), NEW files, AtOnce(path) # NoPath
  PROVE  Promise!Answer(path, files) = AtOnce(path)
<1>1. CASE IsSandboxPath(path) \/ path \in DOMAIN virtualDevTable
  BY <1>1, AnswerOutside, Zenon DEF AtOnce
<1>2. CASE ~IsSandboxPath(path) /\ path \notin DOMAIN virtualDevTable /\ Matching(path) = {}
  BY <1>2, AnswerOutside, Zenon DEF AtOnce
<1>3. CASE ~IsSandboxPath(path) /\ path \notin DOMAIN virtualDevTable /\ Matching(path) # {}
  <2>1. ~IsPassedThrough(path)  BY <1>3, PassedLiesInNoMount, Zenon
  <2>2. path = Mount(FirstMatch(path)) /\ AtOnce(path) = Target(path)
    BY <1>3, <2>1, Zenon DEF AtOnce, Mount
  <2> QED BY <1>3, <2>2, AnswerInMount, Zenon
<1> QED BY <1>1, <1>2, <1>3, Zenon

(* What takes a look at the files lies below a mount.                      *)
LEMMA LookIs ==
  ASSUME NEW path \in Seq(STRING), NEW files, AtOnce(path) = NoPath
  PROVE  /\ Matching(path) # {}
         /\ Promise!Answer(path, files) =
              IF path \in Host /\ Target(path) \notin files THEN path ELSE Target(path)
<1>1. path # NoPath  BY VfsRouterAssumption, Zenon
<1>2. ~IsSandboxPath(path)  BY <1>1, Zenon DEF AtOnce
<1>3. path \notin DOMAIN virtualDevTable
  <2>1. path \in DOMAIN virtualDevTable => virtualDevTable[path] # NoPath
    BY DeviceIs, VfsRouterAssumption, Zenon
  <2> QED BY <1>2, <2>1, Zenon DEF AtOnce
<1>4. Matching(path) # {}  BY <1>1, <1>2, <1>3, Zenon DEF AtOnce
<1>5. path # Mount(FirstMatch(path))
  <2>1. Target(path) # NoPath  BY <1>4, TargetIs, VfsRouterAssumption, Zenon
  <2>2. ~IsPassedThrough(path)  BY <1>4, PassedLiesInNoMount, Zenon
  <2> QED BY <1>2, <1>3, <1>4, <2>1, <2>2, Zenon DEF AtOnce, Mount
<1> QED BY <1>2, <1>3, <1>4, <1>5, AnswerInMount, Zenon

-----------------------------------------------------------------------------
(* The invariant.                                                          *)

Functions ==
  /\ pc \in [Threads -> {"idle", "called", "target", "clean"}]
  /\ asked \in [Threads -> Paths \cup {NoPath}]
  /\ answer \in [Threads -> Seq(STRING) \cup {NoPath}]

Idle     == \A t \in Threads : asked[t] = NoPath <=> pc[t] = "idle"
Holder   == /\ mutex \in Threads \cup {NoThread}
            /\ \A t \in Threads : pc[t] \in {"target", "clean"} <=> mutex = t

(* The files are looked at for the paths of the mounts only.               *)
Looking  == \A t \in Threads : pc[t] \in {"target", "clean"} => AtOnce(cleanPath(asked[t])) = NoPath

RouterInv == Functions /\ sandbox \subseteq Files /\ Idle /\ Holder /\ Looking /\ AnswersStay

LEMMA InitHolds == Init => RouterInv
<1> SUFFICES ASSUME Init PROVE RouterInv  OBVIOUS
<1>1. Functions /\ sandbox \subseteq Files /\ Idle  BY DEF Init, Functions, Idle
<1>2. Holder  BY VfsRouterAssumption DEF Init, Holder
<1>3. Looking /\ AnswersStay  BY DEF Init, Looking, AnswersStay
<1> QED BY <1>1, <1>2, <1>3 DEF RouterInv

(* The path that is asked for, as cleanPath leaves it.                     *)
LEMMA CleanAsked ==
  ASSUME Functions, Idle, NEW t \in Threads, pc[t] # "idle"
  PROVE  asked[t] \in Seq(STRING) /\ asked[t] # <<>> /\ cleanPath(asked[t]) \in Seq(STRING)
<1>1. asked[t] \in Paths  BY Zenon DEF Functions, Idle
<1>2. asked[t] \in Seq(STRING) /\ asked[t] # <<>>  BY <1>1, VfsRouterAssumption, Zenon
<1> QED BY <1>2, CleanIsMeant, Zenon

Stays(path) == path \in Seq(STRING) /\ (AtOnce(path) = path \/ path \in Host)

(* An answer is answered with itself.                                      *)
LEMMA InsideStays ==
  ASSUME NEW path \in Seq(STRING), IsSandboxPath(path) PROVE Stays(path)
BY Zenon DEF Stays, AtOnce

LEMMA AtOnceStays ==
  ASSUME NEW path \in Seq(STRING), AtOnce(path) # NoPath PROVE Stays(AtOnce(path))
<1>1. CASE IsSandboxPath(path)  BY <1>1, InsideStays, Zenon DEF AtOnce
<1>2. CASE ~IsSandboxPath(path) /\ path \in DOMAIN virtualDevTable
  <2>1. AtOnce(path) = virtualDevTable[path]  BY <1>2, Zenon DEF AtOnce
  <2> QED BY <1>2, <2>1, DeviceIs, InsideStays, Zenon
<1>3. CASE /\ ~IsSandboxPath(path) /\ path \notin DOMAIN virtualDevTable
           /\ IsPassedThrough(path) \/ Matching(path) = {}
  BY <1>3, Zenon DEF AtOnce, Stays
<1>4. CASE /\ ~IsSandboxPath(path) /\ path \notin DOMAIN virtualDevTable
           /\ ~(IsPassedThrough(path) \/ Matching(path) = {})
  <2>1. AtOnce(path) = Target(path)  BY <1>4, Zenon DEF AtOnce
  <2> QED BY <1>4, <2>1, TargetIs, InsideStays, Zenon
<1> QED BY <1>1, <1>2, <1>3, <1>4, Zenon

(* What the code returns stays.                                            *)
LEMMA ReturnedStays ==
  ASSUME RouterInv, NEW t \in Threads
  PROVE  /\ Enter(t) /\ AtOnce(cleanPath(asked[t])) # NoPath => Stays(AtOnce(cleanPath(asked[t])))
         /\ pc[t] \in {"target", "clean"} => Stays(Target(cleanPath(asked[t])))
         /\ pc[t] = "clean" /\ cleanPath(asked[t]) \in Host => Stays(cleanPath(asked[t]))
<1> DEFINE clean == cleanPath(asked[t])
<1>1. pc[t] # "idle" => clean \in Seq(STRING)  BY CleanAsked, Zenon DEF RouterInv
<1>2. Enter(t) => pc[t] = "called"  BY Zenon DEF Enter
<1>3. pc[t] \in {"target", "clean"} => pc[t] # "idle"  OBVIOUS
<1>4. pc[t] = "called" => pc[t] # "idle"  OBVIOUS
<1>5. pc[t] \in {"target", "clean"} => AtOnce(clean) = NoPath  BY Zenon DEF RouterInv, Looking
<1> HIDE DEF clean
<1>6. Enter(t) /\ AtOnce(clean) # NoPath => Stays(AtOnce(clean))
  BY <1>1, <1>2, <1>4, AtOnceStays, Zenon
<1>7. pc[t] \in {"target", "clean"} => Stays(Target(clean))
  BY <1>1, <1>3, <1>5, LookIs, TargetIs, InsideStays, Zenon
<1>8. pc[t] = "clean" /\ clean \in Host => Stays(clean)
  <2>1. pc[t] = "clean" => pc[t] \in {"target", "clean"}  OBVIOUS
  <2> QED BY <1>1, <1>3, <2>1, Zenon DEF Stays
<1> QED BY <1>6, <1>7, <1>8, Zenon DEF clean

(* The end of a call that returns a path that stays.                       *)
LEMMA ReturnKeeps ==
  ASSUME RouterInv, NEW t \in Threads, NEW path, Stays(path), Return(t, path),
         mutex = NoThread \/ mutex = t
  PROVE  RouterInv'
<1>1. Functions'
  BY Zenon DEF RouterInv, Functions, Return, Stays
<1>2. sandbox' \subseteq Files  BY DEF RouterInv, Return
<1>3. \A u \in Threads : u # t => pc'[u] = pc[u] /\ asked'[u] = asked[u] /\ answer'[u] = answer[u]
  BY DEF RouterInv, Functions, Return
<1>4. pc'[t] = "idle" /\ asked'[t] = NoPath /\ answer'[t] = path /\ mutex' = NoThread
  BY DEF RouterInv, Functions, Return
<1>5. Idle'  BY <1>3, <1>4, Zenon DEF RouterInv, Idle
<1>6. Holder'
  <2>1. \A u \in Threads : u # NoThread  BY VfsRouterAssumption
  <2>2. ~("idle" \in {"target", "clean"})  OBVIOUS
  <2>3. \A u \in Threads : u # t => mutex # u  BY <2>1
  <2> QED BY <1>3, <1>4, <2>1, <2>2, <2>3, Zenon DEF RouterInv, Holder
<1>7. Looking'
  <2>1. ~("idle" \in {"target", "clean"})  OBVIOUS
  <2> QED BY <1>3, <1>4, <2>1, Zenon DEF RouterInv, Looking
<1>8. AnswersStay'
  BY <1>3, <1>4, Zenon DEF RouterInv, AnswersStay, Stays
<1> QED BY <1>1, <1>2, <1>5, <1>6, <1>7, <1>8 DEF RouterInv

LEMMA CallKeeps ==
  ASSUME RouterInv, NEW t \in Threads, NEW path \in Paths, Call(t, path) PROVE RouterInv'
<1>1. Functions'  BY Zenon DEF RouterInv, Functions, Call
<1>2. sandbox' \subseteq Files /\ mutex' = mutex  BY DEF RouterInv, Call
<1>3. \A u \in Threads : u # t => pc'[u] = pc[u] /\ asked'[u] = asked[u] /\ answer'[u] = answer[u]
  BY DEF RouterInv, Functions, Call
<1>4. pc[t] = "idle" /\ pc'[t] = "called" /\ asked'[t] = path /\ answer'[t] = NoPath
  BY DEF RouterInv, Functions, Call
<1>5. Idle'
  <2>1. path # NoPath /\ "called" # "idle"  BY VfsRouterAssumption
  <2> QED BY <1>3, <1>4, <2>1, Zenon DEF RouterInv, Idle
<1>6. ~("idle" \in {"target", "clean"}) /\ ~("called" \in {"target", "clean"})  OBVIOUS
<1>7. Holder'  BY <1>2, <1>3, <1>4, <1>6, Zenon DEF RouterInv, Holder
<1>8. Looking'  BY <1>3, <1>4, <1>6, Zenon DEF RouterInv, Looking
<1>9. AnswersStay'  BY <1>3, <1>4, Zenon DEF RouterInv, AnswersStay
<1> QED BY <1>1, <1>2, <1>5, <1>7, <1>8, <1>9 DEF RouterInv

(* A thread goes on to its next look at the files.                         *)
LEMMA LookKeeps ==
  ASSUME RouterInv, NEW t \in Threads, NEW place \in {"target", "clean"},
         pc[t] # "idle", pc' = [pc EXCEPT ![t] = place], mutex' = t,
         mutex = NoThread \/ mutex = t, AtOnce(cleanPath(asked[t])) = NoPath,
         UNCHANGED <<sandbox, asked, answer>>
  PROVE  RouterInv'
<1>1. Functions'  BY DEF RouterInv, Functions
<1>2. sandbox' \subseteq Files /\ asked' = asked /\ answer' = answer  BY DEF RouterInv
<1>3. pc'[t] = place /\ \A u \in Threads : u # t => pc'[u] = pc[u]
  BY DEF RouterInv, Functions
<1>4. Idle'
  <2>1. place # "idle"  OBVIOUS
  <2> QED BY <1>2, <1>3, <2>1, Zenon DEF RouterInv, Idle
<1>5. Holder'
  <2>1. \A u \in Threads : u # t => mutex # u  BY VfsRouterAssumption
  <2> QED BY <1>3, <2>1, Zenon DEF RouterInv, Holder
<1>6. Looking'
  <2>1. ASSUME NEW u \in Threads, pc'[u] \in {"target", "clean"}
        PROVE  AtOnce(cleanPath(asked[u])) = NoPath
    <3>1. CASE u = t  BY <3>1
    <3>2. CASE u # t
      <4>1. pc'[u] = pc[u]  BY <1>3, <3>2, Zenon
      <4> QED BY <2>1, <4>1, Zenon DEF RouterInv, Looking
    <3> QED BY <3>1, <3>2
  <2>2. \A u \in Threads : asked'[u] = asked[u]  BY <1>2
  <2>3. ASSUME NEW u \in Threads, pc'[u] \in {"target", "clean"}
        PROVE  AtOnce(cleanPath(asked'[u])) = NoPath
    BY <2>1, <2>2, <2>3
  <2> QED BY <2>3 DEF Looking
<1>7. AnswersStay'  BY <1>2, Zenon DEF RouterInv, AnswersStay
<1> QED BY <1>1, <1>2, <1>4, <1>5, <1>6, <1>7 DEF RouterInv

LEMMA NextKeeps ==
  ASSUME RouterInv, [Next]_vars PROVE RouterInv'
<1>1. CASE FileChanges
  <2>1. sandbox' \subseteq Files  BY <1>1 DEF RouterInv, FileChanges
  <2>2. mutex' = mutex /\ pc' = pc /\ asked' = asked /\ answer' = answer  BY <1>1 DEF FileChanges
  <2> QED BY <2>1, <2>2 DEF RouterInv, Functions, Idle, Holder, Looking, AnswersStay
<1>2. CASE UNCHANGED vars
  <2>1. sandbox' = sandbox /\ mutex' = mutex /\ pc' = pc /\ asked' = asked /\ answer' = answer
    BY <1>2 DEF vars
  <2> QED BY <2>1 DEF RouterInv, Functions, Idle, Holder, Looking, AnswersStay
<1>3. ASSUME NEW t \in Threads, NEW path \in Paths, Call(t, path) PROVE RouterInv'
  BY <1>3, CallKeeps
<1>4. ASSUME NEW t \in Threads, Enter(t) PROVE RouterInv'
  <2>1. pc[t] = "called" /\ mutex = NoThread  BY <1>4 DEF Enter
  <2>2. CASE AtOnce(cleanPath(asked[t])) # NoPath
    <3>1. Return(t, AtOnce(cleanPath(asked[t])))  BY <1>4, <2>2 DEF Enter
    <3>2. Stays(AtOnce(cleanPath(asked[t])))  BY <1>4, <2>2, ReturnedStays, Zenon
    <3> QED BY <2>1, <3>1, <3>2, ReturnKeeps, Zenon
  <2>3. CASE AtOnce(cleanPath(asked[t])) = NoPath
    <3>1. pc' = [pc EXCEPT ![t] = "target"] /\ mutex' = t /\ UNCHANGED <<sandbox, asked, answer>>
      BY <1>4, <2>3 DEF Enter
    <3>2. "target" \in {"target", "clean"} /\ pc[t] # "idle"  BY <2>1
    <3> QED BY <2>1, <2>3, <3>1, <3>2, LookKeeps, Zenon
  <2> QED BY <2>2, <2>3
<1>5. ASSUME NEW t \in Threads, LookInSandbox(t) PROVE RouterInv'
  <2>1. pc[t] = "target" /\ pc[t] # "idle" /\ pc[t] \in {"target", "clean"}  BY <1>5 DEF LookInSandbox
  <2>2. mutex = t /\ AtOnce(cleanPath(asked[t])) = NoPath
    BY <2>1, Zenon DEF RouterInv, Holder, Looking
  <2>3. CASE Target(cleanPath(asked[t])) \in sandbox
    <3>1. Return(t, Target(cleanPath(asked[t])))  BY <1>5, <2>3 DEF LookInSandbox
    <3> QED BY <2>1, <2>2, <3>1, ReturnedStays, ReturnKeeps, Zenon
  <2>4. CASE Target(cleanPath(asked[t])) \notin sandbox
    <3>1. pc' = [pc EXCEPT ![t] = "clean"] /\ mutex' = mutex /\ UNCHANGED <<sandbox, asked, answer>>
      BY <1>5, <2>4 DEF LookInSandbox
    <3>2. "clean" \in {"target", "clean"}  OBVIOUS
    <3> QED BY <2>1, <2>2, <3>1, <3>2, LookKeeps, Zenon
  <2> QED BY <2>3, <2>4
<1>6. ASSUME NEW t \in Threads, LookOnHost(t) PROVE RouterInv'
  <2> DEFINE clean == cleanPath(asked[t])
             path == IF clean \in Host THEN clean ELSE Target(clean)
  <2>1. pc[t] = "clean" /\ pc[t] \in {"target", "clean"} /\ Return(t, path)  BY <1>6 DEF LookOnHost
  <2>2. mutex = t  BY <2>1, Zenon DEF RouterInv, Holder
  <2>3. Stays(path)  BY <2>1, ReturnedStays, Zenon
  <2> HIDE DEF path
  <2> QED BY <2>1, <2>2, <2>3, ReturnKeeps, Zenon
<1> QED BY <1>1, <1>2, <1>3, <1>4, <1>5, <1>6 DEF Next

LEMMA InvCorrect == Spec => []RouterInv
<1>1. RouterInv /\ [Next]_vars => RouterInv'  BY NextKeeps
<1> QED BY InitHolds, <1>1, PTL DEF Spec

(* The types, and what the mutex guards: it is held by the one thread that *)
(* stands between its two looks at the files, and by nobody else.          *)
THEOREM TypeCorrect == Spec => []TypeOK
<1>1. RouterInv => TypeOK
  <2> SUFFICES ASSUME RouterInv PROVE TypeOK  OBVIOUS
  <2>1. \A t \in Threads : pc[t] \in {"idle", "called", "target", "clean"}
    BY DEF RouterInv, Functions
  <2> QED BY <2>1, Zenon DEF RouterInv, Idle, Holder, TypeOK
<1> QED BY <1>1, InvCorrect, PTL

(* What resolvePath has answered it answers with itself, unless it is a    *)
(* file of the phone: the paths that come back to it are not led astray.   *)
THEOREM AnswersCorrect == Spec => []AnswersStay
<1>1. RouterInv => AnswersStay  BY DEF RouterInv
<1> QED BY <1>1, InvCorrect, PTL

-----------------------------------------------------------------------------
(* The refinement of PathRouter.                                           *)

PAsked  == [t \in Threads |-> IF Settled(t) THEN NoPath ELSE asked[t]]
PAnswer == [t \in Threads |->
              LET clean == cleanPath(asked[t]) IN
              IF ~Settled(t) THEN answer[t]
              ELSE IF clean \in Host THEN clean ELSE Target(clean)]

LEMMA PromiseIs ==
  /\ Promise!Init <=> /\ sandbox = {} /\ PAsked = [t \in Threads |-> NoPath]
                      /\ PAnswer = [t \in Threads |-> NoPath]
  /\ \A t, path : Promise!Ask(t, path) <=>
       /\ PAsked[t] = NoPath /\ PAsked' = [PAsked EXCEPT ![t] = path]
       /\ PAnswer' = [PAnswer EXCEPT ![t] = NoPath] /\ sandbox' = sandbox
  /\ \A t : Promise!Reply(t) <=>
       /\ PAsked[t] # NoPath /\ PAsked' = [PAsked EXCEPT ![t] = NoPath]
       /\ PAnswer' = [PAnswer EXCEPT ![t] = Promise!Answer(Promise!Meant(PAsked[t]), sandbox)]
       /\ sandbox' = sandbox
  /\ Promise!FilesChange <=> sandbox' # sandbox /\ PAsked' = PAsked /\ PAnswer' = PAnswer
BY Zenon DEF Promise!Init, Promise!Ask, Promise!Reply, Promise!FilesChange, PAsked, PAnswer

LEMMA InitMaps == Init => Promise!Init
<1> SUFFICES ASSUME Init PROVE Promise!Init  OBVIOUS
<1>1. sandbox = {} /\ \A t \in Threads : pc[t] = "idle" /\ asked[t] = NoPath /\ answer[t] = NoPath
  BY DEF Init
<1>2. \A t \in Threads : ~Settled(t)  BY <1>1 DEF Settled
<1>3. PAsked = [t \in Threads |-> NoPath]  BY <1>1, <1>2 DEF PAsked
<1>4. PAnswer = [t \in Threads |-> NoPath]  BY <1>1, <1>2, Zenon DEF PAnswer
<1> QED BY <1>1, <1>3, <1>4, PromiseIs, Zenon

(* What PathRouter sees of a thread changes with that thread only.         *)
LEMMA OnlyThis ==
  ASSUME NEW t \in Threads,
         \A u \in Threads : u # t => pc'[u] = pc[u] /\ asked'[u] = asked[u] /\ answer'[u] = answer[u]
  PROVE  /\ PAsked' = [PAsked EXCEPT ![t] = PAsked'[t]]
         /\ PAnswer' = [PAnswer EXCEPT ![t] = PAnswer'[t]]
<1>1. \A u \in Threads : u # t => PAsked'[u] = PAsked[u]  BY DEF PAsked, Settled
<1>2. \A u \in Threads : u # t => PAnswer'[u] = PAnswer[u]  BY Zenon DEF PAnswer, Settled
<1>3. /\ PAsked = [u \in Threads |-> PAsked[u]] /\ PAsked' = [u \in Threads |-> PAsked'[u]]
      /\ PAnswer = [u \in Threads |-> PAnswer[u]] /\ PAnswer' = [u \in Threads |-> PAnswer'[u]]
  BY Zenon DEF PAsked, PAnswer
<1> HIDE DEF PAsked, PAnswer
<1> QED BY <1>1, <1>2, <1>3

(* The end of a call with the answer of this moment.                       *)
LEMMA ReturnMaps ==
  ASSUME RouterInv, NEW t \in Threads, NEW path, Return(t, path), pc[t] \in {"called", "target"},
         path = Promise!Answer(cleanPath(asked[t]), sandbox)
  PROVE  Promise!Reply(t)
<1>1. asked[t] \in Seq(STRING) /\ asked[t] # <<>> /\ asked[t] # NoPath
  <2>1. pc[t] # "idle"  OBVIOUS
  <2> QED BY <2>1, CleanAsked, Zenon DEF RouterInv, Idle
<1>2. cleanPath(asked[t]) = Promise!Meant(asked[t])  BY <1>1, CleanIsMeant
<1>3. ~Settled(t) /\ ~Settled(t)'  BY DEF Settled, Return, RouterInv, Functions
<1>4. PAsked[t] = asked[t]  BY <1>3, Zenon DEF PAsked
<1>5. asked'[t] = NoPath /\ answer'[t] = path /\ sandbox' = sandbox
  BY DEF Return, RouterInv, Functions
<1>6. PAsked'[t] = NoPath /\ PAnswer'[t] = path  BY <1>3, <1>5, Zenon DEF PAsked, PAnswer
<1>7. \A u \in Threads : u # t => pc'[u] = pc[u] /\ asked'[u] = asked[u] /\ answer'[u] = answer[u]
  BY DEF Return, RouterInv, Functions
<1>8. PAsked' = [PAsked EXCEPT ![t] = NoPath] /\ PAnswer' = [PAnswer EXCEPT ![t] = path]
  BY <1>6, <1>7, OnlyThis, Zenon
<1> QED BY <1>1, <1>2, <1>4, <1>5, <1>8, PromiseIs, Zenon

LEMMA CallMaps ==
  ASSUME RouterInv, NEW t \in Threads, NEW path \in Paths, Call(t, path)
  PROVE  Promise!Ask(t, path)
<1>1. ~Settled(t) /\ ~Settled(t)'  BY DEF Settled, Call, RouterInv, Functions
<1>2. asked[t] = NoPath  BY Zenon DEF Call, RouterInv, Idle
<1>3. asked'[t] = path /\ answer'[t] = NoPath /\ sandbox' = sandbox
  BY DEF Call, RouterInv, Functions
<1>4. PAsked[t] = NoPath /\ PAsked'[t] = path /\ PAnswer'[t] = NoPath
  BY <1>1, <1>2, <1>3, Zenon DEF PAsked, PAnswer
<1>5. \A u \in Threads : u # t => pc'[u] = pc[u] /\ asked'[u] = asked[u] /\ answer'[u] = answer[u]
  BY DEF Call, RouterInv, Functions
<1>6. PAsked' = [PAsked EXCEPT ![t] = path] /\ PAnswer' = [PAnswer EXCEPT ![t] = NoPath]
  BY <1>4, <1>5, OnlyThis, Zenon
<1> QED BY <1>3, <1>4, <1>6, PromiseIs, Zenon

(* A step that PathRouter does not see.                                    *)
LEMMA Stutters ==
  ASSUME NEW t \in Threads, PAsked'[t] = PAsked[t], PAnswer'[t] = PAnswer[t],
         \A u \in Threads : u # t => pc'[u] = pc[u] /\ asked'[u] = asked[u] /\ answer'[u] = answer[u]
  PROVE  PAsked' = PAsked /\ PAnswer' = PAnswer
<1>1. PAsked' = [PAsked EXCEPT ![t] = PAsked[t]] /\ PAnswer' = [PAnswer EXCEPT ![t] = PAnswer[t]]
  BY OnlyThis, Zenon
<1>2. PAsked = [u \in Threads |-> PAsked[u]] /\ PAnswer = [u \in Threads |-> PAnswer[u]]
  BY Zenon DEF PAsked, PAnswer
<1> HIDE DEF PAsked, PAnswer
<1> QED BY <1>1, <1>2

LEMMA EnterMaps ==
  ASSUME RouterInv, NEW t \in Threads, Enter(t)
  PROVE  Promise!Reply(t) \/ (sandbox' = sandbox /\ PAsked' = PAsked /\ PAnswer' = PAnswer)
<1> DEFINE clean == cleanPath(asked[t])
<1>1. pc[t] = "called" /\ pc[t] # "idle" /\ pc[t] \in {"called", "target"}  BY DEF Enter
<1>2. clean \in Seq(STRING)  BY <1>1, CleanAsked, Zenon DEF RouterInv
<1>3. CASE AtOnce(clean) # NoPath
  <2>1. Return(t, AtOnce(clean))  BY <1>3 DEF Enter
  <2>2. AtOnce(clean) = Promise!Answer(clean, sandbox)  BY <1>2, <1>3, AtOnceIs, Zenon
  <2> QED BY <1>1, <2>1, <2>2, ReturnMaps, Zenon
<1>4. CASE AtOnce(clean) = NoPath
  <2>1. pc' = [pc EXCEPT ![t] = "target"] /\ UNCHANGED <<sandbox, asked, answer>>
    BY <1>4 DEF Enter
  <2>2. ~Settled(t) /\ ~Settled(t)'  BY <1>1, <2>1 DEF Settled, RouterInv, Functions
  <2>3. asked' = asked /\ answer' = answer /\ sandbox' = sandbox  BY <2>1
  <2>4. PAsked'[t] = PAsked[t] /\ PAnswer'[t] = PAnswer[t]
    BY <2>2, <2>3, Zenon DEF PAsked, PAnswer
  <2>5. \A u \in Threads : u # t => pc'[u] = pc[u]  BY <2>1 DEF RouterInv, Functions
  <2> QED BY <2>3, <2>4, <2>5, Stutters, Zenon
<1> QED BY <1>3, <1>4

(* The look at the sandbox settles the answer, whatever it finds.          *)
LEMMA LookInSandboxMaps ==
  ASSUME RouterInv, NEW t \in Threads, LookInSandbox(t)
  PROVE  Promise!Reply(t)
<1> DEFINE clean == cleanPath(asked[t])
<1>1. /\ pc[t] = "target" /\ pc[t] # "idle" /\ pc[t] \in {"called", "target"}
      /\ pc[t] \in {"target", "clean"}
  BY DEF LookInSandbox
<1>2. asked[t] \in Seq(STRING) /\ asked[t] # <<>> /\ asked[t] # NoPath /\ clean \in Seq(STRING)
  BY <1>1, CleanAsked, Zenon DEF RouterInv, Idle
<1>3. AtOnce(clean) = NoPath  BY <1>1, Zenon DEF RouterInv, Looking
<1>4. Promise!Answer(clean, sandbox) =
        IF clean \in Host /\ Target(clean) \notin sandbox THEN clean ELSE Target(clean)
  BY <1>2, <1>3, LookIs, Zenon
<1>5. CASE Target(clean) \in sandbox
  <2>1. Return(t, Target(clean))  BY <1>5 DEF LookInSandbox
  <2>2. Target(clean) = Promise!Answer(clean, sandbox)  BY <1>4, <1>5, Zenon
  <2> QED BY <1>1, <2>1, <2>2, ReturnMaps, Zenon
<1>6. CASE Target(clean) \notin sandbox
  <2>1. pc' = [pc EXCEPT ![t] = "clean"] /\ UNCHANGED <<sandbox, asked, answer>>
    BY <1>6 DEF LookInSandbox
  <2>2. ~Settled(t) /\ Settled(t)'  BY <1>1, <2>1 DEF Settled, RouterInv, Functions
  <2>3. asked' = asked /\ answer' = answer /\ sandbox' = sandbox  BY <2>1
  <2>4. PAsked[t] = asked[t] /\ PAsked'[t] = NoPath  BY <2>2, Zenon DEF PAsked
  <2>5. PAnswer'[t] = IF clean \in Host THEN clean ELSE Target(clean)
    BY <2>2, <2>3, Zenon DEF PAnswer
  <2>6. PAnswer'[t] = Promise!Answer(clean, sandbox)  BY <1>4, <1>6, <2>5, Zenon
  <2>7. clean = Promise!Meant(asked[t])  BY <1>2, CleanIsMeant, Zenon
  <2>8. \A u \in Threads : u # t => pc'[u] = pc[u]  BY <2>1 DEF RouterInv, Functions
  <2>9. /\ PAsked' = [PAsked EXCEPT ![t] = NoPath]
        /\ PAnswer' = [PAnswer EXCEPT ![t] = Promise!Answer(Promise!Meant(PAsked[t]), sandbox)]
    BY <2>3, <2>4, <2>6, <2>7, <2>8, OnlyThis, Zenon
  <2> QED BY <1>2, <2>3, <2>4, <2>9, PromiseIs, Zenon
<1> QED BY <1>5, <1>6

LEMMA LookOnHostMaps ==
  ASSUME RouterInv, NEW t \in Threads, LookOnHost(t)
  PROVE  sandbox' = sandbox /\ PAsked' = PAsked /\ PAnswer' = PAnswer
<1> DEFINE clean == cleanPath(asked[t])
           path == IF clean \in Host THEN clean ELSE Target(clean)
<1>1. pc[t] = "clean" /\ Return(t, path)  BY DEF LookOnHost
<1> HIDE DEF path
<1>2. Settled(t) /\ ~Settled(t)'  BY <1>1 DEF Settled, Return, RouterInv, Functions
<1>3. asked'[t] = NoPath /\ answer'[t] = path /\ sandbox' = sandbox
  BY <1>1 DEF Return, RouterInv, Functions
<1>4. PAsked'[t] = PAsked[t]  BY <1>2, <1>3, Zenon DEF PAsked
<1>5. PAnswer'[t] = path  BY <1>2, <1>3, Zenon DEF PAnswer
<1>6. PAnswer[t] = path  BY <1>2, Zenon DEF PAnswer, path
<1>7. \A u \in Threads : u # t => pc'[u] = pc[u] /\ asked'[u] = asked[u] /\ answer'[u] = answer[u]
  BY <1>1 DEF Return, RouterInv, Functions
<1> QED BY <1>3, <1>4, <1>5, <1>6, <1>7, Stutters, Zenon

LEMMA NextMaps ==
  ASSUME RouterInv, [Next]_vars
  PROVE  Promise!Next \/ (sandbox' = sandbox /\ PAsked' = PAsked /\ PAnswer' = PAnswer)
<1>1. ASSUME pc' = pc, asked' = asked, answer' = answer PROVE PAsked' = PAsked /\ PAnswer' = PAnswer
  BY <1>1, Zenon DEF PAsked, PAnswer, Settled
<1>2. CASE UNCHANGED vars
  <2>1. sandbox' = sandbox /\ pc' = pc /\ asked' = asked /\ answer' = answer  BY <1>2 DEF vars
  <2> QED BY <1>1, <2>1, Zenon
<1>3. CASE FileChanges
  <2>1. sandbox' # sandbox /\ pc' = pc /\ asked' = asked /\ answer' = answer  BY <1>3 DEF FileChanges
  <2> QED BY <1>1, <2>1, PromiseIs, Zenon DEF Promise!Next
<1>4. CASE \E t \in Threads : \E path \in Paths : Call(t, path)
  BY <1>4, CallMaps, Zenon DEF Promise!Next
<1>5. CASE \E t \in Threads : Enter(t)
  BY <1>5, EnterMaps, Zenon DEF Promise!Next
<1>6. CASE \E t \in Threads : LookInSandbox(t)
  BY <1>6, LookInSandboxMaps, Zenon DEF Promise!Next
<1>7. CASE \E t \in Threads : LookOnHost(t)
  BY <1>7, LookOnHostMaps, Zenon
<1> QED BY <1>2, <1>3, <1>4, <1>5, <1>6, <1>7 DEF Next

(* VfsRouter implements PathRouter: every answer is the one that the most  *)
(* specific mount gives for the files of one moment of the call, for any   *)
(* paths, and however the threads and the files change in between.         *)
THEOREM MomentCorrect == Spec => AnswersOfOneMoment
<1>1. RouterInv /\ [Next]_vars =>
        [Promise!Next]_<<sandbox, PAsked, PAnswer>>
  BY NextMaps, Zenon
<1>2. Promise!Init /\ [][Promise!Next]_<<sandbox, PAsked, PAnswer>> => AnswersOfOneMoment
  BY PTL DEF AnswersOfOneMoment, Promise!Spec, PAsked, PAnswer
<1> QED BY InitMaps, InvCorrect, <1>1, <1>2, PTL DEF Spec
=============================================================================
