----------------------------- MODULE LockProofs -----------------------------
(***************************************************************************)
(* Proofs about Lock, for any number of threads and any depth of guards.   *)
(***************************************************************************)
EXTENDS Lock, FiniteSetTheorems, SequenceTheorems, TLAPS

Kinds == {"read", "write"}

(* A thread that is about to get a guard has room for it.                  *)
DepthOK ==
  \A t \in Threads :
    /\ Len(held[t]) <= MaxDepth
    /\ pc[t] \in {"writing", "counting", "adding", "reading", "swapping"}
         => Len(held[t]) < MaxDepth

(* What a thread's position says about the lock.                           *)
Positions ==
  \A t \in Threads :
    /\ pc[t] = "unlocking" => Innermost(t, "write")
    /\ pc[t] \in {"writing", "reading", "swapping"} => writer # t
    /\ pc[t] = "adding" => writer = t

(* The writer has begun as one, and nobody else holds a guard.             *)
WriterFirst ==
  \A t \in Threads : writer = t => held[t] = <<>> \/ held[t][1] = "write"
WriterAlone ==
  \A t, u \in Threads : t # u /\ writer = t => held[u] = <<>>

(* The inductive invariant.                                                *)
IInv ==
  /\ TypeOK
  /\ FlagCountsGuards
  /\ DepthOK
  /\ Positions
  /\ WriterFirst
  /\ WriterAlone

-----------------------------------------------------------------------------
(* There are finitely many guards of each kind.                            *)
LEMMA GuardsFinite ==
  ASSUME NEW kind
  PROVE  IsFiniteSet(Guards(kind)) /\ Cardinality(Guards(kind)) \in Nat
<1>1. IsFiniteSet(Threads \X (1 .. MaxDepth))
  <2>1. IsFiniteSet(1 .. MaxDepth)
    BY DepthAssumption, FS_Interval
  <2> QED
    BY <2>1, ThreadsAssumption, FS_Product
<1>2. Guards(kind) \in SUBSET (Threads \X (1 .. MaxDepth))
  BY DEF Guards
<1> QED
  BY <1>1, <1>2, FS_Subset, FS_CardinalityType

(* A guard that is made is counted once, among those of its kind.          *)
LEMMA HoldCounts ==
  ASSUME TypeOK, DepthOK, NEW t \in Threads, NEW kind \in Kinds,
         Len(held[t]) < MaxDepth, Hold(t, kind)
  PROVE  /\ Cardinality(Guards(kind)') = Cardinality(Guards(kind)) + 1
         /\ \A other \in Kinds \ {kind} : Guards(other)' = Guards(other)
<1> DEFINE g == <<t, Len(held[t]) + 1>>
<1>1. /\ held \in [Threads -> Seq(Kinds)]
      /\ held' = [held EXCEPT ![t] = Append(held[t], kind)]
  BY DEF TypeOK, Hold, Kinds
<1>2. g \in Threads \X (1 .. MaxDepth)
  BY <1>1, DepthAssumption
<1>3. ASSUME NEW other \in Kinds, NEW h \in Threads \X (1 .. MaxDepth)
      PROVE  h \in Guards(other)' <=> h \in Guards(other) \/ (h = g /\ other = kind)
  <2>1. PICK u \in Threads, i \in 1 .. MaxDepth : h = <<u, i>>
    BY <1>3
  <2>2. /\ h \in Guards(other) <=> i <= Len(held[u]) /\ held[u][i] = other
        /\ h \in Guards(other)' <=> i <= Len(held'[u]) /\ held'[u][i] = other
    BY <2>1 DEF Guards
  <2>3. CASE u = t
    <3>1. /\ held'[u] = Append(held[t], kind) /\ held[t] \in Seq(Kinds)
          /\ i \in Nat /\ i >= 1
      BY <2>3, <1>1, <2>1, DepthAssumption
    <3>2. /\ Len(held'[u]) = Len(held[t]) + 1
          /\ held'[u][Len(held[t]) + 1] = kind
          /\ i <= Len(held[t]) => held'[u][i] = held[t][i]
      BY <3>1
    <3>3. h = g <=> i = Len(held[t]) + 1
      BY <2>1, <2>3
    <3> QED
      BY <2>2, <2>3, <3>1, <3>2, <3>3
  <2>4. CASE u # t
    <3>1. held'[u] = held[u] /\ h # g
      BY <2>1, <2>4, <1>1
    <3> QED
      BY <2>2, <3>1
  <2> QED
    BY <2>3, <2>4
<1>4. \A other : /\ Guards(other) \in SUBSET (Threads \X (1 .. MaxDepth))
                 /\ Guards(other)' \in SUBSET (Threads \X (1 .. MaxDepth))
  BY DEF Guards
<1>5. \A other \in Kinds \ {kind} : Guards(other)' = Guards(other)
  BY <1>3, <1>4
<1>6. Guards(kind)' = Guards(kind) \cup {g}
  BY <1>2, <1>3, <1>4
<1>7. g \notin Guards(kind)
  BY <1>1 DEF Guards
<1>8. IsFiniteSet(Guards(kind))
  BY GuardsFinite
<1>9. Cardinality(Guards(kind) \cup {g}) = Cardinality(Guards(kind)) + 1
  BY <1>7, <1>8, FS_AddElement
<1> QED
  BY <1>5, <1>6, <1>9

(* What is left of a sequence without its last element.                    *)
LEMMA WithoutLast ==
  ASSUME NEW S, NEW q \in Seq(S), q # <<>>
  PROVE  LET r == SubSeq(q, 1, Len(q) - 1)
         IN  /\ r \in Seq(S)
             /\ Len(r) = Len(q) - 1
             /\ \A i \in 1 .. Len(q) - 1 : r[i] = q[i]
<1> DEFINE r == SubSeq(q, 1, Len(q) - 1)
<1>1. Len(q) \in Nat /\ Len(q) - 1 \in Nat
  OBVIOUS
<1>2. \A i \in 1 .. Len(q) - 1 : q[i] \in S
  BY <1>1
<1>3. /\ r \in Seq(S)
      /\ Len(r) = IF 1 <= Len(q) - 1 THEN (Len(q) - 1) - 1 + 1 ELSE 0
      /\ \A i \in 1 .. (Len(q) - 1) - 1 + 1 : r[i] = q[1 + i - 1]
  <2> HIDE DEF r
  <2> QED
    BY <1>1, <1>2, SubSeqProperties DEF r
<1> HIDE DEF r
<1>4. Len(r) = Len(q) - 1
  <2> DEFINE m == Len(q) - 1
  <2>1. m \in Nat /\ Len(r) = IF 1 <= m THEN m - 1 + 1 ELSE 0
    BY <1>1, <1>3
  <2> HIDE DEF m
  <2>2. Len(r) = m
    BY <2>1
  <2> QED
    BY <2>2 DEF m
<1>5. ASSUME NEW i \in 1 .. Len(q) - 1 PROVE r[i] = q[i]
  <2>1. i \in 1 .. (Len(q) - 1) - 1 + 1 /\ 1 + i - 1 = i
    BY <1>1
  <2> QED
    BY <1>3, <2>1
<1> QED
  BY <1>3, <1>4, <1>5 DEF r

(* A guard that is let go was counted once, among those of its kind.       *)
LEMMA LetGoCounts ==
  ASSUME TypeOK, DepthOK, NEW t \in Threads, NEW kind \in Kinds,
         Innermost(t, kind), LetGo(t)
  PROVE  /\ Cardinality(Guards(kind)) \in Nat \ {0}
         /\ Cardinality(Guards(kind)') = Cardinality(Guards(kind)) - 1
         /\ \A other \in Kinds \ {kind} : Guards(other)' = Guards(other)
<1> DEFINE g == <<t, Len(held[t])>>
<1>1. /\ held \in [Threads -> Seq(Kinds)]
      /\ held' = [held EXCEPT ![t] = SubSeq(held[t], 1, Len(held[t]) - 1)]
      /\ held[t] # <<>> /\ held[t][Len(held[t])] = kind
      /\ Len(held[t]) \in Nat \ {0}
      /\ Len(held[t]) <= MaxDepth
  BY DEF TypeOK, LetGo, Kinds, Innermost, DepthOK
<1>2. g \in Threads \X (1 .. MaxDepth)
  BY <1>1, DepthAssumption
<1>3. ASSUME NEW other \in Kinds, NEW h \in Threads \X (1 .. MaxDepth)
      PROVE  h \in Guards(other)' <=> h \in Guards(other) /\ ~(h = g /\ other = kind)
  <2>1. PICK u \in Threads, i \in 1 .. MaxDepth : h = <<u, i>>
    BY <1>3
  <2>2. /\ h \in Guards(other) <=> i <= Len(held[u]) /\ held[u][i] = other
        /\ h \in Guards(other)' <=> i <= Len(held'[u]) /\ held'[u][i] = other
    BY <2>1 DEF Guards
  <2>3. CASE u = t
    <3>1. /\ held'[u] = SubSeq(held[t], 1, Len(held[t]) - 1)
          /\ held[t] \in Seq(Kinds)
          /\ i \in Nat /\ i >= 1
      BY <2>3, <1>1, <2>1, DepthAssumption
    <3>2. /\ Len(held'[u]) = Len(held[t]) - 1
          /\ i <= Len(held[t]) - 1 => held'[u][i] = held[t][i]
      BY <3>1, <1>1, WithoutLast
    <3>3. h = g <=> i = Len(held[t])
      BY <2>1, <2>3
    <3> QED
      BY <1>1, <2>2, <2>3, <3>1, <3>2, <3>3
  <2>4. CASE u # t
    <3>1. held'[u] = held[u] /\ h # g
      BY <2>1, <2>4, <1>1
    <3> QED
      BY <2>2, <3>1
  <2> QED
    BY <2>3, <2>4
<1>4. \A other : /\ Guards(other) \in SUBSET (Threads \X (1 .. MaxDepth))
                 /\ Guards(other)' \in SUBSET (Threads \X (1 .. MaxDepth))
  BY DEF Guards
<1>5. \A other \in Kinds \ {kind} : Guards(other)' = Guards(other)
  BY <1>3, <1>4
<1>6. Guards(kind)' = Guards(kind) \ {g}
  BY <1>2, <1>3, <1>4
<1>7. g \in Guards(kind)
  BY <1>1, <1>2 DEF Guards
<1>8. IsFiniteSet(Guards(kind)) /\ Cardinality(Guards(kind)) \in Nat
  BY GuardsFinite
<1>9. Cardinality(Guards(kind)) # 0
  BY <1>7, <1>8, FS_EmptySet
<1>10. Cardinality(Guards(kind) \ {g}) = Cardinality(Guards(kind)) - 1
  BY <1>7, <1>8, FS_RemoveElement
<1> QED
  BY <1>5, <1>6, <1>8, <1>9, <1>10

(* There are no guards of a kind when, and only when, nobody holds one.    *)
LEMMA NoGuards ==
  ASSUME NEW h \in [Threads -> Seq(Kinds)], NEW kind,
         \A u \in Threads : Len(h[u]) <= MaxDepth
  PROVE  {g \in Threads \X (1 .. MaxDepth) :
            g[2] <= Len(h[g[1]]) /\ h[g[1]][g[2]] = kind} = {}
         <=> \A u \in Threads : \A i \in DOMAIN h[u] : h[u][i] # kind
<1> DEFINE G == {g \in Threads \X (1 .. MaxDepth) :
                   g[2] <= Len(h[g[1]]) /\ h[g[1]][g[2]] = kind}
<1>1. ASSUME NEW u \in Threads, NEW i \in DOMAIN h[u], h[u][i] = kind
      PROVE  <<u, i>> \in G
  <2>1. h[u] \in Seq(Kinds) /\ Len(h[u]) \in Nat /\ Len(h[u]) <= MaxDepth
    OBVIOUS
  <2>2. i \in 1 .. MaxDepth /\ i <= Len(h[u])
    BY <2>1, DepthAssumption
  <2> QED
    BY <1>1, <2>2
<1>2. ASSUME NEW g \in G
      PROVE  \E u \in Threads : \E i \in DOMAIN h[u] : h[u][i] = kind
  <2>1. PICK u \in Threads, i \in 1 .. MaxDepth : g = <<u, i>>
    OBVIOUS
  <2>2. i <= Len(h[u]) /\ h[u][i] = kind /\ h[u] \in Seq(Kinds)
    BY <2>1
  <2>3. i \in DOMAIN h[u]
    BY <2>1, <2>2, DepthAssumption
  <2> QED
    BY <2>2, <2>3
<1> HIDE DEF G
<1>3. G = {} <=> \A u \in Threads : \A i \in DOMAIN h[u] : h[u][i] # kind
  BY <1>1, <1>2
<1> QED
  BY <1>3 DEF G

(* Who holds what after a guard has been made or let go.                   *)
LEMMA HoldHolds ==
  ASSUME TypeOK, NEW t \in Threads, NEW kind \in Kinds, Hold(t, kind)
  PROVE  /\ held' \in [Threads -> Seq(Kinds)]
         /\ Len(held'[t]) = Len(held[t]) + 1
         /\ \A k : Holds(t, k)' <=> Holds(t, k) \/ k = kind
         /\ held[t] # <<>> => held'[t][1] = held[t][1]
         /\ held[t] = <<>> => held'[t][1] = kind
         /\ \A u \in Threads \ {t} : held'[u] = held[u]
<1>1. /\ held \in [Threads -> Seq(Kinds)]
      /\ held' = [held EXCEPT ![t] = Append(held[t], kind)]
  BY DEF TypeOK, Hold, Kinds
<1> DEFINE q == held[t]
<1>2. q \in Seq(Kinds) /\ held'[t] = Append(q, kind) /\ Len(q) \in Nat
  BY <1>1
<1>3. /\ Len(held'[t]) = Len(q) + 1
      /\ held'[t][Len(q) + 1] = kind
      /\ \A i \in 1 .. Len(q) : held'[t][i] = q[i]
      /\ DOMAIN held'[t] = 1 .. Len(q) + 1
      /\ DOMAIN q = 1 .. Len(q)
  BY <1>2
<1>4. \A k : Holds(t, k)' <=> Holds(t, k) \/ k = kind
  <2> SUFFICES ASSUME NEW k PROVE Holds(t, k)' <=> Holds(t, k) \/ k = kind
    OBVIOUS
  <2>1. Holds(t, k)' <=> \E i \in 1 .. Len(q) + 1 : held'[t][i] = k
    BY <1>3 DEF Holds
  <2>2. Holds(t, k) <=> \E i \in 1 .. Len(q) : q[i] = k
    BY <1>3 DEF Holds
  <2>3. 1 .. Len(q) + 1 = (1 .. Len(q)) \cup {Len(q) + 1}
    BY <1>2
  <2> QED
    BY <1>3, <2>1, <2>2, <2>3
<1>5. /\ q # <<>> => held'[t][1] = q[1]
      /\ q = <<>> => held'[t][1] = kind
  BY <1>2, <1>3
<1> QED
  BY <1>1, <1>2, <1>3, <1>4, <1>5

(* The destructor of a guard takes away the innermost one and no other.    *)
LEMMA LetGoHolds ==
  ASSUME TypeOK, NEW t \in Threads, NEW kind \in Kinds,
         Innermost(t, kind), LetGo(t)
  PROVE  /\ held' \in [Threads -> Seq(Kinds)]
         /\ Len(held'[t]) = Len(held[t]) - 1
         /\ \A k : Holds(t, k)' => Holds(t, k)
         /\ \A k : Holds(t, k) /\ k # kind => Holds(t, k)'
         /\ held'[t] # <<>> => held'[t][1] = held[t][1]
         /\ \A u \in Threads \ {t} : held'[u] = held[u]
<1> DEFINE q == held[t]  r == held'[t]
<1>1. /\ held \in [Threads -> Seq(Kinds)]
      /\ held' = [held EXCEPT ![t] = SubSeq(held[t], 1, Len(held[t]) - 1)]
      /\ q # <<>> /\ q[Len(q)] = kind
  BY DEF TypeOK, LetGo, Kinds, Innermost
<1>2. /\ q \in Seq(Kinds) /\ Len(q) \in Nat \ {0}
      /\ r = SubSeq(q, 1, Len(q) - 1)
  BY <1>1
<1>3. /\ r \in Seq(Kinds) /\ Len(r) = Len(q) - 1
      /\ \A i \in 1 .. Len(q) - 1 : r[i] = q[i]
  BY <1>1, <1>2, WithoutLast
<1>4. DOMAIN r = 1 .. Len(q) - 1 /\ DOMAIN q = 1 .. Len(q)
  BY <1>2, <1>3
<1>5. ASSUME NEW k
      PROVE  /\ Holds(t, k)' <=> \E i \in 1 .. Len(q) - 1 : r[i] = k
             /\ Holds(t, k) <=> \E i \in 1 .. Len(q) : q[i] = k
  BY <1>4 DEF Holds
<1>6. 1 .. Len(q) = (1 .. Len(q) - 1) \cup {Len(q)}
  BY <1>2
<1>7. ASSUME NEW k
      PROVE  /\ Holds(t, k)' => Holds(t, k)
             /\ Holds(t, k) /\ k # kind => Holds(t, k)'
  BY <1>1, <1>3, <1>5, <1>6
<1>8. r # <<>> => r[1] = q[1]
  BY <1>2, <1>3
<1> QED
  BY <1>1, <1>3, <1>7, <1>8

-----------------------------------------------------------------------------
(* An empty flag means that nobody holds a guard.                          *)
LEMMA EmptyIsFree ==
  ASSUME IInv, Empty
  PROVE  /\ \A u \in Threads : held[u] = <<>>
         /\ Cardinality(Guards("write")) = 0
<1>1. /\ held \in [Threads -> Seq(Kinds)]
      /\ \A u \in Threads : Len(held[u]) <= MaxDepth
      /\ writer = None /\ Cardinality(Guards("read")) = 0
  BY DEF IInv, TypeOK, Kinds, DepthOK, Empty, FlagCountsGuards
<1>2. Guards("read") = {}
  BY <1>1, GuardsFinite, FS_EmptySet
<1>3. \A u \in Threads : \A i \in DOMAIN held[u] : held[u][i] # "read"
  BY <1>1, <1>2, NoGuards DEF Guards
<1>4. \A u \in Threads : \A i \in DOMAIN held[u] : held[u][i] # "write"
  BY <1>1, ThreadsAssumption DEF IInv, FlagCountsGuards, Holds
<1>5. \A u \in Threads : held[u] = <<>>
  <2> SUFFICES ASSUME NEW u \in Threads, held[u] # <<>> PROVE FALSE
    OBVIOUS
  <2>1. 1 \in DOMAIN held[u] /\ held[u][1] \in Kinds
    BY <1>1
  <2> QED
    BY <1>3, <1>4, <2>1 DEF Kinds
<1>6. Guards("write") = {}
  BY <1>1, <1>4, NoGuards DEF Guards
<1> QED
  BY <1>5, <1>6, FS_EmptySet

(* The writer's last write guard is its only guard.                        *)
LEMMA LastIsOnly ==
  ASSUME IInv, NEW t \in Threads, writer = t, Innermost(t, "write"),
         Cardinality(Guards("write")) = 1
  PROVE  held[t] = <<"write">>
<1> DEFINE q == held[t]
<1>1. /\ q \in Seq(Kinds) /\ q # <<>> /\ Len(q) \in 1 .. MaxDepth
      /\ q[1] = "write" /\ q[Len(q)] = "write"
  BY DepthAssumption
     DEF IInv, TypeOK, Kinds, DepthOK, Innermost, WriterFirst
<1>2. <<t, 1>> \in Guards("write") /\ <<t, Len(q)>> \in Guards("write")
  BY <1>1, DepthAssumption DEF Guards
<1>3. \E x : Guards("write") = {x}
  BY GuardsFinite, FS_Singleton
<1>4. <<t, 1>> = <<t, Len(q)>>
  <2>1. PICK x : Guards("write") = {x}
    BY <1>3
  <2>2. <<t, 1>> \in {x} /\ <<t, Len(q)>> \in {x}
    BY <1>2, <2>1
  <2> QED
    BY <2>2
<1> QED
  BY <1>1, <1>4

-----------------------------------------------------------------------------
(* The lock begins empty, and no thread holds a guard.                     *)
LEMMA InitIInv == Init => IInv
<1> SUFFICES ASSUME Init PROVE IInv
  OBVIOUS
<1>1. TypeOK
  <2>1. <<>> \in Seq(Kinds)
    OBVIOUS
  <2> QED
    BY <2>1 DEF Init, TypeOK, Kinds
<1>2. DepthOK /\ Positions /\ WriterFirst /\ WriterAlone
  BY DepthAssumption DEF Init, DepthOK, Positions, WriterFirst, WriterAlone
<1>3. Guards("read") = {}
  BY DepthAssumption DEF Init, Guards
<1>4. FlagCountsGuards
  <2>1. readers = Cardinality(Guards("read"))
    BY <1>3, FS_EmptySet DEF Init
  <2>2. \A t \in Threads : writer # t /\ ~Holds(t, "write") /\ pc[t] = "idle"
    BY ThreadsAssumption DEF Init, Holds
  <2> QED
    BY <2>1, <2>2 DEF FlagCountsGuards, Init
<1> QED
  BY <1>1, <1>2, <1>4 DEF IInv

(* Steps that make and unmake no guard keep what is said of guards.        *)
LEMMA SameGuards ==
  ASSUME UNCHANGED held
  PROVE  /\ \A kind : Guards(kind)' = Guards(kind)
         /\ \A t, kind : Holds(t, kind)' <=> Holds(t, kind)
         /\ \A t, kind : Innermost(t, kind)' <=> Innermost(t, kind)
BY DEF Guards, Holds, Innermost

(* The steps of WriteLock keep the invariant.                              *)
LEMMA WriteLockIInv ==
  ASSUME IInv, NEW t \in Threads,
         BeginWrite(t) \/ SwapWrite(t) \/ CountWrite(t)
  PROVE  IInv'
<1> USE DEF IInv
<1>1. CASE BeginWrite(t)
  <2>1. TypeOK' /\ DepthOK' /\ WriterFirst' /\ WriterAlone'
    BY <1>1 DEF BeginWrite, GoTo, TypeOK, DepthOK, WriterFirst, WriterAlone
  <2>2. Positions'
    BY <1>1, SameGuards DEF BeginWrite, GoTo, TypeOK, Positions
  <2>3. FlagCountsGuards'
    BY <1>1, SameGuards DEF BeginWrite, GoTo, TypeOK, FlagCountsGuards
  <2> QED
    BY <2>1, <2>2, <2>3
<1>2. CASE SwapWrite(t)
  <2>1. \A u \in Threads : held[u] = <<>> /\ held'[u] = <<>>
    BY <1>2, EmptyIsFree DEF SwapWrite
  <2>2. TypeOK' /\ DepthOK' /\ WriterFirst' /\ WriterAlone'
    BY <1>2, <2>1
       DEF SwapWrite, GoTo, TypeOK, DepthOK, WriterFirst, WriterAlone
  <2>3. Positions'
    BY <1>2, <2>1, SameGuards, ThreadsAssumption
       DEF SwapWrite, GoTo, TypeOK, Positions, Empty, Innermost
  <2>4. \A u, kind : u \in Threads => ~Holds(u, kind)
    BY <2>1 DEF Holds
  <2>5. /\ Cardinality(Guards("write")) = 0 /\ writeCount = 0
        /\ \A u \in Threads : pc[u] \notin {"counting", "emptying"}
    BY <1>2, <2>1, EmptyIsFree, ThreadsAssumption
       DEF SwapWrite, Empty, FlagCountsGuards
  <2>6. FlagCountsGuards'
    BY <1>2, <2>4, <2>5, SameGuards, ThreadsAssumption
       DEF SwapWrite, GoTo, TypeOK, FlagCountsGuards
  <2> QED
    BY <2>2, <2>3, <2>6
<1>3. CASE CountWrite(t)
  <2>1. /\ Hold(t, "write") /\ writer = t /\ pc[t] = "counting"
        /\ Len(held[t]) < MaxDepth
        /\ pc' = [pc EXCEPT ![t] = "idle"]
        /\ writeCount' = writeCount + 1
        /\ UNCHANGED <<writer, readers, expected>>
    BY <1>3 DEF CountWrite, GoTo, FlagCountsGuards, DepthOK
  <2>2. /\ Cardinality(Guards("write")') = Cardinality(Guards("write")) + 1
        /\ Guards("read")' = Guards("read")
    BY <2>1, HoldCounts DEF Kinds
  <2>3. /\ held' \in [Threads -> Seq(Kinds)]
        /\ Len(held'[t]) = Len(held[t]) + 1
        /\ Holds(t, "write")'
        /\ held'[t][1] = "write"
        /\ \A u \in Threads \ {t} : held'[u] = held[u]
    BY <2>1, HoldHolds DEF Kinds, WriterFirst
  <2>4. TypeOK'
    <3>1. held' \in [Threads -> Seq({"read", "write"})]
      BY <2>3 DEF Kinds
    <3>2. pc' \in [Threads -> {"idle", "writing", "counting", "unlocking",
                               "emptying", "adding", "reading", "swapping"}]
      BY <2>1 DEF TypeOK
    <3>3. writeCount' \in Nat
      BY <2>1 DEF TypeOK
    <3> QED
      BY <2>1, <3>1, <3>2, <3>3 DEF TypeOK
  <2>5. DepthOK' /\ WriterFirst' /\ WriterAlone'
    BY <2>1, <2>3, DepthAssumption
       DEF TypeOK, DepthOK, WriterFirst, WriterAlone
  <2>6. Positions'
    BY <2>1, <2>3 DEF TypeOK, Positions, Innermost
  <2>7. \A u \in Threads \ {t} : Holds(u, "write")' <=> Holds(u, "write")
    BY <2>3 DEF Holds
  <2>8. FlagCountsGuards'
    <3>1. readers' = Cardinality(Guards("read")') /\ writer' = t /\ t # None
      BY <2>1, <2>2, ThreadsAssumption DEF FlagCountsGuards
    <3>2. writeCount' = Cardinality(Guards("write")')
      BY <2>1, <2>2 DEF FlagCountsGuards
    <3>3. \A u \in Threads :
            writer' = u <=> Holds(u, "write")' \/ pc'[u] = "counting"
      BY <2>1, <2>3, <2>7 DEF TypeOK, FlagCountsGuards
    <3>4. \A u \in Threads \ {t} : held[u] = <<>>
      BY <2>1 DEF WriterAlone
    <3>5. \A u \in Threads : pc'[u] # "emptying"
      <4>1. ASSUME NEW u \in Threads, pc[u] = "emptying"
            PROVE  held[u] # <<>>
        <5>1. held[u] = <<"write">>
          BY <4>1 DEF FlagCountsGuards
        <5> QED
          BY <5>1
      <4> QED
        BY <2>1, <3>4, <4>1 DEF TypeOK
    <3> QED
      BY <3>1, <3>2, <3>3, <3>5 DEF FlagCountsGuards
  <2> QED
    BY <2>4, <2>5, <2>6, <2>8
<1> QED
  BY <1>1, <1>2, <1>3

(* Only the writer is on its way out of the lock, and it is not also on    *)
(* its way in.                                                             *)
LEMMA OneAtTheFlag ==
  ASSUME IInv, NEW t \in Threads, writer = t
  PROVE  \A u \in Threads \ {t} :
           /\ held[u] = <<>> /\ ~Holds(u, "write")
           /\ pc[u] \notin {"counting", "adding", "unlocking", "emptying"}
<1> USE DEF IInv
<1> SUFFICES ASSUME NEW u \in Threads \ {t}
             PROVE  /\ held[u] = <<>> /\ ~Holds(u, "write")
                    /\ pc[u] \notin {"counting", "adding", "unlocking", "emptying"}
  OBVIOUS
<1>1. held[u] = <<>>
  BY DEF WriterAlone
<1>2. pc[u] # "emptying"
  <2>1. pc[u] = "emptying" => held[u] # <<>>
    BY DEF FlagCountsGuards
  <2> QED
    BY <1>1, <2>1
<1>3. pc[u] # "unlocking"
  BY <1>1 DEF Positions, Innermost
<1>4. pc[u] \notin {"counting", "adding"} /\ ~Holds(u, "write")
  BY DEF FlagCountsGuards, Positions
<1> QED
  BY <1>1, <1>2, <1>3, <1>4

(* The steps of WriteUnlock keep the invariant.                            *)
LEMMA WriteUnlockIInv ==
  ASSUME IInv, NEW t \in Threads,
         BeginWriteUnlock(t) \/ CountDown(t) \/ StoreEmpty(t)
  PROVE  IInv'
<1> USE DEF IInv
<1>1. CASE BeginWriteUnlock(t)
  <2>1. TypeOK' /\ DepthOK' /\ WriterFirst' /\ WriterAlone'
    BY <1>1
       DEF BeginWriteUnlock, GoTo, TypeOK, DepthOK, WriterFirst, WriterAlone
  <2>2. Positions'
    BY <1>1, SameGuards DEF BeginWriteUnlock, GoTo, TypeOK, Positions
  <2>3. FlagCountsGuards'
    BY <1>1, SameGuards DEF BeginWriteUnlock, GoTo, TypeOK, FlagCountsGuards
  <2> QED
    BY <2>1, <2>2, <2>3
<1>2. CASE CountDown(t)
  <2>1. /\ pc[t] = "unlocking" /\ Innermost(t, "write")
        /\ writeCount' = writeCount - 1
        /\ UNCHANGED <<writer, readers, expected>>
    BY <1>2 DEF CountDown, Positions
  <2>2. held[t] # <<>> /\ Holds(t, "write")
    <3>1. held[t] # <<>> /\ held[t] \in Seq(Kinds)
                         /\ held[t][Len(held[t])] = "write"
      BY <2>1 DEF Innermost, TypeOK, Kinds
    <3>2. Len(held[t]) \in DOMAIN held[t]
      BY <3>1
    <3> QED
      BY <3>1, <3>2 DEF Holds
  <2>3. writer = t /\ writeCount = Cardinality(Guards("write"))
    BY <2>1, <2>2 DEF FlagCountsGuards
  <2>4. CASE LastUnlock
    <3>1. /\ writeCount = 1 /\ writeCount' = 0
          /\ pc' = [pc EXCEPT ![t] = "emptying"] /\ held' = held
      BY <1>2, <2>1, <2>4 DEF CountDown, LastUnlock, GoTo
    <3>2. held[t] = <<"write">>
      BY <2>1, <2>3, <3>1, LastIsOnly
    <3>3. TypeOK' /\ DepthOK' /\ WriterFirst' /\ WriterAlone'
      BY <2>1, <3>1 DEF TypeOK, DepthOK, WriterFirst, WriterAlone
    <3>4. Positions'
      BY <2>1, <3>1, SameGuards DEF TypeOK, Positions
    <3>5. FlagCountsGuards'
      BY <2>1, <2>2, <2>3, <3>1, <3>2, OneAtTheFlag, SameGuards, ThreadsAssumption
         DEF TypeOK, FlagCountsGuards
    <3> QED
      BY <3>3, <3>4, <3>5
  <2>5. CASE ~LastUnlock
    <3>1. /\ writeCount # 1 /\ pc' = [pc EXCEPT ![t] = "idle"] /\ LetGo(t)
      BY <1>2, <2>5 DEF CountDown, LastUnlock, GoTo
    <3>2. /\ Cardinality(Guards("write")) \in Nat \ {0}
          /\ Cardinality(Guards("write")') = Cardinality(Guards("write")) - 1
          /\ Guards("read")' = Guards("read")
      BY <2>1, <3>1, LetGoCounts DEF Kinds
    <3>3. /\ held' \in [Threads -> Seq(Kinds)]
          /\ Len(held'[t]) = Len(held[t]) - 1
          /\ held'[t] # <<>> => held'[t][1] = held[t][1]
          /\ \A u \in Threads \ {t} : held'[u] = held[u]
      BY <2>1, <3>1, LetGoHolds DEF Kinds
    <3>4. TypeOK'
      <4>1. held' \in [Threads -> Seq({"read", "write"})]
        BY <3>3 DEF Kinds
      <4>2. pc' \in [Threads -> {"idle", "writing", "counting", "unlocking",
                                 "emptying", "adding", "reading", "swapping"}]
        BY <3>1 DEF TypeOK
      <4>3. writeCount' \in Nat
        BY <2>1, <2>3, <3>2
      <4> QED
        BY <2>1, <4>1, <4>2, <4>3 DEF TypeOK
    <3>5. DepthOK' /\ WriterFirst' /\ WriterAlone'
      <4>1. Len(held[t]) \in Nat /\ pc'[t] = "idle"
            /\ \A u \in Threads \ {t} : pc'[u] = pc[u]
        BY <3>1 DEF TypeOK
      <4>2. DepthOK'
        BY <3>3, <4>1, DepthAssumption DEF DepthOK
      <4>3. WriterFirst' /\ WriterAlone'
        BY <2>1, <2>2, <2>3, <3>3 DEF WriterFirst, WriterAlone
      <4> QED
        BY <4>2, <4>3
    <3>6. Positions'
      BY <2>1, <3>1, <3>3 DEF TypeOK, Positions, Innermost
    <3>7. Holds(t, "write")'
      <4>1. Cardinality(Guards("write")') # 0
        BY <2>3, <3>1, <3>2
      <4>2. Guards("write")' # {}
        BY <4>1, FS_EmptySet
      <4>3. \A u \in Threads : Len(held'[u]) <= MaxDepth
        BY <3>5 DEF DepthOK
      <4>4. \E u \in Threads : \E i \in DOMAIN held'[u] : held'[u][i] = "write"
        BY <3>3, <4>2, <4>3, NoGuards DEF Guards
      <4>5. \A u \in Threads \ {t} : held'[u] = <<>>
        BY <2>3, <3>3, OneAtTheFlag
      <4> QED
        BY <4>4, <4>5 DEF Holds
    <3>8. FlagCountsGuards'
      <4>1. readers' = Cardinality(Guards("read")') /\ writer' = t /\ t # None
        BY <2>1, <2>3, <3>2, ThreadsAssumption DEF FlagCountsGuards
      <4>2. writeCount' = Cardinality(Guards("write")')
        BY <2>1, <2>3, <3>2
      <4>3. \A u \in Threads \ {t} : ~Holds(u, "write")'
        BY <2>3, <3>3, OneAtTheFlag DEF Holds
      <4>4. \A u \in Threads : pc'[u] \notin {"counting", "emptying"}
        BY <2>3, <3>1, OneAtTheFlag DEF TypeOK
      <4> QED
        BY <3>7, <4>1, <4>2, <4>3, <4>4 DEF FlagCountsGuards
    <3> QED
      BY <3>4, <3>5, <3>6, <3>8
  <2> QED
    BY <2>4, <2>5
<1>3. CASE StoreEmpty(t)
  <2>1. /\ pc[t] = "emptying" /\ LetGo(t) /\ writer' = None /\ readers' = 0
        /\ pc' = [pc EXCEPT ![t] = "idle"]
        /\ UNCHANGED <<writeCount, expected>>
    BY <1>3 DEF StoreEmpty, GoTo
  <2>2. held[t] = <<"write">> /\ writeCount = 0
    BY <2>1 DEF FlagCountsGuards
  <2>3. Innermost(t, "write") /\ Holds(t, "write") /\ writer = t
    <3>1. Innermost(t, "write") /\ Holds(t, "write")
      BY <2>2 DEF Innermost, Holds
    <3> QED
      BY <3>1 DEF FlagCountsGuards
  <2>4. /\ held' \in [Threads -> Seq(Kinds)]
        /\ Len(held'[t]) = Len(held[t]) - 1
        /\ \A u \in Threads \ {t} : held'[u] = held[u]
    BY <2>1, <2>3, LetGoHolds DEF Kinds
  <2>5. \A u \in Threads : held'[u] = <<>>
    <3>1. held'[t] = <<>>
      BY <2>2, <2>4
    <3> QED
      BY <2>3, <2>4, <3>1, OneAtTheFlag
  <2>6. /\ \A u \in Threads \ {t} :
             pc'[u] = pc[u]
             /\ pc[u] \notin {"counting", "adding", "unlocking", "emptying"}
        /\ pc'[t] = "idle"
    BY <2>1, <2>3, OneAtTheFlag DEF TypeOK
  <2>7. TypeOK'
    <3>1. held' \in [Threads -> Seq({"read", "write"})]
      BY <2>4 DEF Kinds
    <3> QED
      BY <2>1, <3>1 DEF TypeOK
  <2>8. DepthOK' /\ Positions' /\ WriterFirst' /\ WriterAlone'
    <3>1. DepthOK'
      BY <2>5, <2>6, DepthAssumption DEF DepthOK
    <3>2. Positions'
      BY <2>1, <2>6, ThreadsAssumption DEF Positions
    <3> QED
      BY <2>1, <2>5, <3>1, <3>2 DEF WriterFirst, WriterAlone
  <2>9. FlagCountsGuards'
    <3>1. \A u \in Threads : Len(held'[u]) <= MaxDepth
      BY <2>5, DepthAssumption
    <3>2. Guards("read")' = {}
      BY <2>4, <2>5, <3>1, NoGuards DEF Guards
    <3>3. \A u \in Threads : ~Holds(u, "write")'
      BY <2>5 DEF Holds
    <3>4. readers' = Cardinality(Guards("read")')
      BY <2>1, <3>2, FS_EmptySet
    <3> QED
      BY <2>1, <2>2, <2>6, <3>3, <3>4, ThreadsAssumption DEF FlagCountsGuards
  <2> QED
    BY <2>7, <2>8, <2>9
<1> QED
  BY <1>1, <1>2, <1>3

(* The steps of ReadLock and ReadUnlock keep the invariant.                *)
LEMMA ReadIInv ==
  ASSUME IInv, NEW t \in Threads,
         \/ BeginRead(t) \/ LoadReaders(t) \/ RetryRead(t)
         \/ AddRead(t) \/ SwapRead(t) \/ ReadUnlock(t)
  PROVE  IInv'
<1> USE DEF IInv
<1>1. CASE BeginRead(t) \/ LoadReaders(t) \/ RetryRead(t)
  <2> USE DEF BeginRead, LoadReaders, RetryRead, GoTo
  <2>1. TypeOK' /\ DepthOK' /\ WriterFirst' /\ WriterAlone'
    BY <1>1 DEF TypeOK, DepthOK, WriterFirst, WriterAlone
  <2>2. Positions'
    BY <1>1, SameGuards DEF TypeOK, Positions
  <2>3. FlagCountsGuards'
    BY <1>1, SameGuards DEF TypeOK, FlagCountsGuards
  <2> QED
    BY <2>1, <2>2, <2>3
<1>2. CASE AddRead(t) \/ SwapRead(t)
  <2>1. /\ Hold(t, "read") /\ Len(held[t]) < MaxDepth
        /\ pc[t] \in {"adding", "swapping"}
        /\ pc' = [pc EXCEPT ![t] = "idle"]
        /\ readers' = readers + 1
        /\ UNCHANGED <<writer, writeCount, expected>>
    BY <1>2 DEF AddRead, SwapRead, GoTo, DepthOK
  <2>2. \/ writer = t /\ held[t] # <<>> /\ pc[t] = "adding"
        \/ writer = None
    <3>1. pc[t] = "adding" => writer = t /\ Holds(t, "write")
      BY DEF Positions, FlagCountsGuards
    <3>2. Holds(t, "write") => held[t] # <<>>
      BY DEF Holds
    <3> QED
      BY <1>2, <3>1, <3>2 DEF AddRead, SwapRead, Unchanged
  <2>3. /\ Cardinality(Guards("read")') = Cardinality(Guards("read")) + 1
        /\ Guards("write")' = Guards("write")
    BY <2>1, HoldCounts DEF Kinds
  <2>4. /\ held' \in [Threads -> Seq(Kinds)]
        /\ Len(held'[t]) = Len(held[t]) + 1
        /\ Holds(t, "write")' <=> Holds(t, "write")
        /\ held[t] # <<>> => held'[t][1] = held[t][1]
        /\ \A u \in Threads \ {t} : held'[u] = held[u]
    BY <2>1, HoldHolds DEF Kinds
  <2>5. TypeOK'
    <3>1. held' \in [Threads -> Seq({"read", "write"})]
      BY <2>4 DEF Kinds
    <3>2. pc' \in [Threads -> {"idle", "writing", "counting", "unlocking",
                               "emptying", "adding", "reading", "swapping"}]
      BY <2>1 DEF TypeOK
    <3>3. readers' \in Nat
      BY <2>1 DEF TypeOK
    <3> QED
      BY <2>1, <3>1, <3>2, <3>3 DEF TypeOK
  <2>6. DepthOK'
    BY <2>1, <2>4, DepthAssumption DEF TypeOK, DepthOK
  <2>7. Positions'
    BY <2>1, <2>4 DEF TypeOK, Positions, Innermost
  <2>8. WriterFirst' /\ WriterAlone'
    BY <2>1, <2>2, <2>4, ThreadsAssumption DEF WriterFirst, WriterAlone
  <2>9. FlagCountsGuards'
    <3>1. readers' = Cardinality(Guards("read")')
      BY <2>1, <2>3 DEF FlagCountsGuards
    <3>2. \A u \in Threads : Holds(u, "write")' <=> Holds(u, "write")
      BY <2>4 DEF Holds
    <3>3. \A u \in Threads :
            writer' = u <=> Holds(u, "write")' \/ pc'[u] = "counting"
      BY <2>1, <3>2 DEF TypeOK, FlagCountsGuards
    <3>4. \A u \in Threads : pc'[u] # "emptying" <=> pc[u] # "emptying"
      BY <2>1 DEF TypeOK
    <3>5. ASSUME NEW u \in Threads, pc'[u] = "emptying"
          PROVE  writeCount' = 0 /\ held'[u] = <<"write">>
      BY <2>1, <2>4, <3>4, <3>5 DEF FlagCountsGuards
    <3>6. ASSUME NEW u \in Threads, pc'[u] # "emptying", writer' = u
          PROVE  writeCount' = Cardinality(Guards("write")')
      BY <2>1, <2>3, <3>4, <3>6 DEF FlagCountsGuards
    <3>7. writer' = None => writeCount' = 0
      BY <2>1 DEF FlagCountsGuards
    <3> QED
      BY <3>1, <3>3, <3>5, <3>6, <3>7 DEF FlagCountsGuards
  <2> QED
    BY <2>5, <2>6, <2>7, <2>8, <2>9
<1>3. CASE ReadUnlock(t)
  <2>1. /\ pc[t] = "idle" /\ Innermost(t, "read") /\ LetGo(t)
        /\ readers' = readers - 1
        /\ UNCHANGED <<writer, writeCount, pc, expected>>
    BY <1>3 DEF ReadUnlock, OneReaderLess
  <2>2. /\ Cardinality(Guards("read")) \in Nat \ {0}
        /\ Cardinality(Guards("read")') = Cardinality(Guards("read")) - 1
        /\ Guards("write")' = Guards("write")
    BY <2>1, LetGoCounts DEF Kinds
  <2>3. /\ held' \in [Threads -> Seq(Kinds)]
        /\ Len(held'[t]) = Len(held[t]) - 1
        /\ Holds(t, "write")' <=> Holds(t, "write")
        /\ held'[t] # <<>> => held'[t][1] = held[t][1]
        /\ \A u \in Threads \ {t} : held'[u] = held[u]
    BY <2>1, LetGoHolds DEF Kinds
  <2>4. readers = Cardinality(Guards("read")) /\ held[t] # <<>>
    BY <2>1 DEF FlagCountsGuards, Innermost
  <2>5. TypeOK'
    <3>1. held' \in [Threads -> Seq({"read", "write"})]
      BY <2>3 DEF Kinds
    <3>2. readers' \in Nat
      BY <2>1, <2>2, <2>4
    <3> QED
      BY <2>1, <3>1, <3>2 DEF TypeOK
  <2>6. DepthOK'
    <3>1. Len(held[t]) \in Nat
      BY DEF TypeOK
    <3> QED
      BY <2>1, <2>3, <3>1, DepthAssumption DEF DepthOK
  <2>7. Positions'
    BY <2>1, <2>3 DEF Positions, Innermost
  <2>8. WriterFirst' /\ WriterAlone'
    BY <2>1, <2>3, <2>4 DEF WriterFirst, WriterAlone
  <2>9. FlagCountsGuards'
    <3>1. readers' = Cardinality(Guards("read")')
      BY <2>1, <2>2, <2>4
    <3>2. \A u \in Threads : Holds(u, "write")' <=> Holds(u, "write")
      BY <2>3 DEF Holds
    <3>3. ASSUME NEW u \in Threads, pc'[u] = "emptying"
          PROVE  writeCount' = 0 /\ held'[u] = <<"write">>
      BY <2>1, <2>3, <3>3 DEF FlagCountsGuards
    <3>4. ASSUME NEW u \in Threads, pc'[u] # "emptying", writer' = u
          PROVE  writeCount' = Cardinality(Guards("write")')
      BY <2>1, <2>2, <3>4 DEF FlagCountsGuards
    <3> QED
      BY <2>1, <3>1, <3>2, <3>3, <3>4 DEF FlagCountsGuards
  <2> QED
    BY <2>5, <2>6, <2>7, <2>8, <2>9
<1> QED
  BY <1>1, <1>2, <1>3

(* No step of the lock functions breaks the invariant.                     *)
LEMMA NextIInv == IInv /\ [Next]_vars => IInv'
<1> SUFFICES ASSUME IInv, [Next]_vars PROVE IInv'
  OBVIOUS
<1>1. ASSUME NEW t \in Threads,
             BeginWrite(t) \/ BeginRead(t) \/ Unlock(t) \/ CallStep(t)
      PROVE  IInv'
  BY <1>1, WriteLockIInv, WriteUnlockIInv, ReadIInv DEF Unlock, CallStep
<1>2. CASE UNCHANGED vars
  <2> USE DEF IInv, vars
  <2>1. TypeOK' /\ DepthOK' /\ WriterFirst' /\ WriterAlone'
    BY <1>2 DEF TypeOK, DepthOK, WriterFirst, WriterAlone
  <2>2. Positions' /\ FlagCountsGuards'
    BY <1>2, SameGuards DEF Positions, FlagCountsGuards
  <2> QED
    BY <2>1, <2>2
<1> QED
  BY <1>1, <1>2 DEF Next

-----------------------------------------------------------------------------
(* The inductive invariant holds in every reachable state.                 *)
THEOREM LockInvariantHolds == Spec => []IInv
BY InitIInv, NextIInv, PTL DEF Spec

(* Every variable has its type: in particular no unlock takes _lockFlag or *)
(* _writeCount below zero.                                                 *)
THEOREM LockTypeCorrect == Spec => []TypeOK
<1>1. IInv => TypeOK
  BY DEF IInv
<1> QED
  BY <1>1, LockInvariantHolds, PTL

(* _lockFlag and _writeCount count the guards that are held.               *)
THEOREM LockCountsGuards == Spec => []FlagCountsGuards
<1>1. IInv => FlagCountsGuards
  BY DEF IInv
<1> QED
  BY <1>1, LockInvariantHolds, PTL

(* A thread that holds a write guard is the only one that holds a guard.   *)
THEOREM LockExcludes == Spec => []MutualExclusion
<1>1. IInv => MutualExclusion
  BY DEF IInv, MutualExclusion, WriterAlone, FlagCountsGuards
<1> QED
  BY <1>1, LockInvariantHolds, PTL

(* A thread that waits to write with a read guard waits for ever, and      *)
(* nobody writes as long as it does.                                       *)
THEOREM UpgradesNeverEnd == Spec => UpgradeNeverEnds
<1>1. ASSUME IInv, [Next]_vars, NEW t \in Threads,
             pc[t] = "writing", Holds(t, "read")
      PROVE  pc'[t] = "writing" /\ writer' = None
  <2> USE DEF IInv
  <2>1. held[t] # <<>>
    BY <1>1 DEF Holds
  <2>2. writer = None
    <3>1. writer # t
      BY <1>1 DEF Positions
    <3> QED
      BY <1>1, <2>1, <3>1 DEF WriterAlone, TypeOK
  <2>3. ~Empty
    BY <1>1, <2>1, EmptyIsFree
  <2>4. ASSUME NEW u \in Threads,
               BeginWrite(u) \/ BeginRead(u) \/ Unlock(u) \/ CallStep(u)
        PROVE  pc'[t] = "writing" /\ writer' = None
    BY <1>1, <2>2, <2>3, <2>4
       DEF BeginWrite, BeginRead, Unlock, BeginWriteUnlock, ReadUnlock, CallStep,
           SwapWrite, CountWrite, CountDown, StoreEmpty, AddRead, LoadReaders,
           SwapRead, RetryRead, GoTo, TypeOK
  <2> QED
    BY <1>1, <2>2, <2>4 DEF Next, vars
<1>2. IInv /\ [Next]_vars =>
        \A t \in Threads :
          pc[t] = "writing" /\ Holds(t, "read") => pc'[t] = "writing" /\ writer' = None
  BY <1>1
<1> QED
  BY <1>2, LockInvariantHolds, PTL DEF Spec, UpgradeNeverEnds

-----------------------------------------------------------------------------
(* Every step on the flag is a step of the read-write lock or none of it.  *)
LEMMA LockStepIsAbstract ==
  ASSUME IInv, [Next]_vars
  PROVE  [Abstract!Next]_held
<1> USE DEF IInv
<1>1. ASSUME NEW t \in Threads, CountWrite(t)
      PROVE  Abstract!MayWrite(t) /\ Abstract!Acquire(t, "write")
  <2>1. writer = t /\ Hold(t, "write")
    BY <1>1 DEF CountWrite, FlagCountsGuards
  <2>2. held[t] = <<>> \/ Holds(t, "write")
    <3>1. held[t] # <<>> => 1 \in DOMAIN held[t]
      BY DEF TypeOK
    <3> QED
      BY <2>1, <3>1 DEF WriterFirst, Holds
  <2> QED
    BY <2>1, <2>2
       DEF WriterAlone, Hold, Holds, Abstract!MayWrite, Abstract!Writes,
           Abstract!Acquire
<1>2. ASSUME NEW t \in Threads, AddRead(t) \/ SwapRead(t)
      PROVE  Abstract!MayRead(t) /\ Abstract!Acquire(t, "read")
  <2>1. Hold(t, "read") /\ (writer = t \/ writer = None)
    BY <1>2 DEF AddRead, SwapRead, Unchanged, Positions
  <2>2. \A u \in Threads \ {t} : ~Holds(u, "write")
    BY <2>1, ThreadsAssumption DEF FlagCountsGuards
  <2> QED
    BY <2>1, <2>2
       DEF Hold, Holds, Abstract!MayRead, Abstract!Writes, Abstract!Acquire
<1>3. ASSUME NEW t \in Threads,
             (CountDown(t) /\ LetGo(t)) \/ StoreEmpty(t) \/ ReadUnlock(t)
      PROVE  Abstract!Release(t)
  <2>1. CASE CountDown(t) \/ ReadUnlock(t)
    BY <1>3, <2>1
       DEF CountDown, ReadUnlock, StoreEmpty, LetGo, Positions, Innermost,
           Abstract!Release
  <2>2. CASE StoreEmpty(t)
    <3>1. held[t] = <<"write">>
      BY <2>2 DEF StoreEmpty, FlagCountsGuards
    <3>2. held[t] # <<>>
      BY <3>1
    <3> QED
      BY <2>2, <3>2 DEF StoreEmpty, LetGo, Abstract!Release
  <2> QED
    BY <1>3, <2>1, <2>2
<1>4. ASSUME NEW t \in Threads,
             \/ BeginWrite(t) \/ BeginRead(t) \/ BeginWriteUnlock(t)
             \/ SwapWrite(t) \/ LoadReaders(t) \/ RetryRead(t)
             \/ CountDown(t) /\ ~LetGo(t)
      PROVE  UNCHANGED held
  BY <1>4 DEF BeginWrite, BeginRead, BeginWriteUnlock, SwapWrite, LoadReaders,
              RetryRead, CountDown
<1>5. ASSUME NEW t \in Threads,
             BeginWrite(t) \/ BeginRead(t) \/ Unlock(t) \/ CallStep(t)
      PROVE  [Abstract!Next]_held
  BY <1>1, <1>2, <1>3, <1>4, <1>5 DEF Unlock, CallStep, Abstract!Next
<1>6. UNCHANGED vars => UNCHANGED held
  BY DEF vars
<1> QED
  BY <1>5, <1>6 DEF Next

(* Lock implements ReadWriteLock: whatever the interleaving of its steps,  *)
(* users see guards that exclude each other and nest.                      *)
THEOREM LockImplementsReadWriteLock == Spec => ImplementsReadWriteLock
<1>1. Init => Abstract!Init
  BY DEF Init, Abstract!Init
<1>2. IInv /\ [Next]_vars => [Abstract!Next]_held
  BY LockStepIsAbstract
<1> QED
  BY <1>1, <1>2, LockInvariantHolds, PTL
     DEF Spec, ImplementsReadWriteLock, Abstract!Spec
=============================================================================
