----------------------- MODULE DeadLockProfilerProofs -----------------------
(***************************************************************************)
(* Proofs about DeadLockProfiler: what is printed is a circle, and threads *)
(* that wait for each other in a circle have been reported, for any number *)
(* of threads, locks and names, and for any depth of nesting.              *)
(***************************************************************************)
EXTENDS DeadLockProfiler, FiniteSetTheorems, SequenceTheorems, TLAPS

Ids == DOMAIN names
At(i) == calls[i].here

(* The pair a search is about, and the pairs the finished searches saw.    *)
Asked(p) == <<Id(names, Last(stack[p[1]])), Id(names, p[2])>>
OldEdges == {e \in history : \A p \in pushing : e # Asked(p)}

(* A circle has been printed that ends with the pair a, b.                 *)
ClosedBy(circles, a, b) == \E c \in circles : Last(c) = a /\ Head(c) = b

(* The variables of the search have their types, and are clear when there  *)
(* is none.                                                                *)
SearchTypes ==
  /\ count \in Nat /\ finished \subseteq Ids
  /\ root \in 1 .. Len(names) + 1
  /\ calls \in Seq([here : Ids, left : SUBSET Ids])
  /\ trail \in Seq(Ids)
  /\ pushing # {} => order \in [Ids -> Nat] /\ parent \in [Ids -> Nat]
  /\ pushing = {} => /\ root = 1 /\ order = <<>> /\ count = 0
                     /\ finished = {} /\ parent = <<>>
                     /\ calls = <<>> /\ trail = <<>>

(* One thread at most searches, for a pair of different names.             *)
PushOK ==
  \A p \in pushing :
    /\ pushing = {p}
    /\ ~waiting[p[1]] /\ stack[p[1]] # <<>>
    /\ Len(stack[p[1]]) < MaxDepth
    /\ NameOf[p[2]] \in ToSet(names) /\ Asked(p) \in history

(* What is on the stacks has been named, and its pairs have been searched. *)
StacksNamed ==
  \A t \in Threads : \A i \in DOMAIN stack[t] :
    NameOf[stack[t][i]] \in ToSet(names)

StackEdges ==
  \A t \in Threads : \A i \in 1 .. Len(stack[t]) - 1 :
    NameOf[stack[t][i]] # NameOf[stack[t][i + 1]] =>
      <<Id(names, stack[t][i]), Id(names, stack[t][i + 1])>> \in OldEdges

(* Without the pairs that close a printed circle there is no circle in     *)
(* what has been searched: ids can be ranked so that pairs lead down.      *)
Ranked ==
  \E rank \in [Ids -> Nat] : \A e \in OldEdges :
    rank[e[2]] < rank[e[1]] \/ ClosedBy(reported, e[1], e[2])

(* The calls of Dfs are a path that is discovered in its order.            *)
CallsOK ==
  \A i \in DOMAIN calls :
    /\ order[At(i)] # 0 /\ At(i) \notin finished
    /\ \A id \in calls[i].left : <<At(i), id>> \in history
    /\ \A j \in DOMAIN calls : i < j => order[At(i)] < order[At(j)]
    /\ i + 1 \in DOMAIN calls =>
         parent[At(i + 1)] = At(i) /\ <<At(i), At(i + 1)>> \in history

(* Discovered is what is finished or still called.                         *)
DiscoveredOK ==
  pushing # {} =>
    \A id \in Ids :
      /\ order[id] <= count
      /\ order[id] # 0 <=> id \in finished \/ \E i \in DOMAIN calls : id = At(i)
      /\ id < root => order[id] # 0

(* What a loop of Dfs has passed is finished, has been printed about, or   *)
(* is what it has called Dfs for.                                          *)
LoopsOK ==
  \A i \in DOMAIN calls : \A id \in Ids :
    <<At(i), id>> \in history /\ id \notin calls[i].left =>
      \/ id \in finished
      \/ ClosedBy(reported, At(i), id)
      \/ i + 1 \in DOMAIN calls /\ id = At(i + 1)

(* What is finished can be ranked in the order in which it was finished.   *)
FinishedOK ==
  \E k \in Nat : \E rank \in [Ids -> 0 .. k] :
    \A f \in finished, id \in Ids :
      <<f, id>> \in history =>
        ClosedBy(reported, f, id) \/ (id \in finished /\ rank[id] < rank[f])

(* What is being printed is the end of the path, and there lies before it. *)
TrailOK ==
  trail # <<>> =>
    /\ calls # <<>> /\ Last(calls).left # {}
    /\ Len(trail) < Len(calls)
    /\ \A i \in 1 .. Len(trail) : trail[i] = At(Len(calls) - Len(trail) + i)
    /\ \E p \in 1 .. Len(calls) - Len(trail) : At(p) = There

(* No name is paired with itself.                                         *)
NoLoops == \A e \in history : e[1] # e[2]

IInv ==
  /\ NoLoops
  /\ ReportsAreCircles
  /\ SearchTypes /\ PushOK
  /\ StacksNamed /\ StackEdges /\ Ranked
  /\ CallsOK /\ DiscoveredOK /\ LoopsOK /\ FinishedOK /\ TrailOK

-----------------------------------------------------------------------------
(* A set of natural numbers has a least one: the sets 0 .. n are ordered   *)
(* by inclusion, which is well founded on finite sets.                     *)
LEMMA LeastNumber ==
  ASSUME NEW S \in SUBSET Nat, S # {}
  PROVE  \E n \in S : \A m \in S : n <= m
<1>1. PICK k \in S : TRUE
  OBVIOUS
<1> DEFINE R == StrictSubsetOrdering(0 .. k)
           Below == {i \in S : i <= k}
           U == {0 .. m : m \in Below}
<1>2. IsWellFoundedOn(R, FiniteSubsetsOf(0 .. k))
  BY FS_StrictSubsetOrderingWellFounded
<1>3. U \subseteq FiniteSubsetsOf(0 .. k)
  <2>1. \A m \in Below : IsFiniteSet(0 .. m) /\ 0 .. m \subseteq 0 .. k
    <3>1. \A m \in Below : IsFiniteSet(0 .. m)
      BY FS_Interval
    <3> QED
      BY <3>1
  <2> QED
    BY <2>1 DEF FiniteSubsetsOf
<1>4. U # {}
  BY <1>1
<1>5. \E x \in U : \A y \in U : <<y, x>> \notin R
  <2> HIDE DEF R, U
  <2> QED
    BY <1>2, <1>3, <1>4, WFMin
<1>6. PICK n \in Below : \A y \in U : <<y, 0 .. n>> \notin R
  BY <1>5
<1>7. ASSUME NEW m \in S, ~(n <= m) PROVE FALSE
  <2>1. m \in Below
    BY <1>7
  <2>2. 0 .. m \subseteq 0 .. n /\ 0 .. m # 0 .. n
    <3>1. n \in 0 .. n /\ n \notin 0 .. m
      BY <1>7
    <3> QED
      BY <1>7, <3>1
  <2>3. 0 .. m \in SUBSET (0 .. k) /\ 0 .. n \in SUBSET (0 .. k)
    BY <2>1
  <2>4. <<0 .. m, 0 .. n>> \in R
    BY <2>2, <2>3 DEF StrictSubsetOrdering
  <2> QED
    BY <2>1, <2>4, <1>6
<1> QED
  BY <1>6, <1>7

(* The id of a name that is known.                                         *)
LEMMA IdIsPlace ==
  ASSUME TypeOK, NEW l \in Locks, NameOf[l] \in ToSet(names)
  PROVE  Id(names, l) \in Ids /\ names[Id(names, l)] = NameOf[l]
<1>1. \E i \in Ids : names[i] = NameOf[l]
  BY DEF ToSet, Ids
<1> QED
  BY <1>1 DEF Id, Ids

LEMMA IdsAreNumbers ==
  ASSUME TypeOK
  PROVE  Ids = 1 .. Len(names) /\ Len(names) \in Nat
BY DEF TypeOK, Ids

(* A new name leaves the ids of the others as they are.                    *)
LEMMA NamedKeeps ==
  ASSUME TypeOK, NEW l \in Locks
  PROVE  LET ns == Named(NameOf[l])
         IN  /\ ns \in Seq(Names) /\ IsInjective(ns)
             /\ Ids \subseteq DOMAIN ns /\ Len(names) <= Len(ns)
             /\ NameOf[l] \in ToSet(ns) /\ ToSet(names) \subseteq ToSet(ns)
             /\ Id(ns, l) \in DOMAIN ns /\ ns[Id(ns, l)] = NameOf[l]
             /\ \A m \in Locks : NameOf[m] \in ToSet(names) =>
                  Id(ns, m) = Id(names, m)
<1> DEFINE ns == Named(NameOf[l])
<1>1. names \in Seq(Names) /\ IsInjective(names) /\ NameOf[l] \in Names
  BY DEF TypeOK, Names
<1>2. /\ ns \in Seq(Names) /\ Len(names) <= Len(ns)
      /\ \A i \in Ids : i \in DOMAIN ns /\ ns[i] = names[i]
      /\ NameOf[l] \in ToSet(ns)
  <2>1. CASE NameOf[l] \in ToSet(names)
    BY <1>1, <2>1 DEF Named, Ids
  <2>2. CASE NameOf[l] \notin ToSet(names)
    BY <1>1, <2>2 DEF Named, Ids, ToSet
  <2> QED
    BY <2>1, <2>2
<1>3. IsInjective(ns)
  <2>1. CASE NameOf[l] \in ToSet(names)
    BY <1>1, <2>1 DEF Named
  <2>2. CASE NameOf[l] \notin ToSet(names)
    BY <1>1, <2>2 DEF Named, ToSet, IsInjective
  <2> QED
    BY <2>1, <2>2
<1>4. Id(ns, l) \in DOMAIN ns /\ ns[Id(ns, l)] = NameOf[l]
  <2>1. \E i \in DOMAIN ns : ns[i] = NameOf[l]
    BY <1>2 DEF ToSet
  <2> HIDE DEF ns
  <2> QED
    BY <2>1 DEF Id
<1>5. ToSet(names) \subseteq ToSet(ns)
  BY <1>2 DEF ToSet, Ids
<1>6. ASSUME NEW m \in Locks, NameOf[m] \in ToSet(names)
      PROVE  Id(ns, m) = Id(names, m)
  <2>1. Id(names, m) \in Ids /\ names[Id(names, m)] = NameOf[m]
    BY <1>6, IdIsPlace
  <2>2. Id(names, m) \in DOMAIN ns /\ ns[Id(names, m)] = NameOf[m]
    BY <1>2, <2>1
  <2>3. Id(ns, m) \in DOMAIN ns /\ ns[Id(ns, m)] = NameOf[m]
    <3> HIDE DEF ns
    <3> QED
      BY <2>2 DEF Id
  <2> HIDE DEF ns
  <2> QED
    BY <2>2, <2>3, <1>3 DEF IsInjective
<1> HIDE DEF ns
<1>7. Ids \subseteq DOMAIN ns
  BY <1>2
<1> QED
  BY <1>2, <1>3, <1>4, <1>5, <1>6, <1>7 DEF ns

-----------------------------------------------------------------------------
IsCircle(c) ==
  /\ c \in Seq(Ids) /\ IsInjective(c) /\ Len(c) > 1
  /\ \A i \in 1 .. Len(c) - 1 : <<c[i], c[i + 1]>> \in history
  /\ <<Last(c), Head(c)>> \in history

(* A step of the search only prints: what has been searched before and     *)
(* what is on the stacks stays as it is.                                   *)
LEMMA SearchIsQuiet ==
  ASSUME IInv, UNCHANGED <<names, history, stack, waiting, pushing>>,
         reported \subseteq reported',
         \A c \in reported' \ reported : IsCircle(c)
  PROVE  /\ ReportsAreCircles' /\ NoLoops' /\ PushOK'
         /\ StacksNamed' /\ StackEdges' /\ Ranked'
<1>1. OldEdges' = OldEdges /\ Ids' = Ids
  BY DEF OldEdges, Asked, Ids
<1>2. ReportsAreCircles'
  <2>1. \A c \in reported' : IsCircle(c)
    BY DEF IInv, ReportsAreCircles, TypeOK, IsCircle, Ids
  <2> QED
    BY <2>1 DEF IInv, ReportsAreCircles, TypeOK, IsCircle, Ids
<1>3. NoLoops' /\ PushOK' /\ StacksNamed'
  BY DEF IInv, NoLoops, PushOK, Asked, StacksNamed
<1>4. StackEdges'
  BY <1>1 DEF IInv, StackEdges
<1>5. Ranked'
  BY <1>1 DEF IInv, Ranked, ClosedBy
<1> QED
  BY <1>2, <1>3, <1>4, <1>5

(* The running call of Dfs, and the next turn of its loop.                 *)
LEMMA RunningCall ==
  ASSUME IInv, calls # <<>>
  PROVE  /\ pushing # {} /\ order \in [Ids -> Nat] /\ parent \in [Ids -> Nat]
         /\ \A i \in DOMAIN calls : calls[i] \in [here : Ids, left : SUBSET Ids]
         /\ Len(calls) \in Nat \ {0} /\ DOMAIN calls = 1 .. Len(calls)
         /\ Last(calls) = calls[Len(calls)] /\ Here = At(Len(calls))
         /\ \A i \in DOMAIN calls : At(i) \in Ids /\ calls[i].left \subseteq Ids
         /\ Last(calls).left # {} =>
              There \in Last(calls).left /\ There \in Ids
<1>1. /\ calls \in Seq([here : Ids, left : SUBSET Ids])
      /\ pushing # {} /\ order \in [Ids -> Nat] /\ parent \in [Ids -> Nat]
  BY DEF IInv, SearchTypes
<1>2. Len(calls) \in Nat \ {0} /\ DOMAIN calls = 1 .. Len(calls)
  BY <1>1
<1>3. Last(calls) = calls[Len(calls)] /\ Here = At(Len(calls))
  BY DEF Last, Here, At
<1>6. \A i \in DOMAIN calls : calls[i] \in [here : Ids, left : SUBSET Ids]
  BY <1>1, <1>2, ElementOfSeq
<1>4. \A i \in DOMAIN calls : At(i) \in Ids /\ calls[i].left \subseteq Ids
  BY <1>6 DEF At
<1>5. ASSUME Last(calls).left # {}
      PROVE  There \in Last(calls).left /\ There \in Ids
  <2> DEFINE S == Last(calls).left
  <2>1. S \subseteq Ids
    BY <1>2, <1>3, <1>4
  <2>2. S \in SUBSET Nat
    BY <2>1, IdsAreNumbers DEF IInv, ReportsAreCircles
  <2>3. \E n \in S : \A m \in S : n <= m
    <3> HIDE DEF S
    <3> QED
      BY <2>2, <1>5, LeastNumber DEF S
  <2>4. There \in S
    BY <2>3 DEF There, Min
  <2> QED
    BY <2>1, <2>4
<1> QED
  BY <1>1, <1>2, <1>3, <1>4, <1>5, <1>6

(* The loop of the running call goes on, and nothing else changes.         *)
LEMMA PassedOne ==
  ASSUME IInv, calls # <<>>, Last(calls).left # {}
  PROVE  /\ Passed \in Seq([here : Ids, left : SUBSET Ids])
         /\ Len(Passed) = Len(calls) /\ DOMAIN Passed = DOMAIN calls
         /\ \A i \in DOMAIN calls :
              /\ Passed[i].here = At(i)
              /\ Passed[i].left =
                   IF i = Len(calls) THEN calls[i].left \ {There} ELSE calls[i].left
<1>1. /\ calls \in Seq([here : Ids, left : SUBSET Ids])
      /\ Len(calls) \in DOMAIN calls
  BY RunningCall DEF IInv, SearchTypes
<1>3. Passed = [i \in DOMAIN calls |->
                 IF i = Len(calls)
                 THEN [here |-> At(i), left |-> calls[i].left \ {There}]
                 ELSE calls[i]]
  BY <1>1, RunningCall DEF Passed
<1>4. \A i \in DOMAIN calls : calls[i] \in [here : Ids, left : SUBSET Ids]
  BY RunningCall
<1>5. \A i \in DOMAIN calls :
        /\ Passed[i] \in [here : Ids, left : SUBSET Ids]
        /\ Passed[i].here = At(i)
        /\ Passed[i].left =
             IF i = Len(calls) THEN calls[i].left \ {There} ELSE calls[i].left
  BY <1>3, <1>4 DEF At
<1>6. DOMAIN Passed = 1 .. Len(calls) /\ Len(calls) \in Nat
  BY <1>1, <1>3
<1>7. Passed \in Seq([here : Ids, left : SUBSET Ids]) /\ Len(Passed) = Len(calls)
  <2> HIDE DEF Passed
  <2>1. Passed = [i \in 1 .. Len(calls) |-> Passed[i]]
    BY <1>3, <1>6
  <2>2. \A i \in 1 .. Len(calls) : Passed[i] \in [here : Ids, left : SUBSET Ids]
    BY <1>5, <1>6, <1>3
  <2> QED
    BY <1>6, <2>1, <2>2, IsASeq
<1> QED
  BY <1>3, <1>5, <1>7

(* What a step that leaves all but the calls and the trail alone, and may  *)
(* print a circle, has to show of the loops.                               *)
LEMMA PassedStep ==
  ASSUME IInv, calls # <<>>, Last(calls).left # {},
         calls' = Passed, trail' = <<>>,
         UNCHANGED <<names, history, stack, waiting, pushing, root, order,
                     count, finished, parent>>,
         reported \subseteq reported',
         \A c \in reported' \ reported : IsCircle(c),
         There \in finished \/ ClosedBy(reported', Here, There)
  PROVE  IInv'
<1>1. /\ Len(calls') = Len(calls) /\ DOMAIN calls' = DOMAIN calls
      /\ \A i \in DOMAIN calls :
           /\ calls'[i].here = At(i)
           /\ calls'[i].left = IF i = Len(calls) THEN calls[i].left \ {There}
                               ELSE calls[i].left
  BY PassedOne DEF At
<1>2. Ids' = Ids
  BY DEF Ids
<1>3. SearchTypes'
  BY <1>2, PassedOne, RunningCall DEF IInv, SearchTypes
<1>4. CallsOK'
  <2> SUFFICES ASSUME NEW i \in DOMAIN calls
               PROVE  /\ order[At(i)] # 0 /\ At(i) \notin finished
                      /\ \A id \in calls'[i].left : <<At(i), id>> \in history
                      /\ \A j \in DOMAIN calls :
                           i < j => order[At(i)] < order[At(j)]
                      /\ i + 1 \in DOMAIN calls =>
                           /\ parent[At(i + 1)] = At(i)
                           /\ <<At(i), At(i + 1)>> \in history
    BY <1>1 DEF CallsOK, At
  <2>1. calls'[i].left \subseteq calls[i].left
    BY <1>1
  <2> QED
    BY <2>1 DEF IInv, CallsOK
<1>5. DiscoveredOK'
  <2>1. \A i \in DOMAIN calls : calls'[i].here = calls[i].here
    BY <1>1 DEF At
  <2>2. \A id : (\E i \in DOMAIN calls : id = calls[i].here) <=>
               (\E i \in DOMAIN calls' : id = calls'[i].here)
    BY <1>1, <2>1
  <2>3. DiscoveredOK
    BY DEF IInv
  <2>4. /\ pushing' = pushing /\ order' = order /\ count' = count
        /\ finished' = finished /\ root' = root
    OBVIOUS
  <2> QED
    BY <1>2, <2>2, <2>3, <2>4 DEF DiscoveredOK, At
<1>6. LoopsOK'
  <2> SUFFICES ASSUME NEW i \in DOMAIN calls, NEW id \in Ids,
                      <<At(i), id>> \in history, id \notin calls'[i].left
               PROVE  \/ id \in finished
                      \/ ClosedBy(reported', At(i), id)
                      \/ i + 1 \in DOMAIN calls /\ id = At(i + 1)
    <3>1. \A i \in DOMAIN calls : calls'[i].here = At(i) /\ calls[i].here = At(i)
      BY <1>1 DEF At
    <3>2. \A i \in DOMAIN calls : i + 1 \in DOMAIN calls =>
            calls'[i + 1].here = At(i + 1)
      BY <3>1
    <3> QED
      BY <1>1, <1>2, <3>1, <3>2 DEF LoopsOK, At
  <2>1. CASE id \notin calls[i].left
    BY <2>1 DEF IInv, LoopsOK, ClosedBy
  <2>2. CASE id \in calls[i].left
    BY <1>1, <2>2, RunningCall DEF ClosedBy
  <2> QED
    BY <2>1, <2>2
<1>7. FinishedOK'
  BY <1>2 DEF IInv, FinishedOK, ClosedBy
<1>8. TrailOK'
  BY DEF TrailOK
<1> QED
  BY <1>3, <1>4, <1>5, <1>6, <1>7, <1>8, SearchIsQuiet DEF IInv

(* Where order and path lead on, an id that is not behind is finished.     *)
LEMMA PassOverStep ==
  ASSUME IInv, PassOver
  PROVE  IInv'
<1>1. calls # <<>> /\ Last(calls).left # {} /\ order[There] # 0 /\ ~IsBack
  BY DEF PassOver, InLoop
<1>2. There \in finished
  <2> SUFFICES ASSUME order[Here] < order[There] PROVE There \in finished
    BY <1>1, RunningCall DEF IsBack
  <2>1. There \in finished \/ \E i \in DOMAIN calls : There = At(i)
    BY <1>1, RunningCall DEF IInv, DiscoveredOK
  <2>2. ASSUME NEW i \in DOMAIN calls, There = At(i) PROVE FALSE
    <3>1. Len(calls) \in DOMAIN calls /\ Here = At(Len(calls))
      BY <1>1, RunningCall
    <3>2. i = Len(calls) \/ i < Len(calls)
      BY <1>1, RunningCall
    <3>3. i < Len(calls) => order[At(i)] < order[At(Len(calls))]
      BY <3>1 DEF IInv, CallsOK
    <3>4. order[Here] \in Nat /\ order[There] \in Nat
      BY <1>1, <3>1, RunningCall
    <3> QED
      BY <2>2, <3>1, <3>2, <3>3, <3>4
  <2> QED
    BY <2>1, <2>2
<1>3. /\ calls' = Passed /\ trail' = <<>> /\ reported' = reported
      /\ UNCHANGED <<names, history, stack, waiting, pushing, root, order,
                     count, finished, parent>>
  BY DEF PassOver, InLoop
<1> QED
  BY <1>1, <1>2, <1>3, PassedStep

LEMMA SeeCircleStep ==
  ASSUME IInv, SeeCircle
  PROVE  IInv'
<1>1. calls # <<>> /\ Last(calls).left # {} /\ order[There] # 0 /\ IsBack
  BY DEF SeeCircle, InLoop
<1>2. /\ trail' = <<Here>>
      /\ UNCHANGED <<names, history, stack, waiting, pushing, root, order,
                     count, finished, parent, calls, reported>>
  BY DEF SeeCircle
<1>3. Ids' = Ids /\ Here' = Here /\ There' = There
  BY <1>2 DEF Ids, Here, There
<1>4. SearchTypes'
  BY <1>1, <1>2, <1>3, RunningCall DEF IInv, SearchTypes
<1>5. CallsOK' /\ DiscoveredOK' /\ LoopsOK' /\ FinishedOK'
  BY <1>2, <1>3 DEF IInv, CallsOK, DiscoveredOK, LoopsOK, FinishedOK, ClosedBy, At
<1>6. TrailOK'
  <2>1. There # Here
    <3>1. <<Here, There>> \in history
      <4>1. Len(calls) \in DOMAIN calls /\ Here = At(Len(calls))
            /\ There \in calls[Len(calls)].left
        BY <1>1, RunningCall
      <4> QED
        BY <4>1 DEF IInv, CallsOK
    <3> QED
      BY <3>1 DEF IInv, NoLoops
  <2>2. PICK p \in DOMAIN calls : There = At(p)
    BY <1>1, RunningCall DEF IInv, DiscoveredOK, IsBack
  <2>3. p \in 1 .. Len(calls) - 1
    BY <1>1, <2>1, <2>2, RunningCall
  <2>4. /\ Len(trail') = 1 /\ trail'[1] = At(Len(calls))
        /\ Len(calls') = Len(calls) /\ Last(calls') = Last(calls)
        /\ calls' = calls
    BY <1>1, <1>2, RunningCall
  <2> QED
    <3>1. \A i \in 1 .. Len(trail') :
            trail'[i] = calls'[Len(calls') - Len(trail') + i].here
      BY <1>1, <2>4, RunningCall DEF At
    <3>2. \E q \in 1 .. Len(calls') - Len(trail') : calls'[q].here = There'
      BY <1>1, <1>3, <2>2, <2>3, <2>4, RunningCall DEF At
    <3> QED
      BY <1>1, <2>3, <2>4, <3>1, <3>2, RunningCall DEF TrailOK, At
<1> QED
  BY <1>2, <1>4, <1>5, <1>6, SearchIsQuiet DEF IInv

(* A path of calls goes through no id twice.                               *)
LEMMA PathIsInjective ==
  ASSUME IInv, NEW i \in DOMAIN calls, NEW j \in DOMAIN calls, At(i) = At(j)
  PROVE  i = j
<1>1. calls # <<>>
  OBVIOUS
<1>2. i \in Nat /\ j \in Nat /\ order[At(i)] \in Nat /\ order[At(j)] \in Nat
  BY <1>1, RunningCall
<1>3. (i < j => order[At(i)] < order[At(j)]) /\ (j < i => order[At(j)] < order[At(i)])
  BY DEF IInv, CallsOK
<1> QED
  BY <1>2, <1>3

(* Up the path one goes by _parent, and arrives at there before it ends.   *)
LEMMA PrintParentStep ==
  ASSUME IInv, PrintParent
  PROVE  IInv'
<1> DEFINE k == Len(calls)
           m == Len(trail)
           now == parent[Head(trail)]
<1>1. trail # <<>> /\ trail \in Seq(Ids) /\ TrailOK
  BY DEF PrintParent, IInv, SearchTypes
<1>2. /\ calls # <<>> /\ Last(calls).left # {}
      /\ m \in Nat \ {0} /\ k \in Nat \ {0} /\ m < k
      /\ DOMAIN calls = 1 .. k
      /\ \A i \in 1 .. m : trail[i] = At(k - m + i)
  <2>1. calls # <<>> /\ Last(calls).left # {}
    BY <1>1 DEF TrailOK
  <2> QED
    BY <1>1, <2>1, RunningCall DEF TrailOK
<1>3. PICK p \in 1 .. k - m : At(p) = There
  BY <1>1 DEF TrailOK
<1>4. Here = At(k) /\ <<Here, There>> \in history
  <2>1. k \in DOMAIN calls /\ Here = At(k) /\ There \in calls[k].left
    BY <1>2, RunningCall
  <2> QED
    BY <2>1 DEF IInv, CallsOK
<1>5. now = At(k - m) /\ now \in Ids
  <2>1. k - m \in DOMAIN calls /\ (k - m) + 1 \in DOMAIN calls
    BY <1>2
  <2>2. parent[At((k - m) + 1)] = At(k - m)
    BY <2>1 DEF IInv, CallsOK
  <2>3. Head(trail) = At((k - m) + 1)
    BY <1>1, <1>2
  <2>4. At(k - m) \in Ids
    BY <1>2, <2>1, RunningCall
  <2> QED
    BY <2>2, <2>3, <2>4
<1>6. \A i \in 1 .. k - 1 : <<At(i), At(i + 1)>> \in history
  <2>1. \A i \in 1 .. k - 1 : i \in DOMAIN calls /\ i + 1 \in DOMAIN calls
    BY <1>2
  <2> QED
    BY <2>1 DEF IInv, CallsOK
<1>7. CASE now = There
  <2> DEFINE c == Circle(now, trail)
  <2>1. /\ c \in Seq(Ids) /\ Len(c) = m + 1
        /\ c[1] = now /\ \A i \in 1 .. m : c[i + 1] = trail[i]
    BY <1>1, <1>2, <1>5 DEF Circle
  <2>2. \A i \in 1 .. m + 1 : c[i] = At(k - m - 1 + i)
    <3> SUFFICES ASSUME NEW i \in 1 .. m + 1 PROVE c[i] = At(k - m - 1 + i)
      OBVIOUS
    <3>1. CASE i = 1
      BY <1>2, <1>5, <2>1, <3>1
    <3>2. CASE i # 1
      <4>1. i - 1 \in 1 .. m /\ (i - 1) + 1 = i /\ k - m + (i - 1) = k - m - 1 + i
        BY <1>2, <3>2
      <4> HIDE DEF c
      <4> QED
        BY <1>2, <2>1, <4>1
    <3> QED
      BY <3>1, <3>2
  <2> HIDE DEF c
  <2>3. IsInjective(c)
    <3> SUFFICES ASSUME NEW i \in 1 .. m + 1, NEW j \in 1 .. m + 1, c[i] = c[j]
                 PROVE  i = j
      BY <2>1 DEF IsInjective
    <3>1. k - m - 1 + i \in DOMAIN calls /\ k - m - 1 + j \in DOMAIN calls
      BY <1>2
    <3>2. k - m - 1 + i = k - m - 1 + j
      BY <2>2, <3>1, PathIsInjective
    <3> QED
      BY <1>2, <3>2
  <2>4. \A i \in 1 .. Len(c) - 1 : <<c[i], c[i + 1]>> \in history
    <3> SUFFICES ASSUME NEW i \in 1 .. m PROVE <<c[i], c[i + 1]>> \in history
      BY <1>2, <2>1
    <3>1. /\ k - m - 1 + i \in 1 .. k - 1 /\ i \in 1 .. m + 1 /\ i + 1 \in 1 .. m + 1
          /\ k - m - 1 + (i + 1) = (k - m - 1 + i) + 1
      BY <1>2
    <3> QED
      BY <1>6, <2>2, <3>1
  <2>5. Last(c) = Here /\ Head(c) = There
    <3>1. c[m + 1] = At(k)
      <4>1. m + 1 \in 1 .. m + 1 /\ k - m - 1 + (m + 1) = k
        BY <1>2
      <4> QED
        BY <2>2, <4>1
    <3> QED
      BY <1>2, <1>4, <1>7, <2>1, <3>1 DEF Last
  <2>6. IsCircle(c)
    <3>1. c \in Seq(Ids) /\ Len(c) > 1
      BY <1>2, <2>1
    <3>2. <<Last(c), Head(c)>> \in history
      BY <1>4, <2>5
    <3> QED
      BY <2>3, <2>4, <3>1, <3>2 DEF IsCircle
  <2>7. /\ reported' = reported \cup {c} /\ trail' = <<>> /\ calls' = Passed
        /\ UNCHANGED <<names, history, stack, waiting, pushing, root, order,
                       count, finished, parent>>
    BY <1>7 DEF PrintParent, c
  <2>8. ClosedBy(reported', Here, There)
    BY <2>5, <2>7 DEF ClosedBy
  <2> QED
    BY <1>2, <2>6, <2>7, <2>8, PassedStep
<1>8. CASE now # There
  <2>1. /\ trail' = <<now>> \o trail
        /\ UNCHANGED <<names, history, stack, waiting, pushing, root, order,
                       count, finished, parent, calls, reported>>
    BY <1>8 DEF PrintParent
  <2>2. Ids' = Ids /\ There' = There
    BY <2>1 DEF Ids, There
  <2>3. SearchTypes'
    <3>1. trail' \in Seq(Ids)
      BY <1>1, <1>5, <2>1
    <3> QED
      BY <1>2, <2>1, <2>2, <3>1, RunningCall DEF IInv, SearchTypes
  <2>4. CallsOK' /\ DiscoveredOK' /\ LoopsOK' /\ FinishedOK'
    <3>1. CallsOK' /\ DiscoveredOK'
      BY <2>1, <2>2 DEF IInv, CallsOK, DiscoveredOK, At
    <3>2. LoopsOK' /\ FinishedOK'
      BY <2>1, <2>2 DEF IInv, LoopsOK, FinishedOK, At
    <3> QED
      BY <3>1, <3>2
  <2>5. /\ Len(trail') = m + 1 /\ trail'[1] = now
        /\ \A i \in 1 .. m : trail'[i + 1] = trail[i]
    BY <1>1, <1>2, <1>5, <2>1
  <2>6. p \in 1 .. k - (m + 1)
    BY <1>2, <1>3, <1>5, <1>8
  <2>7. \A i \in 1 .. m + 1 : trail'[i] = At(k - (m + 1) + i)
    <3> SUFFICES ASSUME NEW i \in 1 .. m + 1
                 PROVE  trail'[i] = At(k - (m + 1) + i)
      OBVIOUS
    <3>1. CASE i = 1
      <4>1. k - (m + 1) + i = k - m
        BY <1>2, <3>1
      <4> QED
        BY <1>5, <2>5, <3>1, <4>1
    <3>2. CASE i # 1
      <4>1. /\ i - 1 \in 1 .. m /\ (i - 1) + 1 = i
            /\ k - m + (i - 1) = k - (m + 1) + i
        BY <1>2, <3>2
      <4> QED
        BY <1>2, <2>5, <4>1
    <3> QED
      BY <3>1, <3>2
  <2>8. TrailOK'
    BY <1>2, <1>3, <2>1, <2>2, <2>5, <2>6, <2>7 DEF TrailOK, At
  <2> QED
    BY <2>1, <2>3, <2>4, <2>8, SearchIsQuiet DEF IInv
<1> QED
  BY <1>7, <1>8

(* A call that returns ranks its id above all that are finished.           *)
LEMMA ReturnStep ==
  ASSUME IInv, Return
  PROVE  IInv'
<1>1. /\ calls # <<>> /\ Last(calls).left = {}
      /\ finished' = finished \cup {Here} /\ calls' = Front(calls)
      /\ UNCHANGED <<names, history, stack, waiting, pushing, root, order,
                     count, parent, trail, reported>>
  BY DEF Return
<1>0. PICK k \in Nat \ {0} : k = Len(calls) /\ DOMAIN calls = 1 .. k
  BY <1>1, RunningCall
<1>2. Here = At(k) /\ Here \in Ids /\ calls[k].left = {} /\ pushing # {}
  BY <1>0, <1>1, RunningCall
<1>3. /\ calls' \in Seq([here : Ids, left : SUBSET Ids])
      /\ Len(calls') = k - 1 /\ DOMAIN calls' = 1 .. k - 1
      /\ \A i \in 1 .. k - 1 : i \in DOMAIN calls /\ calls'[i] = calls[i]
  <2>1. calls \in Seq([here : Ids, left : SUBSET Ids])
    BY DEF IInv, SearchTypes
  <2>2. calls' = SubSeq(calls, 1, k - 1) /\ k - 1 \in 0 .. k
    BY <1>0, <1>1 DEF Front
  <2> QED
    <3>1. \A i \in DOMAIN calls : calls[i] \in [here : Ids, left : SUBSET Ids]
      BY <1>1, RunningCall
    <3>2. \A i \in 1 .. k - 1 : calls[i] \in [here : Ids, left : SUBSET Ids]
      BY <1>0, <3>1
    <3> QED
      BY <1>0, <2>2, <3>2, SubSeqProperties
<1>4. Ids' = Ids
  BY <1>1 DEF Ids
<1>5. trail = <<>>
  BY <1>1 DEF IInv, TrailOK
<1>6. SearchTypes'
  BY <1>0, <1>1, <1>2, <1>3, <1>4 DEF IInv, SearchTypes
<1>7. CallsOK'
  <2> SUFFICES ASSUME NEW i \in 1 .. k - 1
               PROVE  /\ order[At(i)] # 0 /\ At(i) \notin finished'
                      /\ \A id \in calls[i].left : <<At(i), id>> \in history
                      /\ \A j \in 1 .. k - 1 :
                           i < j => order[At(i)] < order[At(j)]
                      /\ i + 1 \in 1 .. k - 1 =>
                           /\ parent[At(i + 1)] = At(i)
                           /\ <<At(i), At(i + 1)>> \in history
    <3>1. DOMAIN calls' = 1 .. k - 1
      BY <1>3
    <3>2. \A i \in 1 .. k - 1 :
            calls'[i].here = calls[i].here /\ calls'[i].left = calls[i].left
      BY <1>3
    <3>3. history' = history /\ order' = order /\ parent' = parent
      BY <1>1
    <3> QED
      BY <3>1, <3>2, <3>3 DEF CallsOK, At
  <2>1. i \in DOMAIN calls /\ k \in DOMAIN calls /\ i # k
    BY <1>0
  <2>2. At(i) # Here
    BY <1>0, <1>2, <2>1, PathIsInjective
  <2> QED
    BY <1>0, <1>1, <1>2, <2>1, <2>2 DEF IInv, CallsOK
<1>8. DiscoveredOK'
  <2>1. \A id : (id \in finished' \/ \E i \in 1 .. k - 1 : id = At(i)) <=>
                (id \in finished \/ \E i \in 1 .. k : id = At(i))
    BY <1>0, <1>1, <1>2
  <2>2. \A id \in Ids :
          /\ order[id] <= count
          /\ order[id] # 0 <=> id \in finished \/ \E i \in 1 .. k : id = At(i)
          /\ id < root => order[id] # 0
    BY <1>0, <1>2 DEF IInv, DiscoveredOK
  <2>3. \A id : (\E i \in 1 .. k - 1 : id = At(i)) <=>
               (\E i \in DOMAIN calls' : id = calls'[i].here)
    BY <1>3 DEF At
  <2> QED
    BY <1>1, <1>4, <2>1, <2>2, <2>3 DEF DiscoveredOK, At
<1>9. LoopsOK'
  <2> SUFFICES ASSUME NEW i \in 1 .. k - 1, NEW id \in Ids,
                      <<At(i), id>> \in history, id \notin calls[i].left
               PROVE  \/ id \in finished'
                      \/ ClosedBy(reported, At(i), id)
                      \/ i + 1 \in 1 .. k - 1 /\ id = At(i + 1)
    BY <1>0, <1>1, <1>3, <1>4 DEF LoopsOK, At
  <2>1. \/ id \in finished
        \/ ClosedBy(reported, At(i), id)
        \/ i + 1 \in DOMAIN calls /\ id = At(i + 1)
    BY <1>3 DEF IInv, LoopsOK
  <2>2. i + 1 \in 1 .. k - 1 \/ i + 1 = k
    BY <1>0
  <2> QED
    BY <1>0, <1>1, <1>2, <2>1, <2>2
<1>10. FinishedOK'
  <2>0. PICK n \in Nat :
          \E rank \in [Ids -> 0 .. n] :
            \A f \in finished, id \in Ids :
              <<f, id>> \in history =>
                \/ ClosedBy(reported, f, id)
                \/ id \in finished /\ rank[id] < rank[f]
    BY DEF IInv, FinishedOK
  <2>1. PICK rank \in [Ids -> 0 .. n] :
          \A f \in finished, id \in Ids :
            <<f, id>> \in history =>
              \/ ClosedBy(reported, f, id)
              \/ id \in finished /\ rank[id] < rank[f]
    BY <2>0
  <2> DEFINE above == [rank EXCEPT ![Here] = n + 1]
  <2>2. n + 1 \in Nat /\ above \in [Ids -> 0 .. n + 1]
    BY <1>0, <1>2
  <2>3. Here \notin finished
    <3>1. k \in DOMAIN calls
      BY <1>0, <1>2
    <3> QED
      BY <1>0, <1>2, <3>1 DEF IInv, CallsOK
  <2>4. ASSUME NEW f \in finished', NEW id \in Ids, <<f, id>> \in history
        PROVE  \/ ClosedBy(reported, f, id)
               \/ id \in finished' /\ above[id] < above[f]
    <3>1. CASE f = Here
      <4>1. id \in finished \/ ClosedBy(reported, Here, id)
        <5>1. k \in DOMAIN calls /\ k + 1 \notin DOMAIN calls
          BY <1>0, <1>2
        <5> QED
          BY <1>0, <1>2, <2>4, <3>1, <5>1 DEF IInv, LoopsOK
      <4>2. id \in finished => above[id] = rank[id] /\ rank[id] \in 0 .. n
        BY <2>1, <2>3
      <4>3. above[Here] = n + 1
        BY <1>0, <1>2, <2>1
      <4> QED
        BY <1>1, <3>1, <4>1, <4>2, <4>3
    <3>2. CASE f \in finished
      <4>1. f \in Ids /\ above[f] = rank[f] /\ (id \in finished => above[id] = rank[id])
        BY <2>1, <2>3, <3>2 DEF IInv, SearchTypes
      <4> QED
        BY <1>1, <2>1, <2>4, <3>2, <4>1
    <3> QED
      BY <1>1, <3>1, <3>2
  <2> HIDE DEF above
  <2> QED
    BY <1>1, <1>4, <2>2, <2>4 DEF FinishedOK
<1>11. TrailOK'
  BY <1>1, <1>5 DEF TrailOK
<1> QED
  BY <1>1, <1>6, <1>7, <1>8, <1>9, <1>10, <1>11, SearchIsQuiet DEF IInv

(* What Dfs is called for is a call of its own on top of the path.         *)
LEMMA CallIsTyped ==
  ASSUME IInv, NEW id \in Ids
  PROVE  /\ Call(id) \in [here : Ids, left : SUBSET Ids]
         /\ Call(id).here = id
         /\ \A there \in Ids : there \in Call(id).left <=> <<id, there>> \in history
<1>1. Ids = 1 .. Len(names)
  BY IdsAreNumbers DEF IInv, ReportsAreCircles
<1>2. NextSet(history, Len(names), id) = {there \in Ids : <<id, there>> \in history}
  BY <1>1 DEF NextSet
<1> QED
  BY <1>2 DEF Call

LEMMA DescendStep ==
  ASSUME IInv, Descend
  PROVE  IInv'
<1>1. /\ calls # <<>> /\ Last(calls).left # {} /\ trail = <<>> /\ order[There] = 0
      /\ parent' = [parent EXCEPT ![There] = Here]
      /\ order' = [order EXCEPT ![There] = count + 1] /\ count' = count + 1
      /\ calls' = Append(Passed, Call(There))
      /\ UNCHANGED <<names, history, stack, waiting, pushing, root, finished,
                     trail, reported>>
  BY DEF Descend, InLoop, Discover
<1>2. PICK k \in Nat \ {0} : k = Len(calls) /\ DOMAIN calls = 1 .. k
  BY <1>1, RunningCall
<1>3. /\ pushing # {} /\ order \in [Ids -> Nat] /\ parent \in [Ids -> Nat]
      /\ Here = At(k) /\ There \in calls[k].left /\ There \in Ids
      /\ \A i \in 1 .. k : At(i) \in Ids
  BY <1>1, <1>2, RunningCall
<1>4. /\ calls' \in Seq([here : Ids, left : SUBSET Ids])
      /\ Len(calls') = k + 1 /\ DOMAIN calls' = 1 .. k + 1
      /\ calls'[k + 1] = Call(There)
      /\ \A i \in 1 .. k :
           /\ calls'[i].here = At(i)
           /\ calls'[i].left = IF i = k THEN calls[i].left \ {There}
                               ELSE calls[i].left
  <2>1. /\ Passed \in Seq([here : Ids, left : SUBSET Ids]) /\ Len(Passed) = k
        /\ \A i \in 1 .. k :
             /\ Passed[i].here = At(i)
             /\ Passed[i].left = IF i = k THEN calls[i].left \ {There}
                                 ELSE calls[i].left
    BY <1>1, <1>2, PassedOne
  <2>2. Call(There) \in [here : Ids, left : SUBSET Ids]
    BY <1>3, CallIsTyped
  <2>3. /\ Append(Passed, Call(There)) \in Seq([here : Ids, left : SUBSET Ids])
        /\ Len(Append(Passed, Call(There))) = k + 1
        /\ Append(Passed, Call(There))[k + 1] = Call(There)
        /\ \A i \in 1 .. k : Append(Passed, Call(There))[i] = Passed[i]
    BY <2>1, <2>2, AppendProperties
  <2>4. calls' \in Seq([here : Ids, left : SUBSET Ids]) /\ Len(calls') = k + 1
    BY <1>1, <2>3
  <2>5. DOMAIN calls' = 1 .. k + 1
    BY <2>4
  <2>6. calls'[k + 1] = Call(There) /\ \A i \in 1 .. k : calls'[i] = Passed[i]
    BY <1>1, <2>3
  <2> QED
    BY <2>1, <2>4, <2>5, <2>6
<1>5. Ids' = Ids /\ count \in Nat
  BY <1>1 DEF Ids, IInv, SearchTypes
<1>6. /\ There \notin finished
      /\ \A i \in 1 .. k : At(i) # There /\ order[At(i)] \in Nat /\ order[At(i)] <= count
  <2>1. There \notin finished
    BY <1>1, <1>3 DEF IInv, DiscoveredOK
  <2>2. \A i \in 1 .. k : order[At(i)] # 0
    BY <1>2 DEF IInv, CallsOK
  <2>3. \A i \in 1 .. k : order[At(i)] <= count
    BY <1>2, <1>3 DEF IInv, DiscoveredOK
  <2> QED
    BY <1>1, <1>3, <2>1, <2>2, <2>3
<1>7. /\ order' \in [Ids -> Nat] /\ order'[There] = count + 1
      /\ \A id \in Ids \ {There} : order'[id] = order[id]
      /\ parent' \in [Ids -> Nat] /\ parent'[There] = Here
      /\ \A id \in Ids \ {There} : parent'[id] = parent[id]
  <2>1. Here \in Nat
    BY <1>3, <1>2, IdsAreNumbers DEF IInv, ReportsAreCircles
  <2> QED
    BY <1>1, <1>3, <1>5, <2>1
<1>8. SearchTypes'
  BY <1>1, <1>3, <1>4, <1>5, <1>7 DEF IInv, SearchTypes
<1>9. CallsOK'
  <2> SUFFICES ASSUME NEW i \in 1 .. k + 1
               PROVE  /\ order'[calls'[i].here] # 0 /\ calls'[i].here \notin finished
                      /\ \A id \in calls'[i].left : <<calls'[i].here, id>> \in history
                      /\ \A j \in 1 .. k + 1 :
                           i < j => order'[calls'[i].here] < order'[calls'[j].here]
                      /\ i + 1 \in 1 .. k + 1 =>
                           /\ parent'[calls'[i + 1].here] = calls'[i].here
                           /\ <<calls'[i].here, calls'[i + 1].here>> \in history
    BY <1>1, <1>4 DEF CallsOK, At
  <2>1. /\ \A j \in 1 .. k : calls'[j].here = At(j)
        /\ calls'[k + 1].here = There
        /\ \A there \in Ids : there \in calls'[k + 1].left => <<There, there>> \in history
        /\ calls'[k + 1].left \subseteq Ids
    BY <1>3, <1>4, CallIsTyped
  <2>2. \A j \in 1 .. k : order'[calls'[j].here] = order[At(j)]
    BY <1>3, <1>6, <1>7, <2>1
  <2>3. CASE i = k + 1
    BY <1>5, <1>6, <1>7, <2>1, <2>3
  <2>4. CASE i \in 1 .. k
    <3>1. order'[calls'[i].here] # 0 /\ calls'[i].here \notin finished
      BY <1>2, <2>1, <2>2, <2>4 DEF IInv, CallsOK
    <3>2. \A id \in calls'[i].left : <<calls'[i].here, id>> \in history
      <4>1. calls'[i].left \subseteq calls[i].left
        BY <1>4, <2>4
      <4> QED
        BY <1>2, <2>1, <2>4, <4>1 DEF IInv, CallsOK
    <3>3. ASSUME NEW j \in 1 .. k + 1, i < j
          PROVE  order'[calls'[i].here] < order'[calls'[j].here]
      <4>1. CASE j = k + 1
        BY <1>5, <1>6, <1>7, <2>1, <2>2, <2>4, <4>1
      <4>2. CASE j \in 1 .. k
        BY <1>2, <2>2, <2>4, <3>3, <4>2 DEF IInv, CallsOK
      <4> QED
        BY <4>1, <4>2
    <3>4. parent'[calls'[i + 1].here] = calls'[i].here
      <4>1. CASE i = k
        BY <1>3, <1>7, <2>1, <4>1
      <4>2. CASE i # k
        <5>1. i + 1 \in 1 .. k
          BY <2>4, <4>2
        <5>2. parent[At(i + 1)] = At(i)
          BY <1>2, <2>4, <5>1 DEF IInv, CallsOK
        <5> QED
          BY <1>3, <1>6, <1>7, <2>1, <2>4, <5>1, <5>2
      <4> QED
        BY <4>1, <4>2
    <3>5. <<calls'[i].here, calls'[i + 1].here>> \in history
      <4>1. CASE i = k
        <5>1. k \in DOMAIN calls
          BY <1>2
        <5>2. <<At(k), There>> \in history
          BY <1>3, <5>1 DEF IInv, CallsOK
        <5> QED
          BY <2>1, <2>4, <4>1, <5>2
      <4>2. CASE i # k
        <5>1. i + 1 \in 1 .. k
          BY <2>4, <4>2
        <5> QED
          BY <1>2, <2>1, <2>4, <5>1 DEF IInv, CallsOK
      <4> QED
        BY <4>1, <4>2
    <3> QED
      BY <3>1, <3>2, <3>3, <3>4, <3>5
  <2> QED
    BY <2>3, <2>4
<1>10. DiscoveredOK'
  <2> SUFFICES ASSUME NEW id \in Ids
               PROVE  /\ order'[id] <= count + 1
                      /\ order'[id] # 0 <=>
                           id \in finished \/ \E i \in 1 .. k + 1 : id = calls'[i].here
                      /\ id < root => order'[id] # 0
    <3>1. DOMAIN calls' = 1 .. k + 1
      BY <1>4
    <3>2. pushing' = pushing /\ root' = root /\ finished' = finished /\ count' = count + 1
      BY <1>1
    <3> QED
      BY <1>5, <3>1, <3>2 DEF DiscoveredOK, At
  <2>1. calls'[k + 1].here = There
    BY <1>3, <1>4, CallIsTyped
  <2>2. /\ order[id] <= count /\ (id < root => order[id] # 0)
        /\ order[id] # 0 <=> id \in finished \/ \E i \in 1 .. k : id = At(i)
    BY <1>2, <1>3 DEF IInv, DiscoveredOK
  <2>3. CASE id = There
    BY <1>5, <1>7, <2>1, <2>3
  <2>4. CASE id # There
    <3>1. (\E i \in 1 .. k + 1 : id = calls'[i].here) <=> \E i \in 1 .. k : id = At(i)
      <4>1. \A i \in 1 .. k + 1 : i \in 1 .. k \/ i = k + 1
        OBVIOUS
      <4>2. \A i \in 1 .. k : calls'[i].here = At(i)
        BY <1>4
      <4>3. \A i \in 1 .. k : i \in 1 .. k + 1
        OBVIOUS
      <4> QED
        BY <2>1, <2>4, <4>1, <4>2, <4>3
    <3>2. order'[id] = order[id] /\ order[id] \in Nat
      BY <1>3, <1>7, <2>4
    <3> QED
      BY <1>5, <2>2, <3>1, <3>2
  <2> QED
    BY <2>3, <2>4
<1>11. LoopsOK'
  <2> SUFFICES ASSUME NEW i \in 1 .. k + 1, NEW id \in Ids,
                      <<calls'[i].here, id>> \in history, id \notin calls'[i].left
               PROVE  \/ id \in finished
                      \/ ClosedBy(reported, calls'[i].here, id)
                      \/ i + 1 \in 1 .. k + 1 /\ id = calls'[i + 1].here
    BY <1>1, <1>4, <1>5 DEF LoopsOK, At
  <2>1. calls'[k + 1].here = There
    BY <1>3, <1>4, CallIsTyped
  <2>2. CASE i = k + 1
    BY <1>3, <1>4, <2>1, <2>2, CallIsTyped
  <2>3. CASE i \in 1 .. k /\ id \in calls[i].left
    <3>1. i = k /\ id = There
      BY <1>4, <2>3
    <3>2. i + 1 \in 1 .. k + 1 /\ calls'[i + 1].here = There
      BY <2>1, <3>1
    <3> QED
      BY <3>1, <3>2
  <2>4. CASE i \in 1 .. k /\ id \notin calls[i].left
    <3>1. <<At(i), id>> \in history
      BY <1>4, <2>4
    <3>2. \/ id \in finished
          \/ ClosedBy(reported, At(i), id)
          \/ i + 1 \in 1 .. k /\ id = At(i + 1)
      BY <1>2, <2>4, <3>1 DEF IInv, LoopsOK
    <3>3. calls'[i].here = At(i)
      BY <1>4, <2>4
    <3>4. \A j \in 1 .. k : calls'[j].here = At(j)
      BY <1>4
    <3>5. i + 1 \in 1 .. k => i + 1 \in 1 .. k + 1
      OBVIOUS
    <3> QED
      BY <3>2, <3>3, <3>4, <3>5
  <2> QED
    BY <2>2, <2>3, <2>4
<1>12. FinishedOK'
  BY <1>1, <1>5 DEF IInv, FinishedOK
<1>13. TrailOK'
  BY <1>1 DEF TrailOK
<1> QED
  BY <1>1, <1>8, <1>9, <1>10, <1>11, <1>12, <1>13, SearchIsQuiet DEF IInv

LEMMA NextRootStep ==
  ASSUME IInv, NextRoot
  PROVE  IInv'
<1>1. /\ pushing # {} /\ calls = <<>> /\ root <= Len(names) /\ root' = root + 1
      /\ UNCHANGED <<names, history, stack, waiting, pushing, finished, parent,
                     trail, reported>>
  BY DEF NextRoot, LastRoot
<1>2. /\ order \in [Ids -> Nat] /\ parent \in [Ids -> Nat] /\ count \in Nat
      /\ root \in Ids /\ Ids = 1 .. Len(names) /\ Len(names) \in Nat
  BY <1>1, IdsAreNumbers DEF IInv, SearchTypes, ReportsAreCircles
<1>3. Ids' = Ids
  BY <1>1 DEF Ids
<1>4. \A id \in Ids : /\ order[id] <= count
                      /\ order[id] # 0 <=> id \in finished
                      /\ id < root => order[id] # 0
  BY <1>1 DEF IInv, DiscoveredOK
<1>5. trail = <<>>
  BY <1>1 DEF IInv, TrailOK
<1>6. FinishedOK' /\ TrailOK'
  BY <1>1, <1>3, <1>5 DEF IInv, FinishedOK, TrailOK
<1>7. CASE order[root] # 0
  <2>1. UNCHANGED <<order, count, calls>>
    BY <1>7 DEF NextRoot
  <2>2. SearchTypes'
    BY <1>1, <1>2, <1>3, <2>1 DEF IInv, SearchTypes
  <2>3. CallsOK' /\ LoopsOK'
    BY <1>1, <2>1 DEF CallsOK, LoopsOK
  <2>4. DiscoveredOK'
    <3>1. \A id \in Ids : id < root + 1 => id < root \/ id = root
      BY <1>2
    <3> QED
      BY <1>1, <1>3, <1>4, <1>7, <2>1, <3>1 DEF DiscoveredOK
  <2> QED
    BY <1>1, <1>6, <2>2, <2>3, <2>4, SearchIsQuiet DEF IInv
<1>8. CASE order[root] = 0
  <2>1. /\ order' = [order EXCEPT ![root] = count + 1] /\ count' = count + 1
        /\ calls' = <<Call(root)>>
    BY <1>8 DEF NextRoot, Discover
  <2>2. /\ Call(root) \in [here : Ids, left : SUBSET Ids] /\ Call(root).here = root
        /\ \A there \in Ids : there \in Call(root).left <=> <<root, there>> \in history
    BY <1>2, CallIsTyped
  <2>3. /\ DOMAIN calls' = {1} /\ calls'[1] = Call(root)
        /\ calls' \in Seq([here : Ids, left : SUBSET Ids])
    BY <2>1, <2>2
  <2>4. /\ order' \in [Ids -> Nat] /\ order'[root] = count + 1
        /\ \A id \in Ids \ {root} : order'[id] = order[id]
    BY <1>2, <2>1
  <2>5. SearchTypes'
    BY <1>1, <1>2, <1>3, <2>1, <2>3, <2>4 DEF IInv, SearchTypes
  <2>6. CallsOK'
    <3>1. root \notin finished
      BY <1>2, <1>4, <1>8
    <3>2. Call(root).left \subseteq Ids
      BY <2>2
    <3> QED
      BY <1>1, <1>2, <2>2, <2>3, <2>4, <3>1, <3>2 DEF CallsOK, At
  <2>7. LoopsOK'
    BY <1>1, <1>3, <2>2, <2>3 DEF LoopsOK, At
  <2>8. DiscoveredOK'
    <3>1. \A id \in Ids : id < root + 1 => id < root \/ id = root
      BY <1>2
    <3>2. \A id \in Ids : (\E i \in DOMAIN calls' : id = calls'[i].here) <=> id = root
      BY <2>2, <2>3
    <3>3. ASSUME NEW id \in Ids
          PROVE  /\ order'[id] <= count'
                 /\ order'[id] # 0 <=> id \in finished \/ id = root
                 /\ id < root + 1 => order'[id] # 0
      <4>1. CASE id = root
        BY <1>2, <2>1, <2>4, <4>1
      <4>2. CASE id # root
        BY <1>2, <1>4, <2>1, <2>4, <3>1, <4>2
      <4> QED
        BY <4>1, <4>2
    <3> QED
      BY <1>1, <1>3, <3>2, <3>3 DEF DiscoveredOK, At
  <2> QED
    BY <1>1, <1>6, <2>5, <2>6, <2>7, <2>8, SearchIsQuiet DEF IInv
<1> QED
  BY <1>7, <1>8

-----------------------------------------------------------------------------
(* The steps of the threads.  When there is no search its part of the      *)
(* invariant asks for nothing.                                             *)
LEMMA NoSearch ==
  ASSUME calls' = <<>>, trail' = <<>>, finished' = {}, pushing' = {}
  PROVE  /\ CallsOK' /\ DiscoveredOK' /\ LoopsOK' /\ FinishedOK' /\ TrailOK'
         /\ OldEdges' = history' /\ PushOK'
<1>1. CallsOK' /\ DiscoveredOK' /\ LoopsOK' /\ TrailOK' /\ PushOK'
  BY DEF CallsOK, DiscoveredOK, LoopsOK, TrailOK, PushOK
<1>2. OldEdges' = history'
  BY DEF OldEdges
<1>3. FinishedOK'
  <2>1. [i \in Ids' |-> 0] \in [Ids' -> 0 .. 0]
    OBVIOUS
  <2> QED
    BY <2>1 DEF FinishedOK
<1> QED
  BY <1>1, <1>2, <1>3

LEMMA Idle ==
  ASSUME IInv, pushing = {}
  PROVE  /\ root = 1 /\ order = <<>> /\ count = 0 /\ finished = {} /\ parent = <<>>
         /\ calls = <<>> /\ trail = <<>> /\ OldEdges = history
BY DEF IInv, SearchTypes, OldEdges

(* The ids that there were keep their ranks when names are added.          *)
LEMMA RankedStays ==
  ASSUME IInv, pushing = {}, Ids \subseteq Ids', OldEdges' = history,
         reported' = reported
  PROVE  Ranked'
<1>1. PICK rank \in [Ids -> Nat] : \A e \in history :
        rank[e[2]] < rank[e[1]] \/ ClosedBy(reported, e[1], e[2])
  BY Idle DEF IInv, Ranked
<1> DEFINE wider == [i \in Ids' |-> IF i \in Ids THEN rank[i] ELSE 0]
<1>2. wider \in [Ids' -> Nat]
  OBVIOUS
<1>3. \A e \in history : e[1] \in Ids /\ e[2] \in Ids
  BY DEF IInv, ReportsAreCircles, TypeOK, Ids
<1>4. \A e \in history : wider[e[1]] = rank[e[1]] /\ wider[e[2]] = rank[e[2]]
  BY <1>3
<1> HIDE DEF wider
<1> QED
  BY <1>1, <1>2, <1>4 DEF Ranked

(* LLockStack.push.                                                        *)
LEMMA PushedStack ==
  ASSUME TypeOK, NEW t \in Threads, NEW l \in Locks,
         Len(stack[t]) < MaxDepth, Pushed(t, l)
  PROVE  /\ stack' \in [Threads -> Seq(Locks)]
         /\ \A u \in Threads : Len(stack'[u]) <= MaxDepth
         /\ waiting' \in [Threads -> BOOLEAN]
         /\ \A u \in Threads : waiting'[u] => stack'[u] # <<>>
         /\ Len(stack[t]) \in Nat /\ Len(stack'[t]) = Len(stack[t]) + 1
         /\ DOMAIN stack'[t] = 1 .. Len(stack[t]) + 1
         /\ stack'[t][Len(stack[t]) + 1] = l
         /\ \A i \in 1 .. Len(stack[t]) : stack'[t][i] = stack[t][i]
         /\ \A u \in Threads \ {t} : stack'[u] = stack[u]
<1>1. stack \in [Threads -> Seq(Locks)] /\ waiting \in [Threads -> BOOLEAN]
  BY DEF TypeOK
<1>2. /\ stack' = [stack EXCEPT ![t] = Append(@, l)]
      /\ waiting' = [waiting EXCEPT ![t] = TRUE]
  BY DEF Pushed
<1>3. stack'[t] = Append(stack[t], l) /\ \A u \in Threads \ {t} : stack'[u] = stack[u]
  BY <1>1, <1>2
<1>4. stack[t] \in Seq(Locks)
  BY <1>1
<1>5. /\ Append(stack[t], l) \in Seq(Locks)
      /\ Len(Append(stack[t], l)) = Len(stack[t]) + 1
      /\ Append(stack[t], l)[Len(stack[t]) + 1] = l
      /\ \A i \in 1 .. Len(stack[t]) : Append(stack[t], l)[i] = stack[t][i]
      /\ Append(stack[t], l) # <<>> /\ Len(stack[t]) \in Nat
  BY <1>4, AppendProperties, LenProperties
<1>6. DOMAIN Append(stack[t], l) = 1 .. Len(stack[t]) + 1
  BY <1>5, LenProperties
<1>7. stack' \in [Threads -> Seq(Locks)] /\ waiting' \in [Threads -> BOOLEAN]
  BY <1>1, <1>2, <1>5
<1>8. \A u \in Threads : Len(stack'[u]) <= MaxDepth
  BY <1>3, <1>5, DepthAssumption DEF TypeOK
<1>9. \A u \in Threads : waiting'[u] => stack'[u] # <<>>
  BY <1>1, <1>2, <1>3, <1>5 DEF TypeOK
<1> QED
  BY <1>3, <1>5, <1>6, <1>7, <1>8, <1>9

(* What a push needs to keep the pairs of the stacks searched.             *)
LEMMA PushedEdges ==
  ASSUME IInv, NEW t \in Threads, NEW l \in Locks, Len(stack[t]) < MaxDepth,
         Pushed(t, l), pushing' = {}, history \subseteq history',
         NameOf[l] \in ToSet(names'), ToSet(names) \subseteq ToSet(names'),
         \A m \in Locks : NameOf[m] \in ToSet(names) => Id(names', m) = Id(names, m),
         stack[t] # <<>> /\ NameOf[Last(stack[t])] # NameOf[l] =>
           <<Id(names', Last(stack[t])), Id(names', l)>> \in history'
  PROVE  StacksNamed' /\ StackEdges'
<1>1. TypeOK
  BY DEF IInv, ReportsAreCircles
<1>2. PICK n \in Nat : /\ n = Len(stack[t]) /\ Len(stack'[t]) = n + 1
                       /\ DOMAIN stack'[t] = 1 .. n + 1
  BY <1>1, PushedStack
<1>3. /\ stack'[t][n + 1] = l
      /\ \A i \in 1 .. n : stack'[t][i] = stack[t][i]
      /\ \A u \in Threads \ {t} : stack'[u] = stack[u]
  BY <1>1, <1>2, PushedStack
<1>4. DOMAIN stack[t] = 1 .. n
  BY <1>1, <1>2 DEF TypeOK
<1>5. \A u \in Threads : \A i \in DOMAIN stack[u] :
        stack[u][i] \in Locks /\ NameOf[stack[u][i]] \in ToSet(names)
  <2>1. \A u \in Threads : \A i \in DOMAIN stack[u] : stack[u][i] \in Locks
    BY <1>1, ElementOfSeq DEF TypeOK
  <2> QED
    BY <2>1 DEF IInv, StacksNamed
<1>6. StacksNamed'
  <2> SUFFICES ASSUME NEW u \in Threads, NEW i \in DOMAIN stack'[u]
               PROVE  NameOf[stack'[u][i]] \in ToSet(names')
    BY DEF StacksNamed
  <2>1. CASE u # t
    BY <1>3, <1>5, <2>1
  <2>2. CASE u = t /\ i = n + 1
    BY <1>3, <2>2
  <2>3. CASE u = t /\ i # n + 1
    <3>1. i \in 1 .. n
      BY <1>2, <2>3
    <3> QED
      BY <1>3, <1>4, <1>5, <2>3, <3>1
  <2> QED
    BY <2>1, <2>2, <2>3
<1>7. OldEdges \subseteq OldEdges'
  BY DEF OldEdges
<1>8. \A u \in Threads : \A i \in 1 .. Len(stack[u]) - 1 :
        NameOf[stack[u][i]] # NameOf[stack[u][i + 1]] =>
          <<Id(names', stack[u][i]), Id(names', stack[u][i + 1])>> \in OldEdges'
  <2> SUFFICES ASSUME NEW u \in Threads, NEW i \in 1 .. Len(stack[u]) - 1,
                      NameOf[stack[u][i]] # NameOf[stack[u][i + 1]]
               PROVE  <<Id(names', stack[u][i]), Id(names', stack[u][i + 1])>>
                        \in OldEdges'
    OBVIOUS
  <2>1. i \in DOMAIN stack[u] /\ i + 1 \in DOMAIN stack[u]
    BY <1>1 DEF TypeOK
  <2>2. /\ Id(names', stack[u][i]) = Id(names, stack[u][i])
        /\ Id(names', stack[u][i + 1]) = Id(names, stack[u][i + 1])
    BY <1>5, <2>1
  <2> QED
    BY <1>7, <2>2 DEF IInv, StackEdges
<1>9. StackEdges'
  <2> SUFFICES ASSUME NEW u \in Threads, NEW i \in 1 .. Len(stack'[u]) - 1,
                      NameOf[stack'[u][i]] # NameOf[stack'[u][i + 1]]
               PROVE  <<Id(names', stack'[u][i]), Id(names', stack'[u][i + 1])>>
                        \in OldEdges'
    BY DEF StackEdges
  <2>1. CASE u # t
    BY <1>3, <1>8, <2>1
  <2>2. CASE u = t /\ i = n
    <3>1. stack'[t][n] = Last(stack[t]) /\ stack[t] # <<>>
      BY <1>2, <1>3, <1>4, <2>2 DEF Last
    <3>2. <<Id(names', Last(stack[t])), Id(names', l)>> \in history'
      BY <1>3, <2>2, <3>1
    <3>3. OldEdges' = history'
      BY DEF OldEdges
    <3> QED
      BY <1>3, <2>2, <3>1, <3>2, <3>3
  <2>3. CASE u = t /\ i # n
    <3>1. i \in 1 .. n - 1 /\ i \in 1 .. n /\ i + 1 \in 1 .. n
      BY <1>2, <2>3
    <3>2. stack'[t][i] = stack[t][i] /\ stack'[t][i + 1] = stack[t][i + 1]
      BY <1>3, <3>1
    <3> QED
      BY <1>2, <1>8, <2>3, <3>1, <3>2
  <2> QED
    BY <2>1, <2>2, <2>3
<1> QED
  BY <1>6, <1>9

LEMMA ReportsStay ==
  ASSUME IInv, TypeOK', history \subseteq history', reported' = reported
  PROVE  ReportsAreCircles'
BY DEF IInv, ReportsAreCircles

LEMMA PushLockStep ==
  ASSUME IInv, NEW t \in Threads, NEW l \in Locks, PushLock(t, l)
  PROVE  IInv'
<1> DEFINE edge == <<Id(names', Last(stack[t])), Id(names', l)>>
<1>1. /\ pushing = {} /\ ~waiting[t] /\ Len(stack[t]) < MaxDepth
      /\ names' = Named(NameOf[l])
      /\ UNCHANGED <<root, count, finished, calls, trail, reported>>
  BY DEF PushLock, MutexIsFree
<1>2. TypeOK /\ NoLoops
  BY DEF IInv, ReportsAreCircles
<1>3. /\ names' \in Seq(Names) /\ IsInjective(names')
      /\ Ids \subseteq Ids' /\ Len(names) <= Len(names')
      /\ NameOf[l] \in ToSet(names') /\ ToSet(names) \subseteq ToSet(names')
      /\ Id(names', l) \in Ids' /\ names'[Id(names', l)] = NameOf[l]
      /\ \A m \in Locks : NameOf[m] \in ToSet(names) => Id(names', m) = Id(names, m)
  BY <1>1, <1>2, NamedKeeps DEF Ids
<1>4. /\ root = 1 /\ order = <<>> /\ count = 0 /\ finished = {} /\ parent = <<>>
      /\ calls = <<>> /\ trail = <<>> /\ OldEdges = history
  BY <1>1, Idle
<1>5. history \subseteq Ids' \X Ids' /\ \A c \in reported : c \in Seq(Ids')
  <2>1. \A c \in reported : c \in Seq(Ids)
    BY <1>2 DEF TypeOK, Ids
  <2>2. \A c \in Seq(Ids) : c \in Seq(Ids')
    BY <1>3
  <2> QED
    BY <1>2, <1>3, <2>1, <2>2 DEF TypeOK, Ids
<1>6. ASSUME stack[t] # <<>>
      PROVE  /\ Last(stack[t]) \in Locks /\ NameOf[Last(stack[t])] \in ToSet(names)
             /\ Id(names', Last(stack[t])) = Id(names, Last(stack[t]))
             /\ Id(names, Last(stack[t])) \in Ids
             /\ names'[Id(names', Last(stack[t]))] = NameOf[Last(stack[t])]
  <2>1. Len(stack[t]) \in DOMAIN stack[t] /\ Last(stack[t]) = stack[t][Len(stack[t])]
    BY <1>2, <1>6 DEF TypeOK, Last
  <2>2. Last(stack[t]) \in Locks
    BY <1>2, <2>1, ElementOfSeq DEF TypeOK
  <2>3. NameOf[Last(stack[t])] \in ToSet(names)
    BY <2>1 DEF IInv, StacksNamed
  <2>4. /\ Id(names, Last(stack[t])) \in Ids
        /\ Id(names', Last(stack[t])) = Id(names, Last(stack[t]))
    BY <1>2, <1>3, <2>2, <2>3, IdIsPlace
  <2>5. names'[Id(names', Last(stack[t]))] = NameOf[Last(stack[t])]
    <3>1. Last(stack[t]) \in Locks /\ NameOf[Last(stack[t])] \in ToSet(names')
      BY <1>3, <2>2, <2>3
    <3>2. \E i \in DOMAIN names' : names'[i] = NameOf[Last(stack[t])]
      BY <3>1 DEF ToSet
    <3> QED
      BY <3>2 DEF Id
  <2> QED
    BY <2>2, <2>3, <2>4, <2>5
<1>7. CASE stack[t] # <<>> /\ edge[1] # edge[2] /\ edge \notin history
  <2>1. /\ history' = history \cup {edge} /\ pushing' = {<<t, l>>}
        /\ order' = [i \in Ids' |-> 0] /\ parent' = [i \in Ids' |-> 0]
        /\ UNCHANGED <<stack, waiting>>
    BY <1>7 DEF PushLock, Recorded, Ids
  <2>2. edge \in Ids' \X Ids'
    BY <1>3, <1>6, <1>7
  <2>3. TypeOK'
    BY <1>1, <1>2, <1>3, <1>5, <2>1, <2>2 DEF TypeOK, Ids
  <2>4. ReportsAreCircles' /\ NoLoops'
    BY <1>1, <1>2, <1>7, <2>1, <2>3, ReportsStay DEF NoLoops
  <2>5. Asked(<<t, l>>)' = edge
    BY <2>1 DEF Asked
  <2>6. OldEdges' = history
    <3>1. \A p \in pushing' : p = <<t, l>>
      BY <2>1
    <3>2. OldEdges' = {e \in history' : e # edge}
      BY <2>1, <2>5, <3>1 DEF OldEdges
    <3> QED
      BY <1>7, <2>1, <3>2
  <2>7. PushOK'
    <3>1. \A p \in pushing' : p = <<t, l>> /\ pushing' = {p}
      BY <2>1
    <3>2. /\ ~waiting'[t] /\ stack'[t] # <<>> /\ Len(stack'[t]) < MaxDepth
          /\ NameOf[l] \in ToSet(names') /\ Asked(<<t, l>>)' \in history'
      BY <1>1, <1>3, <1>7, <2>1, <2>5
    <3> QED
      BY <3>1, <3>2 DEF PushOK, Asked
  <2>8. StacksNamed'
    BY <1>3, <2>1 DEF IInv, StacksNamed
  <2>9. StackEdges'
    <3> SUFFICES ASSUME NEW u \in Threads, NEW i \in 1 .. Len(stack[u]) - 1,
                        NameOf[stack[u][i]] # NameOf[stack[u][i + 1]]
                 PROVE  <<Id(names', stack[u][i]), Id(names', stack[u][i + 1])>>
                          \in OldEdges'
      BY <2>1 DEF StackEdges
    <3>1. i \in DOMAIN stack[u] /\ i + 1 \in DOMAIN stack[u]
      BY <1>2 DEF TypeOK
    <3>2. stack[u][i] \in Locks /\ stack[u][i + 1] \in Locks
      BY <1>2, <3>1, ElementOfSeq DEF TypeOK
    <3>3. /\ Id(names', stack[u][i]) = Id(names, stack[u][i])
          /\ Id(names', stack[u][i + 1]) = Id(names, stack[u][i + 1])
      BY <1>3, <3>1, <3>2 DEF IInv, StacksNamed
    <3> QED
      BY <1>4, <2>6, <3>3 DEF IInv, StackEdges
  <2>10. Ranked'
    BY <1>1, <1>3, <2>6, RankedStays
  <2>11. SearchTypes'
    <3>1. Len(names') \in Nat
      BY <1>3
    <3>2. calls' = <<>> /\ trail' = <<>> /\ root' = 1 /\ count' = 0 /\ finished' = {}
      BY <1>1, <1>4
    <3>3. 1 \in 1 .. Len(names') + 1
      BY <3>1
    <3>4. order' \in [Ids' -> Nat] /\ parent' \in [Ids' -> Nat] /\ pushing' # {}
      BY <2>1
    <3>5. <<>> \in Seq([here : Ids', left : SUBSET Ids']) /\ <<>> \in Seq(Ids')
      OBVIOUS
    <3> QED
      BY <3>2, <3>3, <3>4, <3>5 DEF SearchTypes
  <2>12. CallsOK' /\ LoopsOK' /\ TrailOK'
    BY <1>1, <1>4 DEF CallsOK, LoopsOK, TrailOK
  <2>13. DiscoveredOK'
    <3>1. \A id \in Ids' : order'[id] = 0 /\ id >= 1
      BY <1>3, <2>1 DEF Ids
    <3>2. /\ calls' = <<>> /\ finished' = {} /\ count' = 0 /\ root' = 1
      BY <1>1, <1>4
    <3>3. \A id \in Ids' : ~(id < 1)
      BY <1>3, LenProperties DEF Ids
    <3> QED
      BY <3>1, <3>2, <3>3 DEF DiscoveredOK
  <2>14. FinishedOK'
    <3>1. [i \in Ids' |-> 0] \in [Ids' -> 0 .. 0] /\ finished' = {}
      BY <1>1, <1>4
    <3> QED
      BY <3>1 DEF FinishedOK
  <2> QED
    BY <2>4, <2>7, <2>8, <2>9, <2>10, <2>11, <2>12, <2>13, <2>14 DEF IInv
<1>8. CASE ~(stack[t] # <<>> /\ edge[1] # edge[2] /\ edge \notin history)
  <2>1. Pushed(t, l) /\ UNCHANGED <<history, pushing, order, parent>>
    BY <1>8 DEF PushLock
  <2>2. TypeOK'
    <3>1. /\ stack' \in [Threads -> Seq(Locks)]
          /\ \A u \in Threads : Len(stack'[u]) <= MaxDepth
          /\ waiting' \in [Threads -> BOOLEAN]
          /\ \A u \in Threads : waiting'[u] => stack'[u] # <<>>
      BY <1>1, <1>2, <2>1, PushedStack
    <3>2. pushing' \subseteq Threads \X Locks
      BY <1>1, <2>1
    <3>3. history' \subseteq Ids' \X Ids' /\ \A c \in reported' : c \in Seq(Ids')
      BY <1>1, <1>5, <2>1
    <3> QED
      BY <1>3, <3>1, <3>2, <3>3 DEF TypeOK, Ids
  <2>3. ReportsAreCircles' /\ NoLoops'
    BY <1>1, <1>2, <2>1, <2>2, ReportsStay DEF NoLoops
  <2>4. ASSUME stack[t] # <<>>, NameOf[Last(stack[t])] # NameOf[l]
        PROVE  edge \in history
    BY <1>3, <1>6, <1>8, <2>4
  <2>5. StacksNamed' /\ StackEdges'
    BY <1>1, <1>3, <2>1, <2>4, PushedEdges
  <2>6. /\ CallsOK' /\ DiscoveredOK' /\ LoopsOK' /\ FinishedOK' /\ TrailOK'
        /\ OldEdges' = history' /\ PushOK'
    BY <1>1, <1>4, <2>1, NoSearch
  <2>7. Ranked'
    BY <1>1, <1>3, <2>1, <2>6, RankedStays
  <2>8. SearchTypes'
    <3>1. 1 \in 1 .. Len(names') + 1
      BY <1>3
    <3>2. /\ calls' = <<>> /\ trail' = <<>> /\ root' = 1 /\ count' = 0
          /\ finished' = {} /\ order' = <<>> /\ parent' = <<>> /\ pushing' = {}
      BY <1>1, <1>4, <2>1
    <3> QED
      BY <3>1, <3>2 DEF SearchTypes
  <2> QED
    BY <2>3, <2>5, <2>6, <2>7, <2>8 DEF IInv
<1> QED
  BY <1>7, <1>8

(* All ids are finished, so that all the pairs lead down.                  *)
LEMMA SearchedStep ==
  ASSUME IInv, NEW t \in Threads, NEW l \in Locks, Searched(t, l)
  PROVE  IInv'
<1>1. /\ <<t, l>> \in pushing /\ calls = <<>> /\ root > Len(names)
      /\ pushing' = {} /\ root' = 1 /\ order' = <<>> /\ count' = 0
      /\ finished' = {} /\ parent' = <<>> /\ Pushed(t, l)
      /\ UNCHANGED <<names, history, calls, trail, reported>>
  BY DEF Searched, LastRoot
<1>2. TypeOK /\ NoLoops
  BY DEF IInv, ReportsAreCircles
<1>3. /\ pushing = {<<t, l>>} /\ Len(stack[t]) < MaxDepth
      /\ NameOf[l] \in ToSet(names) /\ Asked(<<t, l>>) \in history
  BY <1>1 DEF IInv, PushOK
<1>4. trail = <<>>
  BY <1>1 DEF IInv, TrailOK
<1>5. /\ CallsOK' /\ DiscoveredOK' /\ LoopsOK' /\ FinishedOK' /\ TrailOK'
      /\ OldEdges' = history /\ PushOK'
  BY <1>1, <1>4, NoSearch
<1>6. TypeOK'
  <2>1. /\ stack' \in [Threads -> Seq(Locks)]
        /\ \A u \in Threads : Len(stack'[u]) <= MaxDepth
        /\ waiting' \in [Threads -> BOOLEAN]
        /\ \A u \in Threads : waiting'[u] => stack'[u] # <<>>
    BY <1>1, <1>2, <1>3, PushedStack
  <2> QED
    BY <1>1, <1>2, <2>1 DEF TypeOK
<1>7. ReportsAreCircles' /\ NoLoops'
  BY <1>1, <1>2, <1>6, ReportsStay DEF NoLoops
<1>8. StacksNamed' /\ StackEdges'
  BY <1>1, <1>3, PushedEdges DEF Asked
<1>9. SearchTypes'
  <2>1. 1 \in 1 .. Len(names') + 1
    BY <1>1, <1>2, IdsAreNumbers
  <2> QED
    BY <1>1, <1>4, <2>1 DEF SearchTypes
<1>10. \A id \in Ids : id \in finished
  <2>1. \A id \in Ids : id < root
    BY <1>1, <1>2, IdsAreNumbers DEF IInv, SearchTypes
  <2> QED
    BY <1>1, <2>1 DEF IInv, DiscoveredOK
<1>11. Ranked'
  <2>1. PICK k \in Nat :
          \E rank \in [Ids -> 0 .. k] :
            \A f \in finished, id \in Ids :
              <<f, id>> \in history =>
                ClosedBy(reported, f, id) \/ (id \in finished /\ rank[id] < rank[f])
    BY DEF IInv, FinishedOK
  <2>2. PICK rank \in [Ids -> 0 .. k] :
            \A f \in finished, id \in Ids :
              <<f, id>> \in history =>
                ClosedBy(reported, f, id) \/ (id \in finished /\ rank[id] < rank[f])
    BY <2>1
  <2>3. rank \in [Ids -> Nat]
    BY <2>2
  <2>4. \A e \in history : e[1] \in Ids /\ e[2] \in Ids /\ e = <<e[1], e[2]>>
    BY <1>2 DEF TypeOK, Ids
  <2>5. \A e \in history : rank[e[2]] < rank[e[1]] \/ ClosedBy(reported, e[1], e[2])
    BY <1>10, <2>2, <2>4
  <2>6. Ids' = Ids /\ reported' = reported
    BY <1>1 DEF Ids
  <2> QED
    BY <1>5, <2>3, <2>5, <2>6 DEF Ranked
<1> QED
  BY <1>5, <1>7, <1>8, <1>9, <1>11 DEF IInv

LEMMA AcquireStep ==
  ASSUME IInv, NEW t \in Threads, Acquire(t)
  PROVE  IInv'
<1>1. /\ waiting[t] /\ waiting' = [waiting EXCEPT ![t] = FALSE]
      /\ UNCHANGED <<names, history, stack, pushing, searchVars, reported>>
  BY DEF Acquire
<1>2. /\ UNCHANGED <<names, history, stack, pushing, reported>>
      /\ UNCHANGED <<root, order, count, finished, parent, calls, trail>>
  BY <1>1 DEF searchVars
<1>3. TypeOK /\ NoLoops
  BY DEF IInv, ReportsAreCircles
<1>4. TypeOK'
  <2>1. waiting' \in [Threads -> BOOLEAN] /\ \A u \in Threads : waiting'[u] => waiting[u]
    BY <1>1, <1>3 DEF TypeOK
  <2> QED
    BY <1>2, <1>3, <2>1 DEF TypeOK
<1>5. ReportsAreCircles' /\ NoLoops'
  BY <1>2, <1>3, <1>4, ReportsStay DEF NoLoops
<1>6. PushOK'
  <2>1. \A p \in pushing : p[1] \in Threads /\ p[1] # t
    BY <1>1, <1>3 DEF IInv, PushOK, TypeOK
  <2>2. \A p \in pushing : waiting'[p[1]] = waiting[p[1]]
    BY <1>1, <1>3, <2>1 DEF TypeOK
  <2> QED
    BY <1>2, <2>2 DEF IInv, PushOK, Asked
<1>7. OldEdges' = OldEdges /\ Ids' = Ids
  BY <1>2 DEF OldEdges, Asked, Ids
<1>8. StacksNamed' /\ StackEdges' /\ Ranked'
  BY <1>2, <1>7 DEF IInv, StacksNamed, StackEdges, Ranked
<1>9. SearchTypes' /\ CallsOK' /\ LoopsOK' /\ DiscoveredOK'
  BY <1>2, <1>7 DEF IInv, SearchTypes, CallsOK, LoopsOK, DiscoveredOK, At
<1>10. FinishedOK' /\ TrailOK'
  BY <1>2, <1>7 DEF IInv, FinishedOK, TrailOK, At, There
<1> QED
  BY <1>5, <1>6, <1>8, <1>9, <1>10 DEF IInv

LEMMA PopLockStep ==
  ASSUME IInv, NEW t \in Threads, PopLock(t)
  PROVE  IInv'
<1>1. /\ pushing = {} /\ ~waiting[t] /\ stack[t] # <<>>
      /\ stack' = [stack EXCEPT ![t] = Front(@)]
      /\ UNCHANGED <<names, history, waiting, pushing, reported>>
      /\ UNCHANGED <<root, order, count, finished, parent, calls, trail>>
  BY DEF PopLock, MutexIsFree, searchVars
<1>2. TypeOK /\ NoLoops
  BY DEF IInv, ReportsAreCircles
<1>3. /\ root = 1 /\ order = <<>> /\ count = 0 /\ finished = {} /\ parent = <<>>
      /\ calls = <<>> /\ trail = <<>> /\ OldEdges = history
  BY <1>1, Idle
<1>4. /\ CallsOK' /\ DiscoveredOK' /\ LoopsOK' /\ FinishedOK' /\ TrailOK'
      /\ OldEdges' = history /\ PushOK'
  BY <1>1, <1>3, NoSearch
<1>5. /\ stack'[t] = Front(stack[t]) /\ \A u \in Threads \ {t} : stack'[u] = stack[u]
  BY <1>1, <1>2 DEF TypeOK
<1>6. stack[t] \in Seq(Locks) /\ Len(stack[t]) \in Nat \ {0}
  BY <1>1, <1>2, EmptySeq, LenProperties DEF TypeOK
<1>7. PICK n \in Nat : Len(stack[t]) = n + 1
  <2>1. Len(stack[t]) - 1 \in Nat /\ Len(stack[t]) = (Len(stack[t]) - 1) + 1
    BY <1>6
  <2> QED
    BY <2>1
<1>8. /\ Front(stack[t]) \in Seq(Locks) /\ Len(Front(stack[t])) = n
      /\ \A i \in 1 .. n : Front(stack[t])[i] = stack[t][i]
  BY <1>6, <1>7 DEF Front
<1>9. /\ stack' \in [Threads -> Seq(Locks)]
      /\ \A u \in Threads : /\ Len(stack'[u]) <= Len(stack[u])
                            /\ \A i \in 1 .. Len(stack'[u]) :
                                 /\ stack'[u][i] = stack[u][i]
                                 /\ i \in 1 .. Len(stack[u])
      /\ \A u \in Threads : Len(stack[u]) \in Nat /\ Len(stack'[u]) \in Nat
  <2>1. stack' \in [Threads -> Seq(Locks)]
    BY <1>1, <1>2, <1>8 DEF TypeOK
  <2>2. \A u \in Threads : Len(stack[u]) \in Nat /\ Len(stack'[u]) \in Nat
    BY <1>2, <2>1, LenProperties DEF TypeOK
  <2>3. ASSUME NEW u \in Threads
        PROVE  /\ Len(stack'[u]) <= Len(stack[u])
               /\ \A i \in 1 .. Len(stack'[u]) : /\ stack'[u][i] = stack[u][i]
                                              /\ i \in 1 .. Len(stack[u])
    <3>1. CASE u = t
      BY <1>5, <1>7, <1>8, <3>1
    <3>2. CASE u # t
      BY <1>5, <2>2, <3>2
    <3> QED
      BY <3>1, <3>2
  <2> QED
    BY <2>1, <2>2, <2>3
<1>10. TypeOK'
  <2>1. \A u \in Threads : Len(stack'[u]) <= MaxDepth
    BY <1>2, <1>9, DepthAssumption DEF TypeOK
  <2>2. \A u \in Threads : waiting'[u] => stack'[u] # <<>>
    BY <1>1, <1>2, <1>5 DEF TypeOK
  <2> QED
    BY <1>1, <1>2, <1>9, <2>1, <2>2 DEF TypeOK
<1>11. ReportsAreCircles' /\ NoLoops'
  BY <1>1, <1>2, <1>10, ReportsStay DEF NoLoops
<1>12. StacksNamed'
  <2> SUFFICES ASSUME NEW u \in Threads, NEW i \in DOMAIN stack'[u]
               PROVE  NameOf[stack'[u][i]] \in ToSet(names)
    BY <1>1 DEF StacksNamed
  <2>1. i \in 1 .. Len(stack'[u])
    BY <1>9, LenProperties
  <2>2. stack'[u][i] = stack[u][i] /\ i \in DOMAIN stack[u]
    BY <1>2, <1>9, <2>1, LenProperties DEF TypeOK
  <2> QED
    BY <2>2 DEF IInv, StacksNamed
<1>13. StackEdges'
  <2> SUFFICES ASSUME NEW u \in Threads, NEW i \in 1 .. Len(stack'[u]) - 1,
                      NameOf[stack'[u][i]] # NameOf[stack'[u][i + 1]]
               PROVE  <<Id(names, stack'[u][i]), Id(names, stack'[u][i + 1])>>
                        \in history
    BY <1>1, <1>4 DEF StackEdges
  <2>1. i \in 1 .. Len(stack'[u]) /\ i + 1 \in 1 .. Len(stack'[u])
    BY <1>9
  <2>2. stack'[u][i] = stack[u][i] /\ stack'[u][i + 1] = stack[u][i + 1]
    BY <1>9, <2>1
  <2>3. i \in 1 .. Len(stack[u]) - 1
    BY <1>9
  <2> QED
    BY <1>3, <2>2, <2>3 DEF IInv, StackEdges
<1>14. Ranked' /\ SearchTypes'
  <2>1. Ids' = Ids
    BY <1>1 DEF Ids
  <2> QED
    BY <1>1, <1>3, <1>4, <2>1 DEF IInv, Ranked, SearchTypes
<1> QED
  BY <1>4, <1>11, <1>12, <1>13, <1>14 DEF IInv

-----------------------------------------------------------------------------
LEMMA InitIsOK ==
  ASSUME Init
  PROVE  IInv
<1>1. /\ names = <<>> /\ history = {} /\ stack = [t \in Threads |-> <<>>]
      /\ waiting = [t \in Threads |-> FALSE] /\ pushing = {}
      /\ root = 1 /\ order = <<>> /\ count = 0 /\ finished = {}
      /\ parent = <<>> /\ calls = <<>> /\ trail = <<>> /\ reported = {}
  BY DEF Init
<1>2. TypeOK
  <2>1. names \in Seq(Names) /\ IsInjective(names)
    BY <1>1 DEF IsInjective
  <2>2. stack \in [Threads -> Seq(Locks)] /\ \A t \in Threads : Len(stack[t]) <= MaxDepth
    BY <1>1, DepthAssumption
  <2> QED
    BY <1>1, <2>1, <2>2 DEF TypeOK
<1>3. ReportsAreCircles /\ NoLoops
  BY <1>1, <1>2 DEF ReportsAreCircles, NoLoops
<1>4. SearchTypes
  BY <1>1 DEF SearchTypes
<1>5. PushOK /\ StacksNamed /\ StackEdges
  <2>1. \A t \in Threads : DOMAIN stack[t] = {} /\ Len(stack[t]) = 0
    BY <1>1
  <2>2. \A t \in Threads : 1 .. Len(stack[t]) - 1 = {}
    BY <2>1
  <2> QED
    BY <1>1, <2>1, <2>2 DEF PushOK, StacksNamed, StackEdges
<1>6. Ranked
  <2>1. [i \in Ids |-> 0] \in [Ids -> Nat] /\ OldEdges = {}
    BY <1>1 DEF OldEdges
  <2> QED
    BY <2>1 DEF Ranked
<1>7. CallsOK /\ DiscoveredOK /\ LoopsOK /\ TrailOK
  BY <1>1 DEF CallsOK, DiscoveredOK, LoopsOK, TrailOK
<1>8. FinishedOK
  <2>1. [i \in Ids |-> 0] \in [Ids -> 0 .. 0]
    OBVIOUS
  <2> QED
    BY <1>1, <2>1 DEF FinishedOK
<1> QED
  BY <1>3, <1>4, <1>5, <1>6, <1>7, <1>8 DEF IInv

LEMMA StutterStep ==
  ASSUME IInv, UNCHANGED vars
  PROVE  IInv'
<1>1. /\ UNCHANGED <<names, history, stack, waiting, pushing, reported>>
      /\ UNCHANGED <<root, order, count, finished, parent, calls, trail>>
  BY DEF vars, searchVars
<1>2. /\ ReportsAreCircles' /\ NoLoops' /\ PushOK'
      /\ StacksNamed' /\ StackEdges' /\ Ranked'
  BY <1>1, SearchIsQuiet
<1>3. Ids' = Ids
  BY <1>1 DEF Ids
<1>4. SearchTypes' /\ CallsOK' /\ LoopsOK' /\ DiscoveredOK'
  BY <1>1, <1>3 DEF IInv, SearchTypes, CallsOK, LoopsOK, DiscoveredOK, At
<1>5. FinishedOK' /\ TrailOK'
  BY <1>1, <1>3 DEF IInv, FinishedOK, TrailOK, At, There
<1> QED
  BY <1>2, <1>4, <1>5 DEF IInv

(* The invariant holds for every number of threads, locks and names: the   *)
(* search finds its way back from a circle it has printed, and what it has *)
(* finished stays ranked, whatever other threads do meanwhile.             *)
THEOREM ProfilerInvariantHolds == Spec => []IInv
<1>1. Init => IInv
  BY InitIsOK
<1>2. IInv /\ [Next]_vars => IInv'
  <2> SUFFICES ASSUME IInv, [Next]_vars
               PROVE  IInv'
    OBVIOUS
  <2>1. CASE UNCHANGED vars
    BY <2>1, StutterStep
  <2>2. ASSUME NEW t \in Threads, NEW l \in Locks, PushLock(t, l)
        PROVE  IInv'
    BY <2>2, PushLockStep
  <2>3. ASSUME NEW t \in Threads, Acquire(t)
        PROVE  IInv'
    BY <2>3, AcquireStep
  <2>4. ASSUME NEW t \in Threads, PopLock(t)
        PROVE  IInv'
    BY <2>4, PopLockStep
  <2>5. CASE NextRoot
    BY <2>5, NextRootStep
  <2>6. CASE Descend
    BY <2>6, DescendStep
  <2>7. CASE PassOver
    BY <2>7, PassOverStep
  <2>8. CASE SeeCircle
    BY <2>8, SeeCircleStep
  <2>9. CASE PrintParent
    BY <2>9, PrintParentStep
  <2>10. CASE Return
    BY <2>10, ReturnStep
  <2>11. ASSUME NEW t \in Threads, NEW l \in Locks, Searched(t, l)
         PROVE  IInv'
    BY <2>11, SearchedStep
  <2> QED
    BY <2>1, <2>2, <2>3, <2>4, <2>5, <2>6, <2>7, <2>8, <2>9, <2>10, <2>11
       DEF Next, Search
<1> QED
  BY <1>1, <1>2, PTL DEF Spec

(* What is printed as a deadlock is a circle of the lock history that goes *)
(* through no name twice, although _parent and _finished are not reset     *)
(* when a circle has been printed.                                         *)
THEOREM ReportsAreAlwaysCircles == Spec => []ReportsAreCircles
<1>1. IInv => ReportsAreCircles
  BY DEF IInv
<1> QED
  BY <1>1, ProfilerInvariantHolds, PTL

-----------------------------------------------------------------------------
(* The places between a lock that another thread waits for and the top.    *)
LEMMA InvolvedPlaces ==
  ASSUME TypeOK, NEW T \in SUBSET Threads
  PROVE  /\ \A p \in Involved(T) :
              /\ p = <<p[1], p[2]>> /\ p[1] \in T
              /\ Len(stack[p[1]]) \in Nat /\ p[2] \in 1 .. Len(stack[p[1]])
              /\ LockAt(p) \in Locks
              /\ \E u \in T \ {p[1]}, j \in 1 .. p[2] :
                   j <= Depth(p[1]) /\ stack[p[1]][j] = Wanted(u)
         /\ \A t \in T : \A i \in 1 .. Len(stack[t]) :
              (\E u \in T \ {t}, j \in 1 .. i :
                 j <= Depth(t) /\ stack[t][j] = Wanted(u))
              => <<t, i>> \in Involved(T)
<1>1. \A t \in Threads : /\ stack[t] \in Seq(Locks) /\ Len(stack[t]) \in Nat
                        /\ DOMAIN stack[t] = 1 .. Len(stack[t])
                        /\ Len(stack[t]) <= MaxDepth
  BY LenProperties DEF TypeOK
<1>2. ASSUME NEW p \in Involved(T)
      PROVE  /\ p = <<p[1], p[2]>> /\ p[1] \in T
             /\ p[2] \in DOMAIN stack[p[1]]
             /\ \E u \in T \ {p[1]}, j \in 1 .. p[2] :
                  j <= Depth(p[1]) /\ stack[p[1]][j] = Wanted(u)
  BY DEF Involved
<1>3. ASSUME NEW p \in Involved(T)
      PROVE  /\ Len(stack[p[1]]) \in Nat /\ p[2] \in 1 .. Len(stack[p[1]])
             /\ LockAt(p) \in Locks
  <2>1. p[1] \in Threads /\ p[2] \in DOMAIN stack[p[1]]
    BY <1>2
  <2>2. stack[p[1]][p[2]] \in Locks
    BY <1>1, <2>1, ElementOfSeq
  <2> QED
    BY <1>1, <2>1, <2>2 DEF LockAt
<1>4. ASSUME NEW t \in T, NEW i \in 1 .. Len(stack[t]),
             NEW u \in T \ {t}, NEW j \in 1 .. i,
             j <= Depth(t), stack[t][j] = Wanted(u)
      PROVE  <<t, i>> \in Involved(T)
  <2>1. i \in 1 .. MaxDepth
    BY <1>1, DepthAssumption
  <2>2. i \in DOMAIN stack[t]
    BY <1>1
  <2> QED
    BY <1>4, <2>1, <2>2 DEF Involved
<1> QED
  BY <1>2, <1>3, <1>4

(* If no pair of involved locks leads away from a name, all that lies      *)
(* above a lock of that name has it too: take the lowest that has not.     *)
LEMMA NameGoesUp ==
  ASSUME IInv, NEW T \in SUBSET Threads, NEW name,
         \A p, q \in Involved(T) :
           q = <<p[1], p[2] + 1>> /\ NameOf[LockAt(p)] = name
           => NameOf[LockAt(q)] = name,
         NEW p \in Involved(T), NameOf[LockAt(p)] = name
  PROVE  \A i \in p[2] .. Len(stack[p[1]]) : NameOf[stack[p[1]][i]] = name
<1> DEFINE Other == {i \in p[2] .. Len(stack[p[1]]) : NameOf[stack[p[1]][i]] # name}
<1>0. TypeOK
  BY DEF IInv, ReportsAreCircles
<1>1. /\ p = <<p[1], p[2]>> /\ p[1] \in T
      /\ Len(stack[p[1]]) \in Nat /\ p[2] \in 1 .. Len(stack[p[1]])
      /\ \E u \in T \ {p[1]}, j \in 1 .. p[2] :
           j <= Depth(p[1]) /\ stack[p[1]][j] = Wanted(u)
  BY <1>0, InvolvedPlaces
<1>2. \A i \in p[2] .. Len(stack[p[1]]) : <<p[1], i>> \in Involved(T)
  <2> SUFFICES ASSUME NEW i \in p[2] .. Len(stack[p[1]])
               PROVE  <<p[1], i>> \in Involved(T)
    OBVIOUS
  <2>1. i \in 1 .. Len(stack[p[1]]) /\ 1 .. p[2] \subseteq 1 .. i
    BY <1>1
  <2>2. \E u \in T \ {p[1]}, j \in 1 .. i :
          j <= Depth(p[1]) /\ stack[p[1]][j] = Wanted(u)
    BY <1>1, <2>1
  <2> QED
    BY <1>0, <1>1, <2>1, <2>2, InvolvedPlaces
<1>3. ASSUME Other # {}
      PROVE  FALSE
  <2>1. Other \in SUBSET Nat
    BY <1>1
  <2>2. PICK i \in Other : \A m \in Other : i <= m
    <3> HIDE DEF Other
    <3> QED
      BY <1>3, <2>1, LeastNumber
  <2>3. /\ i \in p[2] .. Len(stack[p[1]]) /\ NameOf[stack[p[1]][i]] # name
        /\ i \in Nat /\ i # p[2]
    <3>1. i \in p[2] .. Len(stack[p[1]]) /\ NameOf[stack[p[1]][i]] # name
      BY <2>2
    <3>2. NameOf[stack[p[1]][p[2]]] = name
      BY DEF LockAt
    <3> QED
      BY <1>1, <3>1, <3>2
  <2>4. /\ i - 1 \in p[2] .. Len(stack[p[1]]) /\ i = (i - 1) + 1 /\ ~(i <= i - 1)
    BY <1>1, <2>3
  <2>5. NameOf[stack[p[1]][i - 1]] = name
    <3>1. i - 1 \notin Other
      <4> HIDE DEF Other
      <4> QED
        BY <2>2, <2>4
    <3> QED
      BY <2>4, <3>1
  <2>6. <<p[1], i - 1>> \in Involved(T) /\ <<p[1], i>> \in Involved(T)
    BY <1>2, <2>3, <2>4
  <2> DEFINE r == <<p[1], i - 1>>
             q == <<p[1], i>>
  <2>7. q = <<r[1], r[2] + 1>> /\ r \in Involved(T) /\ q \in Involved(T)
    BY <2>4, <2>6
  <2>8. NameOf[LockAt(r)] = name /\ NameOf[LockAt(q)] # name
    BY <2>3, <2>5 DEF LockAt
  <2> QED
    BY <2>7, <2>8
<1> QED
  BY <1>3

(* Involved locks that are next to each other and have different names are *)
(* a pair that has been searched.                                          *)
LEMMA InvolvedEdge ==
  ASSUME IInv, NEW T \in SUBSET Threads,
         NEW p \in Involved(T), NEW q \in Involved(T), q = <<p[1], p[2] + 1>>,
         NameOf[LockAt(p)] # NameOf[LockAt(q)]
  PROVE  <<Id(names, LockAt(p)), Id(names, LockAt(q))>> \in OldEdges
<1>0. TypeOK
  BY DEF IInv, ReportsAreCircles
<1>1. /\ p[1] \in T /\ Len(stack[p[1]]) \in Nat /\ p[2] \in 1 .. Len(stack[p[1]])
      /\ q[1] = p[1] /\ q[2] = p[2] + 1 /\ q[2] \in 1 .. Len(stack[q[1]])
  BY <1>0, InvolvedPlaces
<1>2. p[2] \in 1 .. Len(stack[p[1]]) - 1
  BY <1>1
<1>3. LockAt(p) = stack[p[1]][p[2]] /\ LockAt(q) = stack[p[1]][p[2] + 1]
  BY <1>1 DEF LockAt
<1>4. NameOf[stack[p[1]][p[2]]] # NameOf[stack[p[1]][p[2] + 1]]
  BY <1>3
<1>5. <<Id(names, stack[p[1]][p[2]]), Id(names, stack[p[1]][p[2] + 1])>> \in OldEdges
  BY <1>1, <1>2, <1>4 DEF IInv, StackEdges
<1> QED
  BY <1>3, <1>5

LEMMA InvolvedIds ==
  ASSUME IInv, NEW T \in SUBSET Threads, NEW p \in Involved(T)
  PROVE  /\ Id(names, LockAt(p)) \in Ids
         /\ names[Id(names, LockAt(p))] = NameOf[LockAt(p)]
<1>0. TypeOK
  BY DEF IInv, ReportsAreCircles
<1>1. /\ p[1] \in T /\ p[2] \in 1 .. Len(stack[p[1]]) /\ LockAt(p) \in Locks
  BY <1>0, InvolvedPlaces
<1>2. p[2] \in DOMAIN stack[p[1]]
  BY <1>0, <1>1, LenProperties DEF TypeOK
<1>3. NameOf[LockAt(p)] \in ToSet(names)
  BY <1>1, <1>2 DEF IInv, StacksNamed, LockAt
<1> QED
  BY <1>0, <1>1, <1>3, IdIsPlace

(* The name of least rank cannot be left but by a pair that closed a       *)
(* circle; if it is not left at all the threads that wait for a lock of    *)
(* this name wait for each other, and are all of them.                     *)
LEMMA DeadlockIsSeen ==
  ASSUME IInv, NEW T \in SUBSET Threads, Deadlocked(T),
         ~ \E p, q \in Involved(T) :
             /\ q = <<p[1], p[2] + 1>>
             /\ ClosedBy(reported, Id(names, LockAt(p)), Id(names, LockAt(q)))
  PROVE  \A p, q \in Involved(T) : NameOf[LockAt(p)] = NameOf[LockAt(q)]
<1>0. TypeOK /\ T # {}
  BY DEF IInv, ReportsAreCircles, Deadlocked, Blocked
<1>1. \A t \in T : waiting[t] /\ \E u \in T \ {t} : Wanted(t) \in Held(u)
  BY DEF Deadlocked, Blocked
<1>2. \A S \in SUBSET T : Blocked(S) => S = T
  BY DEF Deadlocked
<1>3. \A t \in T : Len(stack[t]) \in Nat \ {0} /\ Depth(t) = Len(stack[t]) - 1
  BY <1>0, <1>1, EmptySeq, LenProperties DEF TypeOK, Depth
<1>4. \A t, u \in T :
        u # t /\ Wanted(t) \in Held(u) =>
          \E i \in 1 .. Len(stack[u]) :
            <<u, i>> \in Involved(T) /\ LockAt(<<u, i>>) = Wanted(t)
  <2> SUFFICES ASSUME NEW t \in T, NEW u \in T, u # t, Wanted(t) \in Held(u)
               PROVE  \E i \in 1 .. Len(stack[u]) :
                        <<u, i>> \in Involved(T) /\ LockAt(<<u, i>>) = Wanted(t)
    OBVIOUS
  <2>1. PICK i \in 1 .. Depth(u) : stack[u][i] = Wanted(t)
    BY DEF Held
  <2>2. i \in 1 .. Len(stack[u]) /\ i \in 1 .. i /\ i <= Depth(u)
    BY <1>3
  <2>3. \E v \in T \ {u}, j \in 1 .. i : j <= Depth(u) /\ stack[u][j] = Wanted(v)
    BY <2>1, <2>2
  <2>4. <<u, i>> \in Involved(T)
    BY <1>0, <2>2, <2>3, InvolvedPlaces
  <2> QED
    BY <2>1, <2>2, <2>4 DEF LockAt
<1>5. PICK rank \in [Ids -> Nat] : \A e \in OldEdges :
        rank[e[2]] < rank[e[1]] \/ ClosedBy(reported, e[1], e[2])
  BY DEF IInv, Ranked
<1> DEFINE RankOf(p) == rank[Id(names, LockAt(p))]
           Ranks == {RankOf(p) : p \in Involved(T)}
<1>6. Ranks # {} /\ Ranks \in SUBSET Nat
  <2>1. Involved(T) # {}
    BY <1>0, <1>1, <1>4
  <2>2. \A p \in Involved(T) : RankOf(p) \in Nat
    BY <1>5, InvolvedIds
  <2> QED
    BY <2>1, <2>2
<1>7. PICK low \in Involved(T) : \A p \in Involved(T) : RankOf(low) <= RankOf(p)
  <2>1. \E n \in Ranks : \A m \in Ranks : n <= m
    <3> HIDE DEF Ranks
    <3> QED
      BY <1>6, LeastNumber
  <2> QED
    BY <2>1
<1> DEFINE name == NameOf[LockAt(low)]
<1>8. ASSUME NEW p \in Involved(T), NameOf[LockAt(p)] = name
      PROVE  Id(names, LockAt(p)) = Id(names, LockAt(low))
  <2>1. \A i, j \in Ids : names[i] = names[j] => i = j
    BY <1>0 DEF TypeOK, IsInjective, Ids
  <2> QED
    BY <1>8, <2>1, InvolvedIds
<1>9. ASSUME NEW p \in Involved(T), NEW q \in Involved(T),
             q = <<p[1], p[2] + 1>>, NameOf[LockAt(p)] = name
      PROVE  NameOf[LockAt(q)] = name
  <2> SUFFICES ASSUME NameOf[LockAt(q)] # name
               PROVE  FALSE
    OBVIOUS
  <2>1. <<Id(names, LockAt(p)), Id(names, LockAt(q))>> \in OldEdges
    BY <1>9, InvolvedEdge
  <2>2. RankOf(q) < RankOf(p)
    BY <1>5, <1>9, <2>1
  <2>3. RankOf(p) = RankOf(low)
    BY <1>8, <1>9
  <2>4. RankOf(low) <= RankOf(q) /\ RankOf(low) \in Nat /\ RankOf(q) \in Nat
    BY <1>5, <1>7, InvolvedIds
  <2> HIDE DEF RankOf
  <2> QED
    BY <2>2, <2>3, <2>4
<1> DEFINE S == {t \in T : NameOf[Wanted(t)] = name}
<1> HIDE DEF name
<1>10. ASSUME NEW p \in Involved(T), NameOf[LockAt(p)] = name
       PROVE  \A i \in p[2] .. Len(stack[p[1]]) : NameOf[stack[p[1]][i]] = name
  BY <1>9, <1>10, NameGoesUp
<1>11. \A p \in Involved(T) : NameOf[LockAt(p)] = name => p[1] \in S
  <2> SUFFICES ASSUME NEW p \in Involved(T), NameOf[LockAt(p)] = name
               PROVE  NameOf[Wanted(p[1])] = name /\ p[1] \in T
    OBVIOUS
  <2>1. p[1] \in T /\ Len(stack[p[1]]) \in Nat /\ p[2] \in 1 .. Len(stack[p[1]])
    BY <1>0, InvolvedPlaces
  <2>2. Len(stack[p[1]]) \in p[2] .. Len(stack[p[1]])
    BY <2>1
  <2> QED
    BY <1>10, <2>1, <2>2 DEF Wanted, Last
<1>12. S = T
  <2>1. low[1] \in S
    BY <1>7, <1>11 DEF name
  <2>2. ASSUME NEW t \in S
        PROVE  waiting[t] /\ \E u \in S \ {t} : Wanted(t) \in Held(u)
    <3>1. PICK u \in T \ {t} : Wanted(t) \in Held(u)
      BY <1>1
    <3>2. PICK i \in 1 .. Len(stack[u]) :
            <<u, i>> \in Involved(T) /\ LockAt(<<u, i>>) = Wanted(t)
      BY <1>4, <3>1
    <3>3. u \in S
      BY <1>11, <2>2, <3>2
    <3> QED
      BY <1>1, <3>1, <3>3
  <2>3. Blocked(S)
    <3> HIDE DEF S
    <3> QED
      BY <2>1, <2>2 DEF Blocked
  <2> QED
    BY <1>2, <2>3
<1>13. ASSUME NEW p \in Involved(T)
       PROVE  NameOf[LockAt(p)] = name
  <2>1. /\ p[1] \in T /\ Len(stack[p[1]]) \in Nat /\ p[2] \in 1 .. Len(stack[p[1]])
        /\ \E u \in T \ {p[1]}, j \in 1 .. p[2] :
             j <= Depth(p[1]) /\ stack[p[1]][j] = Wanted(u)
    BY <1>0, InvolvedPlaces
  <2>2. PICK u \in T \ {p[1]}, j \in 1 .. p[2] :
          j <= Depth(p[1]) /\ stack[p[1]][j] = Wanted(u)
    BY <2>1
  <2>3. j \in 1 .. Len(stack[p[1]]) /\ j \in 1 .. j /\ p[2] \in j .. Len(stack[p[1]])
    BY <2>1
  <2>4. <<p[1], j>> \in Involved(T)
    <3>1. \E v \in T \ {p[1]}, k \in 1 .. j :
            k <= Depth(p[1]) /\ stack[p[1]][k] = Wanted(v)
      BY <2>2, <2>3
    <3> QED
      BY <1>0, <2>1, <2>3, <3>1, InvolvedPlaces
  <2>5. NameOf[LockAt(<<p[1], j>>)] = name
    <3>1. u \in S
      BY <1>12
    <3> QED
      BY <2>2, <3>1 DEF LockAt
  <2>6. \A i \in j .. Len(stack[p[1]]) : NameOf[stack[p[1]][i]] = name
    BY <1>10, <2>4, <2>5
  <2> QED
    BY <2>3, <2>6 DEF LockAt
<1> QED
  BY <1>13

(* Threads that wait for each other in a circle have been reported, by a   *)
(* circle that ends with a pair of locks on the stack of one of them,      *)
(* unless all the locks involved have the same name.                       *)
THEOREM DeadlocksAreAlwaysReported == Spec => []DeadlocksAreReported
<1>1. IInv => DeadlocksAreReported
  <2> SUFFICES ASSUME IInv, NEW T \in SUBSET Threads, Deadlocked(T),
                      ~ \A p, q \in Involved(T) : NameOf[LockAt(p)] = NameOf[LockAt(q)]
               PROVE  \E p, q \in Involved(T), c \in reported :
                        /\ q = <<p[1], p[2] + 1>>
                        /\ Last(c) = Id(names, LockAt(p))
                        /\ Head(c) = Id(names, LockAt(q))
    BY DEF DeadlocksAreReported
  <2>1. PICK p \in Involved(T), q \in Involved(T) :
          /\ q = <<p[1], p[2] + 1>>
          /\ ClosedBy(reported, Id(names, LockAt(p)), Id(names, LockAt(q)))
    BY DeadlockIsSeen
  <2> QED
    BY <2>1 DEF ClosedBy
<1> QED
  BY <1>1, ProfilerInvariantHolds, PTL

=============================================================================
