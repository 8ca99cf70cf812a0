-------------------------- MODULE EntryCacheProofs --------------------------
(***************************************************************************)
(* Proofs about EntryCache for any number of threads, any tree of paths    *)
(* and any bounds.                                                         *)
(***************************************************************************)
EXTENDS EntryCache, FiniteSetTheorems, TLAPS

InPkg == {"pkg", "init", "read", "store", "fail"}
Holding == {"init", "read", "store", "fail"}
Path(t) == heap[at[t]].path
Held(t) == {i \in DOMAIN heap : heap[i].holder = t}

\* Entries point to the entry of their parent directory, the map is keyed by
\* the path of its entries, and a cell that is set has no initialiser.
HeapInv ==
  /\ \A i \in DOMAIN heap :
       /\ Parent[heap[i].path] = NoPath => heap[i].parent = NoEntry
       /\ Parent[heap[i].path] # NoPath =>
            /\ heap[i].parent \in DOMAIN heap
            /\ heap[heap[i].parent].path = Parent[heap[i].path]
       /\ heap[i].pkg # Unset => heap[i].holder = Nobody
       /\ heap[i].stat = Dir => heap[i].path \in Dirs
  /\ \A p \in Paths : entries[p] # NoEntry => heap[entries[p]].path = p
  /\ \A i \in DOMAIN heap : i[2] <= made[i[1]]

\* The frames of load_entry are the paths between cur[t] and goal[t].
LoadInv(t) ==
  /\ pc[t] \in {"probe", "insert"} =>
       /\ cur[t] \in Anc[goal[t]]
       /\ missing[t] = Anc[goal[t]] \ Anc[cur[t]]
       /\ op[t] \in {"stat", "pkg"}
  /\ pc[t] = "probe" => at[t] = NoEntry
  /\ pc[t] = "insert" =>
       IF Parent[cur[t]] = NoPath
       THEN at[t] = NoEntry
       ELSE at[t] \in DOMAIN heap /\ Path(t) = Parent[cur[t]]

\* The cells t initialises belong to entries on the way from its goal up to
\* the entry it is at, each the child of the one above.
QueryInv(t) ==
  /\ pc[t] = "stat" => at[t] \in DOMAIN heap /\ Path(t) = goal[t] /\ op[t] = "stat"
  /\ pc[t] \in InPkg =>
       /\ op[t] = "pkg" /\ at[t] \in DOMAIN heap /\ Path(t) \in Anc[goal[t]]
       /\ \A i \in Held(t) :
            /\ heap[i].path \in Anc[goal[t]] /\ Path(t) \in Anc[heap[i].path]
            /\ i # at[t] => heap[i].path # Path(t)
            /\ \A j \in Held(t) : heap[i].path = heap[j].path => i = j
       /\ \A i \in Held(t) \cup {at[t]} :
            heap[i].path # goal[t] =>
              \E c \in Held(t) : heap[c].parent = i
  /\ pc[t] \in Holding => at[t] \in Held(t)
  /\ pc[t] = "pkg" => at[t] \notin Held(t)
  /\ pc[t] = "read" => Path(t) \in Dirs \cup DescPaths
  /\ pc[t] = "store" => val[t] \in Descs \cup {NoDesc}
  /\ pc[t] \notin InPkg => Held(t) = {}

Inv == TypeOK /\ HeapInv /\ \A t \in Threads : LoadInv(t) /\ QueryInv(t)

-----------------------------------------------------------------------------
(* The tree of paths *)

LEMMA AncUp ==
  ASSUME NEW p \in Paths
  PROVE  /\ p \in Anc[p] /\ Anc[p] \subseteq Paths
         /\ Parent[p] # NoPath => /\ Parent[p] \in Paths
                                  /\ Parent[p] \in Anc[p]
                                  /\ Parent[p] # p
                                  /\ p \notin Anc[Parent[p]]
                                  /\ Anc[Parent[p]] = Anc[p] \ {p}
  BY PathAssumption

LEMMA AncTransitive ==
  ASSUME NEW p \in Paths, NEW a \in Anc[p], NEW b \in Anc[a]
  PROVE  b \in Anc[p]
  BY PathAssumption

LEMMA AncAntisymmetric ==
  ASSUME NEW p \in Paths, NEW a \in Anc[p], p \in Anc[a]
  PROVE  a = p
<1>1. SUFFICES ASSUME a # p PROVE FALSE
  OBVIOUS
<1>2. Parent[p] # NoPath /\ a \in Anc[Parent[p]]
  BY <1>1, PathAssumption
<1>3. p \in Anc[Parent[p]]
  BY <1>2, AncUp, AncTransitive
<1> QED
  BY <1>2, <1>3, AncUp

\* A path other than p on the way from p to the root is the parent of one.
LEMMA AncChild ==
  ASSUME NEW p \in Paths, NEW a \in Anc[p], a # p
  PROVE  \E q \in Anc[p] : Parent[q] = a /\ q \notin Anc[a]
<1>1. PICK q \in Anc[p] : Parent[q] = a
  BY PathAssumption
<1>2. a # NoPath /\ q \in Paths
  BY AncUp, PathAssumption
<1> QED
  BY <1>1, <1>2, AncUp

-----------------------------------------------------------------------------
(* Threads that a step leaves alone *)

\* Entries keep their path and their parent, new ones may come.
Extends ==
  /\ DOMAIN heap \subseteq DOMAIN heap'
  /\ \A i \in DOMAIN heap : /\ heap'[i].path = heap[i].path
                            /\ heap'[i].parent = heap[i].parent

Frame(u) ==
  /\ pc'[u] = pc[u] /\ op'[u] = op[u] /\ goal'[u] = goal[u]
  /\ cur'[u] = cur[u] /\ missing'[u] = missing[u]
  /\ at'[u] = at[u] /\ val'[u] = val[u]
  /\ Held(u)' = Held(u)

LEMMA OtherThread ==
  ASSUME Inv, NEW u \in Threads, Frame(u), Extends
  PROVE  LoadInv(u)' /\ QueryInv(u)'
<1>1. LoadInv(u) /\ QueryInv(u)
  BY DEF Inv
<1>2. Held(u) \subseteq DOMAIN heap
  BY DEF Held
<1>3. at[u] \in DOMAIN heap => Path(u)' = Path(u)
  BY DEF Path, Extends, Frame
<1>4. LoadInv(u)'
  BY <1>1, <1>3 DEF LoadInv, Frame, Extends
<1>5. QueryInv(u)'
  <2>1. \A i \in Held(u) : heap'[i].path = heap[i].path
                          /\ heap'[i].parent = heap[i].parent
    BY <1>2 DEF Extends
  <2>2. at[u] \in DOMAIN heap => heap'[at[u]].path = heap[at[u]].path
    BY DEF Extends
  <2> QED
    BY <1>1, <1>2, <1>3, <2>1, <2>2 DEF QueryInv, Frame, Extends, InPkg, Holding
<1> QED
  BY <1>4, <1>5

-----------------------------------------------------------------------------
(* load_entry *)

\* When the frame for cur[t] returns, the thread is back at its goal, or at
\* the frame of the child of cur[t] on the way to the goal.
LEMMA LoadReturnsKeeps ==
  ASSUME Inv, NEW t \in Threads, NEW e \in DOMAIN heap',
         heap'[e].path = cur[t], pc[t] \in {"probe", "insert"},
         LoadReturns(t, e), UNCHANGED <<op, goal>>, Held(t)' = {}
  PROVE  LoadInv(t)' /\ QueryInv(t)'
<1>1. /\ cur[t] \in Anc[goal[t]] /\ missing[t] = Anc[goal[t]] \ Anc[cur[t]]
      /\ op[t] \in {"stat", "pkg"} /\ goal[t] \in Paths /\ cur[t] \in Paths
  BY DEF Inv, LoadInv, TypeOK
<1> DEFINE below == {q \in missing[t] : Parent[q] = cur[t]}
<1>2. at' = [at EXCEPT ![t] = e] /\ at'[t] = e /\ Path(t)' = cur[t]
  BY DEF LoadReturns, Path, Inv, TypeOK
<1>3. CASE below = {} /\ pc' = [pc EXCEPT ![t] = op[t]] /\ UNCHANGED <<cur, missing>>
  <2>1. cur[t] = goal[t]
    BY <1>1, <1>3, AncChild
  <2>2. pc'[t] = op[t]
    BY <1>3 DEF Inv, TypeOK
  <2> QED
    BY <1>1, <1>2, <2>1, <2>2, AncUp DEF LoadInv, QueryInv, InPkg, Holding
<1>4. ASSUME NEW q \in below, pc' = [pc EXCEPT ![t] = "insert"],
             cur' = [cur EXCEPT ![t] = q],
             missing' = [missing EXCEPT ![t] = @ \ {q}]
      PROVE  LoadInv(t)' /\ QueryInv(t)'
  <2>1. pc'[t] = "insert" /\ cur'[t] = q /\ missing'[t] = missing[t] \ {q}
    BY <1>4 DEF Inv, TypeOK
  <2>2. /\ q \in Anc[goal[t]] /\ q \in Paths /\ Parent[q] = cur[t]
        /\ cur[t] # NoPath
    BY <1>1, AncUp, PathAssumption
  <2>3. Anc[cur[t]] = Anc[q] \ {q} /\ q \in Anc[q]
    BY <2>2, AncUp
  <2>4. missing'[t] = Anc[goal[t]] \ Anc[q]
    BY <1>1, <2>1, <2>3
  <2> QED
    BY <1>1, <1>2, <2>1, <2>2, <2>4 DEF LoadInv, QueryInv, InPkg, Holding
<1> QED
  BY <1>3, <1>4 DEF LoadReturns
-----------------------------------------------------------------------------
(* pkg_info *)

\* pkg_info returns to the cell of the child that is being initialised, or,
\* when there is none, the thread is at its goal and holds no cell.
LEMMA PkgReturnsKeeps ==
  ASSUME Inv, NEW t \in Threads, NEW v, NEW next \in {"store", "fail"},
         pc[t] \in {"pkg", "store", "fail"}, PkgReturns(t, v, next), Extends,
         UNCHANGED <<op, goal, cur, missing>>, Held(t)' = Held(t) \ {at[t]},
         next = "store" => v \in Descs \cup {NoDesc}
  PROVE  LoadInv(t)' /\ QueryInv(t)'
<1>1. QueryInv(t) /\ pc[t] \in InPkg
  BY DEF Inv, InPkg
<1>2. /\ op[t] = "pkg" /\ at[t] \in DOMAIN heap /\ Path(t) \in Anc[goal[t]]
      /\ goal[t] \in Paths /\ Path(t) \in Paths
  BY <1>1, AncUp DEF QueryInv, Inv, TypeOK
<1>3. \A i \in Held(t) :
        /\ i \in DOMAIN heap /\ heap[i].path \in Anc[goal[t]]
        /\ heap[i].path \in Paths /\ Path(t) \in Anc[heap[i].path]
        /\ i # at[t] => heap[i].path # Path(t)
        /\ \A j \in Held(t) : heap[i].path = heap[j].path => i = j
  BY <1>1, <1>2, AncUp DEF QueryInv, Held
<1>4. \A i \in Held(t) \cup {at[t]} :
        heap[i].path # goal[t] => \E c \in Held(t) : heap[c].parent = i
  BY <1>1 DEF QueryInv
<1>5. \A c \in Held(t) : \A i \in DOMAIN heap : heap[c].parent = i =>
        Parent[heap[c].path] = heap[i].path /\ heap[i].path \in Paths
  <2> SUFFICES ASSUME NEW c \in Held(t), NEW i \in DOMAIN heap,
                      heap[c].parent = i
               PROVE  Parent[heap[c].path] = heap[i].path /\ heap[i].path \in Paths
    OBVIOUS
  <2>1. c \in DOMAIN heap /\ i # NoEntry /\ heap[i].path \in Paths
    BY <1>3, SentinelAssumption DEF Inv, TypeOK, Entry
  <2> QED
    BY <2>1 DEF Inv, HeapInv
<1> DEFINE waiting == {c \in DOMAIN heap :
                         heap[c].holder = t /\ heap[c].parent = at[t]}
<1>6. waiting = {c \in Held(t) : heap[c].parent = at[t]}
  BY DEF Held
<1>7. CASE waiting = {} /\ pc' = [pc EXCEPT ![t] = "done"] /\ UNCHANGED at
  <2>1. Path(t) = goal[t]
    BY <1>4, <1>6, <1>7 DEF Path
  <2>2. Held(t)' = {}
    BY <1>2, <1>3, <2>1, AncAntisymmetric
  <2>3. pc'[t] = "done"
    BY <1>7 DEF Inv, TypeOK
  <2> QED
    BY <2>2, <2>3 DEF LoadInv, QueryInv, InPkg, Holding
<1>8. ASSUME NEW c \in waiting, pc' = [pc EXCEPT ![t] = next],
             at' = [at EXCEPT ![t] = c], val' = [val EXCEPT ![t] = v]
      PROVE  LoadInv(t)' /\ QueryInv(t)'
  <2>1. c \in Held(t) /\ c \in DOMAIN heap /\ heap[c].parent = at[t]
    BY <1>3, <1>6, <1>8
  <2> DEFINE p == heap[c].path
  <2>2. p \in Paths /\ Parent[p] = Path(t) /\ p \in Anc[goal[t]]
    BY <1>2, <1>3, <1>5, <2>1 DEF Path
  <2>3. p # Path(t) /\ Anc[Path(t)] = Anc[p] \ {p}
    BY <1>2, <2>2, AncUp, PathAssumption
  <2>4. c \in Held(t)' /\ pc'[t] = next /\ at'[t] = c /\ val'[t] = v
        /\ Path(t)' = p /\ goal'[t] = goal[t] /\ op'[t] = op[t]
    BY <2>1, <2>3, <1>8 DEF Path, Inv, TypeOK, Extends
  <2>5. \A i \in Held(t) \ {at[t]} :
          /\ p \in Anc[heap[i].path]
          /\ i # c => heap[i].path # p
    <3> SUFFICES ASSUME NEW i \in Held(t), i # at[t]
                 PROVE  /\ p \in Anc[heap[i].path]
                        /\ i # c => heap[i].path # p
      OBVIOUS
    <3>1. i # c => heap[i].path # p
      BY <1>3, <2>1
    <3>2. p \in Anc[heap[i].path] \/ heap[i].path \in Anc[p]
      BY <1>2, <1>3, <2>2, PathAssumption
    <3>3. heap[i].path \notin Anc[Path(t)]
      BY <1>2, <1>3, AncAntisymmetric
    <3>4. heap[i].path \in Anc[p] => heap[i].path = p
      BY <2>3, <3>3
    <3> QED
      BY <2>2, <3>1, <3>2, <3>4, AncUp
  <2>6. \A i \in Held(t) \ {at[t]} :
          heap[i].path # goal[t] => \E d \in Held(t) \ {at[t]} : heap[d].parent = i
    <3> SUFFICES ASSUME NEW i \in Held(t), i # at[t], heap[i].path # goal[t]
                 PROVE  \E d \in Held(t) \ {at[t]} : heap[d].parent = i
      OBVIOUS
    <3>1. PICK d \in Held(t) : heap[d].parent = i
      BY <1>4
    <3>2. CASE d = at[t]
      <4>1. Parent[Path(t)] = heap[i].path /\ heap[i].path \in Paths
        BY <1>3, <1>5, <3>1, <3>2 DEF Path
      <4> QED
        BY <1>2, <1>3, <4>1, AncUp, PathAssumption
    <3> QED
      BY <3>1, <3>2
  <2>7. \A i \in Held(t) : heap'[i].path = heap[i].path
                         /\ heap'[i].parent = heap[i].parent
    BY <1>3 DEF Extends
  <2>8. c \in DOMAIN heap'
    BY <2>1 DEF Extends
  <2>9. LoadInv(t)'
    BY <2>4 DEF LoadInv
  <2>10. Held(t)' \cup {at'[t]} = Held(t) \ {at[t]}
    BY <2>4
  <2>11. /\ op'[t] = "pkg" /\ at'[t] \in DOMAIN heap' /\ Path(t)' \in Anc[goal'[t]]
         /\ \A i \in Held(t)' :
              /\ heap'[i].path \in Anc[goal'[t]] /\ Path(t)' \in Anc[heap'[i].path]
              /\ i # at'[t] => heap'[i].path # Path(t)'
              /\ \A j \in Held(t)' : heap'[i].path = heap'[j].path => i = j
    BY <1>2, <1>3, <2>2, <2>4, <2>5, <2>7, <2>8
  <2>12. \A i \in Held(t)' \cup {at'[t]} :
           heap'[i].path # goal'[t] => \E d \in Held(t)' : heap'[d].parent = i
    BY <2>4, <2>6, <2>7, <2>10
  <2>13. at'[t] \in Held(t)' /\ (pc'[t] = "store" => val'[t] \in Descs \cup {NoDesc})
    BY <2>4
  <2> QED
    BY <2>4, <2>9, <2>11, <2>12, <2>13 DEF QueryInv, InPkg, Holding
<1> QED
  BY <1>7, <1>8 DEF PkgReturns
-----------------------------------------------------------------------------
(* Every action keeps the invariant *)

LEMMA InitInv == Init => Inv
<1> SUFFICES ASSUME Init PROVE Inv
  OBVIOUS
<1>1. DOMAIN heap = {} /\ heap \in [{} -> Entry]
  BY DEF Init
<1>2. IsDisk(disk) /\ disk \in [Paths -> Contents \cup LeafKinds]
  BY BoundAssumption DEF Init, IsDisk
<1>3. TypeOK
  <2>1. plan \in [Threads -> Seq(Call)] /\ changes \in Nat
    BY BoundAssumption DEF Init
  <2>2. /\ goal \in [Threads -> Paths] /\ cur \in [Threads -> Paths]
        /\ missing \in [Threads -> SUBSET Paths]
        /\ at \in [Threads -> {NoEntry}] /\ val \in [Threads -> {Unset}]
        /\ made \in [Threads -> Nat] /\ entries \in [Paths -> {NoEntry}]
    BY DEF Init
  <2>3. /\ pc \in [Threads -> {"idle"}] /\ op \in [Threads -> {"stat"}]
        /\ overlap \in BOOLEAN /\ asked \subseteq Paths /\ settled \subseteq Threads
        /\ told \in [Paths -> SUBSET Kinds]
    BY DEF Init
  <2>4. since \in [Paths -> SUBSET (Contents \cup LeafKinds)]
    BY <1>2 DEF Init
  <2>5. adm \in [Threads -> [Paths -> SUBSET (Contents \cup LeafKinds)]]
    BY <2>4 DEF Init
  <2> QED
    BY <1>1, <1>2, <2>1, <2>2, <2>3, <2>4, <2>5 DEF TypeOK
<1>4. HeapInv
  BY <1>1 DEF Init, HeapInv
<1>5. \A t \in Threads : LoadInv(t) /\ QueryInv(t)
  BY <1>1 DEF Init, LoadInv, QueryInv, InPkg, Holding, Held
<1> QED
  BY <1>3, <1>4, <1>5 DEF Inv

\* When the heap stays as it is, so do the cells and what others do.
LEMMA SameHeap ==
  ASSUME Inv, UNCHANGED heap
  PROVE  Extends /\ \A u \in Threads : Held(u)' = Held(u)
  BY DEF Extends, Held

\* A call begins with the types of its plan, and with no cell held.
LEMMA StartKeeps ==
  ASSUME Inv, NEW t \in Threads, Start(t)
  PROVE  /\ plan' \in [Threads -> Seq(Call)]
         /\ op' \in [Threads -> {"stat", "pkg", "clear"}]
         /\ goal' \in [Threads -> Paths] /\ cur' \in [Threads -> Paths]
         /\ cur'[t] = goal'[t] /\ at'[t] = NoEntry
         /\ at' \in [Threads -> DOMAIN heap \cup {NoEntry}]
         /\ val' \in [Threads -> Kinds \cup Descs \cup {Unset, NoDesc, BadJson}]
         /\ overlap' \in BOOLEAN /\ settled' \subseteq Threads
         /\ Held(t)' = {} /\ HeapInv' /\ Extends
         /\ \A u \in Threads : Held(u)' = Held(u)
<1>1. Head(plan[t]) \in Call /\ Tail(plan[t]) \in Seq(Call)
  BY DEF Start, Inv, TypeOK
<1>2. Head(plan[t]).op \in {"stat", "pkg", "clear"} /\ Head(plan[t]).path \in Paths
  BY <1>1 DEF Call
<1>3. UNCHANGED <<disk, entries, heap, made>> /\ Held(t) = {}
  BY DEF Start, Busy, Inv, QueryInv, InPkg
<1>4. /\ plan' = [plan EXCEPT ![t] = Tail(plan[t])]
      /\ op' = [op EXCEPT ![t] = Head(plan[t]).op]
      /\ goal' = [goal EXCEPT ![t] = Head(plan[t]).path]
      /\ cur' = [cur EXCEPT ![t] = Head(plan[t]).path]
      /\ at' = [at EXCEPT ![t] = NoEntry]
      /\ val' = [val EXCEPT ![t] = Unset]
  BY DEF Start
<1>5. overlap' \in BOOLEAN /\ settled' \subseteq Threads
  BY DEF Start, Inv, TypeOK
<1>6. HeapInv'
  BY <1>3 DEF Inv, HeapInv
<1> QED
  BY <1>1, <1>2, <1>3, <1>4, <1>5, <1>6, SameHeap DEF Inv, TypeOK

LEMMA StartQueryKeeps ==
  ASSUME Inv, NEW t \in Threads, StartQuery(t)
  PROVE  Inv'
<1>1. /\ Start(t) /\ op'[t] # "clear" /\ pc' = [pc EXCEPT ![t] = "probe"]
      /\ missing' = [missing EXCEPT ![t] = {}]
      /\ adm' = [adm EXCEPT ![t] = since]
      /\ UNCHANGED <<disk, entries, heap, made, changes, since, asked, told>>
  BY DEF StartQuery, Start
<1>2. TypeOK'
  BY <1>1, StartKeeps DEF Inv, TypeOK
<1>3. LoadInv(t)' /\ QueryInv(t)'
  <2>1. /\ goal'[t] \in Paths /\ cur'[t] = goal'[t] /\ missing'[t] = {}
        /\ op'[t] \in {"stat", "pkg"} /\ at'[t] = NoEntry /\ pc'[t] = "probe"
    BY <1>1, StartKeeps DEF Inv, TypeOK
  <2> QED
    BY <1>1, <2>1, StartKeeps, AncUp DEF LoadInv, QueryInv, InPkg, Holding
<1>4. ASSUME NEW u \in Threads, u # t PROVE LoadInv(u)' /\ QueryInv(u)'
  <2>1. Frame(u)
    BY <1>1, <1>4, SameHeap DEF Frame, Inv, TypeOK, Start
  <2> QED
    BY <1>1, <2>1, StartKeeps, OtherThread
<1> QED
  BY <1>1, <1>2, <1>3, <1>4, StartKeeps DEF Inv

LEMMA StartClearKeeps ==
  ASSUME Inv, NEW t \in Threads, StartClear(t)
  PROVE  Inv'
<1>1. /\ Start(t) /\ pc' = [pc EXCEPT ![t] = "clear"]
      /\ missing' = [missing EXCEPT ![t] = Paths]
      /\ adm' = [adm EXCEPT ![t] = [p \in Paths |-> {disk[p]}]]
      /\ UNCHANGED <<disk, entries, heap, made, changes, since, asked, told>>
  BY DEF StartClear, Start
<1>2. TypeOK'
  <2>1. [p \in Paths |-> {disk[p]}] \in [Paths -> SUBSET (Contents \cup LeafKinds)]
    BY DEF Inv, TypeOK, IsDisk
  <2> QED
    BY <1>1, <2>1, StartKeeps DEF Inv, TypeOK
<1>3. LoadInv(t)' /\ QueryInv(t)'
  <2>1. pc'[t] = "clear"
    BY <1>1 DEF Inv, TypeOK
  <2> QED
    BY <1>1, <2>1, StartKeeps DEF LoadInv, QueryInv, InPkg, Holding
<1>4. ASSUME NEW u \in Threads, u # t PROVE LoadInv(u)' /\ QueryInv(u)'
  <2>1. Frame(u)
    BY <1>1, <1>4, SameHeap DEF Frame, Inv, TypeOK, Start
  <2> QED
    BY <1>1, <2>1, StartKeeps, OtherThread
<1> QED
  BY <1>1, <1>2, <1>3, <1>4, StartKeeps DEF Inv

\* The types of what load_entry moves.
Local ==
  /\ pc \in [Threads -> {"idle", "probe", "insert", "stat", "pkg", "init",
                         "read", "store", "fail", "clear", "done"}]
  /\ cur \in [Threads -> Paths] /\ missing \in [Threads -> SUBSET Paths]
  /\ at \in [Threads -> DOMAIN heap \cup {NoEntry}]

LEMMA LoadReturnsType ==
  ASSUME TypeOK, NEW t \in Threads, NEW e \in DOMAIN heap' \cup {NoEntry},
         LoadReturns(t, e), op[t] \in {"stat", "pkg"},
         DOMAIN heap \subseteq DOMAIN heap'
  PROVE  Local'
<1> DEFINE below == {q \in missing[t] : Parent[q] = cur[t]}
<1>1. at' \in [Threads -> DOMAIN heap' \cup {NoEntry}]
  BY DEF LoadReturns, TypeOK
<1>2. CASE pc' = [pc EXCEPT ![t] = op[t]] /\ UNCHANGED <<cur, missing>>
  BY <1>1, <1>2 DEF Local, TypeOK
<1>3. ASSUME NEW q \in below, pc' = [pc EXCEPT ![t] = "insert"],
             cur' = [cur EXCEPT ![t] = q],
             missing' = [missing EXCEPT ![t] = @ \ {q}]
      PROVE  Local'
  BY <1>1, <1>3 DEF Local, TypeOK
<1> QED
  BY <1>2, <1>3 DEF LoadReturns

LEMMA ProbeKeeps ==
  ASSUME Inv, NEW t \in Threads, Probe(t)
  PROVE  Inv'
<1>1. /\ pc[t] = "probe" /\ UNCHANGED heap /\ cur[t] \in Paths
      /\ cur[t] \in Anc[goal[t]] /\ goal[t] \in Paths
      /\ missing[t] = Anc[goal[t]] \ Anc[cur[t]] /\ at[t] = NoEntry
      /\ op[t] \in {"stat", "pkg"} /\ Held(t) = {}
  BY DEF Inv, TypeOK, LoadInv, QueryInv, InPkg, Probe
<1>2. TypeOK'
  <2>1. Local'
    <3>1. CASE LoadReturns(t, entries[cur[t]])
      BY <1>1, <3>1, LoadReturnsType DEF Inv, TypeOK
    <3>2. CASE /\ Parent[cur[t]] # NoPath
               /\ missing' = [missing EXCEPT ![t] = @ \cup {cur[t]}]
               /\ cur' = [cur EXCEPT ![t] = Parent[cur[t]]]
               /\ UNCHANGED <<pc, at>>
      <4>1. Parent[cur[t]] \in Paths
        BY <1>1, <3>2, AncUp
      <4> QED
        BY <1>1, <3>2, <4>1 DEF Inv, TypeOK, Local
    <3>3. CASE pc' = [pc EXCEPT ![t] = "insert"] /\ UNCHANGED <<missing, cur, at>>
      BY <1>1, <3>3 DEF Inv, TypeOK, Local
    <3> QED
      BY <3>1, <3>2, <3>3 DEF Probe
  <2> QED
    BY <2>1 DEF Probe, Inv, TypeOK, Local, history
<1>3. HeapInv'
  BY DEF Inv, HeapInv, Probe
<1>4. LoadInv(t)' /\ QueryInv(t)'
  <2>1. Held(t)' = {}
    BY <1>1, SameHeap
  <2>2. CASE entries[cur[t]] # NoEntry /\ LoadReturns(t, entries[cur[t]])
    <3>1. entries[cur[t]] \in DOMAIN heap' /\ heap'[entries[cur[t]]].path = cur[t]
      BY <1>1, <2>2 DEF Inv, TypeOK, HeapInv
    <3> QED
      BY <1>1, <2>1, <2>2, <3>1, LoadReturnsKeeps DEF Probe
  <2>3. CASE /\ Parent[cur[t]] # NoPath
             /\ missing' = [missing EXCEPT ![t] = @ \cup {cur[t]}]
             /\ cur' = [cur EXCEPT ![t] = Parent[cur[t]]]
             /\ UNCHANGED <<pc, at>>
    <3>1. /\ Parent[cur[t]] \in Anc[goal[t]]
          /\ Anc[Parent[cur[t]]] = Anc[cur[t]] \ {cur[t]}
      BY <1>1, <2>3, AncUp, AncTransitive
    <3>2. /\ cur'[t] = Parent[cur[t]] /\ missing'[t] = missing[t] \cup {cur[t]}
          /\ pc'[t] = "probe" /\ at'[t] = NoEntry
      BY <1>1, <2>3 DEF Inv, TypeOK
    <3>3. missing'[t] = Anc[goal[t]] \ Anc[cur'[t]]
      BY <1>1, <3>1, <3>2
    <3> QED
      BY <1>1, <2>1, <3>1, <3>2, <3>3
      DEF Probe, LoadInv, QueryInv, InPkg, Holding
  <2>4. CASE /\ Parent[cur[t]] = NoPath
             /\ pc' = [pc EXCEPT ![t] = "insert"]
             /\ UNCHANGED <<missing, cur, at>>
    <3>1. pc'[t] = "insert"
      BY <2>4 DEF Inv, TypeOK
    <3> QED
      BY <1>1, <2>1, <2>4, <3>1 DEF Probe, LoadInv, QueryInv, InPkg, Holding
  <2> QED
    BY <2>2, <2>3, <2>4 DEF Probe
<1>5. ASSUME NEW u \in Threads, u # t PROVE LoadInv(u)' /\ QueryInv(u)'
  <2>1. Frame(u) /\ Extends
    BY <1>1, <1>5, SameHeap DEF Frame, Inv, TypeOK, Probe, LoadReturns
  <2> QED
    BY <2>1, OtherThread
<1> QED
  BY <1>2, <1>3, <1>4, <1>5 DEF Inv
LEMMA InsertKeeps ==
  ASSUME Inv, NEW t \in Threads, Insert(t)
  PROVE  Inv'
<1> DEFINE id == <<t, made[t] + 1>>
<1>1. /\ pc[t] = "insert" /\ cur[t] \in Paths /\ made[t] \in Nat
      /\ op[t] \in {"stat", "pkg"} /\ Held(t) = {}
      /\ at[t] \in DOMAIN heap \cup {NoEntry}
      /\ IF Parent[cur[t]] = NoPath THEN at[t] = NoEntry
         ELSE at[t] \in DOMAIN heap /\ heap[at[t]].path = Parent[cur[t]]
  BY DEF Inv, TypeOK, LoadInv, QueryInv, InPkg, Insert, Path
<1>2. /\ id \in Ids /\ id # NoEntry /\ id \notin DOMAIN heap
      /\ id[1] = t /\ id[2] = made[t] + 1
  BY <1>1, SentinelAssumption DEF Inv, HeapInv, Ids
<1>3. /\ DOMAIN heap' = DOMAIN heap \cup {id}
      /\ heap'[id] = NewEntry(cur[t], at[t])
      /\ \A i \in DOMAIN heap : heap'[i] = heap[i]
  BY <1>2 DEF Insert
<1> HIDE DEF id
<1>4. Extends /\ \A u \in Threads : Held(u)' = Held(u)
  BY <1>2, <1>3, SentinelAssumption DEF Extends, Held, NewEntry
<1>5. TypeOK'
  <2>1. Local'
    BY <1>1, <1>3, LoadReturnsType DEF Insert, Inv, TypeOK, id
  <2>2. NewEntry(cur[t], at[t]) \in Entry
    BY <1>1 DEF NewEntry, Entry, Inv, TypeOK
  <2>3. heap' \in [DOMAIN heap' -> Entry] /\ DOMAIN heap' \subseteq Ids
    <3>1. heap' = [i \in DOMAIN heap \cup {id} |->
                    IF i = id THEN NewEntry(cur[t], at[t]) ELSE heap[i]]
      BY DEF Insert, id
    <3>2. \A i \in DOMAIN heap : heap[i] \in Entry
      BY DEF Inv, TypeOK
    <3> QED
      BY <1>2, <1>3, <2>2, <3>1, <3>2 DEF Inv, TypeOK
  <2>4. entries' \in [Paths -> DOMAIN heap' \cup {NoEntry}]
    BY <1>3 DEF Insert, Inv, TypeOK, id
  <2>5. made' \in [Threads -> Nat]
    BY <1>1 DEF Insert, Inv, TypeOK
  <2> QED
    BY <2>1, <2>3, <2>4, <2>5 DEF Insert, Inv, TypeOK, Local, history
<1>6. HeapInv'
  <2>1. \A i \in DOMAIN heap' :
          /\ Parent[heap'[i].path] = NoPath => heap'[i].parent = NoEntry
          /\ Parent[heap'[i].path] # NoPath =>
               /\ heap'[i].parent \in DOMAIN heap'
               /\ heap'[heap'[i].parent].path = Parent[heap'[i].path]
          /\ heap'[i].pkg # Unset => heap'[i].holder = Nobody
          /\ heap'[i].stat = Dir => heap'[i].path \in Dirs
    BY <1>1, <1>3, SentinelAssumption DEF Inv, HeapInv, NewEntry, Kinds
  <2>2. \A p \in Paths : entries'[p] # NoEntry => heap'[entries'[p]].path = p
    BY <1>2, <1>3 DEF Insert, Inv, HeapInv, TypeOK, NewEntry, id
  <2>3. \A i \in DOMAIN heap' : i[2] <= made'[i[1]]
    <3> SUFFICES ASSUME NEW i \in DOMAIN heap' PROVE i[2] <= made'[i[1]]
      OBVIOUS
    <3>1. i \in Ids /\ i[1] \in Threads /\ i[2] \in Nat
      BY <1>5 DEF TypeOK, Ids
    <3>2. made'[t] = made[t] + 1 /\ \A u \in Threads \ {t} : made'[u] = made[u]
      BY DEF Insert, Inv, TypeOK
    <3>3. made[i[1]] \in Nat
      BY <3>1 DEF Inv, TypeOK
    <3>4. CASE i = id
      BY <1>1, <1>2, <3>2, <3>4
    <3>5. CASE i \in DOMAIN heap
      BY <3>1, <3>2, <3>3, <3>5 DEF Inv, HeapInv
    <3> QED
      BY <1>3, <3>4, <3>5
  <2> QED
    BY <2>1, <2>2, <2>3 DEF HeapInv
<1>7. LoadInv(t)' /\ QueryInv(t)'
  BY <1>1, <1>3, <1>4, LoadReturnsKeeps DEF Insert, id, NewEntry
<1>8. ASSUME NEW u \in Threads, u # t PROVE LoadInv(u)' /\ QueryInv(u)'
  <2>1. Frame(u)
    BY <1>4, <1>8 DEF Frame, Inv, TypeOK, Insert, LoadReturns
  <2> QED
    BY <1>4, <2>1, OtherThread
<1> QED
  BY <1>5, <1>6, <1>7, <1>8 DEF Inv
-----------------------------------------------------------------------------
(* The queries change cells only. *)

\* A step that changes the cells of entry e to those of f.
CellChange(e, f) ==
  /\ e \in DOMAIN heap /\ heap' = [heap EXCEPT ![e] = f] /\ f \in Entry
  /\ f.path = heap[e].path /\ f.parent = heap[e].parent
  /\ f.pkg # Unset => f.holder = Nobody
  /\ f.stat = Dir => f.path \in Dirs
  /\ UNCHANGED <<entries, made>>

LEMMA CellChangeKeeps ==
  ASSUME Inv, NEW e, NEW f, CellChange(e, f)
  PROVE  /\ DOMAIN heap' = DOMAIN heap /\ heap'[e] = f
         /\ \A i \in DOMAIN heap \ {e} : heap'[i] = heap[i]
         /\ Extends /\ HeapInv' /\ heap' \in [DOMAIN heap' -> Entry]
         /\ \A u : Held(u)' = IF f.holder = u THEN Held(u) \cup {e}
                                             ELSE Held(u) \ {e}
<1>1. /\ DOMAIN heap' = DOMAIN heap /\ heap'[e] = f
      /\ \A i \in DOMAIN heap \ {e} : heap'[i] = heap[i]
      /\ heap' \in [DOMAIN heap' -> Entry]
  BY DEF CellChange, Inv, TypeOK
<1>2. Extends
  BY <1>1 DEF Extends, CellChange
<1>3. \A i \in DOMAIN heap :
        /\ heap'[i].path = heap[i].path /\ heap'[i].parent = heap[i].parent
        /\ heap'[i].pkg # Unset => heap'[i].holder = Nobody
        /\ heap'[i].stat = Dir => heap'[i].path \in Dirs
  BY <1>1 DEF CellChange, Inv, HeapInv
<1>4. \A p \in Paths : entries[p] # NoEntry => entries[p] \in DOMAIN heap
  BY DEF Inv, TypeOK
<1>5. HeapInv'
  BY <1>1, <1>3, <1>4 DEF CellChange, Inv, HeapInv
<1>6. \A u : Held(u)' = IF f.holder = u THEN Held(u) \cup {e} ELSE Held(u) \ {e}
  BY <1>1 DEF Held, CellChange
<1> QED
  BY <1>1, <1>2, <1>5, <1>6

LEMMA KindOfType ==
  ASSUME Inv, NEW p \in Paths
  PROVE  KindOf(p) \in Kinds /\ (KindOf(p) = Dir => p \in Dirs)
<1>1. disk[p] \in Contents \cup LeafKinds /\ (p \notin Dirs => disk[p] \in LeafKinds)
  BY DEF Inv, TypeOK, IsDisk
<1> QED
  BY <1>1, SentinelAssumption DEF KindOf, Kinds, LeafKinds

\* What cached_stat returns and leaves in its cell.
LEMMA StatOfKeeps ==
  ASSUME Inv, NEW e \in DOMAIN heap
  PROVE  /\ StatOf(e) \in Kinds /\ (StatOf(e) = Dir => heap[e].path \in Dirs)
         /\ heap[e] \in Entry
         /\ [heap[e] EXCEPT !.stat = StatOf(e)] \in Entry
<1>1. heap[e] \in Entry
  BY DEF Inv, TypeOK
<1>2. heap[e].path \in Paths /\ heap[e].stat \in Kinds \cup {NoStat}
  BY <1>1 DEF Entry
<1>3. StatOf(e) \in Kinds /\ (StatOf(e) = Dir => heap[e].path \in Dirs)
  BY <1>2, KindOfType DEF StatOf, Inv, HeapInv
<1> QED
  BY <1>1, <1>3 DEF Entry

LEMMA StatKeeps ==
  ASSUME Inv, NEW t \in Threads, Stat(t)
  PROVE  Inv'
<1> DEFINE e == at[t]
           f == [heap[e] EXCEPT !.stat = StatOf(e)]
<1>1. pc[t] = "stat" /\ e \in DOMAIN heap /\ Held(t) = {}
  BY DEF Stat, Inv, QueryInv, InPkg
<1>2. f \in Entry /\ heap[e] \in Entry /\ StatOf(e) \in Kinds
  BY <1>1, StatOfKeeps
<1>3. CellChange(e, f)
  <2>1. f.path = heap[e].path /\ f.parent = heap[e].parent /\ f.pkg = heap[e].pkg
        /\ f.holder = heap[e].holder /\ f.stat = StatOf(e)
    BY <1>2 DEF Entry
  <2> HIDE DEF f
  <2> QED
    BY <1>1, <1>2, <2>1, StatOfKeeps DEF CellChange, Stat, Inv, HeapInv, f
<1>4. f.holder = heap[e].holder
  BY <1>2 DEF Entry
<1> HIDE DEF f
<1>5. \A u : Held(u)' = Held(u)
  BY <1>1, <1>3, <1>4, CellChangeKeeps DEF Held
<1>6. TypeOK'
  <2>1. /\ DOMAIN heap' = DOMAIN heap /\ heap' \in [DOMAIN heap' -> Entry]
    BY <1>3, CellChangeKeeps
  <2>2. goal[t] \in Paths /\ told \in [Paths -> SUBSET Kinds] /\ asked \subseteq Paths
    BY DEF Inv, TypeOK
  <2>3. told' \in [Paths -> SUBSET Kinds] /\ asked' \subseteq Paths
    BY <1>2, <2>2 DEF Stat
  <2> QED
    BY <1>2, <2>1, <2>3 DEF Stat, Inv, TypeOK
<1>7. LoadInv(t)' /\ QueryInv(t)'
  <2>1. pc'[t] = "done"
    BY DEF Stat, Inv, TypeOK
  <2> QED
    BY <1>1, <1>5, <2>1 DEF LoadInv, QueryInv, InPkg, Holding
<1>8. ASSUME NEW u \in Threads, u # t PROVE LoadInv(u)' /\ QueryInv(u)'
  <2>1. Frame(u)
    BY <1>5, <1>8 DEF Frame, Stat, Inv, TypeOK
  <2> QED
    BY <1>3, <2>1, CellChangeKeeps, OtherThread
<1> QED
  BY <1>3, <1>6, <1>7, <1>8, CellChangeKeeps DEF Inv
LEMMA PkgReturnsType ==
  ASSUME TypeOK, NEW t \in Threads, NEW v \in Descs \cup {NoDesc, BadJson},
         NEW next \in {"store", "fail"}, PkgReturns(t, v, next),
         DOMAIN heap' = DOMAIN heap
  PROVE  /\ pc' \in [Threads -> {"idle", "probe", "insert", "stat", "pkg",
                         "init", "read", "store", "fail", "clear", "done"}]
         /\ at' \in [Threads -> DOMAIN heap' \cup {NoEntry}]
         /\ val' \in [Threads -> Kinds \cup Descs \cup {Unset, NoDesc, BadJson}]
<1>1. val' = [val EXCEPT ![t] = v]
  BY DEF PkgReturns
<1>2. CASE pc' = [pc EXCEPT ![t] = "done"] /\ UNCHANGED at
  BY <1>1, <1>2 DEF TypeOK
<1>3. ASSUME NEW c \in DOMAIN heap, pc' = [pc EXCEPT ![t] = next],
             at' = [at EXCEPT ![t] = c]
      PROVE  /\ pc' \in [Threads -> {"idle", "probe", "insert", "stat", "pkg",
                            "init", "read", "store", "fail", "clear", "done"}]
             /\ at' \in [Threads -> DOMAIN heap' \cup {NoEntry}]
             /\ val' \in [Threads -> Kinds \cup Descs \cup {Unset, NoDesc, BadJson}]
  BY <1>1, <1>3 DEF TypeOK
<1> QED
  BY <1>2, <1>3 DEF PkgReturns

\* Where PkgReturns leaves the others.
LEMMA PkgReturnsFrame ==
  ASSUME Inv, NEW t \in Threads, NEW v, NEW next, PkgReturns(t, v, next),
         UNCHANGED <<op, goal, cur, missing>>, NEW u \in Threads, u # t,
         Held(u)' = Held(u)
  PROVE  Frame(u)
  BY DEF PkgReturns, Frame, Inv, TypeOK

LEMMA PkgInfoKeeps ==
  ASSUME Inv, NEW t \in Threads, PkgInfo(t)
  PROVE  Inv'
<1> DEFINE e == at[t]
           f == [heap[e] EXCEPT !.holder = t]
<1>1. /\ pc[t] = "pkg" /\ e \in DOMAIN heap /\ e \notin Held(t)
      /\ UNCHANGED <<disk, entries, made, op, goal, cur, missing, plan,
                     changes, history>>
  BY DEF PkgInfo, Inv, QueryInv, InPkg
<1>2. heap[e] \in Entry
  BY <1>1 DEF Inv, TypeOK
<1>3. CASE heap[e].pkg # Unset /\ PkgReturns(t, heap[e].pkg, "store")
           /\ UNCHANGED heap
  <2>1. heap[e].pkg \in Descs \cup {NoDesc}
    BY <1>2, <1>3 DEF Entry
  <2>2. Extends /\ \A u \in Threads : Held(u)' = Held(u)
    BY <1>3, SameHeap
  <2>3. TypeOK'
    BY <1>1, <1>3, <2>1, PkgReturnsType DEF Inv, TypeOK, history
  <2>4. HeapInv'
    BY <1>1, <1>3 DEF Inv, HeapInv
  <2>5. LoadInv(t)' /\ QueryInv(t)'
    BY <1>1, <1>3, <2>1, <2>2, PkgReturnsKeeps
  <2>6. \A u \in Threads \ {t} : LoadInv(u)' /\ QueryInv(u)'
    BY <1>1, <1>3, <2>2, PkgReturnsFrame, OtherThread
  <2> QED
    BY <2>3, <2>4, <2>5, <2>6 DEF Inv
<1>4. CASE /\ heap[e].pkg = Unset /\ heap[e].holder = Nobody
           /\ heap' = [heap EXCEPT ![e].holder = t]
           /\ pc' = [pc EXCEPT ![t] = "init"] /\ UNCHANGED <<val, at>>
  <2>1. /\ f.path = heap[e].path /\ f.parent = heap[e].parent
        /\ f.pkg = Unset /\ f.holder = t /\ f.stat = heap[e].stat /\ f \in Entry
    BY <1>2, <1>4 DEF Entry
  <2> HIDE DEF f
  <2>2. CellChange(e, f)
    BY <1>1, <1>4, <2>1 DEF CellChange, Inv, HeapInv, f
  <2>3. /\ DOMAIN heap' = DOMAIN heap /\ Extends /\ HeapInv'
        /\ heap' \in [DOMAIN heap' -> Entry]
        /\ Held(t)' = Held(t) \cup {e}
        /\ \A u \in Threads \ {t} : Held(u)' = Held(u)
    <3>1. \A u \in Threads : e \notin Held(u)
      BY <1>4, SentinelAssumption DEF Held
    <3> QED
      BY <2>1, <2>2, <3>1, CellChangeKeeps
  <2>4. TypeOK'
    BY <1>1, <1>4, <2>3 DEF Inv, TypeOK, history
  <2>5. LoadInv(t)' /\ QueryInv(t)'
    <3>1. pc'[t] = "init" /\ at'[t] = e /\ Path(t)' = Path(t)
      BY <1>1, <1>4, <2>3 DEF Inv, TypeOK, Path, Extends
    <3>2. \A i \in DOMAIN heap : heap'[i].path = heap[i].path
                              /\ heap'[i].parent = heap[i].parent
      BY <2>3 DEF Extends
    <3>3. /\ op[t] = "pkg" /\ Path(t) \in Anc[goal[t]]
          /\ \A i \in Held(t) :
              /\ heap[i].path \in Anc[goal[t]] /\ Path(t) \in Anc[heap[i].path]
              /\ heap[i].path # Path(t)
              /\ \A j \in Held(t) : heap[i].path = heap[j].path => i = j
          /\ \A i \in Held(t) \cup {e} :
               heap[i].path # goal[t] => \E c \in Held(t) : heap[c].parent = i
      BY <1>1 DEF Inv, QueryInv, InPkg
    <3>4. Path(t) \in Anc[Path(t)] /\ Held(t) \subseteq DOMAIN heap
      BY <3>3, AncUp DEF Inv, TypeOK, Held
    <3>5. \A i \in Held(t)' :
            /\ heap'[i].path \in Anc[goal[t]] /\ Path(t) \in Anc[heap'[i].path]
            /\ i # e => heap'[i].path # Path(t)
            /\ \A j \in Held(t)' : heap'[i].path = heap'[j].path => i = j
      BY <1>1, <2>3, <3>2, <3>3, <3>4 DEF Path
    <3>6. \A i \in Held(t)' \cup {e} :
            heap'[i].path # goal[t] => \E c \in Held(t)' : heap'[c].parent = i
      BY <1>1, <2>3, <3>2, <3>3, <3>4
    <3>7. LoadInv(t)'
      BY <3>1 DEF LoadInv
    <3> QED
      BY <1>1, <2>3, <3>1, <3>3, <3>5, <3>6, <3>7
      DEF QueryInv, InPkg, Holding
  <2>6. ASSUME NEW u \in Threads, u # t PROVE LoadInv(u)' /\ QueryInv(u)'
    <3>1. Frame(u)
      BY <1>1, <1>4, <2>3, <2>6 DEF Frame, Inv, TypeOK
    <3> QED
      BY <2>3, <3>1, OtherThread
  <2> QED
    BY <2>3, <2>4, <2>5, <2>6 DEF Inv
<1> QED
  BY <1>3, <1>4 DEF PkgInfo

LEMMA StorePkgKeeps ==
  ASSUME Inv, NEW t \in Threads, StorePkg(t)
  PROVE  Inv'
<1> DEFINE e == at[t]
           f == [heap[e] EXCEPT !.pkg = val[t], !.holder = Nobody]
<1>1. /\ pc[t] = "store" /\ e \in DOMAIN heap /\ e \in Held(t)
      /\ val[t] \in Descs \cup {NoDesc}
      /\ UNCHANGED <<disk, entries, made, op, goal, cur, missing, plan,
                     changes, history>>
      /\ PkgReturns(t, val[t], "store")
  BY DEF StorePkg, Inv, QueryInv, InPkg, Holding
<1>2. heap[e] \in Entry
  BY <1>1 DEF Inv, TypeOK
<1>3. /\ f.path = heap[e].path /\ f.parent = heap[e].parent
      /\ f.pkg = val[t] /\ f.holder = Nobody /\ f.stat = heap[e].stat
      /\ f \in Entry
  BY <1>1, <1>2 DEF Entry
<1>4. heap' = [heap EXCEPT ![e] = f]
  BY <1>1, <1>2 DEF StorePkg, Entry, Inv, TypeOK
<1> HIDE DEF f
<1>5. CellChange(e, f)
  BY <1>1, <1>3, <1>4 DEF CellChange, Inv, HeapInv
<1>6. /\ DOMAIN heap' = DOMAIN heap /\ Extends /\ HeapInv'
      /\ heap' \in [DOMAIN heap' -> Entry]
      /\ Held(t)' = Held(t) \ {e}
      /\ \A u \in Threads \ {t} : Held(u)' = Held(u)
  <2>1. \A u \in Threads \ {t} : e \notin Held(u)
    BY <1>1 DEF Held
  <2>2. \A u \in Threads : u # Nobody
    BY SentinelAssumption
  <2>3. /\ DOMAIN heap' = DOMAIN heap /\ Extends /\ HeapInv'
        /\ heap' \in [DOMAIN heap' -> Entry]
        /\ \A u : Held(u)' = IF f.holder = u THEN Held(u) \cup {e}
                                            ELSE Held(u) \ {e}
    BY <1>5, CellChangeKeeps
  <2> HIDE DEF e
  <2>4. \A u \in Threads : Held(u)' = Held(u) \ {e}
    BY <1>3, <2>2, <2>3
  <2> QED
    BY <2>1, <2>3, <2>4
<1>7. TypeOK'
  BY <1>1, <1>6, PkgReturnsType DEF Inv, TypeOK, history
<1>8. LoadInv(t)' /\ QueryInv(t)'
  BY <1>1, <1>6, PkgReturnsKeeps
<1>9. \A u \in Threads \ {t} : LoadInv(u)' /\ QueryInv(u)'
  BY <1>1, <1>6, PkgReturnsFrame, OtherThread
<1> QED
  BY <1>6, <1>7, <1>8, <1>9 DEF Inv

LEMMA FailPkgKeeps ==
  ASSUME Inv, NEW t \in Threads, FailPkg(t)
  PROVE  Inv'
<1> DEFINE e == at[t]
           f == [heap[e] EXCEPT !.holder = Nobody]
<1>1. /\ pc[t] = "fail" /\ e \in DOMAIN heap /\ e \in Held(t)
      /\ UNCHANGED <<disk, entries, made, op, goal, cur, missing, plan,
                     changes, history>>
      /\ PkgReturns(t, BadJson, "fail")
  BY DEF FailPkg, Inv, QueryInv, InPkg, Holding
<1>2. heap[e] \in Entry
  BY <1>1 DEF Inv, TypeOK
<1>3. /\ f.path = heap[e].path /\ f.parent = heap[e].parent
      /\ f.pkg = heap[e].pkg /\ f.holder = Nobody /\ f.stat = heap[e].stat
      /\ f \in Entry
  BY <1>1, <1>2 DEF Entry
<1>4. heap' = [heap EXCEPT ![e] = f]
  BY <1>1, <1>2 DEF FailPkg, Entry, Inv, TypeOK
<1> HIDE DEF f
<1>5. CellChange(e, f)
  BY <1>1, <1>3, <1>4 DEF CellChange, Inv, HeapInv
<1>6. /\ DOMAIN heap' = DOMAIN heap /\ Extends /\ HeapInv'
      /\ heap' \in [DOMAIN heap' -> Entry]
      /\ Held(t)' = Held(t) \ {e}
      /\ \A u \in Threads \ {t} : Held(u)' = Held(u)
  <2>1. \A u \in Threads \ {t} : e \notin Held(u)
    BY <1>1 DEF Held
  <2>2. \A u \in Threads : u # Nobody
    BY SentinelAssumption
  <2>3. /\ DOMAIN heap' = DOMAIN heap /\ Extends /\ HeapInv'
        /\ heap' \in [DOMAIN heap' -> Entry]
        /\ \A u : Held(u)' = IF f.holder = u THEN Held(u) \cup {e}
                                            ELSE Held(u) \ {e}
    BY <1>5, CellChangeKeeps
  <2> HIDE DEF e
  <2>4. \A u \in Threads : Held(u)' = Held(u) \ {e}
    BY <1>3, <2>2, <2>3
  <2> QED
    BY <2>1, <2>3, <2>4
<1>7. TypeOK'
  BY <1>1, <1>6, PkgReturnsType DEF Inv, TypeOK, history
<1>8. LoadInv(t)' /\ QueryInv(t)'
  BY <1>1, <1>6, PkgReturnsKeeps
<1>9. \A u \in Threads \ {t} : LoadInv(u)' /\ QueryInv(u)'
  BY <1>1, <1>6, PkgReturnsFrame, OtherThread
<1> QED
  BY <1>6, <1>7, <1>8, <1>9 DEF Inv
\* The types of what the initialiser moves.
PkgLocal ==
  /\ pc \in [Threads -> {"idle", "probe", "insert", "stat", "pkg", "init",
                         "read", "store", "fail", "clear", "done"}]
  /\ at \in [Threads -> DOMAIN heap \cup {NoEntry}]
  /\ val \in [Threads -> Kinds \cup Descs \cup {Unset, NoDesc, BadJson}]

\* The entry of the parent is one step nearer to the root than every cell
\* the thread holds, and the cell the thread leaves is the child of it.
LEMMA AskParentKeeps ==
  ASSUME Inv, NEW t \in Threads, pc[t] \in {"init", "read"}, AskParent(t),
         Extends, DOMAIN heap' = DOMAIN heap, Held(t)' = Held(t),
         UNCHANGED <<op, goal, cur, missing>>
  PROVE  LoadInv(t)' /\ QueryInv(t)' /\ PkgLocal'
<1>1. /\ op[t] = "pkg" /\ at[t] \in DOMAIN heap /\ Path(t) \in Anc[goal[t]]
      /\ goal[t] \in Paths /\ Path(t) \in Paths /\ at[t] \in Held(t)
  BY AncUp DEF Inv, TypeOK, QueryInv, InPkg, Holding
<1>2. \A i \in Held(t) :
        /\ i \in DOMAIN heap /\ heap'[i].path = heap[i].path
        /\ heap'[i].parent = heap[i].parent
        /\ heap[i].path \in Anc[goal[t]] /\ heap[i].path \in Paths
        /\ Path(t) \in Anc[heap[i].path]
        /\ i # at[t] => heap[i].path # Path(t)
        /\ \A j \in Held(t) : heap[i].path = heap[j].path => i = j
  BY <1>1, AncUp DEF Inv, QueryInv, InPkg, Held, Extends
<1>3. \A i \in Held(t) :
        heap[i].path # goal[t] => \E c \in Held(t) : heap[c].parent = i
  BY DEF Inv, QueryInv, InPkg
<1> DEFINE up == heap[at[t]].parent
<1>4. CASE up # NoEntry /\ pc' = [pc EXCEPT ![t] = "pkg"]
           /\ at' = [at EXCEPT ![t] = up] /\ UNCHANGED val
  <2>1. /\ up \in DOMAIN heap /\ heap[up].path = Parent[Path(t)]
        /\ Parent[Path(t)] # NoPath
    BY <1>1, <1>4 DEF Inv, HeapInv, Path
  <2>2. pc'[t] = "pkg" /\ at'[t] = up /\ Path(t)' = Parent[Path(t)]
    BY <1>4, <2>1 DEF Inv, TypeOK, Path, Extends
  <2>3. Parent[Path(t)] \in Anc[goal[t]]
    BY <1>1, <2>1, AncUp, AncTransitive
  <2>4. \A i \in Held(t) : /\ Parent[Path(t)] \in Anc[heap[i].path]
                           /\ heap[i].path # Parent[Path(t)]
    BY <1>1, <1>2, <2>1, AncUp, AncTransitive
  <2>5. up \notin Held(t)
    BY <2>1, <2>4
  <2>6. \A i \in Held(t) : heap'[i].path # goal[t] =>
          \E c \in Held(t) : heap'[c].parent = i
    BY <1>2, <1>3
  <2>7. heap'[at[t]].parent = up
    BY <1>1, <1>2
  <2>8. QueryInv(t)'
    BY <1>1, <1>2, <2>1, <2>2, <2>3, <2>4, <2>5, <2>6, <2>7
    DEF QueryInv, InPkg, Holding
  <2>9. PkgLocal'
    BY <1>4, <2>1 DEF PkgLocal, Inv, TypeOK
  <2> QED
    BY <2>2, <2>8, <2>9 DEF LoadInv
<1>5. CASE pc' = [pc EXCEPT ![t] = "store"] /\ val' = [val EXCEPT ![t] = NoDesc]
           /\ UNCHANGED at
  <2>1. pc'[t] = "store" /\ val'[t] = NoDesc /\ at'[t] = at[t]
        /\ Path(t)' = Path(t)
    BY <1>1, <1>5 DEF Inv, TypeOK, Path, Extends
  <2>2. \A i \in Held(t) : heap'[i].path # goal[t] =>
          \E c \in Held(t) : heap'[c].parent = i
    BY <1>2, <1>3
  <2>3. QueryInv(t)'
    BY <1>1, <1>2, <2>1, <2>2 DEF QueryInv, InPkg, Holding
  <2>4. PkgLocal'
    BY <1>5 DEF PkgLocal, Inv, TypeOK
  <2> QED
    BY <2>1, <2>3, <2>4 DEF LoadInv
<1> QED
  BY <1>4, <1>5 DEF AskParent

\* The thread goes on at the entry it is at.
LEMMA StayKeeps ==
  ASSUME Inv, NEW t \in Threads, pc[t] \in Holding,
         NEW next \in Holding, pc' = [pc EXCEPT ![t] = next], UNCHANGED at,
         next = "read" => Path(t) \in Dirs \cup DescPaths,
         next = "store" => val'[t] \in Descs \cup {NoDesc},
         val' \in [Threads -> Kinds \cup Descs \cup {Unset, NoDesc, BadJson}],
         Extends, DOMAIN heap' = DOMAIN heap, Held(t)' = Held(t),
         UNCHANGED <<op, goal, cur, missing>>
  PROVE  LoadInv(t)' /\ QueryInv(t)' /\ PkgLocal'
<1>1. pc'[t] = next /\ pc[t] \in InPkg /\ next \in InPkg
  BY DEF Inv, TypeOK, Holding, InPkg
<1>2. /\ op[t] = "pkg" /\ at[t] \in DOMAIN heap /\ Path(t) \in Anc[goal[t]]
      /\ at[t] \in Held(t)
      /\ \A i \in Held(t) :
           /\ heap[i].path \in Anc[goal[t]] /\ Path(t) \in Anc[heap[i].path]
           /\ i # at[t] => heap[i].path # Path(t)
           /\ \A j \in Held(t) : heap[i].path = heap[j].path => i = j
      /\ \A i \in Held(t) : heap[i].path # goal[t] =>
           \E c \in Held(t) : heap[c].parent = i
  BY <1>1 DEF Inv, QueryInv
<1>3. \A i \in Held(t) : /\ heap'[i].path = heap[i].path
                         /\ heap'[i].parent = heap[i].parent
  BY DEF Held, Extends
<1>4. Path(t)' = Path(t)
  BY <1>2 DEF Path, Extends
<1>5. \A i \in Held(t) : heap'[i].path # goal[t] =>
           \E c \in Held(t) : heap'[c].parent = i
  BY <1>2, <1>3
<1>6. Held(t) \cup {at[t]} = Held(t)
  BY <1>2
<1>7. QueryInv(t)'
  BY <1>1, <1>2, <1>3, <1>4, <1>5, <1>6 DEF QueryInv, InPkg, Holding
<1>8. LoadInv(t)'
  BY <1>1 DEF LoadInv, Holding
<1> QED
  BY <1>7, <1>8 DEF PkgLocal, Inv, TypeOK, Holding

LEMMA InitPkgKeeps ==
  ASSUME Inv, NEW t \in Threads, InitPkg(t)
  PROVE  Inv'
<1> DEFINE e == at[t]
           f == [heap[e] EXCEPT !.stat = StatOf(e)]
<1>1. /\ pc[t] = "init" /\ e \in DOMAIN heap /\ heap' = [heap EXCEPT ![e].stat = StatOf(e)]
      /\ UNCHANGED <<disk, entries, made, op, goal, cur, missing, plan,
                     changes, history>>
  BY DEF InitPkg, Inv, QueryInv, InPkg
<1>2. /\ heap[e] \in Entry /\ f \in Entry /\ StatOf(e) \in Kinds
      /\ StatOf(e) = Dir => heap[e].path \in Dirs
  BY <1>1, StatOfKeeps
<1>3. /\ f.path = heap[e].path /\ f.parent = heap[e].parent
      /\ f.pkg = heap[e].pkg /\ f.holder = heap[e].holder /\ f.stat = StatOf(e)
  BY <1>2 DEF Entry
<1>4. heap' = [heap EXCEPT ![e] = f]
  BY <1>1
<1> HIDE DEF f
<1>5. CellChange(e, f)
  BY <1>1, <1>2, <1>3, <1>4 DEF CellChange, Inv, HeapInv
<1>6. /\ DOMAIN heap' = DOMAIN heap /\ Extends /\ HeapInv'
      /\ heap' \in [DOMAIN heap' -> Entry]
      /\ \A u : Held(u)' = Held(u)
  BY <1>1, <1>3, <1>5, CellChangeKeeps DEF Held
<1>7. LoadInv(t)' /\ QueryInv(t)' /\ PkgLocal'
  <2>1. CASE /\ StatOf(e) = Dir \/ heap[e].path \in DescPaths
             /\ pc' = [pc EXCEPT ![t] = "read"] /\ UNCHANGED <<at, val>>
    <3>1. Path(t) \in Dirs \cup DescPaths
      BY <1>2, <2>1 DEF Path
    <3>2. val' \in [Threads -> Kinds \cup Descs \cup {Unset, NoDesc, BadJson}]
      BY <2>1 DEF Inv, TypeOK
    <3> QED
      BY <1>1, <1>6, <2>1, <3>1, <3>2, StayKeeps DEF Holding
  <2>2. CASE AskParent(t)
    BY <1>1, <1>6, <2>2, AskParentKeeps
  <2> QED
    BY <2>1, <2>2 DEF InitPkg
<1>8. TypeOK'
  BY <1>1, <1>6, <1>7 DEF PkgLocal, Inv, TypeOK, history
<1>9. ASSUME NEW u \in Threads, u # t PROVE LoadInv(u)' /\ QueryInv(u)'
  <2>1. Frame(u)
    BY <1>1, <1>6, <1>9 DEF InitPkg, AskParent, Frame, Inv, TypeOK
  <2> QED
    BY <1>6, <2>1, OtherThread
<1> QED
  BY <1>6, <1>7, <1>8, <1>9 DEF Inv

LEMMA ReadPkgKeeps ==
  ASSUME Inv, NEW t \in Threads, ReadPkg(t)
  PROVE  Inv'
<1> DEFINE d == DescDir(heap[at[t]].path)
<1>1. /\ pc[t] = "read" /\ at[t] \in DOMAIN heap /\ UNCHANGED heap
      /\ Path(t) \in Dirs \cup DescPaths
      /\ UNCHANGED <<disk, entries, made, op, goal, cur, missing, plan,
                     changes, history>>
  BY DEF ReadPkg, Inv, QueryInv, InPkg
<1>2. d \in Dirs
  BY <1>1, PathAssumption DEF DescDir, Path
<1>3. Extends /\ \A u \in Threads : Held(u)' = Held(u)
  BY <1>1, SameHeap
<1>4. LoadInv(t)' /\ QueryInv(t)' /\ PkgLocal'
  <2>1. CASE /\ disk[d] \in Versions
             /\ val' = [val EXCEPT ![t] = [dir |-> d, json |-> disk[d]]]
             /\ pc' = [pc EXCEPT ![t] = "store"] /\ UNCHANGED at
    <3>1. [dir |-> d, json |-> disk[d]] \in Descs
      BY <1>2, <2>1 DEF Descs
    <3>2. /\ val'[t] \in Descs
          /\ val' \in [Threads -> Kinds \cup Descs \cup {Unset, NoDesc, BadJson}]
      BY <2>1, <3>1 DEF Inv, TypeOK
    <3> QED
      BY <1>1, <1>3, <2>1, <3>2, StayKeeps DEF Holding
  <2>2. CASE pc' = [pc EXCEPT ![t] = "fail"] /\ UNCHANGED <<at, val>>
    <3>1. val' \in [Threads -> Kinds \cup Descs \cup {Unset, NoDesc, BadJson}]
      BY <2>2 DEF Inv, TypeOK
    <3> QED
      BY <1>1, <1>3, <2>2, <3>1, StayKeeps DEF Holding
  <2>3. CASE AskParent(t)
    BY <1>1, <1>3, <2>3, AskParentKeeps
  <2> QED
    BY <2>1, <2>2, <2>3 DEF ReadPkg
<1>5. TypeOK'
  BY <1>1, <1>4 DEF PkgLocal, Inv, TypeOK, history
<1>6. HeapInv'
  BY <1>1 DEF Inv, HeapInv
<1>7. ASSUME NEW u \in Threads, u # t PROVE LoadInv(u)' /\ QueryInv(u)'
  <2>1. Frame(u)
    BY <1>1, <1>3, <1>7 DEF ReadPkg, AskParent, Frame, Inv, TypeOK
  <2> QED
    BY <1>3, <2>1, OtherThread
<1> QED
  BY <1>4, <1>5, <1>6, <1>7 DEF Inv

-----------------------------------------------------------------------------
(* clear_entries and the disk *)

LEMMA ClearShardKeeps ==
  ASSUME Inv, NEW t \in Threads, ClearShard(t)
  PROVE  Inv'
<1>1. /\ pc[t] = "clear" /\ Held(t) = {}
      /\ UNCHANGED <<disk, heap, made, op, goal, cur, at, val, plan, changes, adm,
                     overlap, settled>>
  BY DEF ClearShard, Inv, QueryInv, InPkg
<1>2. PICK p \in missing[t] :
        /\ entries' = [entries EXCEPT ![p] = NoEntry]
        /\ missing' = [missing EXCEPT ![t] = @ \ {p}]
        /\ IF missing[t] = {p}
           THEN /\ pc' = [pc EXCEPT ![t] = "idle"]
                /\ since' = adm[t] /\ asked' = {}
                /\ told' = [q \in Paths |-> {}]
           ELSE UNCHANGED <<pc, since, asked, told>>
  BY DEF ClearShard, ClearReturns
<1>3. TypeOK'
  <2>1. TypeOK
    BY DEF Inv
  <2>2. /\ entries' \in [Paths -> DOMAIN heap \cup {NoEntry}]
        /\ missing' \in [Threads -> SUBSET Paths]
    BY <1>2, <2>1 DEF TypeOK
  <2>3. /\ pc' \in [Threads -> {"idle", "probe", "insert", "stat", "pkg", "init",
                               "read", "store", "fail", "clear", "done"}]
        /\ since' \in [Paths -> SUBSET (Contents \cup LeafKinds)]
        /\ asked' \subseteq Paths /\ told' \in [Paths -> SUBSET Kinds]
    <3>1. CASE missing[t] = {p}
      <4>1. pc' = [pc EXCEPT ![t] = "idle"] /\ since' = adm[t]
            /\ asked' = {} /\ told' = [q \in Paths |-> {}]
        BY <1>2, <3>1
      <4> QED
        BY <2>1, <4>1 DEF TypeOK
    <3>2. CASE missing[t] # {p}
      <4>1. UNCHANGED <<pc, since, asked, told>>
        BY <1>2, <3>2
      <4> QED
        BY <2>1, <4>1 DEF TypeOK
    <3> QED
      BY <3>1, <3>2
  <2> QED
    BY <1>1, <2>1, <2>2, <2>3 DEF TypeOK
<1>4. HeapInv'
  BY <1>1, <1>2 DEF Inv, HeapInv, TypeOK
<1>5. Extends /\ \A u \in Threads : Held(u)' = Held(u)
  BY <1>1, SameHeap
<1>6. pc'[t] \in {"clear", "idle"}
  BY <1>1, <1>2 DEF Inv, TypeOK
<1>7. LoadInv(t)' /\ QueryInv(t)'
  BY <1>1, <1>5, <1>6 DEF LoadInv, QueryInv, InPkg, Holding
<1>8. ASSUME NEW u \in Threads, u # t PROVE LoadInv(u)' /\ QueryInv(u)'
  <2>1. Frame(u)
    BY <1>1, <1>2, <1>5, <1>8 DEF Frame, Inv, TypeOK
  <2> QED
    BY <1>5, <2>1, OtherThread
<1> QED
  BY <1>3, <1>4, <1>7, <1>8 DEF Inv

LEMMA DiskKeeps ==
  ASSUME Inv, Change
  PROVE  Inv'
<1>1. PICK p \in Paths, c \in Contents \cup LeafKinds :
        /\ since' = [since EXCEPT ![p] = @ \cup {c}]
        /\ adm' = [t \in Threads |-> [adm[t] EXCEPT ![p] = @ \cup {c}]]
  BY DEF Change
<1>2. /\ since' \in [Paths -> SUBSET (Contents \cup LeafKinds)]
      /\ adm' \in [Threads -> [Paths -> SUBSET (Contents \cup LeafKinds)]]
  BY <1>1 DEF Inv, TypeOK
<1>3. TypeOK'
  BY <1>2 DEF Change, Inv, TypeOK, local
<1>4. HeapInv'
  BY DEF Change, Inv, HeapInv, local
<1>5. ASSUME NEW u \in Threads PROVE LoadInv(u)' /\ QueryInv(u)'
  <2>1. Frame(u) /\ Extends
    BY SameHeap DEF Change, Frame, local
  <2> QED
    BY <2>1, OtherThread
<1> QED
  BY <1>3, <1>4, <1>5 DEF Inv

LEMMA NextInv == Inv /\ [Next]_vars => Inv'
<1> SUFFICES ASSUME Inv, [Next]_vars PROVE Inv'
  OBVIOUS
<1>1. ASSUME NEW t \in Threads, StartQuery(t) \/ StartClear(t) \/ Run(t)
      PROVE  Inv'
  BY <1>1, StartQueryKeeps, StartClearKeeps, ProbeKeeps, InsertKeeps,
     StatKeeps, PkgInfoKeeps, InitPkgKeeps, ReadPkgKeeps, StorePkgKeeps,
     FailPkgKeeps, ClearShardKeeps DEF Run
<1>2. CASE UNCHANGED vars
  <2>1. \A u \in Threads : LoadInv(u)' /\ QueryInv(u)'
    BY <1>2, SameHeap, OtherThread DEF vars, local, Frame
  <2> QED
    BY <1>2, <2>1 DEF Inv, TypeOK, HeapInv, vars, local, history
<1> QED
  BY <1>1, <1>2, DiskKeeps DEF Next

\* The cache and the threads keep their shape, whatever the interleaving of
\* load_entry, the queries, clear_entries and changes of the disk.
THEOREM TypeOKHolds == Spec => []TypeOK
<1>1. Inv => TypeOK
  BY DEF Inv
<1> QED
  BY <1>1, InitInv, NextInv, PTL DEF Spec

\* Threads that wait for pkg_info cells never wait in a cycle: who waits,
\* waits for a thread at the same path or above that does not wait there.
THEOREM WaitOrderHolds == Spec => []WaitOrder
<1>1. Inv => WaitOrder
  <2> SUFFICES ASSUME Inv, NEW t \in Threads, Waits(t)
               PROVE  LET u == heap[at[t]].holder
                      IN /\ pc[u] \in {"pkg", "init", "read", "store", "fail"}
                         /\ heap[at[u]].path \in Anc[heap[at[t]].path]
                         /\ Waits(u) => heap[at[u]].path # heap[at[t]].path
    BY DEF WaitOrder
  <2> DEFINE u == heap[at[t]].holder
  <2>1. at[t] \in DOMAIN heap /\ pc[t] = "pkg" /\ u \notin {Nobody, t}
    BY DEF Waits, Inv, QueryInv, InPkg
  <2>2. u \in Threads /\ at[t] \in Held(u)
    BY <2>1 DEF Inv, TypeOK, Entry, Held
  <2>3. pc[u] \in InPkg
    BY <2>2 DEF Inv, QueryInv
  <2>4. Path(u) \in Anc[heap[at[t]].path]
    BY <2>2, <2>3 DEF Inv, QueryInv
  <2>5. Waits(u) => Path(u) # heap[at[t]].path
    BY <2>2, <2>3 DEF Inv, QueryInv, Waits
  <2> QED
    BY <2>3, <2>4, <2>5 DEF InPkg, Path
<1> QED
  BY <1>1, InitInv, NextInv, PTL DEF Spec

\* A cell that is set is not set again.
CellKept(i) ==
  /\ heap[i].stat # NoStat => heap'[i].stat = heap[i].stat
  /\ heap[i].pkg # Unset => heap'[i].pkg = heap[i].pkg

LEMMA CellsKept ==
  ASSUME Inv, [Next]_vars, heap' # heap
  PROVE  \A i \in DOMAIN heap : CellKept(i)
<1> USE DEF CellKept
<1>1. \A i \in DOMAIN heap : heap[i] \in Entry
  BY DEF Inv, TypeOK
<1>2. PICK t \in Threads : \/ Insert(t) \/ Stat(t) \/ PkgInfo(t) \/ InitPkg(t)
                           \/ StorePkg(t) \/ FailPkg(t)
  BY DEF Next, Run, StartQuery, StartClear, Start, Probe, ReadPkg, ClearShard,
         ClearReturns, Change, vars
<1>3. CASE Insert(t)
  <2> DEFINE id == <<t, made[t] + 1>>
  <2>1. id \notin DOMAIN heap
    <3>1. made[t] \in Nat /\ id[1] = t /\ id[2] = made[t] + 1
      BY DEF Inv, TypeOK
    <3> QED
      BY <3>1 DEF Inv, HeapInv
  <2> QED
    BY <1>3, <2>1 DEF Insert
<1>4. CASE Stat(t) \/ InitPkg(t)
  <2>1. /\ at[t] \in DOMAIN heap
        /\ heap' = [heap EXCEPT ![at[t]].stat = StatOf(at[t])]
    BY <1>4 DEF Stat, InitPkg, Inv, QueryInv, InPkg
  <2>2. heap[at[t]].stat # NoStat => StatOf(at[t]) = heap[at[t]].stat
    BY DEF StatOf
  <2> QED
    BY <1>1, <2>1, <2>2 DEF Entry
<1>5. CASE PkgInfo(t) \/ FailPkg(t)
  <2>1. PICK u : heap' = [heap EXCEPT ![at[t]].holder = u]
    BY <1>5 DEF PkgInfo, FailPkg
  <2>2. at[t] \in DOMAIN heap
    BY <1>5 DEF PkgInfo, FailPkg, Inv, QueryInv, InPkg
  <2> QED
    BY <1>1, <2>1, <2>2 DEF Entry
<1>6. CASE StorePkg(t)
  <2>1. at[t] \in Held(t)
    BY <1>6 DEF StorePkg, Inv, QueryInv, Holding
  <2>2. heap[at[t]].holder # Nobody
    BY <2>1, SentinelAssumption DEF Held
  <2>3. at[t] \in DOMAIN heap /\ heap[at[t]].pkg = Unset
    BY <2>1, <2>2 DEF Held, Inv, HeapInv
  <2> QED
    BY <1>1, <1>6, <2>3 DEF StorePkg, Entry, Inv, TypeOK
<1> QED
  BY <1>2, <1>3, <1>4, <1>5, <1>6

\* Cells are set once: the stat cell by the first query, the package cell
\* by the one thread that holds it, whatever fails and is retried.
THEOREM CellsWriteOnceHolds == Spec => CellsWriteOnce
<1>1. Inv /\ [Next]_vars => [\A i \in DOMAIN heap : CellKept(i)]_heap
  BY CellsKept
<1>2. Inv /\ [Next]_vars => [\A i \in DOMAIN heap :
         /\ heap[i].stat # NoStat => heap'[i].stat = heap[i].stat
         /\ heap[i].pkg # Unset => heap'[i].pkg = heap[i].pkg]_heap
  BY <1>1 DEF CellKept
<1> QED
  BY <1>2, InitInv, NextInv, PTL DEF Spec, CellsWriteOnce

-----------------------------------------------------------------------------
(* Calls begin and end, and clears *)

\* A step of a call keeps it under way or ends it, and leaves the calls of
\* the others alone.
LEMMA RunBusy ==
  ASSUME Inv, NEW t \in Threads, Run(t)
  PROVE  /\ Busy(t) /\ pc[t] \notin {"idle", "done"}
         /\ \A u \in Threads \ {t} : pc'[u] = pc[u] /\ at'[u] = at[u]
         /\ pc'[t] = "clear" => pc[t] = "clear" /\ ClearShard(t)
         /\ pc[t] = "clear" => ClearShard(t)
         /\ UNCHANGED <<op, goal, overlap, settled, adm, disk>>
<1>1. /\ pc \in [Threads -> {"idle", "probe", "insert", "stat", "pkg", "init",
                             "read", "store", "fail", "clear", "done"}]
      /\ DOMAIN at = Threads
      /\ (pc[t] \in {"probe", "insert"} => op[t] \in {"stat", "pkg"})
  BY DEF Inv, TypeOK, LoadInv
<1>2. CASE Probe(t) \/ Insert(t)
  BY <1>1, <1>2 DEF Probe, Insert, LoadReturns, Busy, history
<1>3. CASE Stat(t) \/ PkgInfo(t) \/ StorePkg(t) \/ FailPkg(t)
  BY <1>1, <1>3 DEF Stat, PkgInfo, StorePkg, FailPkg, PkgReturns, Busy, history
<1>4. CASE InitPkg(t) \/ ReadPkg(t)
  BY <1>1, <1>4 DEF InitPkg, ReadPkg, AskParent, Busy, history
<1>5. CASE ClearShard(t)
  BY <1>1, <1>5 DEF ClearShard, ClearReturns, Busy
<1> QED
  BY <1>2, <1>3, <1>4, <1>5 DEF Run

LEMMA StartBusy ==
  ASSUME Inv, NEW t \in Threads, StartQuery(t) \/ StartClear(t)
  PROVE  /\ ~Busy(t) /\ pc[t] \in {"idle", "done"}
         /\ pc'[t] = IF op'[t] = "clear" THEN "clear" ELSE "probe"
         /\ missing'[t] = IF op'[t] = "clear" THEN Paths ELSE {}
         /\ at'[t] = NoEntry /\ cur'[t] = goal'[t] /\ goal'[t] \in Paths
         /\ \A u \in Threads \ {t} : /\ pc'[u] = pc[u] /\ at'[u] = at[u]
                                     /\ op'[u] = op[u] /\ goal'[u] = goal[u]
                                     /\ cur'[u] = cur[u] /\ missing'[u] = missing[u]
         /\ overlap' = (overlap \/ \E u \in Threads \ {t} :
                          Busy(u) /\ "clear" \in {op[u], op'[t]})
         /\ settled' = {u \in settled \ {t} : goal[u] \in asked}
                       \cup {u \in {t} : \/ goal'[t] \in asked
                                         \/ \A v \in Threads \ {t} : ~Busy(v)}
         /\ UNCHANGED <<disk, entries, heap, made, since, asked, told>>
<1>1. /\ Start(t)
      /\ pc' = [pc EXCEPT ![t] = IF op'[t] = "clear" THEN "clear" ELSE "probe"]
      /\ missing' = [missing EXCEPT ![t] = IF op'[t] = "clear" THEN Paths ELSE {}]
  BY DEF StartQuery, StartClear
<1>2. /\ op' = [op EXCEPT ![t] = Head(plan[t]).op]
      /\ goal' = [goal EXCEPT ![t] = Head(plan[t]).path]
      /\ cur' = [cur EXCEPT ![t] = Head(plan[t]).path]
      /\ at' = [at EXCEPT ![t] = NoEntry] /\ ~Busy(t)
      /\ UNCHANGED <<disk, entries, heap, made, since, asked, told>>
  BY <1>1 DEF Start
<1>3. op'[t] = Head(plan[t]).op /\ goal'[t] = Head(plan[t]).path
  BY <1>2 DEF Inv, TypeOK
<1>4. overlap' = (overlap \/ \E u \in Threads \ {t} :
                    Busy(u) /\ "clear" \in {op[u], op'[t]})
  BY <1>1, <1>3 DEF Start
<1>5. settled' = {u \in settled \ {t} : goal[u] \in asked}
                 \cup {u \in {t} : \/ goal'[t] \in asked
                                   \/ \A v \in Threads \ {t} : ~Busy(v)}
  BY <1>1, <1>3 DEF Start
<1>6. /\ DOMAIN pc = Threads /\ DOMAIN missing = Threads /\ DOMAIN op = Threads
      /\ DOMAIN goal = Threads /\ DOMAIN cur = Threads /\ DOMAIN at = Threads
      /\ goal'[t] \in Paths
  BY <1>1, StartKeeps DEF Inv, TypeOK
<1> QED
  BY <1>1, <1>2, <1>3, <1>4, <1>5, <1>6 DEF Busy

\* As long as no clear overlapped another call, a clear is alone, and what it
\* went through is empty.
ClearInv ==
  \A t \in Threads : pc[t] = "clear" =>
    /\ op[t] = "clear"
    /\ ~overlap => /\ \A u \in Threads \ {t} : ~Busy(u)
                   /\ \A p \in Paths \ missing[t] : entries[p] = NoEntry

LEMMA ClearStep ==
  ASSUME Inv, ClearInv, [Next]_vars
  PROVE  ClearInv' /\ (overlap => overlap')
<1>1. ASSUME NEW t \in Threads, StartQuery(t) \/ StartClear(t)
      PROVE  ClearInv' /\ (overlap => overlap')
  <2>1. overlap => overlap'
    BY <1>1, StartBusy
  <2>2. ASSUME NEW u \in Threads \ {t}, pc'[u] = "clear"
        PROVE  op'[u] = "clear" /\ overlap'
    <3>1. pc[u] = "clear" /\ op'[u] = op[u]
      BY <1>1, <2>2, StartBusy
    <3>2. op[u] = "clear" /\ Busy(u)
      BY <3>1 DEF ClearInv, Busy
    <3>3. \E v \in Threads \ {t} : Busy(v) /\ "clear" \in {op[v], op'[t]}
      BY <3>2
    <3> QED
      BY <1>1, <3>1, <3>2, <3>3, StartBusy
  <2>3. ASSUME pc'[t] = "clear"
        PROVE  /\ op'[t] = "clear" /\ missing'[t] = Paths
               /\ ~overlap' => \A u \in Threads \ {t} : ~Busy(u)'
    BY <1>1, <2>3, StartBusy DEF Busy
  <2> QED
    BY <2>1, <2>2, <2>3 DEF ClearInv
<1>2. ASSUME NEW t \in Threads, Run(t)
      PROVE  ClearInv' /\ (overlap => overlap')
  <2>1. ASSUME NEW u \in Threads \ {t}, pc'[u] = "clear"
        PROVE  op'[u] = "clear" /\ overlap'
    BY <1>2, <2>1, RunBusy DEF ClearInv, Busy
  <2>2. ASSUME pc'[t] = "clear"
        PROVE  /\ op'[t] = "clear"
               /\ ~overlap' =>
                    /\ \A u \in Threads \ {t} : ~Busy(u)'
                    /\ \A p \in Paths \ missing'[t] : entries'[p] = NoEntry
    <3>1. pc[t] = "clear" /\ ClearShard(t) /\ UNCHANGED <<op, overlap>>
      BY <1>2, <2>2, RunBusy
    <3>2. \A u \in Threads \ {t} : Busy(u)' => Busy(u)
      BY <1>2, RunBusy DEF Busy
    <3>3. PICK p \in missing[t] : /\ entries' = [entries EXCEPT ![p] = NoEntry]
                                  /\ missing'[t] = missing[t] \ {p}
      BY <3>1 DEF ClearShard, Inv, TypeOK
    <3>4. DOMAIN entries = Paths
      BY DEF Inv, TypeOK
    <3> QED
      BY <3>1, <3>2, <3>3, <3>4 DEF ClearInv
  <2> QED
    BY <1>2, <2>1, <2>2, RunBusy DEF ClearInv
<1>3. CASE UNCHANGED vars \/ Change
  BY <1>3 DEF ClearInv, Busy, vars, local, history, Change
<1> QED
  BY <1>1, <1>2, <1>3 DEF Next

-----------------------------------------------------------------------------
(* Answers *)

\* The entries L made since the last clear are closed under parents, and are
\* those of the map and those the threads are to use.
Using == {"insert", "stat", "pkg", "init", "read"}
LiveInv(L) ==
  /\ L \subseteq DOMAIN heap
  /\ \A i \in L : heap[i].parent \in L \cup {NoEntry}
  /\ \A p \in Paths : entries[p] \in L \cup {NoEntry}
  /\ \A t \in Threads : pc[t] \in Using => at[t] \in L \cup {NoEntry}

\* What the cells of L and the threads know, and what threads answer, is
\* explained by contents of the disk.
Answered(t) ==
  pc[t] = "done" =>
    CASE op[t] = "stat" -> StatExplains(adm[t], goal[t], val[t])
      [] op[t] = "pkg" /\ val[t] = BadJson ->
           \E d \in Anc[goal[t]] \cap Dirs : BadJson \in adm[t][d]
      [] op[t] = "pkg" /\ val[t] # BadJson ->
           DescExplains(adm[t], goal[t], val[t])

Explained(t) ==
  /\ pc[t] \notin {"idle", "done", "clear"} => adm[t] = since
  /\ pc[t] = "clear" => \A p \in Paths : disk[p] \in adm[t][p]
  /\ pc[t] = "done" => op[t] # "clear"
  /\ pc[t] \in {"pkg", "init", "read"} =>
       \A i \in Held(t) : \A d \in (Anc[heap[i].path] \ Anc[Path(t)]) \cap Dirs :
         NoneIn(since, d)
  /\ pc[t] = "store" =>
       \A i \in Held(t) : DescExplains(since, heap[i].path, val[t])
  /\ pc[t] = "fail" =>
       \A i \in Held(t) : \E d \in Anc[heap[i].path] \cap Dirs : BadJson \in since[d]
  /\ Answered(t)

CellsExplained(L) ==
  \A i \in L :
    /\ heap[i].stat # NoStat => StatExplains(since, heap[i].path, heap[i].stat)
    /\ heap[i].pkg # Unset => DescExplains(since, heap[i].path, heap[i].pkg)

ExplainInv(L) ==
  /\ L \subseteq DOMAIN heap
  /\ \A p \in Paths : disk[p] \in since[p]
  /\ CellsExplained(L)
  /\ \A t \in Threads : Explained(t)

\* What the contents so far explain, more contents explain as well.
LEMMA Monotone ==
  ASSUME NEW seen, NEW more, \A p \in Paths : seen[p] \subseteq more[p],
         NEW p \in Paths
  PROVE  /\ \A k : StatExplains(seen, p, k) => StatExplains(more, p, k)
         /\ \A v : (v # NoDesc => v.dir \in Paths) /\ DescExplains(seen, p, v)
                    => DescExplains(more, p, v)
<1>1. Parent[p] = NoPath \/ Parent[p] \in Paths
  BY AncUp
<1>2. \A d \in Anc[p] : seen[d] \subseteq more[d]
  BY AncUp
<1>3. \A k : StatExplains(seen, p, k) => StatExplains(more, p, k)
  BY <1>1, <1>2, AncUp, PathAssumption DEF StatExplains, NoneIn
<1>4. \A v : (v # NoDesc => v.dir \in Paths) /\ DescExplains(seen, p, v)
              => DescExplains(more, p, v)
  BY <1>2 DEF DescExplains, NoneIn
<1> QED
  BY <1>3, <1>4

\* A description of a is one of p if no directory in between has its own.
LEMMA DescOfBelow ==
  ASSUME NEW seen, NEW p \in Paths, NEW a \in Anc[p], NEW v,
         DescExplains(seen, a, v),
         \A d \in (Anc[p] \ Anc[a]) \cap Dirs : NoneIn(seen, d)
  PROVE  DescExplains(seen, p, v)
  BY AncTransitive DEF DescExplains

LEMMA KindExplained ==
  ASSUME Inv, NEW L, ExplainInv(L), NEW p \in Paths
  PROVE  StatExplains(since, p, KindOf(p))
<1>1. disk[p] \in since[p] /\ disk[p] \in Contents \cup LeafKinds
  BY DEF ExplainInv, Inv, TypeOK, IsDisk
<1>2. CASE p \in DescPaths
  <2>1. /\ disk[Parent[p]] \in since[Parent[p]]
        /\ disk[Parent[p]] \in Contents \cup LeafKinds
    BY <1>2, AncUp, PathAssumption DEF ExplainInv, Inv, TypeOK, IsDisk
  <2> QED
    BY <1>2, <2>1 DEF StatExplains, KindOf, NoneIn, Contents
<1>3. CASE p \notin DescPaths
  BY <1>1, <1>3 DEF StatExplains, KindOf
<1> QED
  BY <1>2, <1>3

LEMMA UsingLive ==
  ASSUME Inv, NEW L, LiveInv(L), NEW t \in Threads,
         pc[t] \in {"stat", "pkg", "init", "read"}
  PROVE  at[t] \in L
<1>1. at[t] \in DOMAIN heap
  BY DEF Inv, QueryInv, InPkg
<1>2. NoEntry \notin DOMAIN heap
  BY SentinelAssumption DEF Inv, TypeOK
<1> QED
  BY <1>1, <1>2 DEF LiveInv, Using

LEMMA StatOfExplained ==
  ASSUME Inv, NEW L, ExplainInv(L), NEW e \in L
  PROVE  /\ StatExplains(since, heap[e].path, StatOf(e))
         /\ StatOf(e) # Dir /\ heap[e].path \in Dirs => NoneIn(since, heap[e].path)
<1>1. heap[e].path \in Paths
  BY DEF ExplainInv, Inv, TypeOK, Entry
<1>2. StatExplains(since, heap[e].path, StatOf(e))
  BY <1>1, KindExplained DEF StatOf, ExplainInv, CellsExplained
<1>3. heap[e].path \in Dirs => heap[e].path \notin DescPaths
  BY PathAssumption
<1> QED
  BY <1>2, <1>3 DEF StatExplains, NoneIn

\* A thread that a step leaves alone.
LEMMA OtherExplained ==
  ASSUME Inv, NEW u \in Threads, Explained(u), Frame(u), Extends,
         UNCHANGED <<since, disk>>, adm'[u] = adm[u]
  PROVE  Explained(u)'
<1>1. \A i \in Held(u) : heap'[i].path = heap[i].path
  BY DEF Held, Extends
<1>2. at[u] \in DOMAIN heap => Path(u)' = Path(u)
  BY DEF Path, Extends, Frame
<1>3. pc[u] \in {"pkg", "init", "read"} => at[u] \in DOMAIN heap
  BY DEF Inv, QueryInv, InPkg
<1>4. Answered(u)'
  BY DEF Answered, Explained, Frame, StatExplains, DescExplains, NoneIn
<1> QED
  BY <1>1, <1>2, <1>3, <1>4 DEF Explained, Frame, DescExplains, NoneIn

\* A change of the disk: what was explained stays so.
LEMMA DiskExplains ==
  ASSUME Inv, NEW L, ExplainInv(L), Change
  PROVE  ExplainInv(L)'
<1>1. PICK p \in Paths, c \in Contents \cup LeafKinds :
        /\ disk' = [disk EXCEPT ![p] = c]
        /\ since' = [since EXCEPT ![p] = @ \cup {c}]
        /\ adm' = [t \in Threads |-> [adm[t] EXCEPT ![p] = @ \cup {c}]]
  BY DEF Change
<1>2. UNCHANGED <<heap, pc, op, goal, at, val>>
  BY DEF Change, local
<1>3. /\ \A q \in Paths : since[q] \subseteq since'[q] /\ disk'[q] \in since'[q]
      /\ \A t \in Threads, q \in Paths : adm[t][q] \subseteq adm'[t][q]
  BY <1>1 DEF Inv, TypeOK, IsDisk, ExplainInv
<1>4. \A i \in DOMAIN heap :
        /\ heap[i].path \in Paths
        /\ heap[i].pkg # Unset => (heap[i].pkg # NoDesc => heap[i].pkg.dir \in Paths)
  <2>1. \A i \in DOMAIN heap : heap[i] \in Entry
    BY DEF Inv, TypeOK
  <2> QED
    BY <2>1, PathAssumption DEF Entry, Descs
<1>5. CellsExplained(L)'
  BY <1>2, <1>3, <1>4, Monotone DEF ExplainInv, CellsExplained
<1>6. ASSUME NEW t \in Threads PROVE Explained(t)'
  <2>1. /\ Explained(t) /\ goal[t] \in Paths
        /\ Held(t) \subseteq DOMAIN heap /\ Held(t)' = Held(t) /\ Path(t)' = Path(t)
    BY <1>2 DEF ExplainInv, Inv, TypeOK, Held, Path
  <2>2. /\ adm[t] = since => adm'[t] = since'
        /\ pc[t] = "clear" => \A q \in Paths : disk'[q] \in adm'[t][q]
    BY <1>1, <2>1 DEF Explained, Inv, TypeOK, IsDisk
  <2>3. \A q \in Paths : Anc[q] \subseteq Paths
    BY AncUp
  <2>4. pc[t] = "store" => \A i \in Held(t) : DescExplains(since', heap[i].path, val[t])
    <3>1. pc[t] = "store" => val[t] \in Descs \cup {NoDesc}
      BY DEF Inv, QueryInv
    <3>2. pc[t] = "store" /\ val[t] # NoDesc => val[t].dir \in Paths
      BY <3>1, PathAssumption DEF Descs
    <3> QED
      BY <1>3, <1>4, <2>1, <3>2, Monotone DEF Explained
  <2>5. Answered(t)'
    <3>1. SUFFICES ASSUME pc[t] = "done" PROVE Answered(t)'
      BY <1>2 DEF Answered
    <3>2. CASE op[t] = "stat"
      <4>1. StatExplains(adm[t], goal[t], val[t])
        BY <2>1, <3>1, <3>2 DEF Answered, Explained
      <4>2. StatExplains(adm'[t], goal[t], val[t])
        BY <1>3, <2>1, <4>1, Monotone
      <4> QED
        BY <1>2, <3>2, <4>2 DEF Answered
    <3>3. CASE op[t] = "pkg" /\ val[t] = BadJson
      BY <1>2, <1>3, <2>1, <2>3, <3>1, <3>3 DEF Answered, Explained
    <3>4. CASE op[t] = "pkg" /\ val[t] # BadJson
      <4>1. DescExplains(adm[t], goal[t], val[t])
        BY <2>1, <3>1, <3>4 DEF Answered, Explained
      <4>2. val[t] # NoDesc => val[t].dir \in Paths
        BY <2>1, <4>1, AncUp DEF DescExplains
      <4>3. DescExplains(adm'[t], goal[t], val[t])
        BY <1>3, <2>1, <4>1, <4>2, Monotone
      <4> QED
        BY <1>2, <3>4, <4>3 DEF Answered
    <3>5. op[t] \in {"stat", "pkg"}
      BY <2>1, <3>1 DEF Explained, Inv, TypeOK
    <3> QED
      BY <3>2, <3>3, <3>4, <3>5
  <2>6. \A i \in Held(t) : Anc[heap[i].path] \subseteq Paths
    BY <1>4, <2>1, <2>3
  <2>7. /\ Explained(t)!1' /\ Explained(t)!2' /\ Explained(t)!3'
    BY <1>2, <2>1, <2>2 DEF Explained
  <2>8. pc[t] \in {"pkg", "init", "read"} =>
          \A i \in Held(t) : \A d \in (Anc[heap[i].path] \ Anc[Path(t)]) \cap Dirs :
            NoneIn(since', d)
    BY <1>3, <2>1, <2>6 DEF Explained, NoneIn
  <2>9. pc[t] = "fail" =>
          \A i \in Held(t) : \E d \in Anc[heap[i].path] \cap Dirs : BadJson \in since'[d]
    BY <1>3, <2>1, <2>6 DEF Explained
  <2> QED
    BY <1>2, <2>1, <2>4, <2>5, <2>7, <2>8, <2>9 DEF Explained, NoneIn, DescExplains
<1> QED
  BY <1>2, <1>3, <1>5, <1>6 DEF ExplainInv

\* A call begins: what the disk held since the last clear may be reported, or
\* what it holds from now on if the call is a clear.
LEMMA StartExplains ==
  ASSUME Inv, NEW L, ExplainInv(L), NEW t \in Threads, StartQuery(t) \/ StartClear(t)
  PROVE  ExplainInv(L)'
<1>1. UNCHANGED <<disk, entries, heap, since>>
  BY StartBusy
<1>2. \/ pc'[t] = "probe" /\ adm'[t] = since'
      \/ pc'[t] = "clear" /\ \A p \in Paths : disk'[p] \in adm'[t][p]
  <2>1. DOMAIN adm = Threads /\ DOMAIN pc = Threads
    BY DEF Inv, TypeOK
  <2>2. CASE StartQuery(t)
    <3>1. /\ pc' = [pc EXCEPT ![t] = "probe"]
          /\ adm' = [adm EXCEPT ![t] = since]
      BY <2>2 DEF StartQuery
    <3> QED
      BY <1>1, <2>1, <3>1
  <2>3. CASE StartClear(t)
    <3>1. /\ pc' = [pc EXCEPT ![t] = "clear"]
          /\ adm' = [adm EXCEPT ![t] = [p \in Paths |-> {disk[p]}]]
      BY <2>3 DEF StartClear
    <3> QED
      BY <1>1, <2>1, <3>1
  <2> QED
    BY <2>2, <2>3
<1>3. Explained(t)'
  BY <1>2 DEF Explained, Answered
<1>4. ASSUME NEW u \in Threads, u # t PROVE Explained(u)'
  <2>1. Frame(u) /\ Extends /\ adm'[u] = adm[u]
    BY <1>1, <1>4, SameHeap DEF Frame, Inv, TypeOK, StartQuery, StartClear, Start
  <2> QED
    BY <1>1, <2>1, OtherExplained DEF ExplainInv
<1> QED
  BY <1>1, <1>3, <1>4 DEF ExplainInv, CellsExplained

\* Insert makes an entry that is live from then on.
NewLive(t, L) == IF pc[t] = "insert" THEN L \cup {<<t, made[t] + 1>>} ELSE L

LEMMA LoadExplains ==
  ASSUME Inv, NEW L, ExplainInv(L), NEW t \in Threads, Probe(t) \/ Insert(t),
         NEW M, M = NewLive(t, L)
  PROVE  ExplainInv(M)'
<1>1. /\ UNCHANGED <<disk, since, adm, op, goal, val>> /\ pc[t] \in {"probe", "insert"}
      /\ op[t] \in {"stat", "pkg"} /\ Held(t) = {}
  BY DEF Probe, Insert, history, Inv, LoadInv, QueryInv, InPkg
<1>2. /\ Extends /\ CellsExplained(M)' /\ M \subseteq DOMAIN heap'
      /\ \A u \in Threads : Held(u)' = Held(u)
  <2>1. CASE Probe(t)
    BY <1>1, <2>1, SameHeap DEF ExplainInv, CellsExplained, NewLive, Probe
  <2>2. CASE Insert(t)
    <3> DEFINE id == <<t, made[t] + 1>>
    <3>1. id \notin DOMAIN heap
      <4>1. made[t] \in Nat /\ id[1] = t /\ id[2] = made[t] + 1
        BY DEF Inv, TypeOK
      <4> QED
        BY <4>1 DEF Inv, HeapInv
    <3>2. /\ DOMAIN heap' = DOMAIN heap \cup {id}
          /\ heap'[id] = NewEntry(cur[t], at[t])
          /\ \A i \in DOMAIN heap : heap'[i] = heap[i]
          /\ M = L \cup {id}
      BY <2>2, <3>1 DEF Insert, NewLive
    <3> HIDE DEF id
    <3>3. heap'[id].stat = NoStat /\ heap'[id].pkg = Unset /\ heap'[id].holder = Nobody
      BY <3>2 DEF NewEntry
    <3>4. \A u \in Threads : u # Nobody
      BY SentinelAssumption
    <3>5. CellsExplained(M)' /\ M \subseteq DOMAIN heap'
      BY <1>1, <3>2, <3>3 DEF ExplainInv, CellsExplained
    <3>6. Extends /\ \A u \in Threads : Held(u)' = Held(u)
      BY <3>1, <3>2, <3>3, <3>4 DEF Extends, Held
    <3> QED
      BY <3>5, <3>6
  <2> QED
    BY <2>1, <2>2
<1>3. pc'[t] \in {"probe", "insert", "stat", "pkg"}
  BY <1>1 DEF Probe, Insert, LoadReturns, Inv, TypeOK
<1>4. Explained(t)'
  <2>1. adm'[t] = since' /\ Held(t)' = {}
    BY <1>1, <1>2 DEF Explained, ExplainInv
  <2> QED
    BY <1>3, <2>1 DEF Explained, Answered
<1>5. ASSUME NEW u \in Threads, u # t PROVE Explained(u)'
  <2>1. Frame(u)
    BY <1>1, <1>2, <1>5 DEF Frame, Inv, TypeOK, Probe, Insert, LoadReturns
  <2> QED
    BY <1>1, <1>2, <2>1, OtherExplained DEF ExplainInv
<1> QED
  BY <1>1, <1>2, <1>4, <1>5 DEF ExplainInv

\* A query that fills the stat cell of the entry it is at.
LEMMA StatCellExplained ==
  ASSUME Inv, NEW L, ExplainInv(L), NEW e \in L, UNCHANGED since,
         heap' = [heap EXCEPT ![e].stat = StatOf(e)]
  PROVE  /\ CellsExplained(L)' /\ Extends /\ DOMAIN heap' = DOMAIN heap
         /\ \A u : Held(u)' = Held(u)
<1>1. e \in DOMAIN heap /\ heap[e] \in Entry /\ StatOf(e) \in Kinds
  BY StatOfKeeps DEF ExplainInv
<1>2. /\ DOMAIN heap' = DOMAIN heap
      /\ \A i \in DOMAIN heap :
           /\ heap'[i].path = heap[i].path /\ heap'[i].parent = heap[i].parent
           /\ heap'[i].pkg = heap[i].pkg /\ heap'[i].holder = heap[i].holder
           /\ heap'[i].stat = IF i = e THEN StatOf(e) ELSE heap[i].stat
  BY <1>1 DEF Entry, Inv, TypeOK
<1> QED
  BY <1>2, StatOfExplained DEF ExplainInv, CellsExplained, Extends, Held

LEMMA StatExplained ==
  ASSUME Inv, NEW L, ExplainInv(L), NEW t \in Threads, LiveInv(L), Stat(t)
  PROVE  ExplainInv(L)'
<1>1. /\ UNCHANGED <<disk, since, adm, op, goal, entries>> /\ pc[t] = "stat" /\ op[t] = "stat"
      /\ at[t] \in L /\ heap[at[t]].path = goal[t]
      /\ heap' = [heap EXCEPT ![at[t]].stat = StatOf(at[t])]
  BY UsingLive DEF Stat, Inv, QueryInv, Path
<1>2. /\ CellsExplained(L)' /\ Extends /\ \A u : Held(u)' = Held(u)
  BY <1>1, StatCellExplained
<1>3. pc'[t] = "done" /\ val'[t] = StatOf(at[t])
  BY DEF Stat, Inv, TypeOK
<1>4. StatExplains(since, goal[t], StatOf(at[t]))
  BY <1>1, StatOfExplained
<1>5. Explained(t) /\ adm[t] = since
  BY <1>1 DEF ExplainInv, Explained
<1>6. StatExplains(adm[t], goal[t], val'[t])
  BY <1>3, <1>4, <1>5
<1>7. Answered(t)'
  BY <1>1, <1>6 DEF Answered, StatExplains, NoneIn
<1>8. Explained(t)'
  BY <1>1, <1>3, <1>5, <1>7 DEF Explained
<1>9. ASSUME NEW u \in Threads, u # t PROVE Explained(u)'
  <2>1. Frame(u)
    BY <1>2, <1>9 DEF Frame, Stat, Inv, TypeOK
  <2> QED
    BY <1>1, <1>2, <2>1, OtherExplained DEF ExplainInv
<1> QED
  BY <1>1, <1>2, <1>8, <1>9 DEF ExplainInv

\* A thread that no cell waits for is back at its goal.
LEMMA BackAtGoal ==
  ASSUME Inv, NEW t \in Threads, pc[t] \in {"pkg", "store", "fail"},
         {c \in DOMAIN heap : heap[c].holder = t /\ heap[c].parent = at[t]} = {}
  PROVE  Path(t) = goal[t]
  BY DEF Inv, QueryInv, InPkg, Held, Path

LEMMA PkgReturnsExplains ==
  ASSUME Inv, NEW L, ExplainInv(L), NEW t \in Threads, NEW v, NEW next \in {"store", "fail"},
         pc[t] \in {"pkg", "store", "fail"}, PkgReturns(t, v, next), Extends,
         UNCHANGED <<op, goal, since, adm>>, Held(t)' \subseteq Held(t),
         next = "store" => /\ v \in Descs \cup {NoDesc}
                           /\ DescExplains(since, Path(t), v)
                           /\ \A i \in Held(t) : DescExplains(since, heap[i].path, v),
         next = "fail" => /\ v = BadJson
                          /\ \E d \in Anc[Path(t)] \cap Dirs : BadJson \in since[d]
                          /\ \A i \in Held(t) : \E d \in Anc[heap[i].path] \cap Dirs :
                               BadJson \in since[d]
  PROVE  Explained(t)'
<1>1. op[t] = "pkg" /\ adm[t] = since
  BY DEF Inv, QueryInv, InPkg, ExplainInv, Explained
<1>2. val'[t] = v
  BY DEF PkgReturns, Inv, TypeOK
<1>3. \A i \in Held(t) : heap'[i].path = heap[i].path
  BY DEF Held, Extends
<1> DEFINE waiting == {c \in DOMAIN heap :
                         heap[c].holder = t /\ heap[c].parent = at[t]}
<1>4. CASE waiting = {} /\ pc' = [pc EXCEPT ![t] = "done"]
  <2>1. pc'[t] = "done" /\ Path(t) = goal[t]
    BY <1>4, BackAtGoal DEF Inv, TypeOK
  <2>2. next = "store" => v # BadJson /\ DescExplains(since, goal[t], v)
    BY <2>1, SentinelAssumption
  <2>3. next = "fail" => v = BadJson /\ \E d \in Anc[goal[t]] \cap Dirs : BadJson \in since[d]
    BY <2>1
  <2>4. Answered(t)'
    BY <1>1, <1>2, <2>2, <2>3 DEF Answered, DescExplains
  <2> QED
    BY <1>1, <2>1, <2>4 DEF Explained
<1>5. ASSUME NEW c \in waiting, pc' = [pc EXCEPT ![t] = next]
      PROVE  Explained(t)'
  <2>1. pc'[t] = next
    BY <1>5 DEF Inv, TypeOK
  <2> QED
    BY <1>1, <1>2, <1>3, <2>1 DEF Explained, Answered, DescExplains, NoneIn
<1> QED
  BY <1>4, <1>5 DEF PkgReturns

LEMMA PkgInfoExplains ==
  ASSUME Inv, NEW L, ExplainInv(L), NEW t \in Threads, LiveInv(L), PkgInfo(t)
  PROVE  ExplainInv(L)'
<1> DEFINE e == at[t]
<1>1. /\ pc[t] = "pkg" /\ e \in DOMAIN heap /\ heap[e] \in Entry /\ Path(t) \in Paths
      /\ UNCHANGED <<disk, op, goal, cur, missing, since, adm, entries>> /\ e \in L
      /\ \A i \in Held(t) : /\ heap[i].path \in Paths
                            /\ Path(t) \in Anc[heap[i].path]
  BY AncUp, UsingLive DEF PkgInfo, Inv, TypeOK, QueryInv, InPkg, history, Entry, Path, Held
<1>2. /\ Explained(t) /\ op[t] = "pkg" /\ adm'[t] = since'
      /\ \A i \in Held(t) : \A d \in (Anc[heap[i].path] \ Anc[Path(t)]) \cap Dirs :
           NoneIn(since, d)
  BY <1>1 DEF ExplainInv, Explained, Inv, QueryInv, InPkg
<1>3. CASE heap[e].pkg # Unset /\ PkgReturns(t, heap[e].pkg, "store") /\ UNCHANGED heap
  <2>1. heap[e].pkg \in Descs \cup {NoDesc} /\ DescExplains(since, Path(t), heap[e].pkg)
    BY <1>1, <1>3 DEF Entry, ExplainInv, CellsExplained, Path
  <2>2. \A i \in Held(t) : DescExplains(since, heap[i].path, heap[e].pkg)
    BY <1>1, <1>2, <2>1, DescOfBelow
  <2>3. Extends /\ \A u \in Threads : Held(u)' = Held(u)
    BY <1>3, SameHeap
  <2>4. Explained(t)'
    BY <1>1, <1>3, <2>1, <2>2, <2>3, PkgReturnsExplains
  <2>5. \A u \in Threads \ {t} : Explained(u)'
    BY <1>1, <1>3, <2>3, PkgReturnsFrame, OtherExplained DEF ExplainInv
  <2>6. CellsExplained(L)'
    BY <1>1, <1>3 DEF ExplainInv, CellsExplained
  <2> QED
    BY <1>1, <1>3, <2>4, <2>5, <2>6 DEF ExplainInv
<1>4. CASE /\ heap[e].pkg = Unset /\ heap[e].holder = Nobody
           /\ heap' = [heap EXCEPT ![e].holder = t]
           /\ pc' = [pc EXCEPT ![t] = "init"] /\ UNCHANGED <<val, at>>
  <2>1. /\ DOMAIN heap' = DOMAIN heap
        /\ \A i \in DOMAIN heap :
             /\ heap'[i].path = heap[i].path /\ heap'[i].parent = heap[i].parent
             /\ heap'[i].pkg = heap[i].pkg /\ heap'[i].stat = heap[i].stat
             /\ heap'[i].holder = IF i = e THEN t ELSE heap[i].holder
    BY <1>1, <1>4 DEF Entry, Inv, TypeOK
  <2>2. /\ Extends /\ Held(t)' = Held(t) \cup {e}
        /\ \A u \in Threads \ {t} : Held(u)' = Held(u)
    BY <1>1, <1>4, <2>1, SentinelAssumption DEF Extends, Held
  <2>3. CellsExplained(L)'
    BY <1>1, <2>1 DEF ExplainInv, CellsExplained
  <2>4. pc'[t] = "init" /\ Path(t)' = Path(t) /\ heap'[e].path = Path(t)
    BY <1>1, <1>4, <2>1 DEF Inv, TypeOK, Path
  <2>5. \A i \in Held(t) : heap'[i].path = heap[i].path
    BY <2>1 DEF Held
  <2>6. Explained(t)'
    BY <1>1, <1>2, <2>2, <2>4, <2>5 DEF Explained, Answered
  <2>7. ASSUME NEW u \in Threads, u # t PROVE Explained(u)'
    <3>1. Frame(u)
      BY <1>1, <1>4, <2>2, <2>7 DEF Frame, Inv, TypeOK
    <3> QED
      BY <1>1, <2>2, <3>1, OtherExplained DEF ExplainInv
  <2> QED
    BY <1>1, <2>1, <2>3, <2>6, <2>7 DEF ExplainInv
<1> QED
  BY <1>3, <1>4 DEF PkgInfo

\* Before it asks the parent, the thread saw that the directory it is at has
\* no description file.
LEMMA AskParentExplains ==
  ASSUME Inv, NEW L, ExplainInv(L), NEW t \in Threads, pc[t] \in {"init", "read"},
         AskParent(t), Extends, Held(t)' = Held(t),
         UNCHANGED <<op, goal, since, adm>>,
         Path(t) \in Dirs => NoneIn(since, Path(t))
  PROVE  Explained(t)'
<1>1. /\ op[t] = "pkg" /\ at[t] \in DOMAIN heap /\ Path(t) \in Paths
      /\ adm[t] = since
      /\ \A i \in Held(t) :
           /\ heap'[i].path = heap[i].path
           /\ \A d \in (Anc[heap[i].path] \ Anc[Path(t)]) \cap Dirs : NoneIn(since, d)
  BY AncUp DEF Inv, TypeOK, QueryInv, InPkg, ExplainInv, Explained, Held, Extends
<1> DEFINE up == heap[at[t]].parent
<1>2. CASE up # NoEntry /\ pc' = [pc EXCEPT ![t] = "pkg"]
           /\ at' = [at EXCEPT ![t] = up] /\ UNCHANGED val
  <2>1. /\ up \in DOMAIN heap /\ heap[up].path = Parent[Path(t)]
        /\ Parent[Path(t)] # NoPath
    BY <1>1, <1>2 DEF Inv, HeapInv, Path
  <2>2. pc'[t] = "pkg" /\ Path(t)' = Parent[Path(t)]
    BY <1>2, <2>1 DEF Inv, TypeOK, Path, Extends
  <2>3. Anc[Parent[Path(t)]] = Anc[Path(t)] \ {Path(t)}
    BY <1>1, <2>1, AncUp
  <2>4. \A i \in Held(t) :
          \A d \in (Anc[heap[i].path] \ Anc[Parent[Path(t)]]) \cap Dirs : NoneIn(since, d)
    BY <1>1, <2>3
  <2> QED
    BY <1>1, <2>2, <2>4 DEF Explained, Answered
<1>3. CASE up = NoEntry /\ pc' = [pc EXCEPT ![t] = "store"]
           /\ val' = [val EXCEPT ![t] = NoDesc] /\ UNCHANGED at
  <2>1. Parent[Path(t)] = NoPath
    BY <1>1, <1>3, SentinelAssumption DEF Inv, TypeOK, HeapInv, Path
  <2>2. Anc[Path(t)] = {Path(t)}
    BY <1>1, <2>1, PathAssumption
  <2>3. pc'[t] = "store" /\ val'[t] = NoDesc
    BY <1>3 DEF Inv, TypeOK
  <2>4. \A i \in Held(t) : DescExplains(since, heap[i].path, NoDesc)
    BY <1>1, <2>2 DEF DescExplains
  <2> QED
    BY <1>1, <2>3, <2>4 DEF Explained, Answered, DescExplains, NoneIn
<1> QED
  BY <1>2, <1>3 DEF AskParent

LEMMA InitPkgExplains ==
  ASSUME Inv, NEW L, ExplainInv(L), NEW t \in Threads, LiveInv(L), InitPkg(t)
  PROVE  ExplainInv(L)'
<1> DEFINE e == at[t]
<1>1. /\ pc[t] = "init" /\ e \in DOMAIN heap /\ e \in L /\ op[t] = "pkg"
      /\ heap' = [heap EXCEPT ![e].stat = StatOf(e)]
      /\ UNCHANGED <<disk, op, goal, cur, missing, since, adm, entries>>
  BY UsingLive DEF InitPkg, Inv, QueryInv, InPkg, history
<1>2. /\ CellsExplained(L)' /\ Extends /\ DOMAIN heap' = DOMAIN heap
      /\ \A u : Held(u)' = Held(u)
  BY <1>1, StatCellExplained
<1>3. Explained(t)'
  <2>1. CASE pc' = [pc EXCEPT ![t] = "read"] /\ UNCHANGED <<at, val>>
    <3>1. /\ pc'[t] = "read" /\ Path(t)' = Path(t)
          /\ \A i \in Held(t) : heap'[i].path = heap[i].path
      BY <1>1, <1>2, <2>1 DEF Inv, TypeOK, Path, Extends, Held
    <3> QED
      BY <1>1, <1>2, <3>1 DEF ExplainInv, Explained, Answered
  <2>2. CASE StatOf(e) # Dir /\ AskParent(t)
    <3>1. Path(t) \in Dirs => NoneIn(since, Path(t))
      BY <1>1, <2>2, StatOfExplained DEF Path
    <3> QED
      BY <1>1, <1>2, <2>2, <3>1, AskParentExplains
  <2> QED
    BY <2>1, <2>2 DEF InitPkg
<1>4. ASSUME NEW u \in Threads, u # t PROVE Explained(u)'
  <2>1. Frame(u)
    BY <1>1, <1>2, <1>4 DEF InitPkg, AskParent, Frame, Inv, TypeOK
  <2> QED
    BY <1>1, <1>2, <2>1, OtherExplained DEF ExplainInv
<1> QED
  BY <1>1, <1>2, <1>3, <1>4 DEF ExplainInv

LEMMA ReadPkgExplains ==
  ASSUME Inv, NEW L, ExplainInv(L), NEW t \in Threads, ReadPkg(t)
  PROVE  ExplainInv(L)'
<1> DEFINE d == DescDir(Path(t))
<1>1. /\ pc[t] = "read" /\ at[t] \in DOMAIN heap /\ Path(t) \in Paths
      /\ Path(t) \in Dirs \cup DescPaths /\ op[t] = "pkg" /\ adm[t] = since
      /\ at[t] \in Held(t)
      /\ UNCHANGED <<disk, heap, op, goal, cur, missing, since, adm, entries>>
  BY AncUp DEF ReadPkg, Inv, TypeOK, QueryInv, InPkg, Holding, history,
               ExplainInv, Explained
<1>2. /\ d \in Dirs /\ d \in Anc[Path(t)] /\ disk[d] \in since[d]
      /\ (Anc[Path(t)] \ Anc[d]) \cap Dirs = {}
      /\ Path(t) \in Dirs => d = Path(t)
  BY <1>1, AncUp, PathAssumption DEF DescDir, ExplainInv
<1>3. /\ Extends /\ \A u \in Threads : Held(u)' = Held(u)
      /\ Path(t) = heap[at[t]].path
  BY <1>1, SameHeap DEF Path
<1>4. \A i \in Held(t) :
        /\ heap[i].path \in Paths /\ Path(t) \in Anc[heap[i].path]
        /\ \A q \in (Anc[heap[i].path] \ Anc[Path(t)]) \cap Dirs : NoneIn(since, q)
  BY <1>1, AncUp DEF Inv, TypeOK, QueryInv, InPkg, ExplainInv, Explained
<1> HIDE DEF d
<1>5. \A i \in Held(t) :
        /\ d \in Anc[heap[i].path]
        /\ \A q \in (Anc[heap[i].path] \ Anc[d]) \cap Dirs : NoneIn(since, q)
  BY <1>1, <1>2, <1>4, AncTransitive
<1>6. Explained(t)'
  <2>1. CASE /\ disk[d] \in Versions
             /\ val' = [val EXCEPT ![t] = [dir |-> d, json |-> disk[d]]]
             /\ pc' = [pc EXCEPT ![t] = "store"] /\ UNCHANGED at
    <3> DEFINE v == [dir |-> d, json |-> disk[d]]
    <3>1. pc'[t] = "store" /\ val'[t] = v
      BY <2>1 DEF Inv, TypeOK
    <3>2. v # NoDesc /\ v.dir = d /\ v.json = disk[d]
      BY <1>2, <2>1, SentinelAssumption DEF Descs
    <3> HIDE DEF v
    <3>3. \A i \in Held(t) : DescExplains(since, heap[i].path, v)
      BY <1>2, <1>5, <3>2 DEF DescExplains
    <3> QED
      BY <1>1, <1>3, <3>1, <3>3 DEF Explained, Answered, DescExplains, NoneIn
  <2>2. CASE disk[d] = BadJson /\ pc' = [pc EXCEPT ![t] = "fail"]
    <3>1. pc'[t] = "fail"
      BY <2>2 DEF Inv, TypeOK
    <3>2. \A i \in Held(t) : \E q \in Anc[heap[i].path] \cap Dirs : BadJson \in since[q]
      BY <1>2, <1>5, <2>2
    <3> QED
      BY <1>1, <1>3, <3>1, <3>2 DEF Explained, Answered
  <2>3. CASE disk[d] \notin Versions \cup {BadJson} /\ AskParent(t)
    <3>1. disk[d] \in Contents \cup LeafKinds
      BY <1>2, PathAssumption DEF Inv, TypeOK, IsDisk
    <3>2. NoneIn(since, d)
      BY <1>2, <2>3, <3>1 DEF NoneIn, Contents
    <3> QED
      BY <1>1, <1>2, <1>3, <2>3, <3>2, AskParentExplains
  <2> QED
    BY <1>3, <2>1, <2>2, <2>3 DEF ReadPkg, d
<1>7. ASSUME NEW u \in Threads, u # t PROVE Explained(u)'
  <2>1. Frame(u)
    BY <1>1, <1>3, <1>7 DEF ReadPkg, AskParent, Frame, Inv, TypeOK
  <2> QED
    BY <1>1, <1>3, <2>1, OtherExplained DEF ExplainInv
<1> QED
  BY <1>1, <1>6, <1>7 DEF ExplainInv, CellsExplained

LEMMA StorePkgExplains ==
  ASSUME Inv, NEW L, ExplainInv(L), NEW t \in Threads, StorePkg(t)
  PROVE  ExplainInv(L)'
<1> DEFINE e == at[t]
<1>1. /\ pc[t] = "store" /\ e \in DOMAIN heap /\ heap[e] \in Entry /\ e \in Held(t)
      /\ val[t] \in Descs \cup {NoDesc} /\ PkgReturns(t, val[t], "store")
      /\ heap' = [heap EXCEPT ![e].pkg = val[t], ![e].holder = Nobody]
      /\ UNCHANGED <<disk, op, goal, cur, missing, since, adm, entries>>
  BY DEF StorePkg, Inv, TypeOK, QueryInv, InPkg, Holding, history
<1>2. \A i \in Held(t) : DescExplains(since, heap[i].path, val[t])
  BY <1>1 DEF ExplainInv, Explained
<1>3. /\ DOMAIN heap' = DOMAIN heap
      /\ \A i \in DOMAIN heap :
           /\ heap'[i].path = heap[i].path /\ heap'[i].parent = heap[i].parent
           /\ heap'[i].stat = heap[i].stat
           /\ heap'[i].pkg = IF i = e THEN val[t] ELSE heap[i].pkg
           /\ heap'[i].holder = IF i = e THEN Nobody ELSE heap[i].holder
  BY <1>1 DEF Entry, Inv, TypeOK
<1>4. /\ Extends /\ Held(t)' = Held(t) \ {e}
      /\ \A u \in Threads \ {t} : Held(u)' = Held(u)
  BY <1>1, <1>3, SentinelAssumption DEF Extends, Held
<1>5. CellsExplained(L)'
  BY <1>1, <1>2, <1>3 DEF ExplainInv, CellsExplained
<1>6. Explained(t)'
  BY <1>1, <1>2, <1>4, PkgReturnsExplains DEF Path
<1>7. \A u \in Threads \ {t} : Explained(u)'
  BY <1>1, <1>4, PkgReturnsFrame, OtherExplained DEF ExplainInv
<1> QED
  BY <1>1, <1>5, <1>6, <1>7 DEF ExplainInv

LEMMA FailPkgExplains ==
  ASSUME Inv, NEW L, ExplainInv(L), NEW t \in Threads, FailPkg(t)
  PROVE  ExplainInv(L)'
<1> DEFINE e == at[t]
<1>1. /\ pc[t] = "fail" /\ e \in DOMAIN heap /\ heap[e] \in Entry /\ e \in Held(t)
      /\ PkgReturns(t, BadJson, "fail")
      /\ heap' = [heap EXCEPT ![e].holder = Nobody]
      /\ UNCHANGED <<disk, op, goal, cur, missing, since, adm, entries>>
  BY DEF FailPkg, Inv, TypeOK, QueryInv, InPkg, Holding, history
<1>2. \A i \in Held(t) : \E d \in Anc[heap[i].path] \cap Dirs : BadJson \in since[d]
  BY <1>1 DEF ExplainInv, Explained
<1>3. /\ DOMAIN heap' = DOMAIN heap
      /\ \A i \in DOMAIN heap :
           /\ heap'[i].path = heap[i].path /\ heap'[i].parent = heap[i].parent
           /\ heap'[i].stat = heap[i].stat /\ heap'[i].pkg = heap[i].pkg
           /\ heap'[i].holder = IF i = e THEN Nobody ELSE heap[i].holder
  BY <1>1 DEF Entry, Inv, TypeOK
<1>4. /\ Extends /\ Held(t)' = Held(t) \ {e}
      /\ \A u \in Threads \ {t} : Held(u)' = Held(u)
  BY <1>1, <1>3, SentinelAssumption DEF Extends, Held
<1>5. CellsExplained(L)'
  BY <1>1, <1>3 DEF ExplainInv, CellsExplained
<1>6. Explained(t)'
  BY <1>1, <1>2, <1>4, PkgReturnsExplains DEF Path
<1>7. \A u \in Threads \ {t} : Explained(u)'
  BY <1>1, <1>4, PkgReturnsFrame, OtherExplained DEF ExplainInv
<1> QED
  BY <1>1, <1>5, <1>6, <1>7 DEF ExplainInv

\* A clear goes on: what it saw when it began, and what came since, holds.
LEMMA ClearGoesOn ==
  ASSUME Inv, NEW L, ExplainInv(L), NEW t \in Threads, ClearShard(t), pc'[t] = "clear"
  PROVE  ExplainInv(L)'
<1>1. /\ pc[t] = "clear" /\ UNCHANGED <<disk, heap, made, op, goal, cur, at, val, adm>>
      /\ UNCHANGED <<pc, since>>
  BY DEF ClearShard, ClearReturns, Inv, TypeOK
<1>2. Extends /\ \A u \in Threads : Held(u)' = Held(u)
  BY <1>1, SameHeap
<1>3. Explained(t)'
  BY <1>1, <1>2 DEF Explained, Answered, ExplainInv
<1>4. ASSUME NEW u \in Threads, u # t PROVE Explained(u)'
  <2>1. Frame(u)
    BY <1>1, <1>2, <1>4 DEF Frame, ClearShard, Inv, TypeOK
  <2> QED
    BY <1>1, <1>2, <2>1, OtherExplained DEF ExplainInv
<1> QED
  BY <1>1, <1>3, <1>4 DEF ExplainInv, CellsExplained

\* A clear that was alone returns: nothing is left of what was made before.
LEMMA ClearEnds ==
  ASSUME Inv, ClearInv, ~overlap, NEW L, ExplainInv(L), NEW t \in Threads,
         ClearShard(t), pc'[t] # "clear"
  PROVE  LiveInv({})' /\ ExplainInv({})'
<1>1. /\ pc[t] = "clear" /\ UNCHANGED <<disk, heap, op, goal, val, adm>>
      /\ \A u \in Threads \ {t} : ~Busy(u)
      /\ \A p \in Paths \ missing[t] : entries[p] = NoEntry
  BY DEF ClearShard, ClearInv
<1>2. PICK p \in missing[t] : /\ entries' = [entries EXCEPT ![p] = NoEntry]
                              /\ missing[t] = {p} /\ ClearReturns(t)
  <2>1. PICK p \in missing[t] : /\ entries' = [entries EXCEPT ![p] = NoEntry]
                                /\ IF missing[t] = {p} THEN ClearReturns(t) ELSE UNCHANGED pc
    BY DEF ClearShard
  <2> QED
    BY <1>1, <2>1
<1>3. \A q \in Paths : entries'[q] = NoEntry
  BY <1>1, <1>2 DEF Inv, TypeOK
<1>4. /\ pc'[t] = "idle" /\ since' = adm[t]
      /\ \A u \in Threads \ {t} : pc'[u] = pc[u] /\ pc[u] \in {"idle", "done"}
  BY <1>1, <1>2 DEF ClearReturns, Inv, TypeOK, Busy
<1>5. LiveInv({})'
  BY <1>3, <1>4 DEF LiveInv, Using
<1>6. \A q \in Paths : disk'[q] \in since'[q]
  BY <1>1, <1>4 DEF ExplainInv, Explained
<1>7. ASSUME NEW u \in Threads PROVE Explained(u)'
  <2>1. pc'[u] = "idle" \/ (pc'[u] = "done" /\ pc[u] = "done")
    <3>1. CASE u = t
      BY <1>4, <3>1
    <3>2. CASE u # t
      BY <1>4, <3>2
    <3> QED
      BY <3>1, <3>2
  <2>2. Answered(u) /\ (pc[u] = "done" => op[u] # "clear")
    BY DEF ExplainInv, Explained
  <2>3. Answered(u)'
    BY <1>1, <2>1, <2>2 DEF Answered, StatExplains, DescExplains, NoneIn
  <2> QED
    BY <1>1, <2>1, <2>2, <2>3 DEF Explained
<1> QED
  BY <1>5, <1>6, <1>7 DEF ExplainInv, CellsExplained

\* A step that moves t only, and no entry of L away.
LEMMA LiveKeeps ==
  ASSUME Inv, NEW L, LiveInv(L), NEW t \in Threads, Extends,
         \A p \in Paths : entries'[p] \in {entries[p], NoEntry},
         \A u \in Threads \ {t} : pc'[u] = pc[u] /\ at'[u] = at[u],
         pc'[t] \in Using => at'[t] \in L \cup {NoEntry}
  PROVE  LiveInv(L)'
<1>1. \A i \in L : i \in DOMAIN heap' /\ heap'[i].parent = heap[i].parent
  BY DEF LiveInv, Extends
<1> QED
  BY <1>1 DEF LiveInv

LEMMA LiveLoad ==
  ASSUME Inv, NEW L, LiveInv(L), NEW t \in Threads, Probe(t) \/ Insert(t),
         NEW M, M = NewLive(t, L)
  PROVE  LiveInv(M)'
<1>1. /\ DOMAIN pc = Threads /\ DOMAIN at = Threads /\ cur[t] \in Paths
      /\ entries \in [Paths -> DOMAIN heap \cup {NoEntry}]
  BY DEF Inv, TypeOK
<1>2. \A u \in Threads \ {t} : pc'[u] = pc[u] /\ at'[u] = at[u]
  BY RunBusy DEF Run
<1>3. CASE Probe(t)
  <2>1. at'[t] \in L \cup {NoEntry}
    <3>1. at[t] = NoEntry /\ entries[cur[t]] \in L \cup {NoEntry}
      BY <1>1, <1>3 DEF Probe, Inv, LoadInv, LiveInv
    <3> QED
      BY <1>1, <1>3, <3>1 DEF Probe, LoadReturns
  <2>2. UNCHANGED <<heap, entries>> /\ M = L
    BY <1>3 DEF Probe, NewLive
  <2> QED
    BY <1>2, <2>1, <2>2, SameHeap, LiveKeeps
<1>4. CASE Insert(t)
  <2> DEFINE id == <<t, made[t] + 1>>
  <2>1. id \notin DOMAIN heap
    <3>1. made[t] \in Nat /\ id[1] = t /\ id[2] = made[t] + 1
      BY DEF Inv, TypeOK
    <3> QED
      BY <3>1 DEF Inv, HeapInv
  <2>2. /\ DOMAIN heap' = DOMAIN heap \cup {id}
        /\ heap'[id].parent = at[t]
        /\ \A i \in DOMAIN heap : heap'[i] = heap[i]
        /\ M = L \cup {id}
    BY <1>4, <2>1 DEF Insert, NewLive, NewEntry
  <2>3. /\ \A p \in Paths : entries'[p] \in {entries[p], id}
        /\ at'[t] = id /\ at[t] \in L \cup {NoEntry}
    BY <1>1, <1>4 DEF Insert, LoadReturns, LiveInv, Using
  <2> HIDE DEF id
  <2> QED
    BY <1>2, <2>2, <2>3 DEF LiveInv
<1> QED
  BY <1>3, <1>4

LEMMA LiveQuery ==
  ASSUME Inv, NEW L, LiveInv(L), NEW t \in Threads,
         \/ Stat(t) \/ PkgInfo(t) \/ InitPkg(t) \/ ReadPkg(t) \/ StorePkg(t) \/ FailPkg(t)
  PROVE  LiveInv(L)'
<1>1. /\ DOMAIN pc = Threads /\ DOMAIN at = Threads /\ UNCHANGED entries
      /\ pc[t] \in {"stat", "pkg", "init", "read", "store", "fail"}
  BY DEF Stat, PkgInfo, InitPkg, ReadPkg, StorePkg, FailPkg, Inv, TypeOK
<1>2. \A u \in Threads \ {t} : pc'[u] = pc[u] /\ at'[u] = at[u]
  BY RunBusy DEF Run
<1>3. at[t] \in DOMAIN heap /\ heap[at[t]] \in Entry
  BY <1>1 DEF Inv, TypeOK, QueryInv, InPkg
<1>4. Extends
  <2>1. CASE UNCHANGED heap
    BY <2>1, SameHeap
  <2>2. CASE \E k : heap' = [heap EXCEPT ![at[t]].stat = k]
    BY <1>3, <2>2 DEF Extends, Entry
  <2>3. CASE \E u : heap' = [heap EXCEPT ![at[t]].holder = u]
    BY <1>3, <2>3 DEF Extends, Entry
  <2>4. CASE heap' = [heap EXCEPT ![at[t]].pkg = val[t], ![at[t]].holder = Nobody]
    BY <1>3, <2>4 DEF Extends, Entry, Inv, TypeOK
  <2> QED
    BY <2>1, <2>2, <2>3, <2>4
    DEF Stat, PkgInfo, InitPkg, ReadPkg, StorePkg, FailPkg
<1>5. pc'[t] \in Using => at'[t] \in L \cup {NoEntry}
  <2>1. CASE Stat(t) \/ StorePkg(t) \/ FailPkg(t)
    BY <1>1, <2>1 DEF Stat, StorePkg, FailPkg, PkgReturns, Using
  <2>2. CASE PkgInfo(t)
    <3>1. at[t] \in L
      BY <2>2, UsingLive DEF PkgInfo
    <3> QED
      BY <1>1, <2>2, <3>1 DEF PkgInfo, PkgReturns, Using
  <2>3. CASE InitPkg(t) \/ ReadPkg(t)
    <3>1. at[t] \in L
      BY <2>3, UsingLive DEF InitPkg, ReadPkg
    <3>2. heap[at[t]].parent \in L \cup {NoEntry}
      BY <3>1 DEF LiveInv
    <3> QED
      BY <1>1, <2>3, <3>1, <3>2 DEF InitPkg, ReadPkg, AskParent, Using
  <2> QED
    BY <2>1, <2>2, <2>3
<1> QED
  BY <1>1, <1>2, <1>4, <1>5, LiveKeeps

\* Until a clear overlaps another call, what was made since the last clear
\* explains every answer.
FreshInv == ~overlap => \E L : LiveInv(L) /\ ExplainInv(L)

LEMMA FreshInit == Init => FreshInv /\ ClearInv
<1> SUFFICES ASSUME Init PROVE FreshInv /\ ClearInv
  OBVIOUS
<1>1. \A t \in Threads : pc[t] = "idle"
  BY DEF Init
<1>2. /\ \A p \in Paths : entries[p] = NoEntry
      /\ \A p \in Paths : disk[p] \in since[p]
  BY DEF Init
<1>3. LiveInv({}) /\ ExplainInv({}) /\ ClearInv
  BY <1>1, <1>2 DEF LiveInv, Using, ExplainInv, CellsExplained, Explained, Answered, ClearInv
<1> QED
  BY <1>3 DEF FreshInv

LEMMA FreshStep ==
  ASSUME Inv, ClearInv, FreshInv, [Next]_vars
  PROVE  FreshInv'
<1>1. SUFFICES ASSUME ~overlap' PROVE \E M : LiveInv(M)' /\ ExplainInv(M)'
  BY DEF FreshInv
<1>2. ~overlap
  BY <1>1, ClearStep
<1>3. PICK L : LiveInv(L) /\ ExplainInv(L)
  BY <1>2 DEF FreshInv
<1>4. ASSUME NEW t \in Threads, StartQuery(t) \/ StartClear(t)
      PROVE  LiveInv(L)' /\ ExplainInv(L)'
  <2>1. UNCHANGED <<heap, entries>> /\ at'[t] = NoEntry
        /\ \A u \in Threads \ {t} : pc'[u] = pc[u] /\ at'[u] = at[u]
    BY <1>4, StartBusy
  <2> QED
    BY <1>3, <1>4, <2>1, StartExplains, SameHeap, LiveKeeps
<1>5. ASSUME NEW t \in Threads, Probe(t) \/ Insert(t)
      PROVE  \E M : LiveInv(M)' /\ ExplainInv(M)'
  <2>1. PICK M : M = NewLive(t, L)
    OBVIOUS
  <2>2. LiveInv(M)' /\ ExplainInv(M)'
    BY <1>3, <1>5, <2>1, LiveLoad, LoadExplains
  <2> QED
    BY <2>1, <2>2
<1>6. ASSUME NEW t \in Threads,
             \/ Stat(t) \/ PkgInfo(t) \/ InitPkg(t) \/ ReadPkg(t) \/ StorePkg(t) \/ FailPkg(t)
      PROVE  LiveInv(L)' /\ ExplainInv(L)'
  BY <1>3, <1>6, LiveQuery, StatExplained, PkgInfoExplains, InitPkgExplains,
     ReadPkgExplains, StorePkgExplains, FailPkgExplains
<1>7. ASSUME NEW t \in Threads, ClearShard(t)
      PROVE  \E M : LiveInv(M)' /\ ExplainInv(M)'
  <2>1. CASE pc'[t] # "clear"
    BY <1>2, <1>3, <1>7, <2>1, ClearEnds
  <2>2. CASE pc'[t] = "clear"
    <3>1. /\ UNCHANGED heap /\ \A p \in Paths : entries'[p] \in {entries[p], NoEntry}
          /\ \A u \in Threads \ {t} : pc'[u] = pc[u] /\ at'[u] = at[u]
      BY <1>7, RunBusy DEF ClearShard, Run, Inv, TypeOK
    <3>2. LiveInv(L)'
      BY <1>3, <2>2, <3>1, SameHeap, LiveKeeps DEF Using
    <3> QED
      BY <1>3, <1>7, <2>2, <3>2, ClearGoesOn
  <2> QED
    BY <2>1, <2>2
<1>8. CASE UNCHANGED vars
  <2>1. UNCHANGED <<disk, entries, heap, pc, op, goal, cur, missing, at, val, since, adm>>
    BY <1>8 DEF vars, local, history
  <2>2. Extends /\ \A u \in Threads : Frame(u)
    BY <2>1, SameHeap DEF Frame
  <2>3. \A u \in Threads : Explained(u)'
    BY <1>3, <2>1, <2>2, OtherExplained DEF ExplainInv
  <2> QED
    BY <1>3, <2>1, <2>3 DEF LiveInv, ExplainInv, CellsExplained
<1>9. CASE Change
  <2>1. UNCHANGED <<entries, heap, pc, at>>
    BY <1>9 DEF Change, local
  <2>2. LiveInv(L)'
    BY <1>3, <2>1 DEF LiveInv
  <2> QED
    BY <1>3, <1>9, <2>2, DiskExplains
<1> QED
  BY <1>4, <1>5, <1>6, <1>7, <1>8, <1>9 DEF Next, Run

\* Whatever cells the threads share and whoever initialised them, each answer
\* is one the disk gave at some moments since the last clear, as long as no
\* clear runs beside another call.
THEOREM FreshAnswersHolds == Spec => []FreshAnswers
<1>1. FreshInv => FreshAnswers
  BY DEF FreshInv, ExplainInv, Explained, Answered, FreshAnswers, AnswersExplained
<1>2. Inv /\ ClearInv /\ FreshInv /\ [Next]_vars => (Inv /\ ClearInv /\ FreshInv)'
  BY NextInv, ClearStep, FreshStep
<1> QED
  BY <1>1, <1>2, InitInv, FreshInit, PTL DEF Spec

-----------------------------------------------------------------------------
(* One answer for a path *)

\* A thread that stats finds an entry on the map.  A settled call works on that
\* entry: it hits at its first look, or nobody else is there to insert.
Settled(t) ==
  /\ pc[t] = "stat" => entries[goal[t]] # NoEntry
  /\ t \in settled /\ pc[t] = "stat" => at[t] = entries[goal[t]]
  /\ t \in settled /\ pc[t] \in {"probe", "insert"} =>
       \/ /\ goal[t] \in asked /\ pc[t] = "probe"
          /\ cur[t] = goal[t] /\ missing[t] = {}
       \/ /\ goal[t] \notin asked
          /\ \A u \in Threads \ {t} : ~Busy(u)
          /\ pc[t] = "insert" => entries[cur[t]] = NoEntry
          /\ \A q \in missing[t] : entries[q] = NoEntry

\* What was asked is on the map, and its cell has what was told.
NoClear == \A t \in Threads : pc[t] # "clear"
ToldInv ==
  /\ NoClear => \A p \in Paths :
       /\ p \in asked => entries[p] # NoEntry
       /\ told[p] # {} => /\ entries[p] # NoEntry
                          /\ told[p] = {heap[entries[p]].stat}
  /\ \A p \in Paths : \A k, m \in told[p] : k = m

SettledInv == ~overlap => ToldInv /\ \A t \in Threads : Settled(t)

LEMMA SettledInit == Init => SettledInv
  BY DEF Init, SettledInv, ToldInv, Settled

\* Where nobody asks or tells, what was told stays true.
LEMMA ToldKeeps ==
  ASSUME Inv, ToldInv, UNCHANGED <<asked, told>>, NoClear' => NoClear,
         \A p \in Paths : entries[p] # NoEntry => entries'[p] = entries[p],
         \A i \in DOMAIN heap : CellKept(i)
  PROVE  ToldInv'
<1>1. /\ told \in [Paths -> SUBSET Kinds] /\ NoStat \notin Kinds
      /\ entries \in [Paths -> DOMAIN heap \cup {NoEntry}]
  BY SentinelAssumption DEF Inv, TypeOK
<1>2. ASSUME NEW p \in Paths, told[p] # {}, NoClear
      PROVE  heap'[entries[p]].stat = heap[entries[p]].stat
  <2>1. entries[p] \in DOMAIN heap /\ heap[entries[p]].stat \in Kinds
    BY <1>1, <1>2 DEF ToldInv
  <2> QED
    BY <1>1, <2>1 DEF CellKept
<1> QED
  BY <1>2 DEF ToldInv

LEMMA SettledStart ==
  ASSUME Inv, ClearInv, ~overlap', NEW t \in Threads, StartQuery(t) \/ StartClear(t),
         ToldInv, \A u \in Threads : Settled(u)
  PROVE  ToldInv' /\ \A u \in Threads : Settled(u)'
<1>1. /\ UNCHANGED <<entries, heap, asked, told>> /\ ~Busy(t)
      /\ pc'[t] \in {"probe", "clear"}
  BY StartBusy
<1>2. ToldInv'
  <2>1. NoClear' => NoClear
    BY StartBusy DEF NoClear
  <2> QED
    BY <1>1, <2>1, ToldKeeps DEF CellKept
<1>3. Settled(t)'
  <2>1. ASSUME t \in settled', pc'[t] = "probe"
        PROVE  /\ cur'[t] = goal'[t] /\ missing'[t] = {}
               /\ goal'[t] \in asked' \/ \A u \in Threads \ {t} : ~Busy(u)'
    BY <2>1, StartBusy DEF Busy
  <2> QED
    BY <1>1, <2>1 DEF Settled
<1>4. ASSUME NEW u \in Threads, u # t PROVE Settled(u)'
  <2>1. /\ pc'[u] = pc[u] /\ at'[u] = at[u] /\ goal'[u] = goal[u]
        /\ cur'[u] = cur[u] /\ missing'[u] = missing[u]
        /\ u \in settled' => u \in settled /\ goal[u] \in asked
    BY <1>4, StartBusy
  <2>2. Settled(u)
    OBVIOUS
  <2> QED
    BY <1>1, <2>1, <2>2 DEF Settled
<1> QED
  BY <1>2, <1>3, <1>4

\* A step of t: the others find what they found.
LEMMA OthersSettled ==
  ASSUME Inv, NEW t \in Threads, Run(t), \A u \in Threads : Settled(u),
         \A p \in Paths : entries[p] # NoEntry => entries'[p] = entries[p],
         asked \subseteq asked',
         NEW u \in Threads \ {t}, cur'[u] = cur[u], missing'[u] = missing[u]
  PROVE  Settled(u)'
<1>1. /\ pc'[u] = pc[u] /\ at'[u] = at[u] /\ goal'[u] = goal[u] /\ settled' = settled
      /\ Busy(t) /\ goal[u] \in Paths
  BY RunBusy DEF Inv, TypeOK
<1>2. Settled(u)
  OBVIOUS
<1>3. ~\A v \in Threads \ {u} : ~Busy(v)
  BY <1>1
<1> QED
  BY <1>1, <1>2, <1>3 DEF Settled

LEMMA SettledLoad ==
  ASSUME Inv, NEW t \in Threads, Probe(t) \/ Insert(t), NoClear,
         ToldInv, \A u \in Threads : Settled(u)
  PROVE  ToldInv' /\ \A u \in Threads : Settled(u)'
<1> DEFINE c == cur[t]
           e == at'[t]
           below == {q \in missing[t] : Parent[q] = c}
<1>1. /\ c \in Paths /\ goal[t] \in Paths /\ c \in Anc[goal[t]]
      /\ missing[t] = Anc[goal[t]] \ Anc[c] /\ op[t] \in {"stat", "pkg"}
      /\ missing[t] \subseteq Paths /\ c \notin missing[t]
      /\ entries \in [Paths -> DOMAIN heap \cup {NoEntry}]
      /\ pc[t] \in {"probe", "insert"} /\ Run(t) /\ Settled(t)
  BY AncUp DEF Inv, LoadInv, TypeOK, Probe, Insert, Run
<1>2. UNCHANGED <<op, goal, asked, told, settled, overlap>>
  BY DEF Probe, Insert, history
<1>3. \A i \in DOMAIN heap : heap'[i] = heap[i]
  <2>1. CASE Probe(t)
    BY <2>1 DEF Probe
  <2>2. CASE Insert(t)
    <3> DEFINE id == <<t, made[t] + 1>>
    <3>1. made[t] \in Nat /\ id[1] = t /\ id[2] = made[t] + 1
      BY DEF Inv, TypeOK
    <3>2. id \notin DOMAIN heap
      BY <3>1 DEF Inv, HeapInv
    <3> QED
      BY <2>2, <3>2 DEF Insert
  <2> QED
    BY <2>1, <2>2
<1>4. /\ \A p \in Paths : entries[p] # NoEntry => entries'[p] = entries[p]
      /\ \A p \in Paths \ {c} : entries'[p] = entries[p]
  BY <1>1 DEF Probe, Insert
<1>5. ToldInv'
  BY <1>2, <1>3, <1>4, ToldKeeps DEF CellKept
<1>6. ASSUME NEW u \in Threads \ {t} PROVE Settled(u)'
  <2>1. cur'[u] = cur[u] /\ missing'[u] = missing[u]
    BY <1>6 DEF Probe, Insert, LoadReturns, Inv, TypeOK
  <2> QED
    BY <1>1, <1>2, <1>4, <2>1, OthersSettled
<1>7. \A u \in Threads \ {t} : ~Busy(u) => ~Busy(u)'
  BY <1>1, RunBusy DEF Busy
<1>8. ASSUME LoadReturns(t, e), entries'[c] # NoEntry,
             t \in settled => entries'[c] = e
      PROVE  Settled(t)'
  <2>1. CASE below = {} /\ pc' = [pc EXCEPT ![t] = op[t]] /\ UNCHANGED <<cur, missing>>
    <3>1. c = goal[t]
      BY <1>1, <2>1, AncChild
    <3>2. pc'[t] = op[t]
      BY <2>1 DEF Inv, TypeOK
    <3> QED
      BY <1>1, <1>2, <1>8, <3>1, <3>2 DEF Settled
  <2>2. ASSUME NEW q \in below, pc' = [pc EXCEPT ![t] = "insert"],
               cur' = [cur EXCEPT ![t] = q],
               missing' = [missing EXCEPT ![t] = @ \ {q}]
        PROVE  Settled(t)'
    <3>1. pc'[t] = "insert" /\ cur'[t] = q /\ missing'[t] = missing[t] \ {q}
      BY <2>2 DEF Inv, TypeOK
    <3>2. ASSUME t \in settled
          PROVE  /\ goal[t] \notin asked
                 /\ \A u \in Threads \ {t} : ~Busy(u)
                 /\ \A r \in missing[t] : entries'[r] = NoEntry
      BY <1>1, <1>4, <2>2, <3>2 DEF Settled
    <3> QED
      BY <1>2, <1>7, <3>1, <3>2 DEF Settled
  <2> QED
    BY <1>8, <2>1, <2>2 DEF LoadReturns
<1>9. CASE Insert(t)
  <2> DEFINE id == <<t, made[t] + 1>>
  <2>1. /\ LoadReturns(t, id) /\ e = id /\ id # NoEntry
        /\ entries'[c] = IF entries[c] = NoEntry THEN id ELSE entries[c]
    BY <1>1, <1>9, SentinelAssumption DEF Insert, LoadReturns, Inv, TypeOK, Ids
  <2>2. t \in settled => entries[c] = NoEntry
    BY <1>9 DEF Insert, Settled
  <2>3. Settled(t)'
    BY <1>8, <2>1, <2>2
  <2> QED
    BY <1>5, <1>6, <2>3
<1>10. CASE Probe(t)
  <2>1. UNCHANGED <<entries, heap>> /\ pc[t] = "probe"
    BY <1>10 DEF Probe
  <2>2. CASE entries[c] # NoEntry /\ LoadReturns(t, entries[c])
    <3>1. e = entries[c]
      BY <2>2 DEF LoadReturns, Inv, TypeOK
    <3> QED
      BY <1>5, <1>6, <1>8, <2>1, <2>2, <3>1
  <2>3. CASE /\ entries[c] = NoEntry
             /\ \/ /\ missing' = [missing EXCEPT ![t] = @ \cup {c}]
                   /\ UNCHANGED <<pc, at>>
                \/ pc' = [pc EXCEPT ![t] = "insert"] /\ UNCHANGED <<missing, cur, at>>
    <3>1. /\ pc'[t] \in {"probe", "insert"}
          /\ pc'[t] = "insert" => cur'[t] = c
          /\ missing'[t] \subseteq missing[t] \cup {c}
      BY <2>1, <2>3 DEF Inv, TypeOK
    <3>2. ASSUME t \in settled
          PROVE  /\ goal[t] \notin asked
                 /\ \A u \in Threads \ {t} : ~Busy(u)
                 /\ \A r \in missing[t] : entries[r] = NoEntry
      BY <1>1, <2>1, <2>3, <3>2 DEF Settled, ToldInv
    <3>3. Settled(t)'
      BY <1>2, <1>7, <2>1, <2>3, <3>1, <3>2 DEF Settled
    <3> QED
      BY <1>5, <1>6, <3>3
  <2> QED
    BY <1>10, <2>2, <2>3 DEF Probe
<1> QED
  BY <1>9, <1>10 DEF Probe, Insert

LEMMA SettledStat ==
  ASSUME Inv, NEW t \in Threads, Stat(t), NoClear,
         ToldInv, \A u \in Threads : Settled(u), \A i \in DOMAIN heap : CellKept(i)
  PROVE  ToldInv' /\ \A u \in Threads : Settled(u)'
<1> DEFINE e == at[t]
           k == StatOf(e)
           g == goal[t]
<1>1. /\ pc[t] = "stat" /\ e \in DOMAIN heap /\ heap[e].path = g /\ g \in Paths
      /\ Settled(t) /\ Run(t) /\ heap[e] \in Entry
      /\ entries \in [Paths -> DOMAIN heap \cup {NoEntry}]
      /\ told \in [Paths -> SUBSET Kinds] /\ DOMAIN pc = Threads
  BY DEF Stat, Inv, TypeOK, QueryInv, Path, Run
<1>2. /\ heap' = [heap EXCEPT ![e].stat = k] /\ UNCHANGED <<entries, cur, missing>>
      /\ asked' = asked \cup {g} /\ pc'[t] = "done"
      /\ told' = IF t \in settled THEN [told EXCEPT ![g] = @ \cup {k}] ELSE told
  BY <1>1 DEF Stat
<1>3. entries[g] # NoEntry /\ entries[g] \in DOMAIN heap
  BY <1>1 DEF Settled
<1>4. Settled(t)'
  BY <1>2 DEF Settled
<1>5. ASSUME NEW u \in Threads \ {t} PROVE Settled(u)'
  BY <1>1, <1>2, OthersSettled
<1>6. ASSUME NEW p \in Paths, told[p] # {}
      PROVE  /\ entries[p] # NoEntry /\ told[p] = {heap'[entries[p]].stat}
             /\ heap[entries[p]].stat # NoStat
  <2>1. entries[p] # NoEntry /\ told[p] = {heap[entries[p]].stat}
        /\ entries[p] \in DOMAIN heap
    BY <1>1, <1>6 DEF ToldInv
  <2>2. heap[entries[p]].stat # NoStat
    BY <1>1, <2>1, SentinelAssumption
  <2> QED
    BY <2>1, <2>2 DEF CellKept
<1>7. CASE t \notin settled
  BY <1>2, <1>3, <1>4, <1>5, <1>6, <1>7 DEF ToldInv
<1>8. CASE t \in settled
  <2>1. e = entries[g] /\ heap'[e].stat = k
    BY <1>1, <1>2, <1>8 DEF Settled, Entry
  <2>2. told[g] \subseteq {k}
    BY <1>1, <1>6, <2>1
  <2>3. told'[g] = {k} /\ \A p \in Paths \ {g} : told'[p] = told[p]
    BY <1>1, <1>2, <1>8, <2>2
  <2>4. \A p \in Paths : told'[p] # {} =>
          entries[p] # NoEntry /\ told'[p] = {heap'[entries[p]].stat}
    BY <1>3, <1>6, <2>1, <2>3
  <2> QED
    BY <1>2, <1>3, <1>4, <1>5, <2>4 DEF ToldInv
<1> QED
  BY <1>7, <1>8

LEMMA SettledStep ==
  ASSUME Inv, ClearInv, SettledInv, [Next]_vars
  PROVE  SettledInv'
<1>1. SUFFICES ASSUME ~overlap' PROVE ToldInv' /\ \A u \in Threads : Settled(u)'
  BY DEF SettledInv
<1>2. ~overlap /\ ToldInv /\ \A u \in Threads : Settled(u)
  BY <1>1, ClearStep DEF SettledInv
<1>3. \A i \in DOMAIN heap : CellKept(i)
  BY CellsKept DEF CellKept
<1>4. ASSUME NEW t \in Threads, StartQuery(t) \/ StartClear(t)
      PROVE  ToldInv' /\ \A u \in Threads : Settled(u)'
  BY <1>1, <1>2, <1>4, SettledStart
<1>5. ASSUME NEW t \in Threads, Run(t), ~ClearShard(t)
      PROVE  NoClear
  <2>1. Busy(t) /\ pc[t] # "clear"
    BY <1>5, RunBusy
  <2> QED
    BY <1>2, <2>1 DEF ClearInv, NoClear
<1>6. ASSUME NEW t \in Threads, Probe(t) \/ Insert(t)
      PROVE  ToldInv' /\ \A u \in Threads : Settled(u)'
  <2>1. NoClear
    BY <1>5, <1>6 DEF Run, Probe, Insert, ClearShard
  <2> QED
    BY <1>2, <1>6, <2>1, SettledLoad
<1>7. ASSUME NEW t \in Threads, Stat(t)
      PROVE  ToldInv' /\ \A u \in Threads : Settled(u)'
  <2>1. NoClear
    BY <1>5, <1>7 DEF Run, Stat, ClearShard
  <2> QED
    BY <1>2, <1>3, <1>7, <2>1, SettledStat
<1>8. ASSUME NEW t \in Threads,
             PkgInfo(t) \/ InitPkg(t) \/ ReadPkg(t) \/ StorePkg(t) \/ FailPkg(t)
      PROVE  ToldInv' /\ \A u \in Threads : Settled(u)'
  <2>1. Run(t) /\ ~ClearShard(t)
    BY <1>8 DEF Run, ClearShard, PkgInfo, InitPkg, ReadPkg, StorePkg, FailPkg
  <2>2. /\ NoClear /\ UNCHANGED <<entries, asked, told, cur, missing>>
    BY <1>5, <1>8, <2>1 DEF PkgInfo, InitPkg, ReadPkg, StorePkg, FailPkg, history
  <2>3. pc'[t] \notin {"probe", "insert", "stat"}
    BY <1>8 DEF PkgInfo, InitPkg, ReadPkg, StorePkg, FailPkg, PkgReturns, AskParent, Inv, TypeOK
  <2>4. Settled(t)'
    BY <2>3 DEF Settled
  <2>5. \A u \in Threads \ {t} : Settled(u)'
    BY <1>2, <2>1, <2>2, OthersSettled
  <2> QED
    BY <1>2, <1>3, <2>2, <2>4, <2>5, ToldKeeps
<1>9. ASSUME NEW t \in Threads, ClearShard(t)
      PROVE  ToldInv' /\ \A u \in Threads : Settled(u)'
  <2>1. pc[t] = "clear" /\ \A u \in Threads \ {t} : ~Busy(u)
    BY <1>2, <1>9 DEF ClearShard, ClearInv
  <2>2. \A u \in Threads : pc'[u] \notin {"probe", "insert", "stat"}
    BY <1>9, <2>1 DEF ClearShard, ClearReturns, Busy, Inv, TypeOK
  <2>3. \A u \in Threads : Settled(u)'
    BY <2>2 DEF Settled
  <2>4. PICK p \in missing[t] :
          IF missing[t] = {p} THEN ClearReturns(t) ELSE UNCHANGED <<pc, asked, told>>
    BY <1>9 DEF ClearShard
  <2>5. CASE missing[t] = {p}
    BY <2>3, <2>4, <2>5 DEF ClearReturns, ToldInv
  <2>6. CASE missing[t] # {p}
    BY <1>2, <2>1, <2>3, <2>4, <2>6 DEF ToldInv, NoClear
  <2> QED
    BY <2>5, <2>6
<1>10. CASE UNCHANGED vars \/ Change
  <2>1. UNCHANGED <<entries, heap, pc, goal, cur, missing, at, asked, told, settled>>
    BY <1>10 DEF vars, local, history, Change
  <2> QED
    BY <1>2, <2>1 DEF ToldInv, NoClear, Settled, Busy
<1> QED
  BY <1>4, <1>6, <1>7, <1>8, <1>9, <1>10 DEF Next, Run

\* Calls that come after the race for a path are told one thing about it until
\* the cache is cleared, as long as no clear runs beside another call: they
\* work on the entry that was kept, and its cell keeps the answer.
THEOREM StableStatHolds == Spec => []StableStat
<1>1. Inv /\ SettledInv => StableStat
  <2> SUFFICES ASSUME Inv, SettledInv, ~overlap, NEW p \in Paths
               PROVE  Cardinality(told[p]) <= 1
    BY DEF StableStat
  <2>1. told[p] = {} \/ \E k : told[p] = {k}
    BY DEF SettledInv, ToldInv
  <2>2. Cardinality({}) = 0 /\ \A k : Cardinality({k}) = 1
    BY FS_EmptySet, FS_Singleton, Zenon
  <2>3. Cardinality(told[p]) = 0 \/ Cardinality(told[p]) = 1
    BY <2>1, <2>2
  <2> QED
    BY <2>3
<1>2. Inv /\ ClearInv /\ SettledInv /\ [Next]_vars => (Inv /\ ClearInv /\ SettledInv)'
  BY NextInv, ClearStep, SettledStep
<1> QED
  BY <1>1, <1>2, InitInv, FreshInit, SettledInit, PTL DEF Spec

=============================================================================
