----------------------------- MODULE EntryCache -----------------------------
(***************************************************************************)
(* The shared entry cache of the resolver: cache.rs and entry.rs.          *)
(*                                                                         *)
(* Threads resolve concurrently through one Cache.  `entries` is its       *)
(* concurrent map from paths to reference-counted Entry objects; an Entry  *)
(* memoises what the disk said about its path in write-once cells (`stat`, *)
(* `pkg_info`) and points to the Entry of its parent directory.            *)
(*                                                                         *)
(* A call is load_entry(path) followed by a query of the entry it returns: *)
(* "stat" (is_file, is_dir, exists) or "pkg" (pkg_info); "clear" is        *)
(* clear_entries.  Every access to the map, to a cell or to the disk is a  *)
(* step of its own.  The disk may change at any time, which files of the   *)
(* tests do on purpose (cache_fs, cache_fs2).                              *)
(***************************************************************************)
EXTENDS Naturals, FiniteSets, Sequences

CONSTANTS
  Threads,      \* the threads that share the cache
  Paths,        \* normalized absolute paths
  Dirs,         \* the paths that may be directories
  DescPaths,    \* the paths whose last component is `description_file`
  Parent,       \* Path::parent, NoPath for the root
  Anc,          \* a path together with all its ancestors
  Versions,     \* the well-formed contents of a description file
  Plans,        \* bound: which calls each thread makes, one after the other
  InitialDisks, \* what the disk may hold when the cache is created
  MaxChanges,   \* bound: changes of the disk
  Dir, File, Missing, \* what EntryStat::file_type tells apart
  NoPath, NoEntry, Nobody, NoStat, Unset, NoDesc, NoJson, BadJson

Contents == Versions \cup {NoJson, BadJson}
LeafKinds == {File, Missing}
Kinds == {File, Missing, Dir}

\* What a disk holds: for a directory what its description file is, for
\* another path whether there is a file.  What exists lies in a directory, and
\* a description file is part of what is said of its directory.
IsDisk(d) ==
  /\ d \in [Paths -> Contents \cup LeafKinds]
  /\ \A p \in Paths :
       /\ p \notin Dirs => d[p] \in LeafKinds
       /\ p \in DescPaths => d[p] = Missing
       /\ d[p] # Missing /\ Parent[p] # NoPath => d[Parent[p]] \in Contents

ASSUME PathAssumption ==
  /\ NoPath \notin Paths
  /\ Dirs \subseteq Paths
  /\ DescPaths \subseteq Paths \ Dirs
  /\ Parent \in [Paths -> Dirs \cup {NoPath}]
  /\ \A p \in DescPaths : Parent[p] # NoPath
  /\ Anc \in [Paths -> SUBSET Paths]
  /\ \A p \in Paths :
       Anc[p] = {p} \cup IF Parent[p] = NoPath THEN {} ELSE Anc[Parent[p]]
  /\ \A p \in Paths : Parent[p] # NoPath => p \notin Anc[Parent[p]]
  /\ \A p \in Paths : \A a \in Anc[p] :
       /\ Anc[a] \subseteq Anc[p]
       /\ \A b \in Anc[p] : a \in Anc[b] \/ b \in Anc[a]
       /\ a # p => \E q \in Anc[p] : Parent[q] = a

\* The descriptions a package scope can have: DescriptionData.
Descs == [dir : Dirs, json : Versions]
Ids == Threads \X Nat
\* A call, and the path it is about (none in particular for "clear").
Call == [op : {"stat", "pkg", "clear"}, path : Paths]

ASSUME SentinelAssumption ==
  /\ NoEntry \notin Ids
  /\ Nobody \notin Threads
  /\ Dir # File /\ Dir # Missing /\ File # Missing /\ NoStat \notin Kinds
  /\ NoJson \notin Versions /\ BadJson \notin Versions /\ NoJson # BadJson
  /\ Contents \cap Kinds = {}
  /\ Unset \notin Descs /\ NoDesc \notin Descs /\ BadJson \notin Descs
  /\ Unset # NoDesc /\ Unset # BadJson /\ NoDesc # BadJson

ASSUME BoundAssumption ==
  /\ MaxChanges \in Nat
  /\ Plans \subseteq [Threads -> Seq(Call)]
  /\ \A d \in InitialDisks : IsDisk(d)

VARIABLES
  disk,     \* the file system
  entries,  \* Cache::entries, from paths to the ids of Entry objects
  heap,     \* the Entry objects made so far
  made,     \* how many of them each thread made
  pc,       \* where each thread is
  op, goal, \* its call and the path the call is about
  cur,      \* the path of the innermost load_entry frame
  missing,  \* the paths of the load_entry frames that wait for their parent
  at,       \* the entry the thread works on
  val,      \* the value on its way back to the caller, then the answer
  plan,     \* the calls each thread is still to make
  changes,
  since,    \* history: per path, the contents since the last clear
  adm,      \* history: per thread, the contents its call may report
  overlap,  \* history: whether a clear and another call were under way at once
  asked,    \* history: the paths for which a stat was answered since the clear
  settled,  \* history: the threads whose call began after a stat of its path
            \* was answered, or is alone so far
  told      \* history: what their stats answered, per path

local == <<op, goal, cur, missing, at, val>>
history == <<since, adm, overlap, asked, settled, told>>
vars == <<disk, entries, heap, made, pc, local, plan, changes, history>>

-----------------------------------------------------------------------------
(* The disk *)

\* EntryStat::stat: one metadata call.
KindOf(p) ==
  IF p \in DescPaths
  THEN IF disk[Parent[p]] \in Versions \cup {BadJson} THEN File ELSE Missing
  ELSE IF disk[p] \in Contents THEN Dir ELSE disk[p]

\* The directory whose description file an entry for p reads.
DescDir(p) == IF p \in DescPaths THEN Parent[p] ELSE p

\* Another program writes, breaks or removes a description file, creates or
\* removes a file, or makes, removes or replaces a directory that has nothing
\* else in it.
Change ==
  /\ changes < MaxChanges
  /\ changes' = changes + 1
  /\ \E p \in Paths, c \in Contents \cup LeafKinds :
       /\ c # disk[p]
       /\ disk' = [disk EXCEPT ![p] = c]
       /\ since' = [since EXCEPT ![p] = @ \cup {c}]
       /\ adm' = [t \in Threads |-> [adm[t] EXCEPT ![p] = @ \cup {c}]]
  /\ IsDisk(disk')
  /\ UNCHANGED <<entries, heap, made, pc, local, plan, overlap, asked, settled, told>>

-----------------------------------------------------------------------------
(* load_entry *)

NewEntry(p, parent) ==
  [path |-> p, parent |-> parent, stat |-> NoStat, pkg |-> Unset,
   holder |-> Nobody]

Busy(t) == pc[t] \notin {"idle", "done"}

Start(t) ==
  LET call == Head(plan[t])
      others == {u \in Threads \ {t} : Busy(u)}
  IN /\ ~Busy(t)
     /\ plan[t] # <<>>
     /\ plan' = [plan EXCEPT ![t] = Tail(@)]
     /\ op' = [op EXCEPT ![t] = call.op]
     /\ goal' = [goal EXCEPT ![t] = call.path]
     /\ cur' = [cur EXCEPT ![t] = call.path]
     /\ at' = [at EXCEPT ![t] = NoEntry]
     /\ val' = [val EXCEPT ![t] = Unset]
     /\ overlap' = (overlap \/ \E u \in others : "clear" \in {op[u], call.op})
     /\ settled' = {u \in settled \ {t} : goal[u] \in asked}
                   \cup {u \in {t} : call.path \in asked \/ others = {}}
     /\ UNCHANGED <<disk, entries, heap, made, changes, since, asked, told>>

StartQuery(t) ==
  /\ Start(t)
  /\ op'[t] # "clear"
  /\ pc' = [pc EXCEPT ![t] = "probe"]
  /\ missing' = [missing EXCEPT ![t] = {}]
  /\ adm' = [adm EXCEPT ![t] = since]

\* load_entry(cur[t]) returns entry e, to the query or to the frame that
\* waits to make the entry of a child.
LoadReturns(t, e) ==
  LET below == {q \in missing[t] : Parent[q] = cur[t]}
  IN /\ at' = [at EXCEPT ![t] = e]
     /\ \/ /\ below = {}
           /\ pc' = [pc EXCEPT ![t] = op[t]]
           /\ UNCHANGED <<cur, missing>>
        \/ \E q \in below :
             /\ pc' = [pc EXCEPT ![t] = "insert"]
             /\ cur' = [cur EXCEPT ![t] = q]
             /\ missing' = [missing EXCEPT ![t] = @ \ {q}]

Probe(t) ==
  /\ pc[t] = "probe"
  /\ \/ /\ entries[cur[t]] # NoEntry
        /\ LoadReturns(t, entries[cur[t]])
     \/ /\ entries[cur[t]] = NoEntry
        /\ Parent[cur[t]] # NoPath
        /\ missing' = [missing EXCEPT ![t] = @ \cup {cur[t]}]
        /\ cur' = [cur EXCEPT ![t] = Parent[cur[t]]]
        /\ UNCHANGED <<pc, at>>
     \/ /\ entries[cur[t]] = NoEntry
        /\ Parent[cur[t]] = NoPath
        /\ pc' = [pc EXCEPT ![t] = "insert"]
        /\ UNCHANGED <<missing, cur, at>>
  /\ UNCHANGED <<disk, entries, heap, made, op, goal, val, plan, changes,
                 history>>

\* Mutant of Insert: DashMap::insert, which replaces the entry of another.
InsertOver(t) ==
  LET id == <<t, made[t] + 1>>
  IN /\ pc[t] = "insert"
     /\ made' = [made EXCEPT ![t] = @ + 1]
     /\ heap' = [i \in DOMAIN heap \cup {id} |->
                   IF i = id THEN NewEntry(cur[t], at[t]) ELSE heap[i]]
     /\ entries' = [entries EXCEPT ![cur[t]] = id]
     /\ LoadReturns(t, id)
     /\ UNCHANGED <<disk, op, goal, val, plan, changes, history>>

\* or_insert keeps an entry another thread inserted meanwhile, but the
\* caller goes on with the one it made itself.
Insert(t) ==
  LET id == <<t, made[t] + 1>>
  IN /\ pc[t] = "insert"
     /\ made' = [made EXCEPT ![t] = @ + 1]
     /\ heap' = [i \in DOMAIN heap \cup {id} |->
                   IF i = id THEN NewEntry(cur[t], at[t]) ELSE heap[i]]
     /\ entries' = IF entries[cur[t]] = NoEntry
                   THEN [entries EXCEPT ![cur[t]] = id]
                   ELSE entries
     /\ LoadReturns(t, id)
     /\ UNCHANGED <<disk, op, goal, val, plan, changes, history>>

-----------------------------------------------------------------------------
(* Queries of an entry *)

\* Mutant of StatOf: a query that does not look at the cell.
StatAgain(e) == KindOf(heap[e].path)

\* cached_stat: the cell is filled by the first query and read by the rest.
StatOf(e) ==
  IF heap[e].stat = NoStat THEN KindOf(heap[e].path) ELSE heap[e].stat

Stat(t) ==
  LET e == at[t]
  IN /\ pc[t] = "stat"
     /\ heap' = [heap EXCEPT ![e].stat = StatOf(e)]
     /\ val' = [val EXCEPT ![t] = StatOf(e)]
     /\ asked' = asked \cup {goal[t]}
     /\ told' = IF t \in settled THEN [told EXCEPT ![goal[t]] = @ \cup {StatOf(e)}]
                ELSE told
     /\ pc' = [pc EXCEPT ![t] = "done"]
     /\ UNCHANGED <<disk, entries, made, op, goal, cur, missing, at, plan,
                    changes, since, adm, overlap, settled>>

\* pkg_info returns to the initialiser of a child's cell, which goes on at
\* `next` with the same result, or to the caller of the query.
PkgReturns(t, v, next) ==
  LET waiting == {c \in DOMAIN heap :
                    heap[c].holder = t /\ heap[c].parent = at[t]}
  IN /\ val' = [val EXCEPT ![t] = v]
     /\ \/ /\ waiting = {}
           /\ pc' = [pc EXCEPT ![t] = "done"]
           /\ UNCHANGED at
        \/ \E c \in waiting :
             /\ pc' = [pc EXCEPT ![t] = next]
             /\ at' = [at EXCEPT ![t] = c]

\* Mutant of PkgInfo: a cell that is read and set without a lock.
PkgInfoUnlocked(t) ==
  LET e == at[t]
  IN /\ pc[t] = "pkg"
     /\ \/ /\ heap[e].pkg # Unset
           /\ PkgReturns(t, heap[e].pkg, "store")
           /\ UNCHANGED heap
        \/ /\ heap[e].pkg = Unset
           /\ heap' = [heap EXCEPT ![e].holder = t]
           /\ pc' = [pc EXCEPT ![t] = "init"]
           /\ UNCHANGED <<val, at>>
     /\ UNCHANGED <<disk, entries, made, op, goal, cur, missing, plan,
                    changes, history>>

\* get_or_try_init: use the value, become the initialiser, or block while
\* another thread is.
PkgInfo(t) ==
  LET e == at[t]
  IN /\ pc[t] = "pkg"
     /\ \/ /\ heap[e].pkg # Unset
           /\ PkgReturns(t, heap[e].pkg, "store")
           /\ UNCHANGED heap
        \/ /\ heap[e].pkg = Unset
           /\ heap[e].holder = Nobody
           /\ heap' = [heap EXCEPT ![e].holder = t]
           /\ pc' = [pc EXCEPT ![t] = "init"]
           /\ UNCHANGED <<val, at>>
     /\ UNCHANGED <<disk, entries, made, op, goal, cur, missing, plan,
                    changes, history>>

\* Mutant of AskParent: only the directory itself is looked at.
AnswerNone(t) ==
  /\ pc' = [pc EXCEPT ![t] = "store"]
  /\ val' = [val EXCEPT ![t] = NoDesc]
  /\ UNCHANGED at

\* No description here: ask the parent, or answer that there is none.
AskParent(t) ==
  LET up == heap[at[t]].parent
  IN \/ /\ up # NoEntry
        /\ pc' = [pc EXCEPT ![t] = "pkg"]
        /\ at' = [at EXCEPT ![t] = up]
        /\ UNCHANGED val
     \/ /\ up = NoEntry
        /\ pc' = [pc EXCEPT ![t] = "store"]
        /\ val' = [val EXCEPT ![t] = NoDesc]
        /\ UNCHANGED at

\* The initialiser's is_dir() || is_pkg_suffix.
InitPkg(t) ==
  LET e == at[t]
  IN /\ pc[t] = "init"
     /\ heap' = [heap EXCEPT ![e].stat = StatOf(e)]
     /\ \/ /\ StatOf(e) = Dir \/ heap[e].path \in DescPaths
           /\ pc' = [pc EXCEPT ![t] = "read"]
           /\ UNCHANGED <<at, val>>
        \/ /\ StatOf(e) # Dir /\ heap[e].path \notin DescPaths
           /\ AskParent(t)
     /\ UNCHANGED <<disk, entries, made, op, goal, cur, missing, plan,
                    changes, history>>

\* read_description_file, always from the disk (see CachedFs).
ReadPkg(t) ==
  LET d == DescDir(heap[at[t]].path)
  IN /\ pc[t] = "read"
     /\ \/ /\ disk[d] \in Versions
           /\ val' = [val EXCEPT ![t] = [dir |-> d, json |-> disk[d]]]
           /\ pc' = [pc EXCEPT ![t] = "store"]
           /\ UNCHANGED at
        \/ /\ disk[d] = BadJson
           /\ pc' = [pc EXCEPT ![t] = "fail"]
           /\ UNCHANGED <<at, val>>
        \/ /\ disk[d] \notin Versions \cup {BadJson}
           /\ AskParent(t)
     /\ UNCHANGED <<disk, entries, heap, made, op, goal, cur, missing, plan,
                    changes, history>>

\* The initialiser returns Ok: the cell is set for good.
StorePkg(t) ==
  /\ pc[t] = "store"
  /\ heap' = [heap EXCEPT ![at[t]].pkg = val[t], ![at[t]].holder = Nobody]
  /\ PkgReturns(t, val[t], "store")
  /\ UNCHANGED <<disk, entries, made, op, goal, cur, missing, plan, changes,
                 history>>

\* Mutants of FailPkg: the error is kept in the cell; the cell stays locked.
FailForGood(t) ==
  /\ pc[t] = "fail"
  /\ heap' = [heap EXCEPT ![at[t]].pkg = BadJson, ![at[t]].holder = Nobody]
  /\ PkgReturns(t, BadJson, "fail")
  /\ UNCHANGED <<disk, entries, made, op, goal, cur, missing, plan, changes,
                 history>>
FailLocked(t) ==
  /\ pc[t] = "fail"
  /\ pc' = [pc EXCEPT ![t] = "done"]
  /\ val' = [val EXCEPT ![t] = BadJson]
  /\ UNCHANGED <<disk, entries, heap, made, op, goal, cur, missing, at, plan,
                 changes, history>>

\* The initialiser returns Err: the cell stays empty, the next query retries.
FailPkg(t) ==
  /\ pc[t] = "fail"
  /\ heap' = [heap EXCEPT ![at[t]].holder = Nobody]
  /\ PkgReturns(t, BadJson, "fail")
  /\ UNCHANGED <<disk, entries, made, op, goal, cur, missing, plan, changes,
                 history>>

-----------------------------------------------------------------------------
(* clear_entries: the map is cleared shard by shard, in no known order. *)

StartClear(t) ==
  /\ Start(t)
  /\ op'[t] = "clear"
  /\ pc' = [pc EXCEPT ![t] = "clear"]
  /\ missing' = [missing EXCEPT ![t] = Paths]
  /\ adm' = [adm EXCEPT ![t] = [p \in Paths |-> {disk[p]}]]

\* clear_entries returns: what was told before does not bind later calls.
ClearReturns(t) ==
  /\ pc' = [pc EXCEPT ![t] = "idle"]
  /\ since' = adm[t]
  /\ asked' = {}
  /\ told' = [q \in Paths |-> {}]

\* Mutant of ClearShard: the entries stay.
ClearNothing(t) ==
  /\ pc[t] = "clear"
  /\ ClearReturns(t)
  /\ missing' = [missing EXCEPT ![t] = {}]
  /\ UNCHANGED <<disk, entries, heap, made, op, goal, cur, at, val, plan,
                 changes, adm, overlap, settled>>

ClearShard(t) ==
  /\ pc[t] = "clear"
  /\ \E p \in missing[t] :
       /\ entries' = [entries EXCEPT ![p] = NoEntry]
       /\ missing' = [missing EXCEPT ![t] = @ \ {p}]
       /\ IF missing[t] = {p} THEN ClearReturns(t)
          ELSE UNCHANGED <<pc, since, asked, told>>
  /\ UNCHANGED <<disk, heap, made, op, goal, cur, at, val, plan, changes,
                 adm, overlap, settled>>

-----------------------------------------------------------------------------
Init ==
  /\ disk \in InitialDisks
  /\ entries = [p \in Paths |-> NoEntry]
  /\ heap = [i \in {} |-> NewEntry(NoPath, NoEntry)]
  /\ made = [t \in Threads |-> 0]
  /\ pc = [t \in Threads |-> "idle"]
  /\ op = [t \in Threads |-> "stat"]
  /\ \E root \in Paths : /\ Parent[root] = NoPath
                         /\ goal = [t \in Threads |-> root]
  /\ cur = goal
  /\ missing = [t \in Threads |-> {}]
  /\ at = [t \in Threads |-> NoEntry]
  /\ val = [t \in Threads |-> Unset]
  /\ plan \in Plans
  /\ changes = 0
  /\ since = [p \in Paths |-> {disk[p]}]
  /\ adm = [t \in Threads |-> since]
  /\ overlap = FALSE
  /\ asked = {}
  /\ settled = {}
  /\ told = [p \in Paths |-> {}]

Run(t) ==
  \/ Probe(t) \/ Insert(t)
  \/ Stat(t) \/ PkgInfo(t) \/ InitPkg(t) \/ ReadPkg(t)
  \/ StorePkg(t) \/ FailPkg(t)
  \/ ClearShard(t)

Next ==
  \/ \E t \in Threads : StartQuery(t) \/ StartClear(t) \/ Run(t)
  \/ Change

\* A thread inside a call is scheduled again and again; nobody has to make
\* calls, and the disk does not have to change.
Spec == Init /\ [][Next]_vars /\ \A t \in Threads : WF_vars(Run(t))

-----------------------------------------------------------------------------
(* Properties *)

Entry ==
  [path : Paths, parent : Ids \cup {NoEntry}, stat : Kinds \cup {NoStat},
   pkg : Descs \cup {Unset, NoDesc}, holder : Threads \cup {Nobody}]

\* Type invariant: the shape of the cache and of the threads' local state.
TypeOK ==
  /\ IsDisk(disk)
  /\ DOMAIN heap \subseteq Ids /\ heap \in [DOMAIN heap -> Entry]
  /\ entries \in [Paths -> DOMAIN heap \cup {NoEntry}]
  /\ made \in [Threads -> Nat]
  /\ pc \in [Threads -> {"idle", "probe", "insert", "stat", "pkg", "init",
                         "read", "store", "fail", "clear", "done"}]
  /\ op \in [Threads -> {"stat", "pkg", "clear"}]
  /\ goal \in [Threads -> Paths] /\ cur \in [Threads -> Paths]
  /\ missing \in [Threads -> SUBSET Paths]
  /\ at \in [Threads -> DOMAIN heap \cup {NoEntry}]
  /\ val \in [Threads -> Kinds \cup Descs \cup {Unset, NoDesc, BadJson}]
  /\ plan \in [Threads -> Seq(Call)] /\ changes \in Nat
  /\ since \in [Paths -> SUBSET (Contents \cup LeafKinds)]
  /\ adm \in [Threads -> [Paths -> SUBSET (Contents \cup LeafKinds)]]
  /\ overlap \in BOOLEAN /\ asked \subseteq Paths /\ settled \subseteq Threads
  /\ told \in [Paths -> SUBSET Kinds]

\* d was seen without a description file, or was no directory.
NoneIn(seen, d) == seen[d] \cap ({NoJson} \cup LeafKinds) # {}

\* v describes p if the description file was seen in v.dir, and none in the
\* directories from p up to v.dir.
DescExplains(seen, p, v) ==
  IF v = NoDesc
  THEN \A d \in Anc[p] \cap Dirs : NoneIn(seen, d)
  ELSE /\ v.dir \in Anc[p] /\ v.json \in seen[v.dir]
       /\ \A d \in (Anc[p] \ Anc[v.dir]) \cap Dirs : NoneIn(seen, d)

StatExplains(seen, p, k) ==
  IF p \in DescPaths
  THEN \/ k = Missing /\ NoneIn(seen, Parent[p])
       \/ k = File /\ seen[Parent[p]] \cap (Versions \cup {BadJson}) # {}
  ELSE \/ k = Dir /\ seen[p] \cap Contents # {}
       \/ k \in LeafKinds /\ k \in seen[p]

\* The answer of a call is one the disk gave at some moments since the last
\* clear_entries that had returned before the call was made: the nearest
\* package.json, file, directory or neither, or a malformed package.json on the
\* way up.
\* (tests/cases.rs, cache_fs and cache_fs2: what was changed before
\* clear_entries is seen after it.)
AnswersExplained ==
  \A t \in Threads : pc[t] = "done" =>
    CASE op[t] = "stat" -> StatExplains(adm[t], goal[t], val[t])
      [] op[t] = "pkg" /\ val[t] = BadJson ->
           \E d \in Anc[goal[t]] \cap Dirs : BadJson \in adm[t][d]
      [] op[t] = "pkg" /\ val[t] # BadJson ->
           DescExplains(adm[t], goal[t], val[t])

\* Any number of threads may miss, insert and initialise the same entries at
\* once: their answers are explained, and clear_entries is a fresh start, as
\* long as no clear_entries runs beside another call.
FreshAnswers == ~overlap => AnswersExplained

\* Two threads that miss a path at once may get different answers, because the
\* one whose Entry is not kept goes on with it.  That ends with the race: calls
\* that begin after a stat of the path was answered, and calls that are alone,
\* get one answer until clear_entries, whatever becomes of the file.
\* (tests/cases.rs, cache_fs2: the renamed file resolves as before.)
StableStat == ~overlap => \A p \in Paths : Cardinality(told[p]) <= 1

\* t waits for the initialiser of the cell of entry at[t].
Waits(t) == /\ pc[t] = "pkg"
            /\ heap[at[t]].pkg = Unset
            /\ heap[at[t]].holder \notin {Nobody, t}

\* A thread that waits for a package.json cell waits for a thread that is
\* at that entry or above it: whoever waits, waits for somebody nearer to
\* the root, so the threads in OnceCell::get_or_try_init cannot block each
\* other in a cycle.
WaitOrder ==
  \A t \in Threads : Waits(t) =>
    LET u == heap[at[t]].holder
    IN /\ pc[u] \in {"pkg", "init", "read", "store", "fail"}
       /\ heap[at[u]].path \in Anc[heap[at[t]].path]
       /\ Waits(u) => heap[at[u]].path # heap[at[t]].path

\* What a cell told one thread it tells every thread: a cell once set is
\* never set again, also when initialisers race, fail and are retried.
CellsWriteOnce ==
  [][\A i \in DOMAIN heap :
       /\ heap[i].stat # NoStat => heap'[i].stat = heap[i].stat
       /\ heap[i].pkg # Unset => heap'[i].pkg = heap[i].pkg]_heap

\* Every call returns: no thread is left waiting for a cell, also when the
\* initialiser it waited for failed.
CallsReturn ==
  \A t \in Threads :
    pc[t] \notin {"idle", "done"} ~> pc[t] \in {"idle", "done"}

=============================================================================
