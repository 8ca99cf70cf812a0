------------------------------ MODULE Symlink -------------------------------
(***************************************************************************)
(* resolve_symlink of plugin/symlink.rs, run by several threads on the     *)
(* cells `real` and `symlink` of the entries they share.                   *)
(*                                                                         *)
(* An entry is known by its path and its generation: clear_entries drops   *)
(* all entries, the calls that are running go on with theirs.  load_entry  *)
(* is one step here; EntryCache has its races.  A path is a sequence of    *)
(* names.  A disk says which paths are links and what dunce::canonicalize  *)
(* returns; other programs may change it between any two steps.            *)
(***************************************************************************)
EXTENDS Naturals, Sequences, SequencesExt

CONSTANTS
  Threads,
  Names,       \* the names that paths are made of
  Paths,       \* the paths that have entries
  Goals,       \* the paths of the results that resolve hands over
  Disks,       \* records of `link`, the paths that are links, and `canon`
  Fails,       \* canonicalize returns an error
  Unset,       \* a cell that has no value yet
  NoLink,      \* the cell `symlink` has None
  NoPath, Nobody,
  MaxCalls,    \* bound: calls made by each thread
  MaxChanges,  \* bound: changes of the disk
  MaxClears    \* bound: calls of clear_entries

Gens == 0..MaxClears
Results == Seq(Names)

\* Paths has the root and the parents of its members.
ASSUME PathAssumption ==
  /\ <<>> \in Paths /\ Goals \subseteq Paths
  /\ \A p \in Paths : p \in Seq(Names) /\ \A n \in 0..Len(p) : SubSeq(p, 1, n) \in Paths

\* What exists and is not a link is found below the canonical path of its parent.
ASSUME DiskAssumption ==
  \A d \in Disks :
    /\ d.link \subseteq Paths \ {<<>>}
    /\ d.canon \in [Paths -> Results \cup {Fails}]
    /\ d.canon[<<>>] = <<>>
    /\ \A p \in Paths \ (d.link \cup {<<>>}) : d.canon[p] # Fails =>
         /\ d.canon[Front(p)] # Fails
         /\ d.canon[p] = Append(d.canon[Front(p)], Last(p))
    \* a link is not canonical below a parent that is not there
    /\ \A p \in Paths \ {<<>>} : d.canon[p] # Fails => d.canon[Front(p)] # Fails

ASSUME SentinelAssumption ==
  /\ {Fails, Unset, NoLink, NoPath} \cap Results = {}
  /\ Unset # NoLink
  /\ Nobody \notin Threads

ASSUME BoundAssumption == {MaxCalls, MaxChanges, MaxClears} \subseteq Nat

VARIABLES
  disk, changes,
  gen,      \* the generation of the entries in the map
  real,     \* Entry::real of every entry
  link,     \* Entry::symlink of every entry
  holder,   \* the thread that initialises the cell `symlink`
  pc, calls,
  of,       \* the generation of the entries of the call
  goal,     \* head.path()
  at,       \* entry.path()
  found,    \* the local `symlink`, when it is Some
  ans,      \* the path the call returned
  since,    \* history: the disks since the last clear
  saw       \* history: per thread, the disks its call may use

world == <<disk, changes, gen>>
cells == <<real, link, holder>>
locals == <<of, goal, at, found>>
vars == <<world, cells, pc, calls, locals, ans, since, saw>>

-----------------------------------------------------------------------------
(* The disk and clear_entries *)

Change ==
  /\ changes < MaxChanges
  /\ changes' = changes + 1
  /\ disk' \in Disks \ {disk}
  /\ since' = since \cup {disk'}
  /\ saw' = [t \in Threads |-> saw[t] \cup {disk'}]
  /\ UNCHANGED <<gen, cells, pc, calls, locals, ans>>

Clear ==
  /\ gen < MaxClears
  /\ gen' = gen + 1
  /\ since' = {disk}
  /\ UNCHANGED <<disk, changes, cells, pc, calls, locals, ans, saw>>

-----------------------------------------------------------------------------
(* resolve_symlink *)

Goto(t, label) == pc' = [pc EXCEPT ![t] = label]

Start(t) ==
  /\ pc[t] \in {"idle", "done"}
  /\ calls[t] < MaxCalls
  /\ calls' = [calls EXCEPT ![t] = @ + 1]
  /\ \E p \in Goals : goal' = [goal EXCEPT ![t] = p] /\ at' = [at EXCEPT ![t] = p]
  /\ of' = [of EXCEPT ![t] = gen]
  /\ saw' = [saw EXCEPT ![t] = since]
  /\ Goto(t, "real")
  /\ UNCHANGED <<world, cells, found, ans, since>>

\* The first of the two values ends the loop.
Break(t, path) == found' = [found EXCEPT ![t] = path] /\ Goto(t, "finish")

\* entry.real()
AskReal(t) ==
  LET known == real[of[t]][at[t]]
  IN /\ pc[t] = "real"
     /\ \/ known # Unset /\ Break(t, known)
        \/ known = Unset /\ Goto(t, "link") /\ UNCHANGED found
     /\ UNCHANGED <<world, cells, calls, of, goal, at, ans, since, saw>>

\* No link here: on to entry.parent(), or out of the loop at the root, where
\* the path is its own real path and the stack holds every entry from the head.
Climb(t) ==
  /\ at' = [at EXCEPT ![t] = IF @ = <<>> THEN goal[t] ELSE Front(@)]
  /\ Goto(t, IF at[t] = <<>> THEN "own" ELSE "real")

\* entry.symlink(): the value of the cell, or be the one that initialises it.
\* Another thread's initialisation is waited for.
AskLink(t) ==
  LET known == link[of[t]][at[t]]
  IN /\ pc[t] = "link"
     /\ \/ /\ known \notin {Unset, NoLink}
           /\ Break(t, known)
           /\ UNCHANGED <<at, holder>>
        \/ /\ known = NoLink
           /\ Climb(t)
           /\ UNCHANGED <<found, holder>>
        \/ /\ known = Unset /\ holder[of[t]][at[t]] = Nobody
           /\ holder' = [holder EXCEPT ![of[t]][at[t]] = t]
           /\ Goto(t, "read_link")
           /\ UNCHANGED <<at, found>>
     /\ UNCHANGED <<world, real, link, calls, of, goal, ans, since, saw>>

\* Mutant of StoreLink: the lock inside the cell is kept.
StoreLinkHeld(t, value) ==
  /\ link' = IF value = NoLink THEN link ELSE [link EXCEPT ![of[t]][at[t]] = value]
  /\ Goto(t, "link")
  /\ UNCHANGED holder

\* The initialiser returns; the caller then finds the value in the cell.
StoreLink(t, value) ==
  /\ link' = [link EXCEPT ![of[t]][at[t]] = value]
  /\ holder' = [holder EXCEPT ![of[t]][at[t]] = Nobody]
  /\ Goto(t, "link")

ReadLink(t) ==
  /\ pc[t] = "read_link"
  /\ \/ /\ at[t] \notin disk.link
        /\ StoreLink(t, NoLink)
     \/ /\ at[t] \in disk.link
        /\ Goto(t, "canonicalize")
        /\ UNCHANGED <<link, holder>>
  /\ UNCHANGED <<world, real, calls, locals, ans, since, saw>>

\* Mutant of Canonicalize: an error is kept like a path.
CanonicalizeAny(t) ==
  /\ pc[t] = "canonicalize"
  /\ StoreLink(t, disk.canon[at[t]])
  /\ UNCHANGED <<world, real, calls, locals, ans, since, saw>>

\* dunce::canonicalize; None if it fails.
Canonicalize(t) ==
  LET path == disk.canon[at[t]]
  IN /\ pc[t] = "canonicalize"
     /\ StoreLink(t, IF path = Fails THEN NoLink ELSE path)
     /\ UNCHANGED <<world, real, calls, locals, ans, since, saw>>

\* init_real: the first value stays.
InitReal(t, p, value) ==
  real' = IF real[of[t]][p] = Unset THEN [real EXCEPT ![of[t]][p] = value] ELSE real

Return(t, path) ==
  /\ ans' = [ans EXCEPT ![t] = path]
  /\ found' = [found EXCEPT ![t] = NoPath]
  /\ Goto(t, "done")

\* Mutant of Rejoined: `index` counts one name too few.
RejoinedShort(t) ==
  found[t] \o SubSeq(goal[t], Len(at[t]) + 2, Len(goal[t]))

\* The `index` last names of the head, behind what was found above it.
Rejoined(t) == found[t] \o SubSeq(goal[t], Len(at[t]) + 1, Len(goal[t]))

\* Mutant of Finish: init_real of the entry where the loop stopped.
FinishAbove(t) ==
  /\ pc[t] = "finish"
  /\ InitReal(t, at[t], Rejoined(t))
  /\ Return(t, Rejoined(t))
  /\ UNCHANGED <<world, link, holder, calls, of, goal, at, since, saw>>

Finish(t) ==
  /\ pc[t] = "finish"
  /\ InitReal(t, goal[t], Rejoined(t))
  /\ Return(t, Rejoined(t))
  /\ UNCHANGED <<world, link, holder, calls, of, goal, at, since, saw>>

\* for_each over the stack, head first: every entry is its own real path.
InitOwn(t) ==
  /\ pc[t] = "own"
  /\ InitReal(t, at[t], at[t])
  /\ \/ /\ at[t] # <<>>
        /\ at' = [at EXCEPT ![t] = Front(@)]
        /\ UNCHANGED <<pc, ans, found>>
     \/ /\ at[t] = <<>>
        /\ Return(t, goal[t])
        /\ UNCHANGED at
  /\ UNCHANGED <<world, link, holder, calls, of, goal, since, saw>>

-----------------------------------------------------------------------------
Init ==
  /\ disk \in Disks /\ changes = 0 /\ gen = 0
  /\ real = [g \in Gens |-> [p \in Paths |-> Unset]]
  /\ link = [g \in Gens |-> [p \in Paths |-> Unset]]
  /\ holder = [g \in Gens |-> [p \in Paths |-> Nobody]]
  /\ pc = [t \in Threads |-> "idle"]
  /\ calls = [t \in Threads |-> 0]
  /\ of = [t \in Threads |-> 0]
  /\ goal = [t \in Threads |-> <<>>]
  /\ at = [t \in Threads |-> <<>>]
  /\ found = [t \in Threads |-> NoPath]
  /\ ans = [t \in Threads |-> NoPath]
  /\ since = {disk}
  /\ saw = [t \in Threads |-> {}]

Run(t) == AskReal(t) \/ AskLink(t) \/ ReadLink(t) \/ Canonicalize(t)
          \/ Finish(t) \/ InitOwn(t)

Next == Change \/ Clear \/ \E t \in Threads : Start(t) \/ Run(t)

\* A thread that is inside a call goes on.
Spec == Init /\ [][Next]_vars /\ \A t \in Threads : WF_vars(Run(t))

-----------------------------------------------------------------------------
(* Properties *)

Busy(t) == pc[t] \notin {"idle", "done"}

\* Type invariant.
TypeOK ==
  /\ disk \in Disks /\ changes \in 0..MaxChanges /\ gen \in Gens
  /\ real \in [Gens -> [Paths -> Results \cup {Unset}]]
  /\ link \in [Gens -> [Paths -> Results \cup {Unset, NoLink}]]
  /\ holder \in [Gens -> [Paths -> Threads \cup {Nobody}]]
  /\ pc \in [Threads -> {"idle", "real", "link", "read_link", "canonicalize",
                         "finish", "own", "done"}]
  /\ calls \in [Threads -> 0..MaxCalls]
  /\ of \in [Threads -> Gens]
  /\ goal \in [Threads -> Paths] /\ at \in [Threads -> Paths]
  /\ \A t \in Threads : \E n \in 0..Len(goal[t]) : at[t] = SubSeq(goal[t], 1, n)
  /\ found \in [Threads -> Results \cup {NoPath}]
  /\ ans \in [Threads -> Results \cup {NoPath}]
  /\ since \subseteq Disks
  /\ saw \in [Threads -> SUBSET Disks]

\* What a directory or file memoises is good for all later requests below it:
\* while the disk is the one there was at the last clear_entries, every cell
\* has the canonical path of its own entry, whichever request filled it.
CellsCanonical ==
  \A d \in Disks : since = {d} =>
    \A p \in Paths : d.canon[p] # Fails =>
      /\ real[gen][p] \in {Unset, d.canon[p]}
      /\ link[gen][p] \in {Unset, IF p \in d.link THEN d.canon[p] ELSE NoLink}

\* The calls implement RealPath.
Promise == INSTANCE RealPath WITH
  asked <- [t \in Threads |-> IF Busy(t) THEN goal[t] ELSE NoPath],
  answer <- ans

\* To one question there is one answer, canonical if the disk stayed as it was,
\* explained by the disks there were if it did not.
AnswersCanonical == Promise!Safe

\* And every question is answered: no thread waits for a cell that no other
\* thread fills.
ImplementsRealPath == Promise!Spec
=============================================================================
