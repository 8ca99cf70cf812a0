------------------------------ MODULE CachedFs ------------------------------
(***************************************************************************)
(* The file cache of fs.rs, for one file that several threads read.        *)
(*                                                                         *)
(* CachedFS keeps the parsed content of a file together with the           *)
(* modification time its reader had seen, and uses it again for a reader   *)
(* whose time is less than Debounce later.  read_tsconfig is given the     *)
(* time in the stat cell of the file's Entry, which lives until            *)
(* clear_entries (see EntryCache); CachedFS itself is never cleared.       *)
(* read_description_file is given no time.                                 *)
(*                                                                         *)
(* Another program writes the file, or renames it away and back.  A write  *)
(* takes the time of the clock, which never goes back.                     *)
(***************************************************************************)
EXTENDS Naturals

CONSTANTS
  Threads,    \* the threads that share the cache
  Field,      \* the map of CachedFS: "tsconfigs" or "descriptions"
  Debounce,   \* DEBOUNCE_INTERVAL
  MaxCalls,   \* bound: calls made by each thread
  MaxWrites,  \* bound: writes and renames of the file
  MaxTime,    \* bound: the clock
  Missing, NoTime, NoStat, NoEntry, Nothing, Panic

Times == 0..MaxTime
\* A version of the file: its number, when it was written, does it parse.
Version == [no : Nat, mtime : Times, ok : BOOLEAN]
Ids == Threads \X (1..MaxCalls)

ASSUME BoundAssumption ==
  /\ Field \in {"tsconfigs", "descriptions"}
  /\ Debounce \in Nat \ {0}
  /\ MaxCalls \in Nat /\ MaxWrites \in Nat /\ MaxTime \in Nat

ASSUME SentinelAssumption ==
  /\ Missing \notin Version /\ Nothing \notin Version /\ Panic \notin Version
  /\ Panic # Missing /\ Nothing # Missing /\ Nothing # Panic
  /\ Missing \notin Times /\ NoTime \notin Times /\ NoStat \notin Times
  /\ NoStat # Missing /\ NoTime # Missing /\ NoEntry \notin Ids
  /\ Nothing \notin [content : Version, modified : Times \cup {NoTime}]

VARIABLES
  now,      \* the clock
  last,     \* the version written last
  present,  \* is it at its path, or renamed away
  writes,   \* how often the file was written or renamed
  cached,   \* the CachedEntry of the file in the map, or Nothing
  entry,    \* Cache::entries at the file: the id of an Entry, or NoEntry
  stat,     \* the `stat` cell of every Entry: NoStat, Missing or its time
  pc, calls,
  at,       \* the Entry the thread got from load_entry
  modified, \* file_stat.modified() of the call
  text,     \* what fs::read_to_string returned
  val,      \* the answer
  since,    \* history: the contents since the last clear
  adm       \* history: per thread, the contents its call may report

file == <<now, last, present, writes>>
history == <<since, adm>>
vars == <<file, cached, entry, stat, pc, calls, at, modified, text, val, history>>

File == IF present THEN last ELSE Missing

-----------------------------------------------------------------------------
(* The file *)

Tick ==
  /\ now < MaxTime
  /\ now' = now + 1
  /\ UNCHANGED <<last, present, writes, cached, entry, stat, pc, calls, at,
                 modified, text, val, history>>

Change ==
  /\ writes < MaxWrites
  /\ writes' = writes + 1
  /\ since' = since \cup {File'}
  /\ adm' = [t \in Threads |-> adm[t] \cup {File'}]
  /\ UNCHANGED <<now, cached, entry, stat, pc, calls, at, modified, text, val>>

Write ==
  /\ \E ok \in BOOLEAN : last' = [no |-> last.no + 1, mtime |-> now, ok |-> ok]
  /\ present' = TRUE
  /\ Change

\* A rename keeps the modification time.
Rename ==
  /\ present' = ~present
  /\ UNCHANGED last
  /\ Change

-----------------------------------------------------------------------------
(* parse_file_to_value and pkg_info, up to their call of CachedFS *)

\* Does the caller pass the stat of the entry, or EntryStat::default()?
StatGiven == Field = "tsconfigs"

Start(t) ==
  /\ pc[t] \in {"idle", "done"}
  /\ calls[t] < MaxCalls
  /\ calls' = [calls EXCEPT ![t] = @ + 1]
  /\ pc' = [pc EXCEPT ![t] = IF StatGiven THEN "probe" ELSE "get"]
  /\ val' = [val EXCEPT ![t] = Nothing]
  /\ adm' = [adm EXCEPT ![t] = IF Field = "tsconfigs" THEN since ELSE {File}]
  /\ UNCHANGED <<file, cached, entry, stat, at, modified, text, since>>

\* load_entry, which returns the entry of the map or its own.
Probe(t) ==
  /\ pc[t] = "probe"
  /\ IF entry = NoEntry
     THEN pc' = [pc EXCEPT ![t] = "insert"] /\ UNCHANGED at
     ELSE pc' = [pc EXCEPT ![t] = "stat"] /\ at' = [at EXCEPT ![t] = entry]
  /\ UNCHANGED <<file, cached, entry, stat, calls, modified, text, val, history>>

Insert(t) ==
  LET id == <<t, calls[t]>>
  IN /\ pc[t] = "insert"
     /\ entry' = IF entry = NoEntry THEN id ELSE entry
     /\ at' = [at EXCEPT ![t] = id]
     /\ pc' = [pc EXCEPT ![t] = "stat"]
     /\ UNCHANGED <<file, cached, stat, calls, modified, text, val, history>>

\* The call returns v, and what it knew is gone.
Answer(t, v) ==
  /\ val' = [val EXCEPT ![t] = v]
  /\ pc' = [pc EXCEPT ![t] = "done"]
  /\ at' = [at EXCEPT ![t] = NoEntry]
  /\ modified' = [modified EXCEPT ![t] = NoTime]
  /\ text' = [text EXCEPT ![t] = Missing]

\* Mutant of Stat: whether it is a file is not asked.
StatUnchecked(t) ==
  LET s == IF stat[at[t]] # NoStat THEN stat[at[t]]
           ELSE IF present THEN last.mtime ELSE Missing
  IN /\ pc[t] = "stat"
     /\ stat' = [stat EXCEPT ![at[t]] = s]
     /\ modified' = [modified EXCEPT ![t] = s]
     /\ pc' = [pc EXCEPT ![t] = "get"]
     /\ UNCHANGED <<file, cached, entry, calls, val, at, text, history>>

\* is_file fills the stat cell; Error::CantFindTsConfig when it is not one.
Stat(t) ==
  LET s == IF stat[at[t]] # NoStat THEN stat[at[t]]
           ELSE IF present THEN last.mtime ELSE Missing
  IN /\ pc[t] = "stat"
     /\ stat' = [stat EXCEPT ![at[t]] = s]
     /\ \/ /\ s = Missing
           /\ Answer(t, Missing)
        \/ /\ s # Missing
           /\ modified' = [modified EXCEPT ![t] = s]
           /\ pc' = [pc EXCEPT ![t] = "get"]
           /\ UNCHANGED <<val, at, text>>
     /\ UNCHANGED <<file, cached, entry, calls, history>>

-----------------------------------------------------------------------------
(* CachedFS *)

\* Mutant of Within: `<=`.
WithinOrEqual(before, after) ==
  before # NoTime /\ after # NoTime /\ before <= after + Debounce

\* is_modified, which says whether the content is still good, for times of
\* which `before` is not less than `after`.
Within(before, after) ==
  before # NoTime /\ after # NoTime /\ before < after + Debounce

\* Mutant of Panics: duration_since fails for equal times, too.
PanicsLater(before, after) ==
  before # NoTime /\ after # NoTime /\ before <= after

\* before.duration_since(after).expect("after > before")
Panics(before, after) ==
  before # NoTime /\ after # NoTime /\ before < after

Get(t) ==
  LET hit == cached # Nothing
  IN /\ pc[t] = "get"
     /\ \/ /\ hit /\ Panics(modified[t], cached.modified)
           /\ Answer(t, Panic)
        \/ /\ hit /\ ~Panics(modified[t], cached.modified)
           /\ Within(modified[t], cached.modified)
           /\ Answer(t, cached.content)
        \/ /\ hit => /\ ~Panics(modified[t], cached.modified)
                     /\ ~Within(modified[t], cached.modified)
           /\ pc' = [pc EXCEPT ![t] = "read"]
           /\ UNCHANGED <<val, at, modified, text>>
     /\ UNCHANGED <<file, cached, entry, stat, calls, history>>

\* fs::read_to_string, Error::Io when the file is not there.
Read(t) ==
  /\ pc[t] = "read"
  /\ \/ /\ ~present
        /\ Answer(t, Missing)
     \/ /\ present
        /\ text' = [text EXCEPT ![t] = last]
        /\ pc' = [pc EXCEPT ![t] = "store"]
        /\ UNCHANGED <<val, at, modified>>
  /\ UNCHANGED <<file, cached, entry, stat, calls, history>>

\* The parser's error is returned, a value is kept with the caller's time.
Store(t) ==
  /\ pc[t] = "store"
  /\ cached' = IF text[t].ok
               THEN [content |-> text[t], modified |-> modified[t]]
               ELSE cached
  /\ Answer(t, text[t])
  /\ UNCHANGED <<file, entry, stat, calls, history>>

\* clear_entries.
Clear ==
  /\ entry' = NoEntry
  /\ since' = {File}
  /\ UNCHANGED <<file, cached, stat, pc, calls, at, modified, text, val, adm>>

-----------------------------------------------------------------------------
Init ==
  /\ now = 0 /\ writes = 0
  /\ last \in [no : {0}, mtime : {0}, ok : BOOLEAN]
  /\ present \in BOOLEAN
  /\ cached = Nothing
  /\ entry = NoEntry
  /\ stat = [i \in Ids |-> NoStat]
  /\ pc = [t \in Threads |-> "idle"]
  /\ calls = [t \in Threads |-> 0]
  /\ at = [t \in Threads |-> NoEntry]
  /\ modified = [t \in Threads |-> NoTime]
  /\ text = [t \in Threads |-> Missing]
  /\ val = [t \in Threads |-> Nothing]
  /\ since = {File}
  /\ adm = [t \in Threads |-> since]

Run(t) == \/ Start(t) \/ Probe(t) \/ Insert(t) \/ Stat(t)
          \/ Get(t) \/ Read(t) \/ Store(t)

Next == \/ \E t \in Threads : Run(t)
        \/ Tick \/ Write \/ Rename \/ Clear

Spec == Init /\ [][Next]_vars

-----------------------------------------------------------------------------
(* Properties *)

\* Type invariant.
TypeOK ==
  /\ now \in Times /\ last \in Version /\ present \in BOOLEAN /\ writes \in Nat
  /\ cached \in [content : Version, modified : Times \cup {NoTime}] \cup {Nothing}
  /\ entry \in Ids \cup {NoEntry}
  /\ stat \in [Ids -> Times \cup {NoStat, Missing}]
  /\ pc \in [Threads -> {"idle", "probe", "insert", "stat", "get", "read",
                         "store", "done"}]
  /\ calls \in [Threads -> 0..MaxCalls]
  /\ at \in [Threads -> Ids \cup {NoEntry}]
  /\ modified \in [Threads -> Times \cup {NoTime}]
  /\ text \in [Threads -> Version \cup {Missing}]
  /\ val \in [Threads -> Version \cup {Nothing, Missing, Panic}]
  /\ since \subseteq Version \cup {Missing}
  /\ adm \in [Threads -> SUBSET (Version \cup {Missing})]

\* read_tsconfig answers what the file was since the last clear_entries, or
\* an older version that another one followed in less than Debounce: nothing
\* is missed when writes are further apart, as in tests/cases.rs, which sleeps
\* between them.  Only a version that parses is answered when it is gone.
Debounced ==
  \A t \in Threads : pc[t] = "done" /\ val[t] # Panic =>
    \/ val[t] \in adm[t]
    \/ /\ val[t] # Missing /\ val[t].ok
       /\ \E v \in adm[t] \ {Missing} :
            val[t].mtime <= v.mtime /\ v.mtime < val[t].mtime + Debounce

\* The answer is what the file was while it may be reported: for a
\* package.json, during the call itself.
AnswersCurrent ==
  \A t \in Threads : pc[t] = "done" /\ val[t] # Panic => val[t] \in adm[t]

\* before.duration_since(after).expect("after > before"): a reader never
\* brings an older time than the one in the cache.  (True of one thread.)
NoPanic == \A t \in Threads : val[t] # Panic

\* When it does, the file did not go back in time: two Entries of the path were
\* made, and their stat cells hold different times.
PanicExplained ==
  \A t \in Threads : val[t] = Panic =>
    \E i, j \in Ids : stat[i] \in Times /\ stat[j] \in Times /\ stat[i] < stat[j]

=============================================================================
