--------------------------- MODULE CachedFsProofs ---------------------------
(***************************************************************************)
(* Proofs about CachedFs for any number of threads, any debounce interval  *)
(* and any bounds.                                                         *)
(***************************************************************************)
EXTENDS CachedFs, TLAPS

\* A time or Missing in a stat cell, or the time of a call, was seen in S.
Seen(s, S) ==
  /\ s \in Times => \E v \in S \ {Missing} : v.mtime = s
  /\ s = Missing => Missing \in S
  /\ s \in Times => s <= last.mtime

\* A version that a reader has is one of S or older than all of them.
Ordered(x, S) == x \in S \/ \A v \in S \ {Missing} : x.mtime <= v.mtime

\* An id that a call has taken.
Used(i) ==
  \/ i[2] < calls[i[1]]
  \/ i[2] = calls[i[1]] /\ pc[i[1]] \notin {"probe", "insert"}

EntryInv ==
  /\ \A i \in Ids : ~Used(i) => stat[i] = NoStat
  /\ entry # NoEntry => Used(entry) /\ Seen(stat[entry], since)

\* What is kept was read after its time was taken, and it parsed.
CachedInv ==
  cached # Nothing =>
    /\ cached.content.ok
    /\ cached.modified # NoTime => cached.modified <= cached.content.mtime
    /\ Field = "descriptions" => cached.modified = NoTime

AnswerInv(t) ==
  pc[t] = "done" /\ val[t] # Panic =>
    \/ val[t] \in adm[t]
    \/ /\ Field = "tsconfigs"
       /\ val[t] # Missing /\ val[t].ok
       /\ \E v \in adm[t] \ {Missing} :
            val[t].mtime <= v.mtime /\ v.mtime < val[t].mtime + Debounce

CallInv(t) ==
  /\ File \in adm[t]
  /\ Field = "tsconfigs" => since \subseteq adm[t]
  /\ pc[t] \in {"probe", "insert", "stat"} => Field = "tsconfigs" /\ calls[t] # 0
  /\ pc[t] \notin {"get", "read", "store"} => modified[t] = NoTime
  /\ Field = "descriptions" => modified[t] = NoTime
  /\ Seen(modified[t], adm[t])
  /\ pc[t] = "stat" => /\ at[t] \in Ids /\ Used(at[t])
                       /\ Seen(stat[at[t]], adm[t])
  /\ pc[t] = "store" => /\ text[t] \in adm[t] \ {Missing}
                        /\ modified[t] # NoTime => modified[t] <= text[t].mtime
  /\ AnswerInv(t)

Inv ==
  /\ TypeOK /\ last.mtime <= now /\ File \in since
  /\ EntryInv /\ CachedInv
  /\ \A t \in Threads : CallInv(t)

Behind(x) ==
  x.mtime <= last.mtime /\ Ordered(x, since) /\ \A t \in Threads : Ordered(x, adm[t])

\* The clock orders what is kept, or about to be, and what may be reported.
OrderInv ==
  /\ cached # Nothing => Behind(cached.content)
  /\ \A t \in Threads : pc[t] = "store" => Behind(text[t])

USE DEF StatGiven, file, history

LEMMA InitInv == Init => Inv
<1> SUFFICES ASSUME Init PROVE Inv
  OBVIOUS
<1> USE BoundAssumption, SentinelAssumption
<1>1. last \in Version /\ last.mtime = 0 /\ 0 \in Times
  BY DEF Init, Version, Times
<1>2. TypeOK
  BY <1>1 DEF Init, TypeOK, File
<1>3. EntryInv /\ CachedInv
  BY DEF Init, EntryInv, CachedInv
<1>4. \A t \in Threads : CallInv(t)
  BY <1>1 DEF Init, CallInv, AnswerInv, Seen, File
<1> QED
  BY <1>1, <1>2, <1>3, <1>4 DEF Init, Inv, File

-----------------------------------------------------------------------------
(* The environment *)

\* More contents and later writes leave what was seen.
LEMMA SeenMore ==
  ASSUME Inv, NEW s \in Times \cup {NoTime, NoStat, Missing}, NEW S, NEW R,
         S \subseteq R, Seen(s, S), last' \in Version, last.mtime <= last'.mtime
  PROVE  Seen(s, R)'
  BY DEF Seen, Inv, TypeOK, Version, Times

LEMMA ChangeKeeps ==
  ASSUME Inv, Change, last' \in Version, last.mtime <= last'.mtime,
         last'.mtime <= now, present' \in BOOLEAN
  PROVE  Inv'
<1>1. File' \in Version \cup {Missing}
  BY DEF File
<1>2. TypeOK'
  BY <1>1 DEF Inv, TypeOK, Change
<1>3. last'.mtime <= now' /\ File' \in since'
  BY DEF Change
<1>4. EntryInv'
  <2>1. \A i \in Ids : Used(i)' = Used(i)
    BY DEF Used, Change
  <2>2. ASSUME entry # NoEntry PROVE Used(entry)' /\ Seen(stat[entry], since)'
    <3>1. /\ entry \in Ids /\ stat[entry] \in Times \cup {NoTime, NoStat, Missing}
          /\ Used(entry) /\ Seen(stat[entry], since) /\ UNCHANGED <<entry, stat>>
          /\ since \subseteq since'
      BY <2>2 DEF Inv, TypeOK, EntryInv, Change
    <3>2. Seen(stat[entry], since)'
      BY <3>1, SeenMore
    <3>3. Used(entry)'
      BY <2>1, <3>1
    <3> QED
      BY <3>2, <3>3
  <2> QED
    BY <2>1, <2>2 DEF Inv, EntryInv, Change, Seen
<1>5. CachedInv'
  BY DEF Inv, CachedInv, Change
<1>6. ASSUME NEW t \in Threads PROVE CallInv(t)'
  <2>1. /\ adm'[t] = adm[t] \cup {File'} /\ since' = since \cup {File'}
        /\ UNCHANGED <<cached, entry, stat, pc, calls, at, modified, text, val>>
    BY DEF Change
  <2>2. /\ CallInv(t) /\ modified[t] \in Times \cup {NoTime}
        /\ stat \in [Ids -> Times \cup {NoStat, Missing}]
    BY DEF Inv, TypeOK
  <2>3. Seen(modified[t], adm[t])'
    BY <2>1, <2>2, SeenMore DEF CallInv
  <2>4. pc[t] = "stat" => /\ at[t] \in Ids /\ Used(at[t])'
                          /\ Seen(stat[at[t]], adm[t])'
    BY <2>1, <2>2, SeenMore DEF CallInv, Used
  <2>5. AnswerInv(t)'
    BY <2>1, <2>2 DEF CallInv, AnswerInv
  <2> QED
    BY <2>1, <2>2, <2>3, <2>4, <2>5 DEF CallInv
<1> QED
  BY <1>2, <1>3, <1>4, <1>5, <1>6 DEF Inv

LEMMA FileKeeps ==
  ASSUME Inv, Write \/ Rename
  PROVE  Inv'
<1>1. /\ last' \in Version /\ last.mtime <= last'.mtime /\ last'.mtime <= now
      /\ present' \in BOOLEAN /\ Change
  <2>1. /\ last \in Version /\ last.mtime \in Nat /\ last.mtime <= now
        /\ now \in Times /\ last.no \in Nat /\ present \in BOOLEAN
    BY BoundAssumption DEF Inv, TypeOK, Version, Times
  <2>2. CASE Write
    <3>1. PICK ok \in BOOLEAN :
            last' = [no |-> last.no + 1, mtime |-> now, ok |-> ok]
      BY <2>2 DEF Write
    <3>2. last' \in Version /\ last'.mtime = now
      BY <2>1, <3>1 DEF Version
    <3> QED
      BY <2>1, <2>2, <3>2 DEF Write, Times
  <2>3. CASE Rename
    BY <2>1, <2>3 DEF Rename
  <2> QED
    BY <2>2, <2>3
<1> QED
  BY <1>1, ChangeKeeps

LEMMA TickKeeps ==
  ASSUME Inv, Tick
  PROVE  Inv'
<1>1. TypeOK' /\ last'.mtime <= now' /\ File' \in since'
  BY BoundAssumption DEF Tick, Inv, TypeOK, Times, Version, File
<1>2. EntryInv' /\ CachedInv'
  BY DEF Tick, Inv, EntryInv, CachedInv, Used, Seen
<1>3. \A t \in Threads : CallInv(t)'
  BY DEF Tick, Inv, CallInv, AnswerInv, Used, Seen, File
<1> QED
  BY <1>1, <1>2, <1>3 DEF Inv

LEMMA ClearKeeps ==
  ASSUME Inv, Clear
  PROVE  Inv'
<1>1. TypeOK' /\ last'.mtime <= now' /\ File' \in since'
  BY DEF Clear, Inv, TypeOK, File
<1>2. EntryInv' /\ CachedInv'
  BY DEF Clear, Inv, EntryInv, CachedInv, Used
<1>3. \A t \in Threads : CallInv(t)'
  BY DEF Clear, Inv, CallInv, AnswerInv, Used, Seen, File
<1> QED
  BY <1>1, <1>2, <1>3 DEF Inv

-----------------------------------------------------------------------------
(* The threads *)

\* A step of t leaves what another thread u knows alone.
LEMMA OtherCall ==
  ASSUME Inv, NEW u \in Threads, UNCHANGED <<file, since>>,
         adm'[u] = adm[u], pc'[u] = pc[u], calls'[u] = calls[u],
         at'[u] = at[u], modified'[u] = modified[u], text'[u] = text[u],
         val'[u] = val[u],
         \A i \in Ids : Used(i) => Used(i)',
         pc[u] = "stat" => Seen(stat[at[u]], adm[u])'
  PROVE  CallInv(u)'
<1>1. CallInv(u)
  BY DEF Inv
<1>2. File' = File
  BY DEF File
<1>3. Seen(modified[u], adm[u])'
  BY <1>1 DEF CallInv, Seen
<1>4. AnswerInv(u)'
  BY <1>1 DEF CallInv, AnswerInv
<1> QED
  BY <1>1, <1>2, <1>3, <1>4 DEF CallInv

\* Steps that leave the entries and their cells alone.
LEMMA SameEntries ==
  ASSUME Inv, UNCHANGED <<file, since, entry, stat>>,
         \A i \in Ids : Used(i) => Used(i)'
  PROVE  /\ EntryInv'
         /\ \A u \in Threads : at'[u] = at[u] /\ adm'[u] = adm[u] /\ pc[u] = "stat"
                               => Seen(stat[at[u]], adm[u])'
<1>1. EntryInv'
  <2>1. \A i \in Ids : ~Used(i)' => stat'[i] = NoStat
    BY DEF Inv, EntryInv
  <2>2. entry' # NoEntry => Used(entry)' /\ Seen(stat[entry], since)'
    BY DEF Inv, TypeOK, EntryInv, Seen
  <2> QED
    BY <2>1, <2>2 DEF EntryInv
<1>2. \A u \in Threads : pc[u] = "stat" => Seen(stat[at[u]], adm[u])
  BY DEF Inv, CallInv
<1> QED
  BY <1>1, <1>2 DEF Seen

LEMMA StartKeeps ==
  ASSUME Inv, NEW t \in Threads, Start(t)
  PROVE  Inv'
<1>1. /\ pc[t] \in {"idle", "done"} /\ calls' = [calls EXCEPT ![t] = @ + 1]
      /\ pc' = [pc EXCEPT ![t] = IF StatGiven THEN "probe" ELSE "get"]
      /\ UNCHANGED <<file, cached, entry, stat, at, modified, text, since>>
      /\ calls[t] \in Nat /\ calls[t] < MaxCalls /\ modified[t] = NoTime
  BY BoundAssumption DEF Start, Inv, TypeOK, CallInv
<1>2. TypeOK'
  BY <1>1, BoundAssumption DEF Start, Inv, TypeOK, File
<1>3. \A i \in Ids : Used(i) => Used(i)'
  BY <1>1, BoundAssumption DEF Used, Inv, TypeOK, Ids
<1>5. EntryInv'
  BY <1>1, <1>3, SameEntries
<1>6. /\ CachedInv' /\ File' \in since' /\ last'.mtime <= now'
  BY <1>1 DEF Inv, CachedInv, File
<1>7. CallInv(t)'
  <2>1. /\ adm'[t] = IF Field = "tsconfigs" THEN since ELSE {File}
        /\ pc'[t] = IF StatGiven THEN "probe" ELSE "get"
        /\ calls'[t] = calls[t] + 1 /\ modified'[t] = NoTime
    BY <1>1 DEF Start, Inv, TypeOK
  <2>2. File' = File /\ File \in since
    BY <1>1 DEF File, Inv
  <2> QED
    BY <1>1, <2>1, <2>2, BoundAssumption, SentinelAssumption
    DEF CallInv, AnswerInv, Seen
<1>8. ASSUME NEW u \in Threads, u # t PROVE CallInv(u)'
  <2>1. /\ pc'[u] = pc[u] /\ calls'[u] = calls[u] /\ val'[u] = val[u]
        /\ adm'[u] = adm[u]
    BY <1>8 DEF Start, Inv, TypeOK
  <2> QED
    BY <1>1, <1>3, <2>1, SameEntries, OtherCall
<1> QED
  BY <1>2, <1>5, <1>6, <1>7, <1>8 DEF Inv

LEMMA ProbeKeeps ==
  ASSUME Inv, NEW t \in Threads, Probe(t)
  PROVE  Inv'
<1>1. /\ pc[t] = "probe" /\ CallInv(t)
      /\ UNCHANGED <<file, cached, entry, stat, calls, modified, text, val, history>>
      /\ \/ /\ entry = NoEntry /\ pc' = [pc EXCEPT ![t] = "insert"] /\ UNCHANGED at
         \/ /\ entry # NoEntry /\ pc' = [pc EXCEPT ![t] = "stat"]
            /\ at' = [at EXCEPT ![t] = entry]
  BY DEF Probe, Inv
<1>2. TypeOK' /\ CachedInv' /\ File' \in since' /\ last'.mtime <= now'
  BY <1>1 DEF Inv, TypeOK, CachedInv, File
<1>3. \A i \in Ids : Used(i) => Used(i)'
  BY <1>1 DEF Used, Inv, TypeOK, Ids
<1>4. EntryInv'
  BY <1>1, <1>3, SameEntries
<1>5. CallInv(t)'
  <2>1. entry # NoEntry => /\ entry \in Ids /\ Used(entry)'
                           /\ Seen(stat[entry], adm[t])
    BY <1>1, <1>3 DEF Inv, TypeOK, EntryInv, CallInv, Seen
  <2>2. \/ pc'[t] = "insert"
        \/ pc'[t] = "stat" /\ at'[t] = entry /\ entry # NoEntry
    BY <1>1 DEF Inv, TypeOK
  <2> QED
    BY <1>1, <2>1, <2>2 DEF CallInv, AnswerInv, Seen, File
<1>6. ASSUME NEW u \in Threads, u # t PROVE CallInv(u)'
  <2>1. pc'[u] = pc[u] /\ at'[u] = at[u]
    BY <1>1, <1>6 DEF Inv, TypeOK
  <2> QED
    BY <1>1, <1>3, <2>1, SameEntries, OtherCall
<1> QED
  BY <1>2, <1>4, <1>5, <1>6 DEF Inv

LEMMA InsertKeeps ==
  ASSUME Inv, NEW t \in Threads, Insert(t)
  PROVE  Inv'
<1>1. /\ calls[t] \in 1..MaxCalls /\ <<t, calls[t]>> \in Ids
  <2>1. calls[t] \in 0..MaxCalls /\ calls[t] # 0
    BY DEF Insert, CallInv, Inv, TypeOK
  <2> QED
    BY <2>1, BoundAssumption DEF Ids
<1>2. PICK id \in Ids :
        /\ id = <<t, calls[t]>> /\ id[1] = t /\ id[2] = calls[t]
        /\ pc[t] = "insert" /\ CallInv(t)
        /\ UNCHANGED <<file, cached, stat, calls, modified, text, val, history>>
        /\ entry' = IF entry = NoEntry THEN id ELSE entry
        /\ at' = [at EXCEPT ![t] = id] /\ pc' = [pc EXCEPT ![t] = "stat"]
  BY <1>1 DEF Insert, Inv
<1>3. stat[id] = NoStat
  <2>1. ~Used(id)
    BY <1>1, <1>2, BoundAssumption DEF Used
  <2> QED
    BY <1>2, <2>1 DEF Inv, EntryInv
<1>4. /\ \A i \in Ids : Used(i) => Used(i)'
      /\ Used(id)'
  <2>1. pc'[t] = "stat" /\ \A u \in Threads \ {t} : pc'[u] = pc[u]
    BY <1>2 DEF Inv, TypeOK
  <2>2. Used(id)'
    BY <1>2, <2>1 DEF Used
  <2>3. ASSUME NEW i \in Ids, Used(i) PROVE Used(i)'
    <3>1. i[1] \in Threads
      BY DEF Ids
    <3>2. CASE i[1] = t
      BY <1>2, <2>1, <2>3, <3>2 DEF Used
    <3>3. CASE i[1] # t
      BY <1>2, <2>1, <2>3, <3>1, <3>3 DEF Used
    <3> QED
      BY <3>2, <3>3
  <2> QED
    BY <2>2, <2>3
<1>5. TypeOK' /\ CachedInv' /\ File' \in since' /\ last'.mtime <= now'
  BY <1>2 DEF Inv, TypeOK, CachedInv, File
<1>6. EntryInv'
  <2>1. \A i \in Ids : ~Used(i)' => stat'[i] = NoStat
    BY <1>2, <1>4 DEF Inv, EntryInv
  <2>2. CASE entry = NoEntry
    <3>1. entry' = id /\ stat'[entry'] = NoStat
      BY <1>2, <1>3, <2>2
    <3>2. Used(entry)'
      BY <1>4, <3>1 DEF Used
    <3>3. Seen(stat[entry], since)'
      BY <3>1, SentinelAssumption DEF Seen
    <3> QED
      BY <2>1, <3>2, <3>3 DEF EntryInv
  <2>3. CASE entry # NoEntry
    <3>1. /\ entry' = entry /\ entry \in Ids /\ Used(entry) /\ Seen(stat[entry], since)
      BY <1>2, <2>3 DEF Inv, TypeOK, EntryInv
    <3>2. Used(entry)'
      BY <1>4, <3>1 DEF Used
    <3>3. Seen(stat[entry], since)'
      BY <1>2, <3>1 DEF Seen
    <3> QED
      BY <2>1, <3>2, <3>3 DEF EntryInv
  <2> QED
    BY <2>2, <2>3
<1>7. CallInv(t)'
  <2>1. pc'[t] = "stat" /\ at'[t] = id
    BY <1>2 DEF Inv, TypeOK
  <2>2. Seen(stat[at[t]], adm[t])'
    BY <1>2, <1>3, <2>1, SentinelAssumption DEF Seen
  <2> QED
    BY <1>2, <1>4, <2>1, <2>2 DEF CallInv, AnswerInv, Seen, File
<1>8. ASSUME NEW u \in Threads, u # t PROVE CallInv(u)'
  <2>1. pc'[u] = pc[u] /\ at'[u] = at[u]
    BY <1>2, <1>8 DEF Inv, TypeOK
  <2>2. pc[u] = "stat" => Seen(stat[at[u]], adm[u])'
    <3>1. pc[u] = "stat" => Seen(stat[at[u]], adm[u])
      BY DEF Inv, CallInv
    <3> QED
      BY <1>2, <2>1, <3>1 DEF Seen
  <2> QED
    BY <1>2, <1>4, <2>1, <2>2, OtherCall
<1> QED
  BY <1>5, <1>6, <1>7, <1>8 DEF Inv

\* The stat cell is filled with what the file is now, for all who share it.
LEMMA StatKeeps ==
  ASSUME Inv, NEW t \in Threads, Stat(t)
  PROVE  Inv'
<1>1. PICK s : s = IF stat[at[t]] # NoStat THEN stat[at[t]]
                   ELSE IF present THEN last.mtime ELSE Missing
  OBVIOUS
<1>2. /\ pc[t] = "stat" /\ CallInv(t) /\ at[t] \in Ids /\ Used(at[t])
      /\ stat' = [stat EXCEPT ![at[t]] = s]
      /\ UNCHANGED <<file, cached, entry, calls, history>>
      /\ \/ s = Missing /\ Answer(t, Missing)
         \/ /\ s # Missing
            /\ modified' = [modified EXCEPT ![t] = s]
            /\ pc' = [pc EXCEPT ![t] = "get"]
            /\ UNCHANGED <<val, at, text>>
  BY <1>1 DEF Stat, Inv, CallInv
<1>3. last.mtime \in Times /\ s \in Times \cup {Missing}
  BY <1>1, <1>2 DEF Inv, TypeOK, Version
<1>4. /\ \A u \in Threads \ {t} : /\ pc'[u] = pc[u] /\ val'[u] = val[u] /\ at'[u] = at[u]
                                  /\ modified'[u] = modified[u] /\ text'[u] = text[u]
      /\ pc'[t] \in {"get", "done"}
  BY <1>2 DEF Answer, Inv, TypeOK
<1>5. /\ stat' \in [Ids -> Times \cup {NoStat, Missing}] /\ stat'[at[t]] = s
      /\ \A i \in Ids : stat'[i] = stat[i] \/ (i = at[t] /\ stat[i] = NoStat)
  BY <1>1, <1>2, <1>3 DEF Inv, TypeOK
<1>6. TypeOK' /\ CachedInv' /\ File' \in since' /\ last'.mtime <= now'
  BY <1>2, <1>3, <1>5 DEF Answer, Inv, TypeOK, CachedInv, File
<1>7. \A i \in Ids : Used(i) => Used(i)'
  <2> SUFFICES ASSUME NEW i \in Ids, Used(i) PROVE Used(i)'
    OBVIOUS
  <2>1. i[1] \in Threads
    BY DEF Ids
  <2> QED
    BY <1>2, <1>4, <2>1 DEF Used
\* Whoever saw the file as it is now may be told s.
<1>8. \A S : File \in S /\ stat[at[t]] = NoStat => Seen(s, S)
  BY <1>1, <1>2, <1>3, SentinelAssumption DEF Seen, File, Inv, TypeOK, Version, Times
<1>9. \A S : \A i \in Ids : File \in S /\ Seen(stat[i], S) => Seen(stat'[i], S)
  BY <1>2, <1>5, <1>8 DEF Seen
<1>10. EntryInv'
  <2>1. \A i \in Ids : ~Used(i)' => stat'[i] = NoStat
    BY <1>2, <1>5, <1>7 DEF Inv, EntryInv
  <2>2. ASSUME entry # NoEntry PROVE Used(entry)' /\ Seen(stat[entry], since)'
    <3>1. /\ entry \in Ids /\ Used(entry) /\ Seen(stat[entry], since) /\ File \in since
      BY <2>2 DEF Inv, TypeOK, EntryInv
    <3>2. Used(entry)'
      BY <1>2, <1>7, <3>1 DEF Used
    <3>3. Seen(stat'[entry], since)
      BY <1>9, <3>1
    <3> QED
      BY <1>2, <3>2, <3>3 DEF Seen
  <2> QED
    BY <1>2, <2>1, <2>2 DEF EntryInv
<1>11. Seen(s, adm[t]) /\ (s = Missing => Missing \in adm[t])
  <2>1. Seen(stat[at[t]], adm[t]) /\ File \in adm[t]
    BY <1>2 DEF CallInv
  <2> QED
    BY <1>1, <1>2, <1>3, <1>8, <2>1, SentinelAssumption DEF Seen
<1>12. CallInv(t)'
  <2>1. CASE s = Missing /\ Answer(t, Missing)
    <3>1. pc'[t] = "done" /\ val'[t] = Missing /\ modified'[t] = NoTime
      BY <2>1 DEF Answer, Inv, TypeOK
    <3>2. AnswerInv(t)'
      BY <1>2, <1>11, <2>1, <3>1 DEF AnswerInv
    <3> QED
      BY <1>2, <3>1, <3>2, SentinelAssumption DEF CallInv, Seen, File
  <2>2. CASE s # Missing /\ modified' = [modified EXCEPT ![t] = s]
             /\ pc' = [pc EXCEPT ![t] = "get"]
    <3>1. pc'[t] = "get" /\ modified'[t] = s
      BY <2>2 DEF Inv, TypeOK
    <3> QED
      BY <1>2, <1>11, <3>1, BoundAssumption DEF CallInv, AnswerInv, Seen, File
  <2> QED
    BY <1>2, <2>1, <2>2
<1>13. ASSUME NEW u \in Threads, u # t PROVE CallInv(u)'
  <2>1. pc[u] = "stat" => Seen(stat[at[u]], adm[u])'
    <3>1. pc[u] = "stat" => /\ at[u] \in Ids /\ Seen(stat[at[u]], adm[u])
                            /\ File \in adm[u]
      BY DEF Inv, CallInv
    <3>2. pc[u] = "stat" => Seen(stat'[at[u]], adm[u])
      BY <1>9, <3>1
    <3> QED
      BY <1>2, <1>4, <1>13, <3>2 DEF Seen
  <2> QED
    BY <1>2, <1>4, <1>7, <1>13, <2>1, OtherCall
<1> QED
  BY <1>6, <1>10, <1>12, <1>13 DEF Inv

\* Steps inside CachedFS change nothing that others look at but `cached`.
LEMMA CacheStepKeeps ==
  ASSUME Inv, NEW t \in Threads, pc[t] \in {"get", "read", "store"},
         pc'[t] \in {"read", "store", "done"},
         UNCHANGED <<file, entry, stat, calls, history>>,
         \A u \in Threads \ {t} : /\ pc'[u] = pc[u] /\ val'[u] = val[u] /\ at'[u] = at[u]
                                  /\ modified'[u] = modified[u] /\ text'[u] = text[u],
         TypeOK', CachedInv', CallInv(t)'
  PROVE  Inv'
<1>1. \A i \in Ids : Used(i) => Used(i)'
  <2> SUFFICES ASSUME NEW i \in Ids, Used(i) PROVE Used(i)'
    OBVIOUS
  <2>1. i[1] \in Threads
    BY DEF Ids
  <2> QED
    BY <2>1 DEF Used
<1>2. EntryInv'
  BY <1>1, SameEntries
<1>3. ASSUME NEW u \in Threads, u # t PROVE CallInv(u)'
  BY <1>1, <1>3, SameEntries, OtherCall
<1>4. last'.mtime <= now' /\ File' \in since'
  BY DEF Inv, File
<1> QED
  BY <1>2, <1>3, <1>4 DEF Inv

\* What a call that returns leaves behind.
LEMMA AnswerSets ==
  ASSUME Inv, NEW t \in Threads, NEW v \in Version \cup {Missing, Panic}, Answer(t, v)
  PROVE  /\ pc'[t] = "done" /\ val'[t] = v /\ modified'[t] = NoTime
         /\ \A u \in Threads \ {t} :
              /\ pc'[u] = pc[u] /\ val'[u] = val[u] /\ at'[u] = at[u]
              /\ modified'[u] = modified[u] /\ text'[u] = text[u]
         /\ pc' \in [Threads -> {"idle", "probe", "insert", "stat", "get",
                                 "read", "store", "done"}]
         /\ at' \in [Threads -> Ids \cup {NoEntry}]
         /\ modified' \in [Threads -> Times \cup {NoTime}]
         /\ text' \in [Threads -> Version \cup {Missing}]
         /\ val' \in [Threads -> Version \cup {Nothing, Missing, Panic}]
  BY DEF Answer, Inv, TypeOK

\* A call returns v: that is fine if v is explained.
LEMMA AnswerKeeps ==
  ASSUME Inv, NEW t \in Threads, NEW v \in Version \cup {Missing, Panic}, Answer(t, v),
         UNCHANGED <<file, history>>,
         v = Panic \/ v \in adm[t]
         \/ /\ Field = "tsconfigs" /\ v # Missing /\ v.ok
            /\ \E w \in adm[t] \ {Missing} :
                 v.mtime <= w.mtime /\ w.mtime < v.mtime + Debounce
  PROVE  CallInv(t)'
<1>1. pc'[t] = "done" /\ val'[t] = v /\ modified'[t] = NoTime
  BY AnswerSets
<1>2. File' = File /\ CallInv(t)
  BY DEF File, Inv
<1> QED
  BY <1>1, <1>2, SentinelAssumption DEF CallInv, AnswerInv, Seen

LEMMA GetKeeps ==
  ASSUME Inv, OrderInv, NEW t \in Threads, Get(t)
  PROVE  Inv'
<1>1. /\ pc[t] = "get" /\ CallInv(t) /\ CachedInv
      /\ UNCHANGED <<file, cached, entry, stat, calls, history>>
  BY DEF Get, Inv
<1>2. CachedInv'
  BY <1>1 DEF CachedInv
<1>3. CASE Answer(t, Panic)
  BY <1>1, <1>2, <1>3, AnswerSets, AnswerKeeps, CacheStepKeeps DEF Inv, TypeOK
<1>4. CASE /\ cached # Nothing /\ ~Panics(modified[t], cached.modified)
           /\ Within(modified[t], cached.modified)
           /\ Answer(t, cached.content)
  <2>1. /\ cached.content \in Version /\ cached.content.mtime \in Nat
        /\ cached.modified \in Times \cup {NoTime}
        /\ modified[t] \in Times \cup {NoTime}
    BY <1>4, BoundAssumption DEF Inv, TypeOK, Version, Times
  <2>2. /\ modified[t] \in Times /\ cached.modified \in Times
        /\ modified[t] < cached.modified + Debounce
        /\ cached.modified <= cached.content.mtime /\ cached.content.ok
        /\ Field = "tsconfigs"
    BY <1>1, <1>4, <2>1, BoundAssumption DEF Within, CachedInv
  <2>3. PICK w \in adm[t] \ {Missing} : w.mtime = modified[t]
    BY <1>1, <2>2 DEF CallInv, Seen
  <2>4. ASSUME cached.content \notin adm[t] PROVE CallInv(t)'
    <3>1. cached.content.mtime <= w.mtime
      BY <1>4, <2>3, <2>4 DEF OrderInv, Behind, Ordered
    <3>2. w.mtime < cached.content.mtime + Debounce
      BY <2>1, <2>2, <2>3, BoundAssumption DEF Times
    <3>3. cached.content # Missing
      BY <2>1, SentinelAssumption
    <3> QED
      BY <1>1, <1>4, <2>1, <2>2, <3>1, <3>2, <3>3, AnswerKeeps
  <2>5. ASSUME cached.content \in adm[t] PROVE CallInv(t)'
    BY <1>1, <1>4, <2>1, <2>5, AnswerKeeps
  <2>6. CallInv(t)'
    BY <2>4, <2>5
  <2> QED
    BY <1>1, <1>2, <1>4, <2>1, <2>6, AnswerSets, CacheStepKeeps DEF Inv, TypeOK
<1>5. CASE pc' = [pc EXCEPT ![t] = "read"] /\ UNCHANGED <<val, at, modified, text>>
  <2>1. pc'[t] = "read" /\ \A u \in Threads \ {t} : pc'[u] = pc[u]
    BY <1>5 DEF Inv, TypeOK
  <2>2. CallInv(t)'
    BY <1>1, <1>5, <2>1 DEF CallInv, AnswerInv, Seen, File
  <2> QED
    BY <1>1, <1>2, <1>5, <2>1, <2>2, CacheStepKeeps DEF Inv, TypeOK
<1> QED
  BY <1>3, <1>4, <1>5 DEF Get

LEMMA ReadKeeps ==
  ASSUME Inv, NEW t \in Threads, Read(t)
  PROVE  Inv'
<1>1. /\ pc[t] = "read" /\ CallInv(t) /\ CachedInv
      /\ UNCHANGED <<file, cached, entry, stat, calls, history>>
  BY DEF Read, Inv
<1>2. CachedInv'
  BY <1>1 DEF CachedInv
<1>3. CASE ~present /\ Answer(t, Missing)
  <2>1. Missing \in adm[t]
    BY <1>1, <1>3 DEF CallInv, File
  <2> QED
    BY <1>1, <1>2, <1>3, <2>1, AnswerSets, AnswerKeeps, CacheStepKeeps DEF Inv, TypeOK
<1>4. CASE /\ present /\ text' = [text EXCEPT ![t] = last]
           /\ pc' = [pc EXCEPT ![t] = "store"] /\ UNCHANGED <<val, at, modified>>
  <2>1. /\ pc'[t] = "store" /\ text'[t] = last
        /\ \A u \in Threads \ {t} : pc'[u] = pc[u] /\ text'[u] = text[u]
    BY <1>4 DEF Inv, TypeOK
  <2>2. last \in Version /\ last # Missing /\ last \in adm[t]
    BY <1>1, <1>4, SentinelAssumption DEF CallInv, File, Inv, TypeOK
  <2>3. modified[t] # NoTime => modified[t] <= last.mtime
    BY <1>1 DEF CallInv, Seen, Inv, TypeOK
  <2>4. CallInv(t)'
    BY <1>1, <1>4, <2>1, <2>2, <2>3 DEF CallInv, AnswerInv, Seen, File
  <2> QED
    BY <1>1, <1>2, <1>4, <2>1, <2>2, <2>4, CacheStepKeeps DEF Inv, TypeOK
<1> QED
  BY <1>3, <1>4 DEF Read

LEMMA StoreKeeps ==
  ASSUME Inv, NEW t \in Threads, Store(t)
  PROVE  Inv'
<1>1. /\ pc[t] = "store" /\ CallInv(t) /\ CachedInv /\ Answer(t, text[t])
      /\ cached' = IF text[t].ok
                   THEN [content |-> text[t], modified |-> modified[t]] ELSE cached
      /\ UNCHANGED <<file, entry, stat, calls, history>>
  BY DEF Store, Inv
<1>2. /\ text[t] \in adm[t] /\ text[t] \in Version
      /\ modified[t] \in Times \cup {NoTime}
      /\ modified[t] # NoTime => modified[t] <= text[t].mtime
      /\ Field = "descriptions" => modified[t] = NoTime
  BY <1>1 DEF CallInv, Inv, TypeOK
<1>3. cached' \in [content : Version, modified : Times \cup {NoTime}] \cup {Nothing}
  BY <1>1, <1>2 DEF Inv, TypeOK
<1>4. CachedInv'
  BY <1>1, <1>2 DEF CachedInv
<1>5. CallInv(t)'
  BY <1>1, <1>2, AnswerKeeps
<1> QED
  BY <1>1, <1>2, <1>3, <1>4, <1>5, AnswerSets, CacheStepKeeps DEF Inv, TypeOK

LEMMA NextInv == Inv /\ OrderInv /\ [Next]_vars => Inv'
<1> SUFFICES ASSUME Inv, OrderInv, [Next]_vars PROVE Inv'
  OBVIOUS
<1>1. CASE UNCHANGED vars
  <2>1. \A i : Used(i)' = Used(i)
    BY <1>1 DEF vars, Used
  <2>2. \A u \in Threads : CallInv(u)'
    BY <1>1, <2>1, SameEntries, OtherCall DEF vars
  <2> QED
    BY <1>1, <2>1, <2>2, SameEntries DEF vars, Inv, TypeOK, CachedInv, File
<1> QED
  BY <1>1, TickKeeps, FileKeeps, ClearKeeps, StartKeeps, ProbeKeeps, InsertKeeps,
     StatKeeps, GetKeeps, ReadKeeps, StoreKeeps DEF Next, Run

-----------------------------------------------------------------------------
(* The order of versions *)

LEMMA BehindKeeps ==
  ASSUME Inv, [Next]_vars, NEW x \in Version, Behind(x)
  PROVE  Behind(x)'
<1>1. /\ x.mtime \in Nat /\ last.mtime \in Nat /\ now \in Nat /\ last.mtime <= now
      /\ x.mtime <= last.mtime /\ Ordered(x, since)
      /\ \A t \in Threads : Ordered(x, adm[t])
  BY BoundAssumption DEF Behind, Inv, TypeOK, Version, Times
<1>2. CASE Write \/ Rename
  <2>1. /\ x.mtime <= last'.mtime /\ Change
        /\ File' = Missing \/ File' = last'
    <3>1. CASE Write
      <4>1. last'.mtime = now
        BY <3>1 DEF Write
      <4> QED
        BY <1>1, <3>1, <4>1 DEF Write, File
    <3>2. CASE Rename
      BY <1>1, <3>2 DEF Rename, File
    <3> QED
      BY <1>2, <3>1, <3>2
  <2>2. ASSUME NEW S, Ordered(x, S) PROVE Ordered(x, S \cup {File'})
    BY <2>1, <2>2 DEF Ordered
  <2>3. /\ since' = since \cup {File'}
        /\ \A t \in Threads : adm'[t] = adm[t] \cup {File'}
    BY <2>1 DEF Change
  <2>4. Ordered(x, since)' /\ \A t \in Threads : Ordered(x, adm[t])'
    BY <1>1, <2>2, <2>3 DEF Ordered
  <2> QED
    BY <2>1, <2>4 DEF Behind
<1>3. Ordered(x, {File})
  BY <1>1 DEF Ordered, File
<1>4. CASE Clear
  BY <1>1, <1>3, <1>4 DEF Clear, Behind, Ordered
<1>5. ASSUME NEW t \in Threads, Start(t) PROVE Behind(x)'
  <2>1. UNCHANGED <<last, since>> /\ adm'[t] \in {since, {File}}
    BY <1>5 DEF Start, Inv, TypeOK
  <2>2. \A u \in Threads \ {t} : adm'[u] = adm[u]
    BY <1>5 DEF Start, Inv, TypeOK
  <2>3. Ordered(x, adm[t])'
    BY <1>1, <1>3, <2>1 DEF Ordered
  <2>4. \A u \in Threads \ {t} : Ordered(x, adm[u])'
    BY <1>1, <2>2 DEF Ordered
  <2> QED
    BY <1>1, <2>1, <2>3, <2>4 DEF Behind, Ordered
<1>6. CASE UNCHANGED <<last, history>>
  BY <1>1, <1>6 DEF Behind, Ordered
<1>7. ASSUME NEW t \in Threads,
             Probe(t) \/ Insert(t) \/ Stat(t) \/ Get(t) \/ Read(t) \/ Store(t)
      PROVE  UNCHANGED <<last, history>>
  BY <1>7 DEF Probe, Insert, Stat, Get, Read, Store
<1> QED
  BY <1>2, <1>4, <1>5, <1>6, <1>7 DEF Next, Run, Tick, vars

LEMMA OrderKeeps ==
  ASSUME Inv, OrderInv, [Next]_vars
  PROVE  OrderInv'
<1>1. ASSUME cached' # Nothing PROVE Behind(cached.content)'
  <2>1. \/ cached' = cached
        \/ \E t \in Threads : /\ pc[t] = "store" /\ cached'.content = text[t]
                              /\ text[t] \in Version
    <3>1. ASSUME NEW t \in Threads, Store(t), cached' # cached
          PROVE  /\ pc[t] = "store" /\ cached'.content = text[t]
                 /\ text[t] \in Version
      BY <3>1 DEF Store, Inv, TypeOK, CallInv
    <3>2. \A t \in Threads : Start(t) \/ Probe(t) \/ Insert(t) \/ Stat(t) \/ Get(t)
                             \/ Read(t) => cached' = cached
      BY DEF Start, Probe, Insert, Stat, Get, Read
    <3> QED
      BY <3>1, <3>2 DEF Next, Run, Tick, Write, Rename, Change, Clear, vars
  <2>2. PICK x \in Version : x = cached'.content /\ Behind(x)
    BY <1>1, <2>1 DEF OrderInv, Inv, TypeOK
  <2>3. Behind(x)'
    BY <2>2, BehindKeeps
  <2> QED
    BY <2>2, <2>3 DEF Behind
<1>2. ASSUME NEW t \in Threads, pc'[t] = "store" PROVE Behind(text[t])'
  <2>1. \/ pc[t] = "store" /\ text'[t] = text[t]
        \/ Read(t) /\ present /\ text'[t] = last
    <3>1. CASE UNCHANGED <<pc, text>>
      BY <1>2, <3>1
    <3>2. ASSUME NEW u \in Threads, Start(u) \/ Probe(u) \/ Insert(u)
          PROVE  pc[t] = "store" /\ text'[t] = text[t]
      BY <1>2, <3>2 DEF Start, Probe, Insert, Inv, TypeOK
    <3>3. ASSUME NEW u \in Threads, Stat(u) \/ Get(u) \/ Store(u)
          PROVE  pc[t] = "store" /\ text'[t] = text[t]
      BY <1>2, <3>3 DEF Stat, Get, Store, Answer, Inv, TypeOK
    <3>4. ASSUME NEW u \in Threads, Read(u)
          PROVE  \/ pc[t] = "store" /\ text'[t] = text[t]
                 \/ u = t /\ present /\ text'[t] = last
      BY <1>2, <3>4 DEF Read, Answer, Inv, TypeOK
    <3> QED
      BY <3>1, <3>2, <3>3, <3>4 DEF Next, Run, Tick, Write, Rename, Change, Clear, vars
  <2>2. CASE pc[t] = "store" /\ text'[t] = text[t]
    <3>1. PICK x \in Version : x = text[t] /\ Behind(x)
      BY <2>2 DEF OrderInv, Inv, TypeOK, CallInv
    <3>2. Behind(x)'
      BY <3>1, BehindKeeps
    <3> QED
      BY <2>2, <3>1, <3>2 DEF Behind
  <2>3. CASE Read(t) /\ present /\ text'[t] = last
    <3>1. last \in Version /\ last.mtime \in Nat /\ File = last
      BY <2>3, BoundAssumption DEF Inv, TypeOK, Version, Times, File
    <3>2. PICK x \in Version : x = last /\ Behind(x)
      BY <3>1 DEF Behind, Ordered, Inv, CallInv
    <3>3. Behind(x)'
      BY <3>2, BehindKeeps
    <3> QED
      BY <2>3, <3>2, <3>3 DEF Behind
  <2> QED
    BY <2>1, <2>2, <2>3
<1> QED
  BY <1>1, <1>2 DEF OrderInv, Behind, Ordered

LEMMA InvHolds == Spec => [](Inv /\ OrderInv)
<1>1. Init => Inv /\ OrderInv
  <2>1. Init => OrderInv
    BY DEF Init, OrderInv
  <2> QED
    BY <2>1, InitInv
<1>2. Inv /\ OrderInv /\ [Next]_vars => (Inv /\ OrderInv)'
  BY NextInv, OrderKeeps
<1> QED
  BY <1>1, <1>2, PTL DEF Spec

\* The cache keeps its shape, whatever the threads and other programs do.
THEOREM TypeOKHolds == Spec => []TypeOK
<1>1. Inv => TypeOK
  BY DEF Inv
<1> QED
  BY <1>1, InvHolds, PTL

\* The debounce is all that a reader of tsconfig.json can miss: the content
\* is kept with a time that is never later than the content, also when
\* threads with old stat cells race for the cached entry, and the version
\* that is missed is a newer one.
THEOREM DebouncedHolds == Spec => []Debounced
<1>1. Inv => Debounced
  BY DEF Inv, CallInv, AnswerInv, Debounced
<1> QED
  BY <1>1, InvHolds, PTL

\* A package.json is always read from the disk during the call.
THEOREM DescriptionsCurrent ==
  ASSUME Field = "descriptions"
  PROVE  Spec => []AnswersCurrent
<1>1. Inv => AnswersCurrent
  BY DEF Inv, CallInv, AnswerInv, AnswersCurrent
<1> QED
  BY <1>1, InvHolds, PTL

-----------------------------------------------------------------------------
(* Where the times of a panic come from *)

\* A time that was read from the stat cell of some Entry.
Stored(s) == s \in Times => \E i \in Ids : stat[i] = s

PanicInv ==
  /\ cached # Nothing => Stored(cached.modified)
  /\ \A t \in Threads : Stored(modified[t])
  /\ PanicExplained

\* A stat cell keeps the first time it gets.
LEMMA StatStays ==
  ASSUME Inv, [Next]_vars
  PROVE  \A i \in Ids : stat[i] \in Times => stat'[i] = stat[i]
<1>1. stat \in [Ids -> Times \cup {NoStat, Missing}] /\ NoStat \notin Times
  BY SentinelAssumption DEF Inv, TypeOK
<1>2. CASE UNCHANGED stat
  BY <1>2
<1>3. ASSUME NEW t \in Threads, Stat(t) PROVE \A i \in Ids : stat[i] \in Times => stat'[i] = stat[i]
  BY <1>1, <1>3 DEF Stat
<1> QED
  BY <1>2, <1>3 DEF Next, Run, vars, Tick, Write, Rename, Change, Clear, Start, Probe, Insert,
                    Get, Read, Store

\* The time of a call and the time in the map go no other way than from a
\* stat cell to the call and from the call to the map.
LEMMA TimesKept ==
  ASSUME Inv, [Next]_vars
  PROVE  /\ \A t \in Threads : modified'[t] \in Times =>
              \/ modified'[t] = modified[t]
              \/ \E i \in Ids : stat'[i] = modified'[t]
         /\ cached' # Nothing /\ cached' # cached =>
              \E t \in Threads : cached'.modified = modified[t]
<1>1. /\ stat \in [Ids -> Times \cup {NoStat, Missing}] /\ NoTime \notin Times
      /\ modified \in [Threads -> Times \cup {NoTime}]
  BY SentinelAssumption DEF Inv, TypeOK
<1>2. CASE UNCHANGED <<cached, modified>>
  BY <1>2
<1>3. ASSUME NEW t \in Threads, Stat(t)
      PROVE  cached' = cached /\ \A u \in Threads : modified'[u] \in Times =>
               modified'[u] = modified[u] \/ \E i \in Ids : stat'[i] = modified'[u]
  <2>1. CallInv(t)
    BY DEF Inv
  <2>2. at[t] \in Ids
    BY <1>3, <2>1 DEF Stat, CallInv
  <2> QED
    BY <1>1, <1>3, <2>2 DEF Stat, Answer
<1>4. ASSUME NEW t \in Threads, Get(t) \/ Read(t) \/ Store(t)
      PROVE  /\ \A u \in Threads : modified'[u] \in Times => modified'[u] = modified[u]
             /\ cached' # cached => cached'.modified = modified[t]
  BY <1>1, <1>4 DEF Get, Read, Store, Answer
<1> QED
  BY <1>2, <1>3, <1>4 DEF Next, Run, vars, Tick, Write, Rename, Change, Clear, Start, Probe,
                          Insert

\* Only is_modified panics, of a call that has an older time than the map.
LEMMA PanicStep ==
  ASSUME Inv, [Next]_vars, NEW t \in Threads, val'[t] = Panic, val[t] # Panic
  PROVE  cached # Nothing /\ Panics(modified[t], cached.modified)
<1>1. val \in [Threads -> Version \cup {Nothing, Missing, Panic}] /\ TypeOK
  BY DEF Inv, TypeOK
<1>2. ASSUME NEW u \in Threads, Start(u) PROVE FALSE
  BY <1>1, <1>2, SentinelAssumption DEF Start
<1>3. ASSUME NEW u \in Threads, Stat(u) PROVE FALSE
  BY <1>1, <1>3, SentinelAssumption DEF Stat, Answer
<1>4. ASSUME NEW u \in Threads, Get(u)
      PROVE  cached # Nothing /\ Panics(modified[t], cached.modified)
  <2>1. cached # Nothing => cached.content \in Version
    BY <1>1 DEF TypeOK
  <2> QED
    BY <1>1, <1>4, <2>1, SentinelAssumption DEF Get, Answer
<1>5. ASSUME NEW u \in Threads, Read(u) PROVE FALSE
  BY <1>1, <1>5, SentinelAssumption DEF Read, Answer
<1>6. ASSUME NEW u \in Threads, Store(u) PROVE FALSE
  <2>1. text[u] \in Version
    BY <1>1, <1>6 DEF Inv, CallInv, Store, TypeOK
  <2> QED
    BY <1>1, <1>6, <2>1, SentinelAssumption DEF Store, Answer
<1>7. ~UNCHANGED val
  OBVIOUS
<1> QED
  BY <1>2, <1>3, <1>4, <1>5, <1>6, <1>7 DEF Next, Run, vars, Tick, Write, Rename, Change, Clear,
                                            Probe, Insert

LEMMA PanicKeeps ==
  ASSUME Inv, Inv', PanicInv, [Next]_vars
  PROVE  PanicInv'
<1>1. \A i \in Ids : stat[i] \in Times => stat'[i] = stat[i]
  BY StatStays
<1>2. \A s : Stored(s) => Stored(s)'
  BY <1>1 DEF Stored
<1>3. \A t \in Threads : Stored(modified[t])'
  BY <1>2, TimesKept DEF PanicInv, Stored
<1>4. cached' # Nothing => Stored(cached.modified)'
  BY <1>2, TimesKept DEF PanicInv, Stored
<1>5. ASSUME NEW t \in Threads, val'[t] = Panic
      PROVE  \E i, j \in Ids : stat'[i] \in Times /\ stat'[j] \in Times /\ stat'[i] < stat'[j]
  <2>1. CASE val[t] = Panic
    BY <1>1, <2>1 DEF PanicInv, PanicExplained
  <2>2. CASE val[t] # Panic
    <3>1. cached # Nothing /\ Panics(modified[t], cached.modified)
      BY <1>5, <2>2, PanicStep
    <3>2. /\ modified[t] \in Times /\ cached.modified \in Times
          /\ modified[t] < cached.modified
      BY <3>1 DEF Inv, TypeOK, Panics
    <3>3. PICK i \in Ids, j \in Ids : stat[i] = modified[t] /\ stat[j] = cached.modified
      BY <3>1, <3>2 DEF PanicInv, Stored
    <3> QED
      BY <1>1, <3>2, <3>3
  <2> QED
    BY <2>1, <2>2
<1> QED
  BY <1>3, <1>4, <1>5 DEF PanicInv, PanicExplained

\* duration_since panics only when two Entries of the path hold different times:
\* a file whose time went back, or a cache that mixes two files, is never why.
THEOREM PanicExplainedHolds == Spec => []PanicExplained
<1>1. Init => PanicInv
  BY SentinelAssumption DEF Init, PanicInv, PanicExplained, Stored
<1>2. Inv /\ Inv' /\ PanicInv /\ [Next]_vars => PanicInv'
  BY PanicKeeps
<1>3. PanicInv => PanicExplained
  BY DEF PanicInv
<1>4. Spec => []Inv
  BY InvHolds, PTL
<1> QED
  BY <1>1, <1>2, <1>3, <1>4, PTL DEF Spec

-----------------------------------------------------------------------------
(* One thread *)

\* The thread `me` has the entry of the map or one that nobody else has, and
\* the cached time is not later than any time it can still bring.
AloneInv(me) ==
  /\ val[me] # Panic
  /\ pc[me] = "insert" => entry = NoEntry
  /\ pc[me] = "stat" /\ entry # NoEntry => entry = at[me]
  /\ pc[me] \in {"get", "read", "store"} /\ modified[me] # NoTime /\ entry # NoEntry
       => stat[entry] = modified[me]
  /\ cached # Nothing /\ cached.modified # NoTime =>
       /\ cached.modified <= last.mtime
       /\ modified[me] # NoTime => cached.modified <= modified[me]
       /\ entry # NoEntry /\ stat[entry] \in Times => cached.modified <= stat[entry]
       /\ pc[me] = "stat" /\ stat[at[me]] \in Times
            => cached.modified <= stat[at[me]]

LEMMA AloneKeeps ==
  ASSUME NEW me, Threads = {me}, Inv, Inv', AloneInv(me), [Next]_vars
  PROVE  AloneInv(me)'
<1>1. /\ last.mtime \in Nat /\ modified[me] \in Times \cup {NoTime}
      /\ last \in Version /\ now \in Nat /\ last.mtime <= now
      /\ stat \in [Ids -> Times \cup {NoStat, Missing}]
      /\ entry \in Ids \cup {NoEntry} /\ at \in [{me} -> Ids \cup {NoEntry}]
      /\ cached # Nothing => cached.modified \in Times \cup {NoTime}
      /\ pc \in [{me} -> {"idle", "probe", "insert", "stat", "get", "read",
                          "store", "done"}]
      /\ modified \in [{me} -> Times \cup {NoTime}]
      /\ val \in [{me} -> Version \cup {Nothing, Missing, Panic}]
      /\ CallInv(me) /\ EntryInv /\ Times \subseteq Nat
      /\ modified[me] # NoTime => modified[me] <= last.mtime
  BY BoundAssumption DEF Inv, TypeOK, Version, Times, CallInv, Seen
<1>2. CASE UNCHANGED vars
  BY <1>2 DEF vars, AloneInv
<1>3. CASE Tick \/ Clear
  BY <1>1, <1>3 DEF Tick, Clear, AloneInv
<1>4. CASE Write \/ Rename
  <2>1. last.mtime <= last'.mtime /\ last'.mtime \in Nat /\ Change
    BY <1>1, <1>4 DEF Write, Rename
  <2> QED
    BY <1>1, <2>1 DEF Change, AloneInv, Times
<1>5. CASE Start(me)
  <2>1. /\ UNCHANGED <<last, cached, entry, stat, modified>> /\ modified[me] = NoTime
        /\ pc'[me] \in {"probe", "get"} /\ val'[me] = Nothing
    BY <1>1, <1>5 DEF Start, file, CallInv
  <2> QED
    BY <1>1, <2>1, SentinelAssumption DEF AloneInv
<1>6. CASE Probe(me)
  <2>1. /\ UNCHANGED <<last, cached, entry, stat, modified, val>>
        /\ \/ entry = NoEntry /\ pc'[me] = "insert"
           \/ pc'[me] = "stat" /\ at'[me] = entry /\ entry # NoEntry
    BY <1>1, <1>6 DEF Probe, file
  <2> QED
    BY <1>1, <2>1 DEF AloneInv
<1>7. CASE Insert(me)
  <2>1. stat[<<me, calls[me]>>] = NoStat /\ <<me, calls[me]>> \in Ids
    BY <1>1, <1>7, BoundAssumption DEF Insert, EntryInv, Used, Ids, Inv, TypeOK, CallInv
  <2>2. NoStat \notin Times /\ modified[me] = NoTime
    BY <1>1, <1>7, SentinelAssumption DEF Insert, CallInv
  <2> QED
    BY <1>1, <1>7, <2>1, <2>2 DEF Insert, AloneInv
<1>8. CASE Stat(me)
  <2>1. PICK s : s = IF stat[at[me]] # NoStat THEN stat[at[me]]
                     ELSE IF present THEN last.mtime ELSE Missing
    OBVIOUS
  <2>2. /\ pc[me] = "stat" /\ at[me] \in Ids
        /\ stat' = [stat EXCEPT ![at[me]] = s]
        /\ UNCHANGED <<last, cached, entry>>
        /\ \/ s = Missing /\ Answer(me, Missing)
           \/ /\ s # Missing
              /\ modified' = [modified EXCEPT ![me] = s]
              /\ pc' = [pc EXCEPT ![me] = "get"]
              /\ UNCHANGED <<val, at>>
    BY <1>1, <1>8, <2>1 DEF Stat, CallInv, file
  <2>3. s \in Times \cup {Missing} /\ stat'[at[me]] = s
    BY <1>1, <2>1, <2>2 DEF Version
  <2>4. cached # Nothing /\ cached.modified # NoTime /\ s \in Times
          => cached.modified <= s
    BY <1>1, <2>1, <2>2, SentinelAssumption DEF AloneInv
  <2>5. entry # NoEntry => stat'[entry] = s
    BY <2>2, <2>3 DEF AloneInv
  <2> QED
    BY <1>1, <2>2, <2>3, <2>4, <2>5, SentinelAssumption DEF AloneInv, Answer
<1>9. CASE Get(me)
  <2>1. SUFFICES ASSUME cached # Nothing
                 PROVE  ~Panics(modified[me], cached.modified)
    BY <1>1, <1>9, SentinelAssumption DEF Get, Answer, AloneInv, Inv, TypeOK, Version
  <2>2. CASE modified[me] # NoTime /\ cached.modified # NoTime
    <3>1. modified[me] \in Nat /\ cached.modified \in Nat
      BY <1>1, <2>1, <2>2
    <3>2. cached.modified <= modified[me]
      BY <2>1, <2>2 DEF AloneInv
    <3> QED
      BY <3>1, <3>2 DEF Panics
  <2>3. CASE modified[me] = NoTime \/ cached.modified = NoTime
    BY <2>3 DEF Panics
  <2> QED
    BY <2>2, <2>3
<1>10. CASE Read(me)
  BY <1>1, <1>10, SentinelAssumption DEF Read, Answer, AloneInv
<1>11. CASE Store(me)
  <2>1. /\ UNCHANGED <<last, entry, stat>> /\ pc'[me] = "done"
        /\ modified'[me] = NoTime /\ val'[me] # Panic
        /\ \/ cached' = cached
           \/ cached'.modified = modified[me]
    BY <1>1, <1>11, SentinelAssumption DEF Store, Answer, CallInv, file, Inv, TypeOK
  <2>2. pc[me] = "store" /\ modified[me] # NoTime =>
          modified[me] \in Times /\ modified[me] <= last.mtime
    BY <1>1
  <2>3. CASE cached' = cached
    BY <1>1, <2>1, <2>3 DEF AloneInv
  <2>4. CASE cached'.modified = modified[me]
    <3>1. pc[me] = "store"
      BY <1>11 DEF Store
    <3>2. modified[me] # NoTime =>
            /\ modified[me] \in Nat /\ modified[me] <= last.mtime
            /\ entry # NoEntry => stat[entry] = modified[me]
      BY <1>1, <2>2, <3>1 DEF AloneInv
    <3>3. modified[me] # NoTime =>
            /\ cached'.modified <= last'.mtime
            /\ entry' # NoEntry /\ stat'[entry'] \in Times
                 => cached'.modified <= stat'[entry']
      BY <2>1, <2>4, <3>2
    <3> QED
      BY <2>1, <2>4, <3>3 DEF AloneInv
  <2> QED
    BY <2>1, <2>3, <2>4
<1> QED
  BY <1>2, <1>3, <1>4, <1>5, <1>6, <1>7, <1>8, <1>9, <1>10, <1>11 DEF Next, Run

\* A resolver used by one thread does not panic in duration_since: the panic
\* of two threads comes from a second Entry of the same path.
THEOREM AloneNoPanic ==
  ASSUME NEW me, Threads = {me}
  PROVE  Spec => []NoPanic
<1>1. Init => AloneInv(me)
  BY SentinelAssumption DEF Init, AloneInv
<1>2. Inv /\ Inv' /\ AloneInv(me) /\ [Next]_vars => AloneInv(me)'
  BY AloneKeeps
<1>3. AloneInv(me) => NoPanic
  BY DEF AloneInv, NoPanic
<1>4. Spec => []Inv
  BY InvHolds, PTL
<1> QED
  BY <1>1, <1>2, <1>3, <1>4, PTL DEF Spec
=============================================================================
