------------------------------ MODULE RealPath ------------------------------
(***************************************************************************)
(* What the symlink step promises a caller, without cells and entries: the *)
(* canonical path of what was asked for.                                   *)
(*                                                                         *)
(* A call may use what the disk was at any time since the last             *)
(* clear_entries before it began.  If that is one disk, the answer is its  *)
(* canonical path.  If the disk changed in between, the answer may be put  *)
(* together: the canonical path a directory above had on one of the disks, *)
(* and the names below it as they were asked for.                          *)
(***************************************************************************)
EXTENDS Naturals, Sequences

CONSTANTS
  Threads,
  Goals,   \* the paths asked for
  Disks,   \* the disks there may be; d.canon[p] is the canonical path of p
  Fails,   \* the canonical path of what has none
  NoPath

VARIABLES
  disk,    \* the disk now
  since,   \* the disks since the last clear
  saw,     \* per thread, the disks its call may use
  asked,   \* per thread, the path it waits for, or NoPath
  answer   \* per thread, its last answer

vars == <<disk, since, saw, asked, answer>>

\* A canonical path of the directory p[1..n], and the rest of p.
Spliced(p, n, d) == d.canon[SubSeq(p, 1, n)] \o SubSeq(p, n + 1, Len(p))

Mixed(p, ds) ==
  {p} \cup UNION {{Spliced(p, n, d) : n \in {m \in 0..Len(p) : d.canon[SubSeq(p, 1, m)] # Fails}}
                    : d \in ds}

\* The answers of a call for p that may use the disks ds.
Answers(p, ds) ==
  IF \E d \in ds : ds = {d} /\ d.canon[p] # Fails
  THEN {d.canon[p] : d \in ds}
  ELSE Mixed(p, ds)

Init ==
  /\ disk \in Disks
  /\ since = {disk}
  /\ saw = [t \in Threads |-> {}]
  /\ asked = [t \in Threads |-> NoPath]
  /\ answer = [t \in Threads |-> NoPath]

Ask(t) ==
  /\ asked[t] = NoPath
  /\ \E p \in Goals : asked' = [asked EXCEPT ![t] = p]
  /\ saw' = [saw EXCEPT ![t] = since]
  /\ UNCHANGED <<disk, since, answer>>

Reply(t) ==
  /\ asked[t] # NoPath
  /\ \E p \in Answers(asked[t], saw[t]) : answer' = [answer EXCEPT ![t] = p]
  /\ asked' = [asked EXCEPT ![t] = NoPath]
  /\ UNCHANGED <<disk, since, saw>>

Change ==
  /\ disk' \in Disks
  /\ since' = since \cup {disk'}
  /\ saw' = [t \in Threads |-> saw[t] \cup {disk'}]
  /\ UNCHANGED <<asked, answer>>

Clear ==
  /\ since' = {disk}
  /\ UNCHANGED <<disk, saw, asked, answer>>

Next == Change \/ Clear \/ \E t \in Threads : Ask(t) \/ Reply(t)

\* Nothing but these answers, and every question is answered.
Safe == Init /\ [][Next]_vars
Spec == Safe /\ \A t \in Threads : WF_vars(Reply(t))
=============================================================================
