---------------------------- MODULE AtomicMemory ----------------------------
(***************************************************************************)
(* What the memory store promises its users, with no journal, no backup    *)
(* and no lock: a memory is one value; a writer (a job or a direct save)   *)
(* looks at it once and later replaces it, in one step, at most once, and  *)
(* only while it still is what the writer saw.  A job gets one verdict.    *)
(***************************************************************************)
CONSTANTS
  Jobs, Saves,   \* the writers
  Contents,      \* what a writer may publish
  Values,        \* every value a reader can be shown
  Blank, Empty,  \* the initial content, and a memory without files
  Unseen         \* the writer has not looked yet

VARIABLES
  mem,       \* the memory
  seen,      \* seen[o]: what writer o last looked at
  wrote,     \* the writers that have replaced the memory
  verdict    \* verdict[j]: "none", "complete" or "failed"

avars == <<mem, seen, wrote, verdict>>

Writers == Jobs \cup Saves

AInit ==
  /\ mem \in Values
  /\ seen = [o \in Writers |-> Unseen]
  /\ wrote = {}
  /\ verdict = [j \in Jobs |-> "none"]

\* A writer looks at the memory.  The preview of a direct save takes no lock:
\* it may show a value the memory never had, which only makes it conflict.
Look(o) ==
  /\ seen[o] = Unseen
  /\ \E v \in Values : seen' = [seen EXCEPT ![o] = v]
  /\ UNCHANGED <<mem, wrote, verdict>>

\* The first use of an empty memory gives it its initial file.
Seed ==
  /\ mem = Empty
  /\ mem' = Blank
  /\ UNCHANGED <<seen, wrote, verdict>>

\* The optimistic commit: the memory is still what the writer saw.
Commit(o) ==
  /\ o \notin wrote
  /\ mem = seen[o]
  /\ mem' \in Contents
  /\ wrote' = wrote \cup {o}
  /\ UNCHANGED <<seen, verdict>>

Decide(j) ==
  /\ verdict[j] = "none"
  /\ \E v \in {"complete", "failed"} : verdict' = [verdict EXCEPT ![j] = v]
  /\ UNCHANGED <<mem, seen, wrote>>

ANext ==
  \/ \E o \in Writers : Look(o) \/ Commit(o)
  \/ Seed
  \/ \E j \in Jobs : Decide(j)

ASpec == AInit /\ [][ANext]_avars
=============================================================================
