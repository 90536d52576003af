-------------------------- MODULE MemoryProofs --------------------------
(***************************************************************************)
(* Theorems about module MemoryPublication, for any jobs, direct saves and *)
(* contents and any number of deaths and failing writes.                   *)
(***************************************************************************)
EXTENDS MemoryPublication, TLAPS

-----------------------------------------------------------------------------
(* The inductive invariant *)

\* The lock is held exactly by the writer, or the sweep, that works under it.
LockInv ==
  /\ \A o \in Writers : pc[o] \in LockedPcs <=> lock = o
  /\ SweepCleans <=> lock = Sweeper
  /\ SweepCleans => sweep.op \in Writers

\* A writer has looked at the memory before it publishes, and has something
\* to publish.
SeenInv ==
  \A o \in Writers :
    /\ \/ pc[o] \in {"preview", "ensure", "stage"}
       \/ pc[o] = "lock" /\ o \in Jobs
       => base[o] = None
    /\ \/ pc[o] \in {"start", "agent"} \cup CriticalPcs
       \/ pc[o] = "lock" /\ o \in Saves
       => base[o] \in Values
    /\ pc[o] \in CriticalPcs => stage[o] \in Contents

\* What the memory holds at each step of the writer that has it locked.
WorkInv ==
  \A o \in Writers :
    /\ pc[o] \in {"start", "agent", "journal", "backup", "backing", "backed_up",
                  "replace", "mark_failed"} => canonical = base[o]
    /\ pc[o] \in {"publish", "finalize"} => canonical = stage[o]
    /\ pc[o] \in CriticalPcs \ MidWritePcs =>
         canonical = IF o \in installed THEN stage[o] ELSE base[o]
    /\ pc[o] \in {"preview", "lock", "ensure", "stage", "start", "agent", "journal",
                  "backup", "backing", "backed_up", "replace", "replacing",
                  "mark_failed"} => o \notin installed

\* Only a live worker moves its record until it leaves the lock.
RecordInv ==
  \A j \in Jobs :
    /\ pc[j] \in {"lock", "ensure", "stage", "start"} => status[j] = "waiting_for_memory"
    /\ pc[j] \in {"agent", "finalize"} \cup ApplyPcs \cup RollbackPcs =>
         status[j] = "running"

\* A journal is written inside the transaction and not before.
JournalInv ==
  \A o \in Writers :
    pc[o] \in {"preview", "lock", "ensure", "stage", "start", "agent", "journal"} =>
      journal[o] = None

\* The inductive invariant.
MemoryInv == TypeOK /\ LockInv /\ SeenInv /\ WorkInv /\ RecordInv /\ JournalInv

\* A memory nobody uses satisfies the invariant.
LEMMA MemoryInvInit == Init => MemoryInv
  BY MemoryConstants
     DEF Init, MemoryInv, TypeOK, LockInv, SeenInv, WorkInv, RecordInv, JournalInv,
         Writers, Values, Pcs, LockedPcs, ApplyPcs, RollbackPcs, FinalPcs,
         CriticalPcs, MidWritePcs, SweepCleans, IdleSweep

\* Every step of a writer, of the sweep and of their failures preserves it.
LEMMA MemoryInvStep == MemoryInv /\ [Next]_vars => MemoryInv'
<1> SUFFICES ASSUME MemoryInv, [Next]_vars PROVE MemoryInv'
  OBVIOUS
<1> USE MemoryConstants
    DEF MemoryInv, Writers, Values, Phases, Pcs, LockedPcs, ApplyPcs, RollbackPcs,
        FinalPcs, CriticalPcs, MidWritePcs, SweepCleans
<1>1. ASSUME NEW j \in Jobs, AcquireMemory(j) PROVE MemoryInv'
  <2>1. TypeOK'
    BY <1>1 DEF TypeOK, LockInv, SeenInv, AcquireMemory, Goto
  <2>2. LockInv'
    BY <1>1 DEF TypeOK, LockInv, AcquireMemory, Goto
  <2>3. SeenInv'
    BY <1>1 DEF TypeOK, LockInv, SeenInv, AcquireMemory, Goto
  <2>4. WorkInv'
    BY <1>1 DEF TypeOK, LockInv, SeenInv, WorkInv, AcquireMemory, Goto
  <2>5. RecordInv'
    BY <1>1 DEF TypeOK, LockInv, RecordInv, JournalInv, AcquireMemory, Goto
  <2>6. JournalInv'
    BY <1>1 DEF TypeOK, LockInv, JournalInv, AcquireMemory, Goto
  <2> QED
    BY <2>1, <2>2, <2>3, <2>4, <2>5, <2>6
<1>2. ASSUME NEW j \in Jobs, EnsureMemory(j) PROVE MemoryInv'
  <2>1. TypeOK'
    BY <1>2 DEF TypeOK, LockInv, SeenInv, EnsureMemory, Goto, Ensured
  <2>2. LockInv'
    BY <1>2 DEF TypeOK, LockInv, EnsureMemory, Goto, Ensured
  <2>3. SeenInv'
    BY <1>2 DEF TypeOK, LockInv, SeenInv, EnsureMemory, Goto, Ensured
  <2>4. WorkInv'
    BY <1>2 DEF TypeOK, LockInv, SeenInv, WorkInv, EnsureMemory, Goto, Ensured
  <2>5. RecordInv'
    BY <1>2 DEF TypeOK, LockInv, RecordInv, JournalInv, EnsureMemory, Goto, Ensured
  <2>6. JournalInv'
    BY <1>2 DEF TypeOK, LockInv, JournalInv, EnsureMemory, Goto, Ensured
  <2> QED
    BY <2>1, <2>2, <2>3, <2>4, <2>5, <2>6
<1>3. ASSUME NEW j \in Jobs, StageMemory(j) PROVE MemoryInv'
  <2>1. TypeOK'
    BY <1>3 DEF TypeOK, LockInv, SeenInv, StageMemory, Goto
  <2>2. LockInv'
    BY <1>3 DEF TypeOK, LockInv, StageMemory, Goto
  <2>3. SeenInv'
    BY <1>3 DEF TypeOK, LockInv, SeenInv, StageMemory, Goto
  <2>4. WorkInv'
    BY <1>3 DEF TypeOK, LockInv, SeenInv, WorkInv, StageMemory, Goto
  <2>5. RecordInv'
    BY <1>3 DEF TypeOK, LockInv, RecordInv, JournalInv, StageMemory, Goto
  <2>6. JournalInv'
    BY <1>3 DEF TypeOK, LockInv, JournalInv, StageMemory, Goto
  <2> QED
    BY <2>1, <2>2, <2>3, <2>4, <2>5, <2>6
<1>4. ASSUME NEW j \in Jobs, StartRunning(j) PROVE MemoryInv'
  <2>1. TypeOK'
    BY <1>4 DEF TypeOK, LockInv, SeenInv, StartRunning, Goto
  <2>2. LockInv'
    BY <1>4 DEF TypeOK, LockInv, StartRunning, Goto
  <2>3. SeenInv'
    BY <1>4 DEF TypeOK, LockInv, SeenInv, StartRunning, Goto
  <2>4. WorkInv'
    BY <1>4 DEF TypeOK, LockInv, SeenInv, WorkInv, StartRunning, Goto
  <2>5. RecordInv'
    BY <1>4 DEF TypeOK, LockInv, RecordInv, JournalInv, StartRunning, Goto
  <2>6. JournalInv'
    BY <1>4 DEF TypeOK, LockInv, JournalInv, StartRunning, Goto
  <2> QED
    BY <2>1, <2>2, <2>3, <2>4, <2>5, <2>6
<1>5. ASSUME NEW j \in Jobs, AgentSucceeds(j) PROVE MemoryInv'
  <2>1. TypeOK'
    BY <1>5 DEF TypeOK, LockInv, SeenInv, AgentSucceeds, Goto
  <2>2. LockInv'
    BY <1>5 DEF TypeOK, LockInv, AgentSucceeds, Goto
  <2>3. SeenInv'
    BY <1>5 DEF TypeOK, LockInv, SeenInv, AgentSucceeds, Goto
  <2>4. WorkInv'
    BY <1>5 DEF TypeOK, LockInv, SeenInv, WorkInv, AgentSucceeds, Goto
  <2>5. RecordInv'
    BY <1>5 DEF TypeOK, LockInv, RecordInv, JournalInv, AgentSucceeds, Goto
  <2>6. JournalInv'
    BY <1>5 DEF TypeOK, LockInv, JournalInv, AgentSucceeds, Goto
  <2> QED
    BY <2>1, <2>2, <2>3, <2>4, <2>5, <2>6
<1>6. ASSUME NEW j \in Jobs, AgentFails(j) PROVE MemoryInv'
  <2>1. TypeOK'
    BY <1>6 DEF TypeOK, LockInv, SeenInv, AgentFails, Goto
  <2>2. LockInv'
    BY <1>6 DEF TypeOK, LockInv, AgentFails, Goto
  <2>3. SeenInv'
    BY <1>6 DEF TypeOK, LockInv, SeenInv, AgentFails, Goto
  <2>4. WorkInv'
    BY <1>6 DEF TypeOK, LockInv, SeenInv, WorkInv, AgentFails, Goto
  <2>5. RecordInv'
    BY <1>6 DEF TypeOK, LockInv, RecordInv, JournalInv, AgentFails, Goto
  <2>6. JournalInv'
    BY <1>6 DEF TypeOK, LockInv, JournalInv, AgentFails, Goto
  <2> QED
    BY <2>1, <2>2, <2>3, <2>4, <2>5, <2>6
<1>7. ASSUME NEW j \in Jobs, MarkComplete(j) PROVE MemoryInv'
  <2>1. TypeOK'
    BY <1>7 DEF TypeOK, LockInv, SeenInv, MarkComplete, Goto
  <2>2. LockInv'
    BY <1>7 DEF TypeOK, LockInv, MarkComplete, Goto
  <2>3. SeenInv'
    BY <1>7 DEF TypeOK, LockInv, SeenInv, MarkComplete, Goto
  <2>4. WorkInv'
    BY <1>7 DEF TypeOK, LockInv, SeenInv, WorkInv, MarkComplete, Goto
  <2>5. RecordInv'
    BY <1>7 DEF TypeOK, LockInv, RecordInv, JournalInv, MarkComplete, Goto
  <2>6. JournalInv'
    BY <1>7 DEF TypeOK, LockInv, JournalInv, MarkComplete, Goto
  <2> QED
    BY <2>1, <2>2, <2>3, <2>4, <2>5, <2>6
<1>8. ASSUME NEW j \in Jobs, MarkFailed(j) PROVE MemoryInv'
  <2>1. TypeOK'
    BY <1>8 DEF TypeOK, LockInv, SeenInv, MarkFailed, Goto
  <2>2. LockInv'
    BY <1>8 DEF TypeOK, LockInv, MarkFailed, Goto
  <2>3. SeenInv'
    BY <1>8 DEF TypeOK, LockInv, SeenInv, MarkFailed, Goto
  <2>4. WorkInv'
    BY <1>8 DEF TypeOK, LockInv, SeenInv, WorkInv, MarkFailed, Goto
  <2>5. RecordInv'
    BY <1>8 DEF TypeOK, LockInv, RecordInv, JournalInv, MarkFailed, Goto
  <2>6. JournalInv'
    BY <1>8 DEF TypeOK, LockInv, JournalInv, MarkFailed, Goto
  <2> QED
    BY <2>1, <2>2, <2>3, <2>4, <2>5, <2>6
<1>9. ASSUME NEW j \in Jobs, Terminalize(j) PROVE MemoryInv'
  <2>1. TypeOK'
    BY <1>9 DEF TypeOK, LockInv, SeenInv, Terminalize, Goto
  <2>2. LockInv'
    BY <1>9 DEF TypeOK, LockInv, Terminalize, Goto
  <2>3. SeenInv'
    BY <1>9 DEF TypeOK, LockInv, SeenInv, Terminalize, Goto
  <2>4. WorkInv'
    BY <1>9 DEF TypeOK, LockInv, SeenInv, WorkInv, Terminalize, Goto
  <2>5. RecordInv'
    BY <1>9 DEF TypeOK, LockInv, RecordInv, JournalInv, Terminalize, Goto
  <2>6. JournalInv'
    BY <1>9 DEF TypeOK, LockInv, JournalInv, Terminalize, Goto
  <2> QED
    BY <2>1, <2>2, <2>3, <2>4, <2>5, <2>6
<1>10. ASSUME NEW o \in Saves, Preview(o) PROVE MemoryInv'
  <2>1. TypeOK'
    BY <1>10 DEF TypeOK, LockInv, SeenInv, Preview, Goto, Ensured
  <2>2. LockInv'
    BY <1>10 DEF TypeOK, LockInv, Preview, Goto, Ensured
  <2>3. SeenInv'
    BY <1>10 DEF TypeOK, LockInv, SeenInv, Preview, Goto, Ensured
  <2>4. WorkInv'
    BY <1>10 DEF TypeOK, LockInv, SeenInv, WorkInv, Preview, Goto, Ensured
  <2>5. RecordInv'
    BY <1>10 DEF TypeOK, LockInv, RecordInv, JournalInv, Preview, Goto, Ensured
  <2>6. JournalInv'
    BY <1>10 DEF TypeOK, LockInv, JournalInv, Preview, Goto, Ensured
  <2> QED
    BY <2>1, <2>2, <2>3, <2>4, <2>5, <2>6
<1>11. ASSUME NEW o \in Saves, SaveRefused(o) PROVE MemoryInv'
  <2>1. TypeOK'
    BY <1>11 DEF TypeOK, LockInv, SeenInv, SaveRefused, Goto
  <2>2. LockInv'
    BY <1>11 DEF TypeOK, LockInv, SaveRefused, Goto
  <2>3. SeenInv'
    BY <1>11 DEF TypeOK, LockInv, SeenInv, SaveRefused, Goto
  <2>4. WorkInv'
    BY <1>11 DEF TypeOK, LockInv, SeenInv, WorkInv, SaveRefused, Goto
  <2>5. RecordInv'
    BY <1>11 DEF TypeOK, LockInv, RecordInv, JournalInv, SaveRefused, Goto
  <2>6. JournalInv'
    BY <1>11 DEF TypeOK, LockInv, JournalInv, SaveRefused, Goto
  <2> QED
    BY <2>1, <2>2, <2>3, <2>4, <2>5, <2>6
<1>12. ASSUME NEW o \in Saves, SaveConflicts(o) PROVE MemoryInv'
  <2>1. TypeOK'
    BY <1>12 DEF TypeOK, LockInv, SeenInv, SaveConflicts, Goto, Ensured
  <2>2. LockInv'
    BY <1>12 DEF TypeOK, LockInv, SaveConflicts, Goto, Ensured
  <2>3. SeenInv'
    BY <1>12 DEF TypeOK, LockInv, SeenInv, SaveConflicts, Goto, Ensured
  <2>4. WorkInv'
    BY <1>12 DEF TypeOK, LockInv, SeenInv, WorkInv, SaveConflicts, Goto, Ensured
  <2>5. RecordInv'
    BY <1>12 DEF TypeOK, LockInv, RecordInv, JournalInv, SaveConflicts, Goto, Ensured
  <2>6. JournalInv'
    BY <1>12 DEF TypeOK, LockInv, JournalInv, SaveConflicts, Goto, Ensured
  <2> QED
    BY <2>1, <2>2, <2>3, <2>4, <2>5, <2>6
<1>13. ASSUME NEW o \in Saves, SaveBegins(o) PROVE MemoryInv'
  <2>1. TypeOK'
    BY <1>13 DEF TypeOK, LockInv, SeenInv, SaveBegins, Goto, Ensured
  <2>2. LockInv'
    BY <1>13 DEF TypeOK, LockInv, SaveBegins, Goto, Ensured
  <2>3. SeenInv'
    BY <1>13 DEF TypeOK, LockInv, SeenInv, SaveBegins, Goto, Ensured
  <2>4. WorkInv'
    BY <1>13 DEF TypeOK, LockInv, SeenInv, WorkInv, SaveBegins, Goto, Ensured
  <2>5. RecordInv'
    BY <1>13 DEF TypeOK, LockInv, RecordInv, JournalInv, SaveBegins, Goto, Ensured
  <2>6. JournalInv'
    BY <1>13 DEF TypeOK, LockInv, JournalInv, SaveBegins, Goto, Ensured
  <2> QED
    BY <2>1, <2>2, <2>3, <2>4, <2>5, <2>6
<1>14. ASSUME NEW o \in Writers, JournalPrepared(o) PROVE MemoryInv'
  <2>1. TypeOK'
    BY <1>14 DEF TypeOK, LockInv, SeenInv, JournalPrepared, Goto, WriteJournal,
           NoChange
  <2>2. LockInv'
    BY <1>14 DEF TypeOK, LockInv, JournalPrepared, Goto, WriteJournal, NoChange
  <2>3. SeenInv'
    BY <1>14 DEF TypeOK, LockInv, SeenInv, JournalPrepared, Goto, WriteJournal,
           NoChange
  <2>4. WorkInv'
    BY <1>14 DEF TypeOK, LockInv, SeenInv, WorkInv, JournalPrepared, Goto,
           WriteJournal, NoChange
  <2>5. RecordInv'
    BY <1>14 DEF TypeOK, LockInv, RecordInv, JournalInv, JournalPrepared, Goto,
           WriteJournal, NoChange
  <2>6. JournalInv'
    BY <1>14 DEF TypeOK, LockInv, JournalInv, JournalPrepared, Goto, WriteJournal,
           NoChange
  <2> QED
    BY <2>1, <2>2, <2>3, <2>4, <2>5, <2>6
<1>15. ASSUME NEW o \in Writers, BackupBegins(o) PROVE MemoryInv'
  <2>1. TypeOK'
    BY <1>15 DEF TypeOK, LockInv, SeenInv, BackupBegins, Goto
  <2>2. LockInv'
    BY <1>15 DEF TypeOK, LockInv, BackupBegins, Goto
  <2>3. SeenInv'
    BY <1>15 DEF TypeOK, LockInv, SeenInv, BackupBegins, Goto
  <2>4. WorkInv'
    BY <1>15 DEF TypeOK, LockInv, SeenInv, WorkInv, BackupBegins, Goto
  <2>5. RecordInv'
    BY <1>15 DEF TypeOK, LockInv, RecordInv, JournalInv, BackupBegins, Goto
  <2>6. JournalInv'
    BY <1>15 DEF TypeOK, LockInv, JournalInv, BackupBegins, Goto
  <2> QED
    BY <2>1, <2>2, <2>3, <2>4, <2>5, <2>6
<1>16. ASSUME NEW o \in Writers, BackupEnds(o) PROVE MemoryInv'
  <2>1. TypeOK'
    BY <1>16 DEF TypeOK, LockInv, SeenInv, BackupEnds, Goto
  <2>2. LockInv'
    BY <1>16 DEF TypeOK, LockInv, BackupEnds, Goto
  <2>3. SeenInv'
    BY <1>16 DEF TypeOK, LockInv, SeenInv, BackupEnds, Goto
  <2>4. WorkInv'
    BY <1>16 DEF TypeOK, LockInv, SeenInv, WorkInv, BackupEnds, Goto
  <2>5. RecordInv'
    BY <1>16 DEF TypeOK, LockInv, RecordInv, JournalInv, BackupEnds, Goto
  <2>6. JournalInv'
    BY <1>16 DEF TypeOK, LockInv, JournalInv, BackupEnds, Goto
  <2> QED
    BY <2>1, <2>2, <2>3, <2>4, <2>5, <2>6
<1>17. ASSUME NEW o \in Writers, JournalBackedUp(o) PROVE MemoryInv'
  <2>1. TypeOK'
    BY <1>17 DEF TypeOK, LockInv, SeenInv, JournalBackedUp, Goto, WriteJournal
  <2>2. LockInv'
    BY <1>17 DEF TypeOK, LockInv, JournalBackedUp, Goto, WriteJournal
  <2>3. SeenInv'
    BY <1>17 DEF TypeOK, LockInv, SeenInv, JournalBackedUp, Goto, WriteJournal
  <2>4. WorkInv'
    BY <1>17 DEF TypeOK, LockInv, SeenInv, WorkInv, JournalBackedUp, Goto,
           WriteJournal
  <2>5. RecordInv'
    BY <1>17 DEF TypeOK, LockInv, RecordInv, JournalInv, JournalBackedUp, Goto,
           WriteJournal
  <2>6. JournalInv'
    BY <1>17 DEF TypeOK, LockInv, JournalInv, JournalBackedUp, Goto, WriteJournal
  <2> QED
    BY <2>1, <2>2, <2>3, <2>4, <2>5, <2>6
<1>18. ASSUME NEW o \in Writers, ReplaceBegins(o) PROVE MemoryInv'
  <2>1. TypeOK'
    BY <1>18 DEF TypeOK, LockInv, SeenInv, ReplaceBegins, Goto
  <2>2. LockInv'
    BY <1>18 DEF TypeOK, LockInv, ReplaceBegins, Goto
  <2>3. SeenInv'
    BY <1>18 DEF TypeOK, LockInv, SeenInv, ReplaceBegins, Goto
  <2>4. WorkInv'
    BY <1>18 DEF TypeOK, LockInv, SeenInv, WorkInv, ReplaceBegins, Goto
  <2>5. RecordInv'
    BY <1>18 DEF TypeOK, LockInv, RecordInv, JournalInv, ReplaceBegins, Goto
  <2>6. JournalInv'
    BY <1>18 DEF TypeOK, LockInv, JournalInv, ReplaceBegins, Goto
  <2> QED
    BY <2>1, <2>2, <2>3, <2>4, <2>5, <2>6
<1>19. ASSUME NEW o \in Writers, ReplaceEnds(o) PROVE MemoryInv'
  <2>1. TypeOK'
    BY <1>19 DEF TypeOK, LockInv, SeenInv, ReplaceEnds, Goto
  <2>2. LockInv'
    BY <1>19 DEF TypeOK, LockInv, ReplaceEnds, Goto
  <2>3. SeenInv'
    BY <1>19 DEF TypeOK, LockInv, SeenInv, ReplaceEnds, Goto
  <2>4. WorkInv'
    BY <1>19 DEF TypeOK, LockInv, SeenInv, WorkInv, ReplaceEnds, Goto
  <2>5. RecordInv'
    BY <1>19 DEF TypeOK, LockInv, RecordInv, JournalInv, ReplaceEnds, Goto
  <2>6. JournalInv'
    BY <1>19 DEF TypeOK, LockInv, JournalInv, ReplaceEnds, Goto
  <2> QED
    BY <2>1, <2>2, <2>3, <2>4, <2>5, <2>6
<1>20. ASSUME NEW o \in Writers, JournalPublished(o) PROVE MemoryInv'
  <2>1. TypeOK'
    BY <1>20 DEF TypeOK, LockInv, SeenInv, JournalPublished, Goto, WriteJournal
  <2>2. LockInv'
    BY <1>20 DEF TypeOK, LockInv, JournalPublished, Goto, WriteJournal
  <2>3. SeenInv'
    BY <1>20 DEF TypeOK, LockInv, SeenInv, JournalPublished, Goto, WriteJournal
  <2>4. WorkInv'
    BY <1>20 DEF TypeOK, LockInv, SeenInv, WorkInv, JournalPublished, Goto,
           WriteJournal
  <2>5. RecordInv'
    BY <1>20 DEF TypeOK, LockInv, RecordInv, JournalInv, JournalPublished, Goto,
           WriteJournal
  <2>6. JournalInv'
    BY <1>20 DEF TypeOK, LockInv, JournalInv, JournalPublished, Goto, WriteJournal
  <2> QED
    BY <2>1, <2>2, <2>3, <2>4, <2>5, <2>6
<1>21. ASSUME NEW o \in Writers, CleanJournal(o) PROVE MemoryInv'
  <2>1. TypeOK'
    BY <1>21 DEF TypeOK, LockInv, SeenInv, CleanJournal, Goto
  <2>2. LockInv'
    BY <1>21 DEF TypeOK, LockInv, CleanJournal, Goto
  <2>3. SeenInv'
    BY <1>21 DEF TypeOK, LockInv, SeenInv, CleanJournal, Goto
  <2>4. WorkInv'
    BY <1>21 DEF TypeOK, LockInv, SeenInv, WorkInv, CleanJournal, Goto
  <2>5. RecordInv'
    BY <1>21 DEF TypeOK, LockInv, RecordInv, JournalInv, CleanJournal, Goto
  <2>6. JournalInv'
    BY <1>21 DEF TypeOK, LockInv, JournalInv, CleanJournal, Goto
  <2> QED
    BY <2>1, <2>2, <2>3, <2>4, <2>5, <2>6
<1>22. ASSUME NEW o \in Writers, CleanBackup(o) PROVE MemoryInv'
  <2>1. TypeOK'
    BY <1>22 DEF TypeOK, LockInv, SeenInv, CleanBackup, Goto
  <2>2. LockInv'
    BY <1>22 DEF TypeOK, LockInv, CleanBackup, Goto
  <2>3. SeenInv'
    BY <1>22 DEF TypeOK, LockInv, SeenInv, CleanBackup, Goto
  <2>4. WorkInv'
    BY <1>22 DEF TypeOK, LockInv, SeenInv, WorkInv, CleanBackup, Goto
  <2>5. RecordInv'
    BY <1>22 DEF TypeOK, LockInv, RecordInv, JournalInv, CleanBackup, Goto
  <2>6. JournalInv'
    BY <1>22 DEF TypeOK, LockInv, JournalInv, CleanBackup, Goto
  <2> QED
    BY <2>1, <2>2, <2>3, <2>4, <2>5, <2>6
<1>23. ASSUME NEW o \in Writers, CleanStage(o) PROVE MemoryInv'
  <2>1. TypeOK'
    BY <1>23 DEF TypeOK, LockInv, SeenInv, CleanStage, Goto
  <2>2. LockInv'
    BY <1>23 DEF TypeOK, LockInv, CleanStage, Goto
  <2>3. SeenInv'
    BY <1>23 DEF TypeOK, LockInv, SeenInv, CleanStage, Goto
  <2>4. WorkInv'
    BY <1>23 DEF TypeOK, LockInv, SeenInv, WorkInv, CleanStage, Goto
  <2>5. RecordInv'
    BY <1>23 DEF TypeOK, LockInv, RecordInv, JournalInv, CleanStage, Goto
  <2>6. JournalInv'
    BY <1>23 DEF TypeOK, LockInv, JournalInv, CleanStage, Goto
  <2> QED
    BY <2>1, <2>2, <2>3, <2>4, <2>5, <2>6
<1>24. ASSUME NEW o \in Writers, RollbackBegins(o) PROVE MemoryInv'
  <2>1. TypeOK'
    BY <1>24 DEF TypeOK, LockInv, SeenInv, RollbackBegins, Goto
  <2>2. LockInv'
    BY <1>24 DEF TypeOK, LockInv, RollbackBegins, Goto
  <2>3. SeenInv'
    BY <1>24 DEF TypeOK, LockInv, SeenInv, RollbackBegins, Goto
  <2>4. WorkInv'
    BY <1>24 DEF TypeOK, LockInv, SeenInv, WorkInv, RollbackBegins, Goto
  <2>5. RecordInv'
    BY <1>24 DEF TypeOK, LockInv, RecordInv, JournalInv, RollbackBegins, Goto
  <2>6. JournalInv'
    BY <1>24 DEF TypeOK, LockInv, JournalInv, RollbackBegins, Goto
  <2> QED
    BY <2>1, <2>2, <2>3, <2>4, <2>5, <2>6
<1>25. ASSUME NEW o \in Writers, RollbackEnds(o) PROVE MemoryInv'
  <2>1. TypeOK'
    BY <1>25 DEF TypeOK, LockInv, SeenInv, RollbackEnds, Goto
  <2>2. LockInv'
    BY <1>25 DEF TypeOK, LockInv, RollbackEnds, Goto
  <2>3. SeenInv'
    BY <1>25 DEF TypeOK, LockInv, SeenInv, RollbackEnds, Goto
  <2>4. WorkInv'
    BY <1>25 DEF TypeOK, LockInv, SeenInv, WorkInv, RollbackEnds, Goto
  <2>5. RecordInv'
    BY <1>25 DEF TypeOK, LockInv, RecordInv, JournalInv, RollbackEnds, Goto
  <2>6. JournalInv'
    BY <1>25 DEF TypeOK, LockInv, JournalInv, RollbackEnds, Goto
  <2> QED
    BY <2>1, <2>2, <2>3, <2>4, <2>5, <2>6
<1>26. ASSUME NEW o \in Writers, TransactionFails(o) PROVE MemoryInv'
  <2>1. TypeOK'
    BY <1>26 DEF TypeOK, LockInv, SeenInv, TransactionFails, Goto
  <2>2. LockInv'
    BY <1>26 DEF TypeOK, LockInv, TransactionFails, Goto
  <2>3. SeenInv'
    BY <1>26 DEF TypeOK, LockInv, SeenInv, TransactionFails, Goto
  <2>4. WorkInv'
    BY <1>26 DEF TypeOK, LockInv, SeenInv, WorkInv, TransactionFails, Goto
  <2>5. RecordInv'
    BY <1>26 DEF TypeOK, LockInv, RecordInv, JournalInv, TransactionFails, Goto
  <2>6. JournalInv'
    BY <1>26 DEF TypeOK, LockInv, JournalInv, TransactionFails, Goto
  <2> QED
    BY <2>1, <2>2, <2>3, <2>4, <2>5, <2>6
<1>27. ASSUME NEW o \in Writers, FinalStepFails(o) PROVE MemoryInv'
  <2>1. TypeOK'
    BY <1>27 DEF TypeOK, LockInv, SeenInv, FinalStepFails, Goto
  <2>2. LockInv'
    BY <1>27 DEF TypeOK, LockInv, FinalStepFails, Goto
  <2>3. SeenInv'
    BY <1>27 DEF TypeOK, LockInv, SeenInv, FinalStepFails, Goto
  <2>4. WorkInv'
    BY <1>27 DEF TypeOK, LockInv, SeenInv, WorkInv, FinalStepFails, Goto
  <2>5. RecordInv'
    BY <1>27 DEF TypeOK, LockInv, RecordInv, JournalInv, FinalStepFails, Goto
  <2>6. JournalInv'
    BY <1>27 DEF TypeOK, LockInv, JournalInv, FinalStepFails, Goto
  <2> QED
    BY <2>1, <2>2, <2>3, <2>4, <2>5, <2>6
<1>28. ASSUME NEW o \in Writers, WriterDies(o) PROVE MemoryInv'
  <2>1. TypeOK'
    BY <1>28 DEF TypeOK, LockInv, SeenInv, WriterDies, Goto, MissedBySweep
  <2>2. LockInv'
    BY <1>28 DEF TypeOK, LockInv, WriterDies, Goto, MissedBySweep
  <2>3. SeenInv'
    BY <1>28 DEF TypeOK, LockInv, SeenInv, WriterDies, Goto, MissedBySweep
  <2>4. WorkInv'
    BY <1>28 DEF TypeOK, LockInv, SeenInv, WorkInv, WriterDies, Goto, MissedBySweep
  <2>5. RecordInv'
    BY <1>28 DEF TypeOK, LockInv, RecordInv, JournalInv, WriterDies, Goto,
           MissedBySweep
  <2>6. JournalInv'
    BY <1>28 DEF TypeOK, LockInv, JournalInv, WriterDies, Goto, MissedBySweep
  <2> QED
    BY <2>1, <2>2, <2>3, <2>4, <2>5, <2>6
<1>29. ASSUME NEW o \in Writers, RecoverNothing(o) PROVE MemoryInv'
  <2>1. TypeOK'
    BY <1>29 DEF TypeOK, LockInv, SeenInv, RecoverNothing
  <2>2. LockInv'
    BY <1>29 DEF TypeOK, LockInv, RecoverNothing
  <2>3. SeenInv'
    BY <1>29 DEF TypeOK, LockInv, SeenInv, RecoverNothing
  <2>4. WorkInv'
    BY <1>29 DEF TypeOK, LockInv, SeenInv, WorkInv, RecoverNothing
  <2>5. RecordInv'
    BY <1>29 DEF TypeOK, LockInv, RecordInv, JournalInv, RecoverNothing
  <2>6. JournalInv'
    BY <1>29 DEF TypeOK, LockInv, JournalInv, RecoverNothing
  <2> QED
    BY <2>1, <2>2, <2>3, <2>4, <2>5, <2>6
<1>30. ASSUME NEW o \in Writers, RecoverMarks(o) PROVE MemoryInv'
  <2>1. TypeOK'
    BY <1>30 DEF TypeOK, LockInv, SeenInv, RecoverMarks, Recovered, Markable
  <2>2. LockInv'
    BY <1>30 DEF TypeOK, LockInv, RecoverMarks, Recovered, Markable
  <2>3. SeenInv'
    BY <1>30 DEF TypeOK, LockInv, SeenInv, RecoverMarks, Recovered, Markable
  <2>4. WorkInv'
    BY <1>30 DEF TypeOK, LockInv, SeenInv, WorkInv, RecoverMarks, Recovered, Markable
  <2>5. RecordInv'
    BY <1>30 DEF TypeOK, LockInv, RecordInv, JournalInv, RecoverMarks, Recovered,
           Markable
  <2>6. JournalInv'
    BY <1>30 DEF TypeOK, LockInv, JournalInv, RecoverMarks, Recovered, Markable
  <2> QED
    BY <2>1, <2>2, <2>3, <2>4, <2>5, <2>6
<1>31. ASSUME NEW o \in Writers, RecoverBlocked(o) PROVE MemoryInv'
  <2>1. TypeOK'
    BY <1>31 DEF TypeOK, LockInv, SeenInv, RecoverBlocked
  <2>2. LockInv'
    BY <1>31 DEF TypeOK, LockInv, RecoverBlocked
  <2>3. SeenInv'
    BY <1>31 DEF TypeOK, LockInv, SeenInv, RecoverBlocked
  <2>4. WorkInv'
    BY <1>31 DEF TypeOK, LockInv, SeenInv, WorkInv, RecoverBlocked
  <2>5. RecordInv'
    BY <1>31 DEF TypeOK, LockInv, RecordInv, JournalInv, RecoverBlocked
  <2>6. JournalInv'
    BY <1>31 DEF TypeOK, LockInv, JournalInv, RecoverBlocked
  <2> QED
    BY <2>1, <2>2, <2>3, <2>4, <2>5, <2>6
<1>32. ASSUME SweepBegins PROVE MemoryInv'
  <2>1. TypeOK'
    BY <1>32 DEF TypeOK, LockInv, SeenInv, SweepBegins, IdleSweep
  <2>2. LockInv'
    BY <1>32 DEF TypeOK, LockInv, SweepBegins, IdleSweep
  <2>3. SeenInv'
    BY <1>32 DEF TypeOK, LockInv, SeenInv, SweepBegins, IdleSweep
  <2>4. WorkInv'
    BY <1>32 DEF TypeOK, LockInv, SeenInv, WorkInv, SweepBegins, IdleSweep
  <2>5. RecordInv'
    BY <1>32 DEF TypeOK, LockInv, RecordInv, JournalInv, SweepBegins, IdleSweep
  <2>6. JournalInv'
    BY <1>32 DEF TypeOK, LockInv, JournalInv, SweepBegins, IdleSweep
  <2> QED
    BY <2>1, <2>2, <2>3, <2>4, <2>5, <2>6
<1>33. ASSUME RecoveryDone PROVE MemoryInv'
  <2>1. TypeOK'
    BY <1>33 DEF TypeOK, LockInv, SeenInv, RecoveryDone
  <2>2. LockInv'
    BY <1>33 DEF TypeOK, LockInv, RecoveryDone
  <2>3. SeenInv'
    BY <1>33 DEF TypeOK, LockInv, SeenInv, RecoveryDone
  <2>4. WorkInv'
    BY <1>33 DEF TypeOK, LockInv, SeenInv, WorkInv, RecoveryDone
  <2>5. RecordInv'
    BY <1>33 DEF TypeOK, LockInv, RecordInv, JournalInv, RecoveryDone
  <2>6. JournalInv'
    BY <1>33 DEF TypeOK, LockInv, JournalInv, RecoveryDone
  <2> QED
    BY <2>1, <2>2, <2>3, <2>4, <2>5, <2>6
<1>34. ASSUME SweepEnds PROVE MemoryInv'
  <2>1. TypeOK'
    BY <1>34 DEF TypeOK, LockInv, SeenInv, SweepEnds, IdleSweep
  <2>2. LockInv'
    BY <1>34 DEF TypeOK, LockInv, SweepEnds, IdleSweep
  <2>3. SeenInv'
    BY <1>34 DEF TypeOK, LockInv, SeenInv, SweepEnds, IdleSweep
  <2>4. WorkInv'
    BY <1>34 DEF TypeOK, LockInv, SeenInv, WorkInv, SweepEnds, IdleSweep
  <2>5. RecordInv'
    BY <1>34 DEF TypeOK, LockInv, RecordInv, JournalInv, SweepEnds, IdleSweep
  <2>6. JournalInv'
    BY <1>34 DEF TypeOK, LockInv, JournalInv, SweepEnds, IdleSweep
  <2> QED
    BY <2>1, <2>2, <2>3, <2>4, <2>5, <2>6
<1>35. ASSUME RecoverCleansJournal PROVE MemoryInv'
  <2>1. TypeOK'
    BY <1>35 DEF TypeOK, LockInv, SeenInv, RecoverCleansJournal
  <2>2. LockInv'
    BY <1>35 DEF TypeOK, LockInv, RecoverCleansJournal
  <2>3. SeenInv'
    BY <1>35 DEF TypeOK, LockInv, SeenInv, RecoverCleansJournal
  <2>4. WorkInv'
    BY <1>35 DEF TypeOK, LockInv, SeenInv, WorkInv, RecoverCleansJournal
  <2>5. RecordInv'
    BY <1>35 DEF TypeOK, LockInv, RecordInv, JournalInv, RecoverCleansJournal
  <2>6. JournalInv'
    BY <1>35 DEF TypeOK, LockInv, JournalInv, RecoverCleansJournal
  <2> QED
    BY <2>1, <2>2, <2>3, <2>4, <2>5, <2>6
<1>36. ASSUME RecoverCleansBackup PROVE MemoryInv'
  <2>1. TypeOK'
    BY <1>36 DEF TypeOK, LockInv, SeenInv, RecoverCleansBackup
  <2>2. LockInv'
    BY <1>36 DEF TypeOK, LockInv, RecoverCleansBackup
  <2>3. SeenInv'
    BY <1>36 DEF TypeOK, LockInv, SeenInv, RecoverCleansBackup
  <2>4. WorkInv'
    BY <1>36 DEF TypeOK, LockInv, SeenInv, WorkInv, RecoverCleansBackup
  <2>5. RecordInv'
    BY <1>36 DEF TypeOK, LockInv, RecordInv, JournalInv, RecoverCleansBackup
  <2>6. JournalInv'
    BY <1>36 DEF TypeOK, LockInv, JournalInv, RecoverCleansBackup
  <2> QED
    BY <2>1, <2>2, <2>3, <2>4, <2>5, <2>6
<1>37. ASSUME RecoverCleansStage PROVE MemoryInv'
  <2>1. TypeOK'
    BY <1>37 DEF TypeOK, LockInv, SeenInv, RecoverCleansStage
  <2>2. LockInv'
    BY <1>37 DEF TypeOK, LockInv, RecoverCleansStage
  <2>3. SeenInv'
    BY <1>37 DEF TypeOK, LockInv, SeenInv, RecoverCleansStage
  <2>4. WorkInv'
    BY <1>37 DEF TypeOK, LockInv, SeenInv, WorkInv, RecoverCleansStage
  <2>5. RecordInv'
    BY <1>37 DEF TypeOK, LockInv, RecordInv, JournalInv, RecoverCleansStage
  <2>6. JournalInv'
    BY <1>37 DEF TypeOK, LockInv, JournalInv, RecoverCleansStage
  <2> QED
    BY <2>1, <2>2, <2>3, <2>4, <2>5, <2>6
<1>38. ASSUME SweepDies PROVE MemoryInv'
  <2>1. TypeOK'
    BY <1>38 DEF TypeOK, LockInv, SeenInv, SweepDies, IdleSweep
  <2>2. LockInv'
    BY <1>38 DEF TypeOK, LockInv, SweepDies, IdleSweep
  <2>3. SeenInv'
    BY <1>38 DEF TypeOK, LockInv, SeenInv, SweepDies, IdleSweep
  <2>4. WorkInv'
    BY <1>38 DEF TypeOK, LockInv, SeenInv, WorkInv, SweepDies, IdleSweep
  <2>5. RecordInv'
    BY <1>38 DEF TypeOK, LockInv, RecordInv, JournalInv, SweepDies, IdleSweep
  <2>6. JournalInv'
    BY <1>38 DEF TypeOK, LockInv, JournalInv, SweepDies, IdleSweep
  <2> QED
    BY <2>1, <2>2, <2>3, <2>4, <2>5, <2>6
<1>39. ASSUME NEW j \in Jobs, ReconcileRecord(j) PROVE MemoryInv'
  <2>1. TypeOK'
    BY <1>39 DEF TypeOK, LockInv, SeenInv, ReconcileRecord, ConfirmedDead
  <2>2. LockInv'
    BY <1>39 DEF TypeOK, LockInv, ReconcileRecord, ConfirmedDead
  <2>3. SeenInv'
    BY <1>39 DEF TypeOK, LockInv, SeenInv, ReconcileRecord, ConfirmedDead
  <2>4. WorkInv'
    BY <1>39 DEF TypeOK, LockInv, SeenInv, WorkInv, ReconcileRecord, ConfirmedDead
  <2>5. RecordInv'
    BY <1>39 DEF TypeOK, LockInv, RecordInv, JournalInv, ReconcileRecord,
           ConfirmedDead
  <2>6. JournalInv'
    BY <1>39 DEF TypeOK, LockInv, JournalInv, ReconcileRecord, ConfirmedDead
  <2> QED
    BY <2>1, <2>2, <2>3, <2>4, <2>5, <2>6
<1>40. CASE UNCHANGED vars
  BY <1>40 DEF vars, TypeOK, LockInv, SeenInv, WorkInv, RecordInv, JournalInv
<1> QED
  BY <1>1, <1>2, <1>3, <1>4, <1>5, <1>6, <1>7, <1>8, <1>9, <1>10, <1>11,
     <1>12, <1>13, <1>14, <1>15, <1>16, <1>17, <1>18, <1>19, <1>20, <1>21,
     <1>22, <1>23, <1>24, <1>25, <1>26, <1>27, <1>28, <1>29, <1>30, <1>31,
     <1>32, <1>33, <1>34, <1>35, <1>36, <1>37, <1>38, <1>39, <1>40
     DEF Next, WriterStep, JobStep, SaveStep, TransactionStep, SweepStep, Failures

\* The invariant holds in every reachable state.
THEOREM MemoryInvariance == Spec => []MemoryInv
  BY MemoryInvInit, MemoryInvStep, PTL DEF Spec

\* Type correctness of the memory, its writers and the sweep.
THEOREM MemoryTypeCorrect == Spec => []TypeOK
<1>1. MemoryInv => TypeOK
  BY DEF MemoryInv
<1> QED
  BY <1>1, MemoryInvariance, PTL

-----------------------------------------------------------------------------
(* Completion *)

\* The records a step completes have their content in the memory.
CompletesPublished ==
  \A i \in Jobs : status[i] # "complete" /\ status'[i] = "complete" => canonical = stage[i]

\* A worker completes its record after its replacement, recovery only when
\* the journal, the stage and the memory agree; nothing else completes one.
LEMMA CompletionStep == MemoryInv /\ [Next]_vars => CompletesPublished
<1> SUFFICES ASSUME MemoryInv, [Next]_vars PROVE CompletesPublished
  OBVIOUS
<1> USE DEF CompletesPublished
<1>1. ASSUME NEW j \in Jobs, AcquireMemory(j) PROVE CompletesPublished
  BY <1>1
     DEF AcquireMemory
<1>2. ASSUME NEW j \in Jobs, EnsureMemory(j) PROVE CompletesPublished
  BY <1>2
     DEF EnsureMemory
<1>3. ASSUME NEW j \in Jobs, StageMemory(j) PROVE CompletesPublished
  BY <1>3
     DEF StageMemory
<1>4. ASSUME NEW j \in Jobs, StartRunning(j) PROVE CompletesPublished
  BY <1>4
     DEF MemoryInv, TypeOK, StartRunning
<1>5. ASSUME NEW j \in Jobs, AgentSucceeds(j) PROVE CompletesPublished
  BY <1>5
     DEF AgentSucceeds
<1>6. ASSUME NEW j \in Jobs, AgentFails(j) PROVE CompletesPublished
  BY <1>6
     DEF MemoryInv, TypeOK, AgentFails
<1>7. ASSUME NEW j \in Jobs, MarkComplete(j) PROVE CompletesPublished
  BY <1>7
     DEF MemoryInv, TypeOK, WorkInv, MarkComplete, Writers
<1>8. ASSUME NEW j \in Jobs, MarkFailed(j) PROVE CompletesPublished
  BY <1>8
     DEF MemoryInv, TypeOK, MarkFailed
<1>9. ASSUME NEW j \in Jobs, Terminalize(j) PROVE CompletesPublished
  BY <1>9
     DEF MemoryInv, TypeOK, Terminalize
<1>10. ASSUME NEW o \in Saves, Preview(o) PROVE CompletesPublished
  BY <1>10
     DEF Preview
<1>11. ASSUME NEW o \in Saves, SaveRefused(o) PROVE CompletesPublished
  BY <1>11
     DEF SaveRefused
<1>12. ASSUME NEW o \in Saves, SaveConflicts(o) PROVE CompletesPublished
  BY <1>12
     DEF SaveConflicts
<1>13. ASSUME NEW o \in Saves, SaveBegins(o) PROVE CompletesPublished
  BY <1>13
     DEF SaveBegins
<1>14. ASSUME NEW o \in Writers, JournalPrepared(o) PROVE CompletesPublished
  BY <1>14
     DEF JournalPrepared
<1>15. ASSUME NEW o \in Writers, BackupBegins(o) PROVE CompletesPublished
  BY <1>15
     DEF BackupBegins
<1>16. ASSUME NEW o \in Writers, BackupEnds(o) PROVE CompletesPublished
  BY <1>16
     DEF BackupEnds
<1>17. ASSUME NEW o \in Writers, JournalBackedUp(o) PROVE CompletesPublished
  BY <1>17
     DEF JournalBackedUp
<1>18. ASSUME NEW o \in Writers, ReplaceBegins(o) PROVE CompletesPublished
  BY <1>18
     DEF ReplaceBegins
<1>19. ASSUME NEW o \in Writers, ReplaceEnds(o) PROVE CompletesPublished
  BY <1>19
     DEF ReplaceEnds
<1>20. ASSUME NEW o \in Writers, JournalPublished(o) PROVE CompletesPublished
  BY <1>20
     DEF JournalPublished
<1>21. ASSUME NEW o \in Writers, CleanJournal(o) PROVE CompletesPublished
  BY <1>21
     DEF CleanJournal
<1>22. ASSUME NEW o \in Writers, CleanBackup(o) PROVE CompletesPublished
  BY <1>22
     DEF CleanBackup
<1>23. ASSUME NEW o \in Writers, CleanStage(o) PROVE CompletesPublished
  BY <1>23
     DEF CleanStage
<1>24. ASSUME NEW o \in Writers, RollbackBegins(o) PROVE CompletesPublished
  BY <1>24
     DEF RollbackBegins
<1>25. ASSUME NEW o \in Writers, RollbackEnds(o) PROVE CompletesPublished
  BY <1>25
     DEF RollbackEnds
<1>26. ASSUME NEW o \in Writers, TransactionFails(o) PROVE CompletesPublished
  BY <1>26
     DEF TransactionFails
<1>27. ASSUME NEW o \in Writers, FinalStepFails(o) PROVE CompletesPublished
  BY <1>27
     DEF FinalStepFails
<1>28. ASSUME NEW o \in Writers, WriterDies(o) PROVE CompletesPublished
  BY <1>28
     DEF WriterDies
<1>29. ASSUME NEW o \in Writers, RecoverNothing(o) PROVE CompletesPublished
  BY <1>29
     DEF RecoverNothing
<1>30. ASSUME NEW o \in Writers, RecoverMarks(o) PROVE CompletesPublished
  BY <1>30
     DEF MemoryInv, TypeOK, RecoverMarks, Recovered
<1>31. ASSUME NEW o \in Writers, RecoverBlocked(o) PROVE CompletesPublished
  BY <1>31
     DEF RecoverBlocked
<1>32. ASSUME SweepBegins PROVE CompletesPublished
  BY <1>32
     DEF SweepBegins
<1>33. ASSUME RecoveryDone PROVE CompletesPublished
  BY <1>33
     DEF RecoveryDone
<1>34. ASSUME SweepEnds PROVE CompletesPublished
  BY <1>34
     DEF SweepEnds
<1>35. ASSUME RecoverCleansJournal PROVE CompletesPublished
  BY <1>35
     DEF RecoverCleansJournal
<1>36. ASSUME RecoverCleansBackup PROVE CompletesPublished
  BY <1>36
     DEF RecoverCleansBackup
<1>37. ASSUME RecoverCleansStage PROVE CompletesPublished
  BY <1>37
     DEF RecoverCleansStage
<1>38. ASSUME SweepDies PROVE CompletesPublished
  BY <1>38
     DEF SweepDies
<1>39. ASSUME NEW j \in Jobs, ReconcileRecord(j) PROVE CompletesPublished
  BY <1>39
     DEF MemoryInv, TypeOK, ReconcileRecord
<1>40. CASE UNCHANGED vars
  BY <1>40 DEF vars
<1> QED
  BY <1>1, <1>2, <1>3, <1>4, <1>5, <1>6, <1>7, <1>8, <1>9, <1>10, <1>11,
     <1>12, <1>13, <1>14, <1>15, <1>16, <1>17, <1>18, <1>19, <1>20, <1>21,
     <1>22, <1>23, <1>24, <1>25, <1>26, <1>27, <1>28, <1>29, <1>30, <1>31,
     <1>32, <1>33, <1>34, <1>35, <1>36, <1>37, <1>38, <1>39, <1>40
     DEF Next, WriterStep, JobStep, SaveStep, TransactionStep, SweepStep, Failures

\* A record becomes complete only while the memory holds the job's content.
THEOREM CompletionHoldsContentAlways == Spec => CompletionHoldsContent
<1>1. MemoryInv /\ [Next]_vars =>
        [\A j \in Jobs : status[j] # "complete" /\ status'[j] = "complete" =>
           canonical = stage[j]]_vars
  BY CompletionStep DEF CompletesPublished
<1> QED
  BY <1>1, MemoryInvariance, PTL DEF Spec, CompletionHoldsContent

-----------------------------------------------------------------------------
(* Refinement *)

\* The committed memory, in terms of who has the lock.
HolderMemory ==
  IF lock \in Writers /\ pc[lock] \in CriticalPcs THEN base[lock] ELSE canonical

\* The writer whose transaction hides the memory is the holder of the lock.
LEMMA CommittedIsHolders == MemoryInv => CommittedMemory = HolderMemory
<1> SUFFICES ASSUME MemoryInv PROVE CommittedMemory = HolderMemory
  OBVIOUS
<1>1. \A o \in Writers : pc[o] \in CriticalPcs => lock = o
  BY DEF MemoryInv, LockInv, CriticalPcs, LockedPcs
<1> QED
  BY <1>1 DEF CommittedMemory, HolderMemory

\* The same in the next state.
LEMMA CommittedIsHoldersNext == MemoryInv' => CommittedMemory' = HolderMemory'
<1> SUFFICES ASSUME MemoryInv' PROVE CommittedMemory' = HolderMemory'
  OBVIOUS
<1>1. \A o \in Writers : pc'[o] \in CriticalPcs => lock' = o
  BY DEF MemoryInv, LockInv, CriticalPcs, LockedPcs, Writers
<1> QED
  BY <1>1 DEF CommittedMemory, HolderMemory

\* Every step is a step of the atomic memory or changes nothing of it.  A
\* transaction takes effect when its writer gives up the lock, by finishing,
\* by an exception or by dying.
LEMMA AtomicStep ==
  ASSUME TornWrites = FALSE, MemoryInv, MemoryInv', [Next]_vars
  PROVE  [Atomic!ANext]_(Atomic!avars)
<1> USE MemoryConstants
    DEF Writers, LockedPcs, ApplyPcs, RollbackPcs, FinalPcs, CriticalPcs, MidWritePcs,
        SweepCleans, Values
<1>a. CommittedMemory = HolderMemory /\ CommittedMemory' = HolderMemory'
  BY CommittedIsHolders, CommittedIsHoldersNext
<1>b. ASSUME HolderMemory' = HolderMemory, Committed' = Committed, Verdicts' = Verdicts,
             base' = base
      PROVE  [Atomic!ANext]_(Atomic!avars)
  BY <1>a, <1>b DEF Atomic!avars
<1>c. ASSUME HolderMemory = Empty, HolderMemory' = Blank, Committed' = Committed,
             Verdicts' = Verdicts, base' = base
      PROVE  [Atomic!ANext]_(Atomic!avars)
  BY <1>a, <1>c DEF Atomic!ANext, Atomic!Seed
<1>d. ASSUME NEW o \in Writers, NEW v \in Values, base[o] = None,
             base' = [base EXCEPT ![o] = v],
             HolderMemory' = HolderMemory, Committed' = Committed, Verdicts' = Verdicts
      PROVE  [Atomic!ANext]_(Atomic!avars)
  BY <1>a, <1>d DEF Atomic!ANext, Atomic!Look, Atomic!Writers
<1>e. ASSUME NEW o \in Writers, o \notin Committed, HolderMemory = base[o],
             HolderMemory' \in Contents, Committed' = Committed \cup {o},
             Verdicts' = Verdicts, base' = base
      PROVE  [Atomic!ANext]_(Atomic!avars)
  BY <1>a, <1>e DEF Atomic!ANext, Atomic!Commit, Atomic!Writers
<1>f. ASSUME NEW j \in Jobs, NEW v \in {"complete", "failed"},
             status[j] \notin {"complete", "failed"}, status' = [status EXCEPT ![j] = v],
             HolderMemory' = HolderMemory, Committed' = Committed, base' = base
      PROVE  [Atomic!ANext]_(Atomic!avars)
  <2>1. Verdicts[j] = "none"
    BY <1>f DEF Verdicts
  <2>2. Verdicts' = [Verdicts EXCEPT ![j] = v]
    BY <1>f DEF Verdicts, MemoryInv, TypeOK
  <2> QED
    BY <1>a, <1>f, <2>1, <2>2 DEF Atomic!ANext, Atomic!Decide
<1>g. ASSUME status' = status PROVE Verdicts' = Verdicts
  BY <1>g DEF Verdicts
<1>1. ASSUME NEW j \in Jobs, AcquireMemory(j) PROVE [Atomic!ANext]_(Atomic!avars)
  <2>1. HolderMemory' = HolderMemory
    BY <1>1 DEF HolderMemory, MemoryInv, TypeOK, LockInv, SeenInv, WorkInv,
           AcquireMemory, Goto
  <2>2. Committed' = Committed
    BY <1>1 DEF Committed, MemoryInv, TypeOK, LockInv, WorkInv, AcquireMemory, Goto
  <2>3. Verdicts' = Verdicts /\ base' = base
    BY <1>1 DEF Verdicts, AcquireMemory
  <2> QED
    BY <1>b, <2>1, <2>2, <2>3
<1>2. ASSUME NEW j \in Jobs, EnsureMemory(j) PROVE [Atomic!ANext]_(Atomic!avars)
  <2>1. \/ HolderMemory' = HolderMemory
        \/ HolderMemory = Empty /\ HolderMemory' = Blank
    BY <1>2 DEF HolderMemory, MemoryInv, TypeOK, LockInv, SeenInv, WorkInv,
           EnsureMemory, Goto, Ensured
  <2>2. Committed' = Committed
    BY <1>2 DEF Committed, MemoryInv, TypeOK, LockInv, WorkInv, EnsureMemory, Goto,
           Ensured
  <2>3. Verdicts' = Verdicts
    BY <1>2 DEF Verdicts, MemoryInv, TypeOK, RecordInv, LockInv, EnsureMemory, Goto,
           Ensured
  <2>4. base' = base
    BY <1>2 DEF EnsureMemory
  <2> QED
    BY <1>b, <1>c, <2>1, <2>2, <2>3, <2>4
<1>3. ASSUME NEW j \in Jobs, StageMemory(j) PROVE [Atomic!ANext]_(Atomic!avars)
  <2>1. HolderMemory' = HolderMemory
    BY <1>3 DEF HolderMemory, MemoryInv, TypeOK, LockInv, SeenInv, WorkInv,
           StageMemory, Goto
  <2>2. Committed' = Committed
    BY <1>3 DEF Committed, MemoryInv, TypeOK, LockInv, WorkInv, StageMemory, Goto
  <2>3. Verdicts' = Verdicts
    BY <1>3 DEF Verdicts, MemoryInv, TypeOK, RecordInv, LockInv, StageMemory, Goto
  <2>4. base[j] = None /\ base' = [base EXCEPT ![j] = canonical] /\ canonical \in Values
    BY <1>3 DEF MemoryInv, TypeOK, SeenInv, StageMemory, Goto
  <2> QED
    BY <1>d, <2>1, <2>2, <2>3, <2>4
<1>4. ASSUME NEW j \in Jobs, StartRunning(j) PROVE [Atomic!ANext]_(Atomic!avars)
  <2>1. HolderMemory' = HolderMemory
    BY <1>4 DEF HolderMemory, MemoryInv, TypeOK, LockInv, SeenInv, WorkInv,
           StartRunning, Goto
  <2>2. Committed' = Committed
    BY <1>4 DEF Committed, MemoryInv, TypeOK, LockInv, WorkInv, StartRunning, Goto
  <2>3. Verdicts' = Verdicts /\ base' = base
    BY <1>4 DEF Verdicts, MemoryInv, TypeOK, StartRunning, Goto
  <2> QED
    BY <1>b, <2>1, <2>2, <2>3
<1>5. ASSUME NEW j \in Jobs, AgentSucceeds(j) PROVE [Atomic!ANext]_(Atomic!avars)
  <2>1. HolderMemory' = HolderMemory
    BY <1>5 DEF HolderMemory, MemoryInv, TypeOK, LockInv, SeenInv, WorkInv,
           AgentSucceeds, Goto
  <2>2. Committed' = Committed
    BY <1>5 DEF Committed, MemoryInv, TypeOK, LockInv, WorkInv, AgentSucceeds, Goto
  <2>3. Verdicts' = Verdicts /\ base' = base
    BY <1>5 DEF Verdicts, AgentSucceeds
  <2> QED
    BY <1>b, <2>1, <2>2, <2>3
<1>6. ASSUME NEW j \in Jobs, AgentFails(j) PROVE [Atomic!ANext]_(Atomic!avars)
  <2>1. HolderMemory' = HolderMemory
    BY <1>6 DEF HolderMemory, MemoryInv, TypeOK, LockInv, SeenInv, WorkInv,
           AgentFails, Goto
  <2>2. Committed' = Committed
    BY <1>6 DEF Committed, MemoryInv, TypeOK, LockInv, WorkInv, AgentFails, Goto
  <2>3. \/ status' = status
        \/ /\ j \in Jobs /\ status[j] \notin {"complete", "failed"}
           /\ "failed" \in {"complete", "failed"}
           /\ status' = [status EXCEPT ![j] = "failed"]
    BY <1>6 DEF MemoryInv, TypeOK, RecordInv, AgentFails, Goto
  <2>4. base' = base
    BY <1>6 DEF AgentFails
  <2> QED
    BY <1>b, <1>f, <1>g, <2>1, <2>2, <2>3, <2>4
<1>7. ASSUME NEW j \in Jobs, MarkComplete(j) PROVE [Atomic!ANext]_(Atomic!avars)
  <2>1. HolderMemory' = HolderMemory
    BY <1>7 DEF HolderMemory, MemoryInv, TypeOK, LockInv, SeenInv, WorkInv,
           MarkComplete, Goto
  <2>2. Committed' = Committed
    BY <1>7 DEF Committed, MemoryInv, TypeOK, LockInv, WorkInv, MarkComplete, Goto
  <2>3. \/ status' = status
        \/ /\ j \in Jobs /\ status[j] \notin {"complete", "failed"}
           /\ "complete" \in {"complete", "failed"}
           /\ status' = [status EXCEPT ![j] = "complete"]
    BY <1>7 DEF MemoryInv, TypeOK, RecordInv, MarkComplete, Goto
  <2>4. base' = base
    BY <1>7 DEF MarkComplete
  <2> QED
    BY <1>b, <1>f, <1>g, <2>1, <2>2, <2>3, <2>4
<1>8. ASSUME NEW j \in Jobs, MarkFailed(j) PROVE [Atomic!ANext]_(Atomic!avars)
  <2>1. HolderMemory' = HolderMemory
    BY <1>8 DEF HolderMemory, MemoryInv, TypeOK, LockInv, SeenInv, WorkInv,
           MarkFailed, Goto
  <2>2. Committed' = Committed
    BY <1>8 DEF Committed, MemoryInv, TypeOK, LockInv, WorkInv, MarkFailed, Goto
  <2>3. \/ status' = status
        \/ /\ j \in Jobs /\ status[j] \notin {"complete", "failed"}
           /\ "failed" \in {"complete", "failed"}
           /\ status' = [status EXCEPT ![j] = "failed"]
    BY <1>8 DEF MemoryInv, TypeOK, RecordInv, MarkFailed, Goto
  <2>4. base' = base
    BY <1>8 DEF MarkFailed
  <2> QED
    BY <1>b, <1>f, <1>g, <2>1, <2>2, <2>3, <2>4
<1>9. ASSUME NEW j \in Jobs, Terminalize(j) PROVE [Atomic!ANext]_(Atomic!avars)
  <2>1. HolderMemory' = HolderMemory
    BY <1>9 DEF HolderMemory, MemoryInv, TypeOK, LockInv, SeenInv, WorkInv,
           Terminalize, Goto
  <2>2. Committed' = Committed
    BY <1>9 DEF Committed, MemoryInv, TypeOK, LockInv, WorkInv, Terminalize, Goto
  <2>3. \/ status' = status
        \/ /\ j \in Jobs /\ status[j] \notin {"complete", "failed"}
           /\ "failed" \in {"complete", "failed"}
           /\ status' = [status EXCEPT ![j] = "failed"]
    BY <1>9 DEF MemoryInv, TypeOK, RecordInv, Terminalize, Goto
  <2>4. base' = base
    BY <1>9 DEF Terminalize
  <2> QED
    BY <1>b, <1>f, <1>g, <2>1, <2>2, <2>3, <2>4
<1>10. ASSUME NEW o \in Saves, Preview(o) PROVE [Atomic!ANext]_(Atomic!avars)
  <2>1. HolderMemory' = HolderMemory
    BY <1>10 DEF HolderMemory, MemoryInv, TypeOK, LockInv, SeenInv, WorkInv, Preview,
           Goto, Ensured
  <2>2. Committed' = Committed
    BY <1>10 DEF Committed, MemoryInv, TypeOK, LockInv, WorkInv, Preview, Goto,
           Ensured
  <2>3. Verdicts' = Verdicts
    BY <1>10 DEF Verdicts, MemoryInv, TypeOK, RecordInv, LockInv, Preview, Goto,
           Ensured
  <2>4. base[o] = None /\ base' = [base EXCEPT ![o] = Ensured] /\ Ensured \in Values
    BY <1>10 DEF MemoryInv, TypeOK, SeenInv, Preview, Goto, Ensured
  <2> QED
    BY <1>d, <2>1, <2>2, <2>3, <2>4
<1>11. ASSUME NEW o \in Saves, SaveRefused(o) PROVE [Atomic!ANext]_(Atomic!avars)
  <2>1. HolderMemory' = HolderMemory
    BY <1>11 DEF HolderMemory, MemoryInv, TypeOK, LockInv, SeenInv, WorkInv,
           SaveRefused, Goto
  <2>2. Committed' = Committed
    BY <1>11 DEF Committed, MemoryInv, TypeOK, LockInv, WorkInv, SaveRefused, Goto
  <2>3. Verdicts' = Verdicts /\ base' = base
    BY <1>11 DEF Verdicts, SaveRefused
  <2> QED
    BY <1>b, <2>1, <2>2, <2>3
<1>12. ASSUME NEW o \in Saves, SaveConflicts(o) PROVE [Atomic!ANext]_(Atomic!avars)
  <2>1. \/ HolderMemory' = HolderMemory
        \/ HolderMemory = Empty /\ HolderMemory' = Blank
    BY <1>12 DEF HolderMemory, MemoryInv, TypeOK, LockInv, SeenInv, WorkInv,
           SaveConflicts, Goto, Ensured
  <2>2. Committed' = Committed
    BY <1>12 DEF Committed, MemoryInv, TypeOK, LockInv, WorkInv, SaveConflicts, Goto,
           Ensured
  <2>3. Verdicts' = Verdicts
    BY <1>12 DEF Verdicts, MemoryInv, TypeOK, RecordInv, LockInv, SaveConflicts, Goto,
           Ensured
  <2>4. base' = base
    BY <1>12 DEF SaveConflicts
  <2> QED
    BY <1>b, <1>c, <2>1, <2>2, <2>3, <2>4
<1>13. ASSUME NEW o \in Saves, SaveBegins(o) PROVE [Atomic!ANext]_(Atomic!avars)
  <2>1. \/ HolderMemory' = HolderMemory
        \/ HolderMemory = Empty /\ HolderMemory' = Blank
    BY <1>13 DEF HolderMemory, MemoryInv, TypeOK, LockInv, SeenInv, WorkInv,
           SaveBegins, Goto, Ensured
  <2>2. Committed' = Committed
    BY <1>13 DEF Committed, MemoryInv, TypeOK, LockInv, WorkInv, SaveBegins, Goto,
           Ensured
  <2>3. Verdicts' = Verdicts
    BY <1>13 DEF Verdicts, MemoryInv, TypeOK, RecordInv, LockInv, SaveBegins, Goto,
           Ensured
  <2>4. base' = base
    BY <1>13 DEF SaveBegins
  <2> QED
    BY <1>b, <1>c, <2>1, <2>2, <2>3, <2>4
<1>14. ASSUME NEW o \in Writers, JournalPrepared(o) PROVE [Atomic!ANext]_(Atomic!avars)
  <2>1. HolderMemory' = HolderMemory
    BY <1>14 DEF HolderMemory, MemoryInv, TypeOK, LockInv, SeenInv, WorkInv,
           JournalPrepared, Goto, WriteJournal, NoChange
  <2>2. Committed' = Committed
    BY <1>14 DEF Committed, MemoryInv, TypeOK, LockInv, WorkInv, JournalPrepared,
           Goto, WriteJournal, NoChange
  <2>3. Verdicts' = Verdicts /\ base' = base
    BY <1>14 DEF Verdicts, JournalPrepared
  <2> QED
    BY <1>b, <2>1, <2>2, <2>3
<1>15. ASSUME NEW o \in Writers, BackupBegins(o) PROVE [Atomic!ANext]_(Atomic!avars)
  <2>1. HolderMemory' = HolderMemory
    BY <1>15 DEF HolderMemory, MemoryInv, TypeOK, LockInv, SeenInv, WorkInv,
           BackupBegins, Goto
  <2>2. Committed' = Committed
    BY <1>15 DEF Committed, MemoryInv, TypeOK, LockInv, WorkInv, BackupBegins, Goto
  <2>3. Verdicts' = Verdicts /\ base' = base
    BY <1>15 DEF Verdicts, BackupBegins
  <2> QED
    BY <1>b, <2>1, <2>2, <2>3
<1>16. ASSUME NEW o \in Writers, BackupEnds(o) PROVE [Atomic!ANext]_(Atomic!avars)
  <2>1. HolderMemory' = HolderMemory
    BY <1>16 DEF HolderMemory, MemoryInv, TypeOK, LockInv, SeenInv, WorkInv,
           BackupEnds, Goto
  <2>2. Committed' = Committed
    BY <1>16 DEF Committed, MemoryInv, TypeOK, LockInv, WorkInv, BackupEnds, Goto
  <2>3. Verdicts' = Verdicts /\ base' = base
    BY <1>16 DEF Verdicts, BackupEnds
  <2> QED
    BY <1>b, <2>1, <2>2, <2>3
<1>17. ASSUME NEW o \in Writers, JournalBackedUp(o) PROVE [Atomic!ANext]_(Atomic!avars)
  <2>1. HolderMemory' = HolderMemory
    BY <1>17 DEF HolderMemory, MemoryInv, TypeOK, LockInv, SeenInv, WorkInv,
           JournalBackedUp, Goto, WriteJournal
  <2>2. Committed' = Committed
    BY <1>17 DEF Committed, MemoryInv, TypeOK, LockInv, WorkInv, JournalBackedUp,
           Goto, WriteJournal
  <2>3. Verdicts' = Verdicts /\ base' = base
    BY <1>17 DEF Verdicts, JournalBackedUp
  <2> QED
    BY <1>b, <2>1, <2>2, <2>3
<1>18. ASSUME NEW o \in Writers, ReplaceBegins(o) PROVE [Atomic!ANext]_(Atomic!avars)
  <2>1. HolderMemory' = HolderMemory
    BY <1>18 DEF HolderMemory, MemoryInv, TypeOK, LockInv, SeenInv, WorkInv,
           ReplaceBegins, Goto
  <2>2. Committed' = Committed
    BY <1>18 DEF Committed, MemoryInv, TypeOK, LockInv, WorkInv, ReplaceBegins, Goto
  <2>3. Verdicts' = Verdicts /\ base' = base
    BY <1>18 DEF Verdicts, ReplaceBegins
  <2> QED
    BY <1>b, <2>1, <2>2, <2>3
<1>19. ASSUME NEW o \in Writers, ReplaceEnds(o) PROVE [Atomic!ANext]_(Atomic!avars)
  <2>1. HolderMemory' = HolderMemory
    BY <1>19 DEF HolderMemory, MemoryInv, TypeOK, LockInv, SeenInv, WorkInv,
           ReplaceEnds, Goto
  <2>2. Committed' = Committed
    BY <1>19 DEF Committed, MemoryInv, TypeOK, LockInv, WorkInv, ReplaceEnds, Goto
  <2>3. Verdicts' = Verdicts /\ base' = base
    BY <1>19 DEF Verdicts, ReplaceEnds
  <2> QED
    BY <1>b, <2>1, <2>2, <2>3
<1>20. ASSUME NEW o \in Writers, JournalPublished(o) PROVE [Atomic!ANext]_(Atomic!avars)
  <2>1. HolderMemory' = HolderMemory
    BY <1>20 DEF HolderMemory, MemoryInv, TypeOK, LockInv, SeenInv, WorkInv,
           JournalPublished, Goto, WriteJournal
  <2>2. Committed' = Committed
    BY <1>20 DEF Committed, MemoryInv, TypeOK, LockInv, WorkInv, JournalPublished,
           Goto, WriteJournal
  <2>3. Verdicts' = Verdicts /\ base' = base
    BY <1>20 DEF Verdicts, JournalPublished
  <2> QED
    BY <1>b, <2>1, <2>2, <2>3
<1>21. ASSUME NEW o \in Writers, CleanJournal(o) PROVE [Atomic!ANext]_(Atomic!avars)
  <2>1. HolderMemory' = HolderMemory
    BY <1>21 DEF HolderMemory, MemoryInv, TypeOK, LockInv, SeenInv, WorkInv,
           CleanJournal, Goto
  <2>2. Committed' = Committed
    BY <1>21 DEF Committed, MemoryInv, TypeOK, LockInv, WorkInv, CleanJournal, Goto
  <2>3. Verdicts' = Verdicts /\ base' = base
    BY <1>21 DEF Verdicts, CleanJournal
  <2> QED
    BY <1>b, <2>1, <2>2, <2>3
<1>22. ASSUME NEW o \in Writers, CleanBackup(o) PROVE [Atomic!ANext]_(Atomic!avars)
  <2>1. HolderMemory' = HolderMemory
    BY <1>22 DEF HolderMemory, MemoryInv, TypeOK, LockInv, SeenInv, WorkInv,
           CleanBackup, Goto
  <2>2. Committed' = Committed
    BY <1>22 DEF Committed, MemoryInv, TypeOK, LockInv, WorkInv, CleanBackup, Goto
  <2>3. Verdicts' = Verdicts /\ base' = base
    BY <1>22 DEF Verdicts, CleanBackup
  <2> QED
    BY <1>b, <2>1, <2>2, <2>3
<1>23. ASSUME NEW o \in Writers, CleanStage(o) PROVE [Atomic!ANext]_(Atomic!avars)
  <2>1. \/ HolderMemory' = HolderMemory /\ Committed' = Committed
        \/ /\ o \notin Committed /\ Committed' = Committed \cup {o}
           /\ HolderMemory = base[o] /\ HolderMemory' \in Contents
    <3>1. CASE o \in installed /\ pc[o] \in CriticalPcs
      <4>1. HolderMemory = base[o] /\ HolderMemory' \in Contents
        BY <1>23, <3>1 DEF HolderMemory, MemoryInv, TypeOK, LockInv, SeenInv, WorkInv,
               CleanStage, Goto
      <4>2. o \notin Committed /\ Committed' = Committed \cup {o}
        BY <1>23, <3>1 DEF Committed, MemoryInv, TypeOK, CleanStage, Goto
      <4> QED
        BY <4>1, <4>2
    <3>2. CASE ~(o \in installed /\ pc[o] \in CriticalPcs)
      <4>1. HolderMemory' = HolderMemory
        BY <1>23, <3>2 DEF HolderMemory, MemoryInv, TypeOK, LockInv, SeenInv, WorkInv,
               CleanStage, Goto
      <4>2. Committed' = Committed
        BY <1>23, <3>2 DEF Committed, MemoryInv, TypeOK, CleanStage, Goto
      <4> QED
        BY <4>1, <4>2
    <3> QED
      BY <3>1, <3>2
  <2>2. Verdicts' = Verdicts /\ base' = base
    BY <1>23 DEF Verdicts, CleanStage
  <2> QED
    BY <1>b, <1>e, <2>1, <2>2
<1>24. ASSUME NEW o \in Writers, RollbackBegins(o) PROVE [Atomic!ANext]_(Atomic!avars)
  <2>1. HolderMemory' = HolderMemory
    BY <1>24 DEF HolderMemory, MemoryInv, TypeOK, LockInv, SeenInv, WorkInv,
           RollbackBegins, Goto
  <2>2. Committed' = Committed
    BY <1>24 DEF Committed, MemoryInv, TypeOK, LockInv, WorkInv, RollbackBegins, Goto
  <2>3. Verdicts' = Verdicts /\ base' = base
    BY <1>24 DEF Verdicts, RollbackBegins
  <2> QED
    BY <1>b, <2>1, <2>2, <2>3
<1>25. ASSUME NEW o \in Writers, RollbackEnds(o) PROVE [Atomic!ANext]_(Atomic!avars)
  <2>1. HolderMemory' = HolderMemory
    BY <1>25 DEF HolderMemory, MemoryInv, TypeOK, LockInv, SeenInv, WorkInv,
           RollbackEnds, Goto
  <2>2. Committed' = Committed
    BY <1>25 DEF Committed, MemoryInv, TypeOK, LockInv, WorkInv, RollbackEnds, Goto
  <2>3. Verdicts' = Verdicts /\ base' = base
    BY <1>25 DEF Verdicts, RollbackEnds
  <2> QED
    BY <1>b, <2>1, <2>2, <2>3
<1>26. ASSUME NEW o \in Writers, TransactionFails(o) PROVE [Atomic!ANext]_(Atomic!avars)
  <2>1. HolderMemory' = HolderMemory
    BY <1>26 DEF HolderMemory, MemoryInv, TypeOK, LockInv, SeenInv, WorkInv,
           TransactionFails, Goto
  <2>2. Committed' = Committed
    BY <1>26 DEF Committed, MemoryInv, TypeOK, LockInv, WorkInv, TransactionFails,
           Goto
  <2>3. Verdicts' = Verdicts /\ base' = base
    BY <1>26 DEF Verdicts, TransactionFails
  <2> QED
    BY <1>b, <2>1, <2>2, <2>3
<1>27. ASSUME NEW o \in Writers, FinalStepFails(o) PROVE [Atomic!ANext]_(Atomic!avars)
  <2>1. \/ HolderMemory' = HolderMemory /\ Committed' = Committed
        \/ /\ o \notin Committed /\ Committed' = Committed \cup {o}
           /\ HolderMemory = base[o] /\ HolderMemory' \in Contents
    <3>1. CASE o \in installed /\ pc[o] \in CriticalPcs
      <4>1. HolderMemory = base[o] /\ HolderMemory' \in Contents
        BY <1>27, <3>1 DEF HolderMemory, MemoryInv, TypeOK, LockInv, SeenInv, WorkInv,
               FinalStepFails, Goto
      <4>2. o \notin Committed /\ Committed' = Committed \cup {o}
        BY <1>27, <3>1 DEF Committed, MemoryInv, TypeOK, FinalStepFails, Goto
      <4> QED
        BY <4>1, <4>2
    <3>2. CASE ~(o \in installed /\ pc[o] \in CriticalPcs)
      <4>1. HolderMemory' = HolderMemory
        BY <1>27, <3>2 DEF HolderMemory, MemoryInv, TypeOK, LockInv, SeenInv, WorkInv,
               FinalStepFails, Goto
      <4>2. Committed' = Committed
        BY <1>27, <3>2 DEF Committed, MemoryInv, TypeOK, FinalStepFails, Goto
      <4> QED
        BY <4>1, <4>2
    <3> QED
      BY <3>1, <3>2
  <2>2. Verdicts' = Verdicts /\ base' = base
    BY <1>27 DEF Verdicts, FinalStepFails
  <2> QED
    BY <1>b, <1>e, <2>1, <2>2
<1>28. ASSUME NEW o \in Writers, WriterDies(o) PROVE [Atomic!ANext]_(Atomic!avars)
  <2>1. \/ HolderMemory' = HolderMemory /\ Committed' = Committed
        \/ /\ o \notin Committed /\ Committed' = Committed \cup {o}
           /\ HolderMemory = base[o] /\ HolderMemory' \in Contents
    <3>1. CASE o \in installed /\ pc[o] \in CriticalPcs
      <4>1. HolderMemory = base[o] /\ HolderMemory' \in Contents
        BY <1>28, <3>1 DEF HolderMemory, MemoryInv, TypeOK, LockInv, SeenInv, WorkInv,
               WriterDies, Goto, MissedBySweep
      <4>2. o \notin Committed /\ Committed' = Committed \cup {o}
        BY <1>28, <3>1 DEF Committed, MemoryInv, TypeOK, WriterDies, Goto, MissedBySweep
      <4> QED
        BY <4>1, <4>2
    <3>2. CASE ~(o \in installed /\ pc[o] \in CriticalPcs)
      <4>1. HolderMemory' = HolderMemory
        BY <1>28, <3>2 DEF HolderMemory, MemoryInv, TypeOK, LockInv, SeenInv, WorkInv,
               WriterDies, Goto, MissedBySweep
      <4>2. Committed' = Committed
        BY <1>28, <3>2 DEF Committed, MemoryInv, TypeOK, WriterDies, Goto, MissedBySweep
      <4> QED
        BY <4>1, <4>2
    <3> QED
      BY <3>1, <3>2
  <2>2. Verdicts' = Verdicts /\ base' = base
    BY <1>28 DEF Verdicts, WriterDies
  <2> QED
    BY <1>b, <1>e, <2>1, <2>2
<1>29. ASSUME NEW o \in Writers, RecoverNothing(o) PROVE [Atomic!ANext]_(Atomic!avars)
  <2>1. HolderMemory' = HolderMemory
    BY <1>29 DEF HolderMemory, MemoryInv, TypeOK, LockInv, SeenInv, WorkInv,
           RecoverNothing
  <2>2. Committed' = Committed
    BY <1>29 DEF Committed, MemoryInv, TypeOK, LockInv, WorkInv, RecoverNothing
  <2>3. Verdicts' = Verdicts /\ base' = base
    BY <1>29 DEF Verdicts, RecoverNothing
  <2> QED
    BY <1>b, <2>1, <2>2, <2>3
<1>30. ASSUME NEW o \in Writers, RecoverMarks(o) PROVE [Atomic!ANext]_(Atomic!avars)
  <2>1. HolderMemory' = HolderMemory
    BY <1>30 DEF HolderMemory, MemoryInv, TypeOK, LockInv, SeenInv, WorkInv,
           RecoverMarks, Recovered, Markable
  <2>2. Committed' = Committed
    BY <1>30 DEF Committed, MemoryInv, TypeOK, LockInv, WorkInv, RecoverMarks,
           Recovered, Markable
  <2>3. \/ status' = status
        \/ /\ o \in Jobs /\ status[o] \notin {"complete", "failed"}
           /\ Recovered(o) \in {"complete", "failed"}
           /\ status' = [status EXCEPT ![o] = Recovered(o)]
    <3>1. Recovered(o) \in {"complete", "failed"}
      BY <1>30 DEF RecoverMarks, Recovered
    <3> QED
      BY <1>30, <3>1 DEF MemoryInv, TypeOK, RecoverMarks, Markable
  <2>4. base' = base
    BY <1>30 DEF RecoverMarks
  <2> QED
    BY <1>b, <1>f, <1>g, <2>1, <2>2, <2>3, <2>4
<1>31. ASSUME NEW o \in Writers, RecoverBlocked(o) PROVE [Atomic!ANext]_(Atomic!avars)
  <2>1. HolderMemory' = HolderMemory
    BY <1>31 DEF HolderMemory, MemoryInv, TypeOK, LockInv, SeenInv, WorkInv,
           RecoverBlocked
  <2>2. Committed' = Committed
    BY <1>31 DEF Committed, MemoryInv, TypeOK, LockInv, WorkInv, RecoverBlocked
  <2>3. Verdicts' = Verdicts /\ base' = base
    BY <1>31 DEF Verdicts, RecoverBlocked
  <2> QED
    BY <1>b, <2>1, <2>2, <2>3
<1>32. ASSUME SweepBegins PROVE [Atomic!ANext]_(Atomic!avars)
  <2>1. HolderMemory' = HolderMemory
    BY <1>32 DEF HolderMemory, MemoryInv, TypeOK, LockInv, SeenInv, WorkInv,
           SweepBegins, IdleSweep
  <2>2. Committed' = Committed
    BY <1>32 DEF Committed, MemoryInv, TypeOK, LockInv, WorkInv, SweepBegins,
           IdleSweep
  <2>3. Verdicts' = Verdicts /\ base' = base
    BY <1>32 DEF Verdicts, SweepBegins
  <2> QED
    BY <1>b, <2>1, <2>2, <2>3
<1>33. ASSUME RecoveryDone PROVE [Atomic!ANext]_(Atomic!avars)
  <2>1. HolderMemory' = HolderMemory
    BY <1>33 DEF HolderMemory, MemoryInv, TypeOK, LockInv, SeenInv, WorkInv,
           RecoveryDone
  <2>2. Committed' = Committed
    BY <1>33 DEF Committed, MemoryInv, TypeOK, LockInv, WorkInv, RecoveryDone
  <2>3. Verdicts' = Verdicts /\ base' = base
    BY <1>33 DEF Verdicts, RecoveryDone
  <2> QED
    BY <1>b, <2>1, <2>2, <2>3
<1>34. ASSUME SweepEnds PROVE [Atomic!ANext]_(Atomic!avars)
  <2>1. HolderMemory' = HolderMemory
    BY <1>34 DEF HolderMemory, MemoryInv, TypeOK, LockInv, SeenInv, WorkInv,
           SweepEnds, IdleSweep
  <2>2. Committed' = Committed
    BY <1>34 DEF Committed, MemoryInv, TypeOK, LockInv, WorkInv, SweepEnds, IdleSweep
  <2>3. Verdicts' = Verdicts /\ base' = base
    BY <1>34 DEF Verdicts, SweepEnds
  <2> QED
    BY <1>b, <2>1, <2>2, <2>3
<1>35. ASSUME RecoverCleansJournal PROVE [Atomic!ANext]_(Atomic!avars)
  <2>1. HolderMemory' = HolderMemory
    BY <1>35 DEF HolderMemory, MemoryInv, TypeOK, LockInv, SeenInv, WorkInv,
           RecoverCleansJournal
  <2>2. Committed' = Committed
    BY <1>35 DEF Committed, MemoryInv, TypeOK, LockInv, WorkInv, RecoverCleansJournal
  <2>3. Verdicts' = Verdicts /\ base' = base
    BY <1>35 DEF Verdicts, RecoverCleansJournal
  <2> QED
    BY <1>b, <2>1, <2>2, <2>3
<1>36. ASSUME RecoverCleansBackup PROVE [Atomic!ANext]_(Atomic!avars)
  <2>1. HolderMemory' = HolderMemory
    BY <1>36 DEF HolderMemory, MemoryInv, TypeOK, LockInv, SeenInv, WorkInv,
           RecoverCleansBackup
  <2>2. Committed' = Committed
    BY <1>36 DEF Committed, MemoryInv, TypeOK, LockInv, WorkInv, RecoverCleansBackup
  <2>3. Verdicts' = Verdicts /\ base' = base
    BY <1>36 DEF Verdicts, RecoverCleansBackup
  <2> QED
    BY <1>b, <2>1, <2>2, <2>3
<1>37. ASSUME RecoverCleansStage PROVE [Atomic!ANext]_(Atomic!avars)
  <2>1. HolderMemory' = HolderMemory
    BY <1>37 DEF HolderMemory, MemoryInv, TypeOK, LockInv, SeenInv, WorkInv,
           RecoverCleansStage
  <2>2. Committed' = Committed
    BY <1>37 DEF Committed, MemoryInv, TypeOK, LockInv, WorkInv, RecoverCleansStage
  <2>3. Verdicts' = Verdicts /\ base' = base
    BY <1>37 DEF Verdicts, RecoverCleansStage
  <2> QED
    BY <1>b, <2>1, <2>2, <2>3
<1>38. ASSUME SweepDies PROVE [Atomic!ANext]_(Atomic!avars)
  <2>1. HolderMemory' = HolderMemory
    BY <1>38 DEF HolderMemory, MemoryInv, TypeOK, LockInv, SeenInv, WorkInv,
           SweepDies, IdleSweep
  <2>2. Committed' = Committed
    BY <1>38 DEF Committed, MemoryInv, TypeOK, LockInv, WorkInv, SweepDies, IdleSweep
  <2>3. Verdicts' = Verdicts /\ base' = base
    BY <1>38 DEF Verdicts, SweepDies
  <2> QED
    BY <1>b, <2>1, <2>2, <2>3
<1>39. ASSUME NEW j \in Jobs, ReconcileRecord(j) PROVE [Atomic!ANext]_(Atomic!avars)
  <2>1. HolderMemory' = HolderMemory
    BY <1>39 DEF HolderMemory, MemoryInv, TypeOK, LockInv, SeenInv, WorkInv,
           ReconcileRecord, ConfirmedDead
  <2>2. Committed' = Committed
    BY <1>39 DEF Committed, MemoryInv, TypeOK, LockInv, WorkInv, ReconcileRecord,
           ConfirmedDead
  <2>3. \/ status' = status
        \/ /\ j \in Jobs /\ status[j] \notin {"complete", "failed"}
           /\ "failed" \in {"complete", "failed"}
           /\ status' = [status EXCEPT ![j] = "failed"]
    BY <1>39 DEF MemoryInv, TypeOK, RecordInv, ReconcileRecord, ConfirmedDead
  <2>4. base' = base
    BY <1>39 DEF ReconcileRecord
  <2> QED
    BY <1>b, <1>f, <1>g, <2>1, <2>2, <2>3, <2>4
<1>40. CASE UNCHANGED vars
  BY <1>b, <1>40 DEF vars, HolderMemory, Committed, Verdicts
<1> QED
  BY <1>1, <1>2, <1>3, <1>4, <1>5, <1>6, <1>7, <1>8, <1>9, <1>10, <1>11,
     <1>12, <1>13, <1>14, <1>15, <1>16, <1>17, <1>18, <1>19, <1>20, <1>21,
     <1>22, <1>23, <1>24, <1>25, <1>26, <1>27, <1>28, <1>29, <1>30, <1>31,
     <1>32, <1>33, <1>34, <1>35, <1>36, <1>37, <1>38, <1>39, <1>40
     DEF Next, WriterStep, JobStep, SaveStep, TransactionStep, SweepStep, Failures

\* While directory writes are not interrupted, the journalled store with its
\* locks, deaths, exceptions and recovery implements the atomic memory.
THEOREM StoreIsAtomic ==
  ASSUME TornWrites = FALSE
  PROVE  Spec => ImplementsAtomicMemory
<1>1. Init => Atomic!AInit
  BY MemoryConstants DEF Init, Atomic!AInit, CommittedMemory, Committed, Verdicts,
     CriticalPcs, ApplyPcs, RollbackPcs, FinalPcs, Writers, Values, Atomic!Writers
<1>2. MemoryInv /\ MemoryInv' /\ [Next]_vars => [Atomic!ANext]_(Atomic!avars)
  BY AtomicStep
<1> QED
  BY <1>1, <1>2, MemoryInvariance, PTL DEF Spec, ImplementsAtomicMemory, Atomic!ASpec

-----------------------------------------------------------------------------
(* Recovery: what deaths and failing writes leave behind                   *)

\* Writers that are out of the memory for good.
SettledPcs == {"terminalize", "done", "dead"}

\* Another writer's content is in place for good.
Superseded(o) == \E p \in installed : p # o /\ pc[p] \in SettledPcs

\* As long as a journal stands, the stage and the backup hold the revisions it
\* names, and its phase says how far the writer got.
FilesInv ==
  \A o \in Writers :
    /\ journal[o] # None => /\ journal[o].old = base[o] /\ base[o] \in Values \ {Empty}
                            /\ journal[o].new = stage[o] /\ stage[o] \in Contents
    /\ journal[o] # None /\ base[o] = stage[o] => backup[o] = None
    /\ journal[o] # None /\ journal[o].phase # "prepared" =>
         base[o] = stage[o] \/ backup[o] # None
    /\ journal[o] # None /\ o \in installed => journal[o].phase # "prepared"
    /\ pc[o] \in {"backup", "backing", "backed_up", "replace", "replacing", "publish",
                  "finalize"} => journal[o] # None
    /\ pc[o] \in {"clean_backup", "clean_stage"} => journal[o] = None
    /\ pc[o] \in {"backup", "backing", "backed_up", "replace", "replacing"} =>
         base[o] # stage[o]
    /\ pc[o] \in {"backed_up", "replace", "replacing"} => backup[o] = base[o]
    /\ pc[o] \in {"replace", "replacing"} => journal[o].phase = "backed_up"
    /\ pc[o] \in {"publish", "finalize"} =>
         IF base[o] = stage[o] THEN o \notin installed
                               ELSE o \in installed /\ backup[o] = base[o]
    /\ pc[o] \in {"preview", "lock", "ensure", "stage", "start", "agent", "journal",
                  "backup"} => backup[o] = None
    /\ backup[o] \in {None, base[o]} \/ pc[o] = "backing"
    /\ pc[o] \in RollbackPcs => faults # 0
    /\ pc[o] = "stage" => canonical # Empty
    /\ pc[o] \in {"start", "agent"} \cup CriticalPcs => base[o] # Empty

\* A sweep has every journal that needs it on its list, and removes one only
\* after it has settled the record.
SweepInv ==
  /\ sweep.at \in {"clean_backup", "clean_stage"} => journal[sweep.op] = None
  /\ SweepCleans /\ sweep.op \in Jobs => status[sweep.op] \in {"complete", "failed"}
  /\ sweep.at = "reconcile" => sweep.journals = {}
  /\ sweep.at # "idle" =>
       \A o \in Writers : pc[o] = "dead" /\ journal[o] # None =>
         o \in sweep.journals \cup sweep.blocked

\* What a record may say, given the memory and the journal.  A failing write
\* outside the transaction is the only way a publisher's record can miss it.
StatusInv ==
  \A j \in Jobs :
    /\ journal[j] # None => status[j] # "waiting_for_memory"
    /\ pc[j] \in {"clean_journal", "clean_backup", "clean_stage"} =>
         status[j] \in {"complete", "failed"}
    /\ j \in installed /\ status[j] \notin {"complete", "failed"} => journal[j] # None
    /\ status[j] = "complete" /\ journal[j] # None =>
         j \in installed \/ base[j] = stage[j] \/ Superseded(j)
    /\ ~FinalFaults \/ faults = 0 =>
         /\ pc[j] = "terminalize" /\ status[j] \notin {"complete", "failed"} =>
              j \notin installed /\ journal[j] = None
         /\ status[j] = "failed" /\ j \in installed => Superseded(j)
    /\ faults = 0 /\ status[j] = "failed" /\ journal[j] # None => base[j] # stage[j]

\* Until somebody else's content replaces it, the memory is what a settled
\* writer with a journal left there.
LeftInv ==
  \A o \in Writers : pc[o] \in SettledPcs /\ journal[o] # None /\ ~Superseded(o) =>
    HolderMemory = IF o \in installed THEN stage[o] ELSE base[o]

RecoveryInv == FilesInv /\ SweepInv /\ StatusInv /\ LeftInv

\* A writer that has settled stays settled, with its content in place.
LEMMA SupersededLasts ==
  ASSUME MemoryInv, [Next]_vars
  PROVE  \A o \in Writers : Superseded(o) => Superseded(o)'
<1> USE MemoryConstants DEF MemoryInv, TypeOK, Writers, SettledPcs
<1>a. SUFFICES ASSUME NEW p \in installed, pc[p] \in SettledPcs
              PROVE  p \in installed' /\ pc'[p] \in SettledPcs
  BY DEF Superseded
<1> DEFINE Stays == p \in installed' /\ pc'[p] \in SettledPcs
<1>1. ASSUME NEW j \in Jobs, AcquireMemory(j) PROVE Stays
  BY <1>a, <1>1 DEF AcquireMemory, Goto
<1>2. ASSUME NEW j \in Jobs, EnsureMemory(j) PROVE Stays
  BY <1>a, <1>2 DEF EnsureMemory, Goto, Ensured
<1>3. ASSUME NEW j \in Jobs, StageMemory(j) PROVE Stays
  BY <1>a, <1>3 DEF StageMemory, Goto
<1>4. ASSUME NEW j \in Jobs, StartRunning(j) PROVE Stays
  BY <1>a, <1>4 DEF StartRunning, Goto
<1>5. ASSUME NEW j \in Jobs, AgentSucceeds(j) PROVE Stays
  BY <1>a, <1>5 DEF AgentSucceeds, Goto
<1>6. ASSUME NEW j \in Jobs, AgentFails(j) PROVE Stays
  BY <1>a, <1>6 DEF AgentFails, Goto, ApplyPcs, RollbackPcs, FinalPcs
<1>7. ASSUME NEW j \in Jobs, MarkComplete(j) PROVE Stays
  BY <1>a, <1>7 DEF MarkComplete, Goto
<1>8. ASSUME NEW j \in Jobs, MarkFailed(j) PROVE Stays
  BY <1>a, <1>8 DEF MarkFailed, Goto
<1>9. ASSUME NEW j \in Jobs, Terminalize(j) PROVE Stays
  BY <1>a, <1>9 DEF Terminalize, Goto
<1>10. ASSUME NEW o \in Saves, Preview(o) PROVE Stays
  BY <1>a, <1>10 DEF Preview, Goto, Ensured
<1>11. ASSUME NEW o \in Saves, SaveRefused(o) PROVE Stays
  BY <1>a, <1>11 DEF SaveRefused, Goto
<1>12. ASSUME NEW o \in Saves, SaveConflicts(o) PROVE Stays
  BY <1>a, <1>12 DEF SaveConflicts, Goto, Ensured
<1>13. ASSUME NEW o \in Saves, SaveBegins(o) PROVE Stays
  BY <1>a, <1>13 DEF SaveBegins, Goto, Ensured
<1>14. ASSUME NEW o \in Writers, JournalPrepared(o) PROVE Stays
  BY <1>a, <1>14 DEF JournalPrepared, Goto, WriteJournal, NoChange
<1>15. ASSUME NEW o \in Writers, BackupBegins(o) PROVE Stays
  BY <1>a, <1>15 DEF BackupBegins, Goto
<1>16. ASSUME NEW o \in Writers, BackupEnds(o) PROVE Stays
  BY <1>a, <1>16 DEF BackupEnds, Goto
<1>17. ASSUME NEW o \in Writers, JournalBackedUp(o) PROVE Stays
  BY <1>a, <1>17 DEF JournalBackedUp, Goto, WriteJournal
<1>18. ASSUME NEW o \in Writers, ReplaceBegins(o) PROVE Stays
  BY <1>a, <1>18 DEF ReplaceBegins, Goto
<1>19. ASSUME NEW o \in Writers, ReplaceEnds(o) PROVE Stays
  BY <1>a, <1>19 DEF ReplaceEnds, Goto
<1>20. ASSUME NEW o \in Writers, JournalPublished(o) PROVE Stays
  BY <1>a, <1>20 DEF JournalPublished, Goto, WriteJournal
<1>21. ASSUME NEW o \in Writers, CleanJournal(o) PROVE Stays
  BY <1>a, <1>21 DEF CleanJournal, Goto
<1>22. ASSUME NEW o \in Writers, CleanBackup(o) PROVE Stays
  BY <1>a, <1>22 DEF CleanBackup, Goto
<1>23. ASSUME NEW o \in Writers, CleanStage(o) PROVE Stays
  BY <1>a, <1>23 DEF CleanStage, Goto
<1>24. ASSUME NEW o \in Writers, RollbackBegins(o) PROVE Stays
  BY <1>a, <1>24 DEF RollbackBegins, Goto
<1>25. ASSUME NEW o \in Writers, RollbackEnds(o) PROVE Stays
  BY <1>a, <1>25 DEF RollbackEnds, Goto
<1>26. ASSUME NEW o \in Writers, TransactionFails(o) PROVE Stays
  BY <1>a, <1>26 DEF TransactionFails, Goto, ApplyPcs, RollbackPcs, FinalPcs
<1>27. ASSUME NEW o \in Writers, FinalStepFails(o) PROVE Stays
  BY <1>a, <1>27 DEF FinalStepFails, Goto, ApplyPcs, RollbackPcs, FinalPcs
<1>28. ASSUME NEW o \in Writers, WriterDies(o) PROVE Stays
  BY <1>a, <1>28 DEF WriterDies, Goto, MissedBySweep
<1>29. ASSUME NEW o \in Writers, RecoverNothing(o) PROVE Stays
  BY <1>a, <1>29 DEF RecoverNothing
<1>30. ASSUME NEW o \in Writers, RecoverMarks(o) PROVE Stays
  BY <1>a, <1>30 DEF RecoverMarks, Recovered, Markable
<1>31. ASSUME NEW o \in Writers, RecoverBlocked(o) PROVE Stays
  BY <1>a, <1>31 DEF RecoverBlocked
<1>32. ASSUME SweepBegins PROVE Stays
  BY <1>a, <1>32 DEF SweepBegins, IdleSweep
<1>33. ASSUME RecoveryDone PROVE Stays
  BY <1>a, <1>33 DEF RecoveryDone
<1>34. ASSUME SweepEnds PROVE Stays
  BY <1>a, <1>34 DEF SweepEnds, IdleSweep
<1>35. ASSUME RecoverCleansJournal PROVE Stays
  BY <1>a, <1>35 DEF RecoverCleansJournal
<1>36. ASSUME RecoverCleansBackup PROVE Stays
  BY <1>a, <1>36 DEF RecoverCleansBackup
<1>37. ASSUME RecoverCleansStage PROVE Stays
  BY <1>a, <1>37 DEF RecoverCleansStage
<1>38. ASSUME SweepDies PROVE Stays
  BY <1>a, <1>38 DEF SweepDies, IdleSweep
<1>39. ASSUME NEW j \in Jobs, ReconcileRecord(j) PROVE Stays
  BY <1>a, <1>39 DEF ReconcileRecord, ConfirmedDead
<1>40. CASE UNCHANGED vars
  BY <1>a, <1>40 DEF vars
<1> QED
  BY <1>1, <1>2, <1>3, <1>4, <1>5, <1>6, <1>7, <1>8, <1>9, <1>10, <1>11,
     <1>12, <1>13, <1>14, <1>15, <1>16, <1>17, <1>18, <1>19, <1>20, <1>21,
     <1>22, <1>23, <1>24, <1>25, <1>26, <1>27, <1>28, <1>29, <1>30, <1>31,
     <1>32, <1>33, <1>34, <1>35, <1>36, <1>37, <1>38, <1>39, <1>40
     DEF Next, WriterStep, JobStep, SaveStep, TransactionStep, SweepStep, Failures

\* Every step preserves what recovery needs, as long as no directory write is
\* interrupted and no publisher dies in a sweep that has missed its journal.
LEMMA RecoveryInvStep ==
  ASSUME TornWrites = FALSE, LateDeaths = FALSE,
         MemoryInv, MemoryInv', RecoveryInv, [Next]_vars
  PROVE  RecoveryInv'
<1> USE MemoryConstants, NoJournal
    DEF MemoryInv, RecoveryInv, Writers, Values, Phases, LockedPcs, ApplyPcs, RollbackPcs,
        FinalPcs, CriticalPcs, MidWritePcs, SettledPcs, SweepCleans
<1>s. \A o \in Writers : Superseded(o) => Superseded(o)'
  BY SupersededLasts
<1>1. ASSUME NEW j \in Jobs, AcquireMemory(j) PROVE RecoveryInv'
  <2>1. FilesInv'
    BY <1>1 DEF TypeOK, LockInv, SeenInv, WorkInv, JournalInv, FilesInv,
       AcquireMemory, Goto
  <2>2. SweepInv'
    BY <1>1 DEF TypeOK, LockInv, SweepInv, FilesInv, JournalInv, AcquireMemory,
       Goto
  <2>3. StatusInv'
    BY <1>1, <1>s DEF TypeOK, LockInv, WorkInv, RecordInv, JournalInv, FilesInv,
       SweepInv, StatusInv, AcquireMemory, Goto
  <2>4. LeftInv'
    BY <1>1, <1>s DEF TypeOK, LockInv, SeenInv, WorkInv, JournalInv, FilesInv,
       SweepInv, LeftInv, HolderMemory, Superseded, AcquireMemory, Goto
  <2> QED
    BY <2>1, <2>2, <2>3, <2>4
<1>2. ASSUME NEW j \in Jobs, EnsureMemory(j) PROVE RecoveryInv'
  <2>1. FilesInv'
    BY <1>2 DEF TypeOK, LockInv, SeenInv, WorkInv, JournalInv, FilesInv,
       EnsureMemory, Goto, Ensured
  <2>2. SweepInv'
    BY <1>2 DEF TypeOK, LockInv, SweepInv, FilesInv, JournalInv, EnsureMemory,
       Goto, Ensured
  <2>3. StatusInv'
    BY <1>2, <1>s DEF TypeOK, LockInv, WorkInv, RecordInv, JournalInv, FilesInv,
       SweepInv, StatusInv, EnsureMemory, Goto, Ensured
  <2>4. LeftInv'
    BY <1>2, <1>s DEF TypeOK, LockInv, SeenInv, WorkInv, JournalInv, FilesInv,
       SweepInv, LeftInv, HolderMemory, Superseded, EnsureMemory, Goto, Ensured
  <2> QED
    BY <2>1, <2>2, <2>3, <2>4
<1>3. ASSUME NEW j \in Jobs, StageMemory(j) PROVE RecoveryInv'
  <2>1. FilesInv'
    BY <1>3 DEF TypeOK, LockInv, SeenInv, WorkInv, JournalInv, FilesInv,
       StageMemory, Goto
  <2>2. SweepInv'
    BY <1>3 DEF TypeOK, LockInv, SweepInv, FilesInv, JournalInv, StageMemory,
       Goto
  <2>3. StatusInv'
    BY <1>3, <1>s DEF TypeOK, LockInv, WorkInv, RecordInv, JournalInv, FilesInv,
       SweepInv, StatusInv, StageMemory, Goto
  <2>4. LeftInv'
    BY <1>3, <1>s DEF TypeOK, LockInv, SeenInv, WorkInv, JournalInv, FilesInv,
       SweepInv, LeftInv, HolderMemory, Superseded, StageMemory, Goto
  <2> QED
    BY <2>1, <2>2, <2>3, <2>4
<1>4. ASSUME NEW j \in Jobs, StartRunning(j) PROVE RecoveryInv'
  <2>1. FilesInv'
    BY <1>4 DEF TypeOK, LockInv, SeenInv, WorkInv, JournalInv, FilesInv,
       StartRunning, Goto
  <2>2. SweepInv'
    BY <1>4 DEF TypeOK, LockInv, SweepInv, FilesInv, JournalInv, StartRunning,
       Goto
  <2>3. StatusInv'
    BY <1>4, <1>s DEF TypeOK, LockInv, WorkInv, RecordInv, JournalInv, FilesInv,
       SweepInv, StatusInv, StartRunning, Goto
  <2>4. LeftInv'
    BY <1>4, <1>s DEF TypeOK, LockInv, SeenInv, WorkInv, JournalInv, FilesInv,
       SweepInv, LeftInv, HolderMemory, Superseded, StartRunning, Goto
  <2> QED
    BY <2>1, <2>2, <2>3, <2>4
<1>5. ASSUME NEW j \in Jobs, AgentSucceeds(j) PROVE RecoveryInv'
  <2>1. FilesInv'
    BY <1>5 DEF TypeOK, LockInv, SeenInv, WorkInv, JournalInv, FilesInv,
       AgentSucceeds, Goto
  <2>2. SweepInv'
    BY <1>5 DEF TypeOK, LockInv, SweepInv, FilesInv, JournalInv, AgentSucceeds,
       Goto
  <2>3. StatusInv'
    BY <1>5, <1>s DEF TypeOK, LockInv, WorkInv, RecordInv, JournalInv, FilesInv,
       SweepInv, StatusInv, AgentSucceeds, Goto
  <2>4. LeftInv'
    BY <1>5, <1>s DEF TypeOK, LockInv, SeenInv, WorkInv, JournalInv, FilesInv,
       SweepInv, LeftInv, HolderMemory, Superseded, AgentSucceeds, Goto
  <2> QED
    BY <2>1, <2>2, <2>3, <2>4
<1>6. ASSUME NEW j \in Jobs, AgentFails(j) PROVE RecoveryInv'
  <2>1. FilesInv'
    BY <1>6 DEF TypeOK, LockInv, SeenInv, WorkInv, JournalInv, FilesInv,
       AgentFails, Goto
  <2>2. SweepInv'
    BY <1>6 DEF TypeOK, LockInv, SweepInv, FilesInv, JournalInv, AgentFails,
       Goto
  <2>3. StatusInv'
    BY <1>6, <1>s DEF TypeOK, LockInv, WorkInv, RecordInv, JournalInv, FilesInv,
       SweepInv, StatusInv, AgentFails, Goto
  <2>4. LeftInv'
    BY <1>6, <1>s DEF TypeOK, LockInv, SeenInv, WorkInv, JournalInv, FilesInv,
       SweepInv, LeftInv, HolderMemory, Superseded, AgentFails, Goto
  <2> QED
    BY <2>1, <2>2, <2>3, <2>4
<1>7. ASSUME NEW j \in Jobs, MarkComplete(j) PROVE RecoveryInv'
  <2>1. FilesInv'
    BY <1>7 DEF TypeOK, LockInv, SeenInv, WorkInv, JournalInv, FilesInv,
       MarkComplete, Goto
  <2>2. SweepInv'
    BY <1>7 DEF TypeOK, LockInv, SweepInv, FilesInv, JournalInv, MarkComplete,
       Goto
  <2>3. StatusInv'
    BY <1>7, <1>s DEF TypeOK, LockInv, WorkInv, RecordInv, JournalInv, FilesInv,
       SweepInv, StatusInv, MarkComplete, Goto
  <2>4. LeftInv'
    BY <1>7, <1>s DEF TypeOK, LockInv, SeenInv, WorkInv, JournalInv, FilesInv,
       SweepInv, LeftInv, HolderMemory, Superseded, MarkComplete, Goto
  <2> QED
    BY <2>1, <2>2, <2>3, <2>4
<1>8. ASSUME NEW j \in Jobs, MarkFailed(j) PROVE RecoveryInv'
  <2>1. FilesInv'
    BY <1>8 DEF TypeOK, LockInv, SeenInv, WorkInv, JournalInv, FilesInv,
       MarkFailed, Goto
  <2>2. SweepInv'
    BY <1>8 DEF TypeOK, LockInv, SweepInv, FilesInv, JournalInv, MarkFailed,
       Goto
  <2>3. StatusInv'
    BY <1>8, <1>s DEF TypeOK, LockInv, WorkInv, RecordInv, JournalInv, FilesInv,
       SweepInv, StatusInv, MarkFailed, Goto
  <2>4. LeftInv'
    BY <1>8, <1>s DEF TypeOK, LockInv, SeenInv, WorkInv, JournalInv, FilesInv,
       SweepInv, LeftInv, HolderMemory, Superseded, MarkFailed, Goto
  <2> QED
    BY <2>1, <2>2, <2>3, <2>4
<1>9. ASSUME NEW j \in Jobs, Terminalize(j) PROVE RecoveryInv'
  <2>1. FilesInv'
    BY <1>9 DEF TypeOK, LockInv, SeenInv, WorkInv, JournalInv, FilesInv,
       Terminalize, Goto
  <2>2. SweepInv'
    BY <1>9 DEF TypeOK, LockInv, SweepInv, FilesInv, JournalInv, Terminalize,
       Goto
  <2>3. StatusInv'
    BY <1>9, <1>s DEF TypeOK, LockInv, WorkInv, RecordInv, JournalInv, FilesInv,
       SweepInv, StatusInv, Terminalize, Goto
  <2>4. LeftInv'
    BY <1>9, <1>s DEF TypeOK, LockInv, SeenInv, WorkInv, JournalInv, FilesInv,
       SweepInv, LeftInv, HolderMemory, Superseded, Terminalize, Goto
  <2> QED
    BY <2>1, <2>2, <2>3, <2>4
<1>10. ASSUME NEW o \in Saves, Preview(o) PROVE RecoveryInv'
  <2>1. FilesInv'
    BY <1>10 DEF TypeOK, LockInv, SeenInv, WorkInv, JournalInv, FilesInv,
       Preview, Goto, Ensured
  <2>2. SweepInv'
    BY <1>10 DEF TypeOK, LockInv, SweepInv, FilesInv, JournalInv, Preview, Goto,
       Ensured
  <2>3. StatusInv'
    BY <1>10, <1>s DEF TypeOK, LockInv, WorkInv, RecordInv, JournalInv, FilesInv,
       SweepInv, StatusInv, Preview, Goto, Ensured
  <2>4. LeftInv'
    BY <1>10, <1>s DEF TypeOK, LockInv, SeenInv, WorkInv, JournalInv, FilesInv,
       SweepInv, LeftInv, HolderMemory, Superseded, Preview, Goto, Ensured
  <2> QED
    BY <2>1, <2>2, <2>3, <2>4
<1>11. ASSUME NEW o \in Saves, SaveRefused(o) PROVE RecoveryInv'
  <2>1. FilesInv'
    BY <1>11 DEF TypeOK, LockInv, SeenInv, WorkInv, JournalInv, FilesInv,
       SaveRefused, Goto
  <2>2. SweepInv'
    BY <1>11 DEF TypeOK, LockInv, SweepInv, FilesInv, JournalInv, SaveRefused,
       Goto
  <2>3. StatusInv'
    BY <1>11, <1>s DEF TypeOK, LockInv, WorkInv, RecordInv, JournalInv, FilesInv,
       SweepInv, StatusInv, SaveRefused, Goto
  <2>4. LeftInv'
    BY <1>11, <1>s DEF TypeOK, LockInv, SeenInv, WorkInv, JournalInv, FilesInv,
       SweepInv, LeftInv, HolderMemory, Superseded, SaveRefused, Goto
  <2> QED
    BY <2>1, <2>2, <2>3, <2>4
<1>12. ASSUME NEW o \in Saves, SaveConflicts(o) PROVE RecoveryInv'
  <2>1. FilesInv'
    BY <1>12 DEF TypeOK, LockInv, SeenInv, WorkInv, JournalInv, FilesInv,
       SaveConflicts, Goto, Ensured
  <2>2. SweepInv'
    BY <1>12 DEF TypeOK, LockInv, SweepInv, FilesInv, JournalInv, SaveConflicts,
       Goto, Ensured
  <2>3. StatusInv'
    BY <1>12, <1>s DEF TypeOK, LockInv, WorkInv, RecordInv, JournalInv, FilesInv,
       SweepInv, StatusInv, SaveConflicts, Goto, Ensured
  <2>4. LeftInv'
    BY <1>12, <1>s DEF TypeOK, LockInv, SeenInv, WorkInv, JournalInv, FilesInv,
       SweepInv, LeftInv, HolderMemory, Superseded, SaveConflicts, Goto, Ensured
  <2> QED
    BY <2>1, <2>2, <2>3, <2>4
<1>13. ASSUME NEW o \in Saves, SaveBegins(o) PROVE RecoveryInv'
  <2>1. FilesInv'
    BY <1>13 DEF TypeOK, LockInv, SeenInv, WorkInv, JournalInv, FilesInv,
       SaveBegins, Goto, Ensured
  <2>2. SweepInv'
    BY <1>13 DEF TypeOK, LockInv, SweepInv, FilesInv, JournalInv, SaveBegins,
       Goto, Ensured
  <2>3. StatusInv'
    BY <1>13, <1>s DEF TypeOK, LockInv, WorkInv, RecordInv, JournalInv, FilesInv,
       SweepInv, StatusInv, SaveBegins, Goto, Ensured
  <2>4. LeftInv'
    BY <1>13, <1>s DEF TypeOK, LockInv, SeenInv, WorkInv, JournalInv, FilesInv,
       SweepInv, LeftInv, HolderMemory, Superseded, SaveBegins, Goto, Ensured
  <2> QED
    BY <2>1, <2>2, <2>3, <2>4
<1>14. ASSUME NEW o \in Writers, JournalPrepared(o) PROVE RecoveryInv'
  <2>1. FilesInv'
    BY <1>14 DEF TypeOK, LockInv, SeenInv, WorkInv, JournalInv, FilesInv,
       JournalPrepared, Goto, WriteJournal, NoChange
  <2>2. SweepInv'
    BY <1>14 DEF TypeOK, LockInv, SweepInv, FilesInv, JournalInv,
       JournalPrepared, Goto, WriteJournal, NoChange
  <2>3. StatusInv'
    BY <1>14, <1>s DEF TypeOK, LockInv, WorkInv, RecordInv, JournalInv, FilesInv,
       SweepInv, StatusInv, JournalPrepared, Goto, WriteJournal, NoChange
  <2>4. LeftInv'
    BY <1>14, <1>s DEF TypeOK, LockInv, SeenInv, WorkInv, JournalInv, FilesInv,
       SweepInv, LeftInv, HolderMemory, Superseded, JournalPrepared, Goto,
       WriteJournal, NoChange
  <2> QED
    BY <2>1, <2>2, <2>3, <2>4
<1>15. ASSUME NEW o \in Writers, BackupBegins(o) PROVE RecoveryInv'
  <2>1. FilesInv'
    BY <1>15 DEF TypeOK, LockInv, SeenInv, WorkInv, JournalInv, FilesInv,
       BackupBegins, Goto
  <2>2. SweepInv'
    BY <1>15 DEF TypeOK, LockInv, SweepInv, FilesInv, JournalInv, BackupBegins,
       Goto
  <2>3. StatusInv'
    BY <1>15, <1>s DEF TypeOK, LockInv, WorkInv, RecordInv, JournalInv, FilesInv,
       SweepInv, StatusInv, BackupBegins, Goto
  <2>4. LeftInv'
    BY <1>15, <1>s DEF TypeOK, LockInv, SeenInv, WorkInv, JournalInv, FilesInv,
       SweepInv, LeftInv, HolderMemory, Superseded, BackupBegins, Goto
  <2> QED
    BY <2>1, <2>2, <2>3, <2>4
<1>16. ASSUME NEW o \in Writers, BackupEnds(o) PROVE RecoveryInv'
  <2>1. FilesInv'
    BY <1>16 DEF TypeOK, LockInv, SeenInv, WorkInv, JournalInv, FilesInv,
       BackupEnds, Goto
  <2>2. SweepInv'
    BY <1>16 DEF TypeOK, LockInv, SweepInv, FilesInv, JournalInv, BackupEnds,
       Goto
  <2>3. StatusInv'
    BY <1>16, <1>s DEF TypeOK, LockInv, WorkInv, RecordInv, JournalInv, FilesInv,
       SweepInv, StatusInv, BackupEnds, Goto
  <2>4. LeftInv'
    BY <1>16, <1>s DEF TypeOK, LockInv, SeenInv, WorkInv, JournalInv, FilesInv,
       SweepInv, LeftInv, HolderMemory, Superseded, BackupEnds, Goto
  <2> QED
    BY <2>1, <2>2, <2>3, <2>4
<1>17. ASSUME NEW o \in Writers, JournalBackedUp(o) PROVE RecoveryInv'
  <2>1. FilesInv'
    BY <1>17 DEF TypeOK, LockInv, SeenInv, WorkInv, JournalInv, FilesInv,
       JournalBackedUp, Goto, WriteJournal
  <2>2. SweepInv'
    BY <1>17 DEF TypeOK, LockInv, SweepInv, FilesInv, JournalInv,
       JournalBackedUp, Goto, WriteJournal
  <2>3. StatusInv'
    BY <1>17, <1>s DEF TypeOK, LockInv, WorkInv, RecordInv, JournalInv, FilesInv,
       SweepInv, StatusInv, JournalBackedUp, Goto, WriteJournal
  <2>4. LeftInv'
    BY <1>17, <1>s DEF TypeOK, LockInv, SeenInv, WorkInv, JournalInv, FilesInv,
       SweepInv, LeftInv, HolderMemory, Superseded, JournalBackedUp, Goto,
       WriteJournal
  <2> QED
    BY <2>1, <2>2, <2>3, <2>4
<1>18. ASSUME NEW o \in Writers, ReplaceBegins(o) PROVE RecoveryInv'
  <2>1. FilesInv'
    BY <1>18 DEF TypeOK, LockInv, SeenInv, WorkInv, JournalInv, FilesInv,
       ReplaceBegins, Goto
  <2>2. SweepInv'
    BY <1>18 DEF TypeOK, LockInv, SweepInv, FilesInv, JournalInv, ReplaceBegins,
       Goto
  <2>3. StatusInv'
    BY <1>18, <1>s DEF TypeOK, LockInv, WorkInv, RecordInv, JournalInv, FilesInv,
       SweepInv, StatusInv, ReplaceBegins, Goto
  <2>4. LeftInv'
    BY <1>18, <1>s DEF TypeOK, LockInv, SeenInv, WorkInv, JournalInv, FilesInv,
       SweepInv, LeftInv, HolderMemory, Superseded, ReplaceBegins, Goto
  <2> QED
    BY <2>1, <2>2, <2>3, <2>4
<1>19. ASSUME NEW o \in Writers, ReplaceEnds(o) PROVE RecoveryInv'
  <2>1. FilesInv'
    BY <1>19 DEF TypeOK, LockInv, SeenInv, WorkInv, JournalInv, FilesInv,
       ReplaceEnds, Goto
  <2>2. SweepInv'
    BY <1>19 DEF TypeOK, LockInv, SweepInv, FilesInv, JournalInv, ReplaceEnds,
       Goto
  <2>3. StatusInv'
    BY <1>19, <1>s DEF TypeOK, LockInv, WorkInv, RecordInv, JournalInv, FilesInv,
       SweepInv, StatusInv, ReplaceEnds, Goto
  <2>4. LeftInv'
    BY <1>19, <1>s DEF TypeOK, LockInv, SeenInv, WorkInv, JournalInv, FilesInv,
       SweepInv, LeftInv, HolderMemory, Superseded, ReplaceEnds, Goto
  <2> QED
    BY <2>1, <2>2, <2>3, <2>4
<1>20. ASSUME NEW o \in Writers, JournalPublished(o) PROVE RecoveryInv'
  <2>1. FilesInv'
    BY <1>20 DEF TypeOK, LockInv, SeenInv, WorkInv, JournalInv, FilesInv,
       JournalPublished, Goto, WriteJournal
  <2>2. SweepInv'
    BY <1>20 DEF TypeOK, LockInv, SweepInv, FilesInv, JournalInv,
       JournalPublished, Goto, WriteJournal
  <2>3. StatusInv'
    BY <1>20, <1>s DEF TypeOK, LockInv, WorkInv, RecordInv, JournalInv, FilesInv,
       SweepInv, StatusInv, JournalPublished, Goto, WriteJournal
  <2>4. LeftInv'
    BY <1>20, <1>s DEF TypeOK, LockInv, SeenInv, WorkInv, JournalInv, FilesInv,
       SweepInv, LeftInv, HolderMemory, Superseded, JournalPublished, Goto,
       WriteJournal
  <2> QED
    BY <2>1, <2>2, <2>3, <2>4
<1>21. ASSUME NEW o \in Writers, CleanJournal(o) PROVE RecoveryInv'
  <2>1. FilesInv'
    BY <1>21 DEF TypeOK, LockInv, SeenInv, WorkInv, JournalInv, FilesInv,
       CleanJournal, Goto
  <2>2. SweepInv'
    BY <1>21 DEF TypeOK, LockInv, SweepInv, FilesInv, JournalInv, CleanJournal,
       Goto
  <2>3. StatusInv'
    BY <1>21, <1>s DEF TypeOK, LockInv, WorkInv, RecordInv, JournalInv, FilesInv,
       SweepInv, StatusInv, CleanJournal, Goto
  <2>4. LeftInv'
    BY <1>21, <1>s DEF TypeOK, LockInv, SeenInv, WorkInv, JournalInv, FilesInv,
       SweepInv, LeftInv, HolderMemory, Superseded, CleanJournal, Goto
  <2> QED
    BY <2>1, <2>2, <2>3, <2>4
<1>22. ASSUME NEW o \in Writers, CleanBackup(o) PROVE RecoveryInv'
  <2>1. FilesInv'
    BY <1>22 DEF TypeOK, LockInv, SeenInv, WorkInv, JournalInv, FilesInv,
       CleanBackup, Goto
  <2>2. SweepInv'
    BY <1>22 DEF TypeOK, LockInv, SweepInv, FilesInv, JournalInv, CleanBackup,
       Goto
  <2>3. StatusInv'
    BY <1>22, <1>s DEF TypeOK, LockInv, WorkInv, RecordInv, JournalInv, FilesInv,
       SweepInv, StatusInv, CleanBackup, Goto
  <2>4. LeftInv'
    BY <1>22, <1>s DEF TypeOK, LockInv, SeenInv, WorkInv, JournalInv, FilesInv,
       SweepInv, LeftInv, HolderMemory, Superseded, CleanBackup, Goto
  <2> QED
    BY <2>1, <2>2, <2>3, <2>4
<1>23. ASSUME NEW o \in Writers, CleanStage(o) PROVE RecoveryInv'
  <2>1. FilesInv'
    BY <1>23 DEF TypeOK, LockInv, SeenInv, WorkInv, JournalInv, FilesInv,
       CleanStage, Goto
  <2>2. SweepInv'
    BY <1>23 DEF TypeOK, LockInv, SweepInv, FilesInv, JournalInv, CleanStage,
       Goto
  <2>3. StatusInv'
    BY <1>23, <1>s DEF TypeOK, LockInv, WorkInv, RecordInv, JournalInv, FilesInv,
       SweepInv, StatusInv, CleanStage, Goto
  <2>4. LeftInv'
    BY <1>23, <1>s DEF TypeOK, LockInv, SeenInv, WorkInv, JournalInv, FilesInv,
       SweepInv, LeftInv, HolderMemory, Superseded, CleanStage, Goto
  <2> QED
    BY <2>1, <2>2, <2>3, <2>4
<1>24. ASSUME NEW o \in Writers, RollbackBegins(o) PROVE RecoveryInv'
  <2>1. FilesInv'
    BY <1>24 DEF TypeOK, LockInv, SeenInv, WorkInv, JournalInv, FilesInv,
       RollbackBegins, Goto
  <2>2. SweepInv'
    BY <1>24 DEF TypeOK, LockInv, SweepInv, FilesInv, JournalInv,
       RollbackBegins, Goto
  <2>3. StatusInv'
    BY <1>24, <1>s DEF TypeOK, LockInv, WorkInv, RecordInv, JournalInv, FilesInv,
       SweepInv, StatusInv, RollbackBegins, Goto
  <2>4. LeftInv'
    BY <1>24, <1>s DEF TypeOK, LockInv, SeenInv, WorkInv, JournalInv, FilesInv,
       SweepInv, LeftInv, HolderMemory, Superseded, RollbackBegins, Goto
  <2> QED
    BY <2>1, <2>2, <2>3, <2>4
<1>25. ASSUME NEW o \in Writers, RollbackEnds(o) PROVE RecoveryInv'
  <2>1. FilesInv'
    BY <1>25 DEF TypeOK, LockInv, SeenInv, WorkInv, JournalInv, FilesInv,
       RollbackEnds, Goto
  <2>2. SweepInv'
    BY <1>25 DEF TypeOK, LockInv, SweepInv, FilesInv, JournalInv, RollbackEnds,
       Goto
  <2>3. StatusInv'
    BY <1>25, <1>s DEF TypeOK, LockInv, WorkInv, RecordInv, JournalInv, FilesInv,
       SweepInv, StatusInv, RollbackEnds, Goto
  <2>4. LeftInv'
    BY <1>25, <1>s DEF TypeOK, LockInv, SeenInv, WorkInv, JournalInv, FilesInv,
       SweepInv, LeftInv, HolderMemory, Superseded, RollbackEnds, Goto
  <2> QED
    BY <2>1, <2>2, <2>3, <2>4
<1>26. ASSUME NEW o \in Writers, TransactionFails(o) PROVE RecoveryInv'
  <2>1. FilesInv'
    BY <1>26 DEF TypeOK, LockInv, SeenInv, WorkInv, JournalInv, FilesInv,
       TransactionFails, Goto
  <2>2. SweepInv'
    BY <1>26 DEF TypeOK, LockInv, SweepInv, FilesInv, JournalInv,
       TransactionFails, Goto
  <2>3. StatusInv'
    BY <1>26, <1>s DEF TypeOK, LockInv, WorkInv, RecordInv, JournalInv, FilesInv,
       SweepInv, StatusInv, TransactionFails, Goto
  <2>4. LeftInv'
    BY <1>26, <1>s DEF TypeOK, LockInv, SeenInv, WorkInv, JournalInv, FilesInv,
       SweepInv, LeftInv, HolderMemory, Superseded, TransactionFails, Goto
  <2> QED
    BY <2>1, <2>2, <2>3, <2>4
<1>27. ASSUME NEW o \in Writers, FinalStepFails(o) PROVE RecoveryInv'
  <2>1. FilesInv'
    BY <1>27 DEF TypeOK, LockInv, SeenInv, WorkInv, JournalInv, FilesInv,
       FinalStepFails, Goto
  <2>2. SweepInv'
    BY <1>27 DEF TypeOK, LockInv, SweepInv, FilesInv, JournalInv,
       FinalStepFails, Goto
  <2>3. StatusInv'
    BY <1>27, <1>s DEF TypeOK, LockInv, WorkInv, RecordInv, JournalInv, FilesInv,
       SweepInv, StatusInv, FinalStepFails, Goto
  <2>4. LeftInv'
    BY <1>27, <1>s DEF TypeOK, LockInv, SeenInv, WorkInv, JournalInv, FilesInv,
       SweepInv, LeftInv, HolderMemory, Superseded, FinalStepFails, Goto
  <2> QED
    BY <2>1, <2>2, <2>3, <2>4
<1>28. ASSUME NEW o \in Writers, WriterDies(o) PROVE RecoveryInv'
  <2>1. FilesInv'
    BY <1>28 DEF TypeOK, LockInv, SeenInv, WorkInv, JournalInv, FilesInv,
       WriterDies, Goto, MissedBySweep
  <2>2. SweepInv'
    BY <1>28 DEF TypeOK, LockInv, SweepInv, FilesInv, JournalInv, WriterDies,
       Goto, MissedBySweep
  <2>3. StatusInv'
    BY <1>28, <1>s DEF TypeOK, LockInv, WorkInv, RecordInv, JournalInv, FilesInv,
       SweepInv, StatusInv, WriterDies, Goto, MissedBySweep
  <2>4. LeftInv'
    <3> SUFFICES ASSUME NEW p \in Writers, pc'[p] \in SettledPcs, journal[p] # None,
                        ~Superseded(p)'
                 PROVE  HolderMemory' = IF p \in installed THEN stage[p] ELSE base[p]
      BY <1>28 DEF LeftInv, WriterDies
    <3>1. ~Superseded(p)
      BY <1>s
    <3>2. pc[p] \in SettledPcs => HolderMemory = IF p \in installed THEN stage[p] ELSE base[p]
      BY <3>1 DEF LeftInv
    <3>3. p # o => pc[p] \in SettledPcs
      BY <1>28 DEF TypeOK, WriterDies, Goto
    <3>4. CASE lock = o /\ pc[o] \in CriticalPcs
      <4>1. canonical = IF o \in installed THEN stage[o] ELSE base[o]
        BY <1>28, <3>4 DEF WorkInv, WriterDies
      <4>2. HolderMemory' = canonical /\ HolderMemory = base[o]
        BY <1>28, <3>4 DEF HolderMemory, WriterDies
      <4>3. o \in installed => p = o
        BY <1>28 DEF Superseded, TypeOK, WriterDies, Goto
      <4> QED
        BY <3>2, <3>3, <4>1, <4>2, <4>3
    <3>5. CASE lock = o /\ pc[o] \notin CriticalPcs
      <4>1. journal[o] = None
        BY <3>5 DEF LockInv, JournalInv
      <4>2. HolderMemory' = HolderMemory
        BY <1>28, <3>5 DEF HolderMemory, WriterDies
      <4> QED
        BY <3>2, <3>3, <4>1, <4>2
    <3>6. CASE lock # o
      <4>1. pc[p] \in SettledPcs
        BY <1>28, <3>3, <3>6 DEF TypeOK, LockInv, JournalInv, WriterDies, Pcs
      <4>2. HolderMemory' = HolderMemory
        BY <1>28, <3>6 DEF HolderMemory, WriterDies, Goto, TypeOK
      <4> QED
        BY <3>2, <4>1, <4>2
    <3> QED
      BY <3>4, <3>5, <3>6
  <2> QED
    BY <2>1, <2>2, <2>3, <2>4
<1>29. ASSUME NEW o \in Writers, RecoverNothing(o) PROVE RecoveryInv'
  <2>1. FilesInv'
    BY <1>29 DEF TypeOK, LockInv, SeenInv, WorkInv, JournalInv, FilesInv,
       RecoverNothing
  <2>2. SweepInv'
    BY <1>29 DEF TypeOK, LockInv, SweepInv, FilesInv, JournalInv, RecoverNothing
  <2>3. StatusInv'
    BY <1>29, <1>s DEF TypeOK, LockInv, WorkInv, RecordInv, JournalInv, FilesInv,
       SweepInv, StatusInv, RecoverNothing
  <2>4. LeftInv'
    BY <1>29, <1>s DEF TypeOK, LockInv, SeenInv, WorkInv, JournalInv, FilesInv,
       SweepInv, LeftInv, HolderMemory, Superseded, RecoverNothing
  <2> QED
    BY <2>1, <2>2, <2>3, <2>4
<1>30. ASSUME NEW o \in Writers, RecoverMarks(o) PROVE RecoveryInv'
  <2>1. FilesInv'
    BY <1>30 DEF TypeOK, LockInv, SeenInv, WorkInv, JournalInv, FilesInv,
       RecoverMarks, Recovered, Markable
  <2>2. SweepInv'
    BY <1>30 DEF TypeOK, LockInv, SweepInv, FilesInv, JournalInv, RecoverMarks,
       Recovered, Markable
  <2>3. StatusInv'
    <3>1. pc[o] \in SettledPcs /\ HolderMemory = canonical
      BY <1>30 DEF TypeOK, LockInv, JournalInv, RecoverMarks, HolderMemory, Pcs
    <3>2. Superseded(o) \/ canonical = IF o \in installed THEN stage[o] ELSE base[o]
      BY <1>30, <3>1 DEF LeftInv, RecoverMarks
    <3>3. /\ journal[o].old = base[o] /\ journal[o].new = stage[o]
          /\ o \in installed => journal[o].phase # "prepared"
      BY <1>30 DEF FilesInv, RecoverMarks
    <3>4. CASE Recovered(o) = "complete"
      <4>1. \/ canonical = stage[o]
            \/ base[o] = stage[o]
        BY <3>3, <3>4 DEF Recovered
      <4>2. o \in installed \/ base[o] = stage[o] \/ Superseded(o)
        BY <3>2, <4>1
      <4> QED
        BY <1>30, <1>s, <3>4, <4>2 DEF TypeOK, StatusInv, RecoverMarks
    <3>5. CASE Recovered(o) = "failed"
      <4>1. canonical = base[o]
        BY <3>3, <3>5 DEF Recovered
      <4>2. journal[o].phase # "prepared" => canonical # stage[o]
        BY <3>3, <3>5 DEF Recovered
      <4>3. base[o] # stage[o]
        BY <3>3, <3>5 DEF Recovered
      <4>4. o \in installed => Superseded(o)
        BY <3>2, <3>3, <4>2
      <4> QED
        BY <1>30, <1>s, <3>5, <4>3, <4>4 DEF TypeOK, StatusInv, RecoverMarks
    <3>6. Recovered(o) \in {"complete", "failed"}
      BY <1>30 DEF Recovered, RecoverMarks
    <3> QED
      BY <3>4, <3>5, <3>6
  <2>4. LeftInv'
    BY <1>30, <1>s DEF TypeOK, LockInv, SeenInv, WorkInv, JournalInv, FilesInv,
       SweepInv, LeftInv, HolderMemory, Superseded, RecoverMarks, Recovered, Markable
  <2> QED
    BY <2>1, <2>2, <2>3, <2>4
<1>31. ASSUME NEW o \in Writers, RecoverBlocked(o) PROVE RecoveryInv'
  <2>1. FilesInv'
    BY <1>31 DEF TypeOK, LockInv, SeenInv, WorkInv, JournalInv, FilesInv,
       RecoverBlocked
  <2>2. SweepInv'
    BY <1>31 DEF TypeOK, LockInv, SweepInv, FilesInv, JournalInv, RecoverBlocked
  <2>3. StatusInv'
    BY <1>31, <1>s DEF TypeOK, LockInv, WorkInv, RecordInv, JournalInv, FilesInv,
       SweepInv, StatusInv, RecoverBlocked
  <2>4. LeftInv'
    BY <1>31, <1>s DEF TypeOK, LockInv, SeenInv, WorkInv, JournalInv, FilesInv,
       SweepInv, LeftInv, HolderMemory, Superseded, RecoverBlocked
  <2> QED
    BY <2>1, <2>2, <2>3, <2>4
<1>32. ASSUME SweepBegins PROVE RecoveryInv'
  <2>1. FilesInv'
    BY <1>32 DEF FilesInv, SweepBegins
  <2>2. SweepInv'
    <3>1. sweep'.at = "recover" /\ sweep'.journals = {o \in Writers : journal[o] # None}
      BY <1>32 DEF SweepBegins, IdleSweep
    <3>2. journal' = journal /\ pc' = pc
      BY <1>32 DEF SweepBegins
    <3>3. \A o \in Writers : journal'[o] # None => o \in sweep'.journals
      BY <3>1, <3>2
    <3> QED
      BY <3>1, <3>3 DEF SweepInv
  <2>3. StatusInv'
    BY <1>32, <1>s DEF TypeOK, LockInv, WorkInv, RecordInv, JournalInv, FilesInv,
       SweepInv, StatusInv, SweepBegins, IdleSweep
  <2>4. LeftInv'
    BY <1>32, <1>s DEF LeftInv, HolderMemory, SweepBegins
  <2> QED
    BY <2>1, <2>2, <2>3, <2>4
<1>33. ASSUME RecoveryDone PROVE RecoveryInv'
  <2>1. FilesInv'
    BY <1>33 DEF TypeOK, LockInv, SeenInv, WorkInv, JournalInv, FilesInv,
       RecoveryDone
  <2>2. SweepInv'
    BY <1>33 DEF TypeOK, LockInv, SweepInv, FilesInv, JournalInv, RecoveryDone
  <2>3. StatusInv'
    BY <1>33, <1>s DEF TypeOK, LockInv, WorkInv, RecordInv, JournalInv, FilesInv,
       SweepInv, StatusInv, RecoveryDone
  <2>4. LeftInv'
    BY <1>33, <1>s DEF TypeOK, LockInv, SeenInv, WorkInv, JournalInv, FilesInv,
       SweepInv, LeftInv, HolderMemory, Superseded, RecoveryDone
  <2> QED
    BY <2>1, <2>2, <2>3, <2>4
<1>34. ASSUME SweepEnds PROVE RecoveryInv'
  <2>1. FilesInv'
    BY <1>34 DEF TypeOK, LockInv, SeenInv, WorkInv, JournalInv, FilesInv,
       SweepEnds, IdleSweep
  <2>2. SweepInv'
    BY <1>34 DEF TypeOK, LockInv, SweepInv, FilesInv, JournalInv, SweepEnds,
       IdleSweep
  <2>3. StatusInv'
    BY <1>34, <1>s DEF TypeOK, LockInv, WorkInv, RecordInv, JournalInv, FilesInv,
       SweepInv, StatusInv, SweepEnds, IdleSweep
  <2>4. LeftInv'
    BY <1>34, <1>s DEF TypeOK, LockInv, SeenInv, WorkInv, JournalInv, FilesInv,
       SweepInv, LeftInv, HolderMemory, Superseded, SweepEnds, IdleSweep
  <2> QED
    BY <2>1, <2>2, <2>3, <2>4
<1>35. ASSUME RecoverCleansJournal PROVE RecoveryInv'
  <2>1. FilesInv'
    BY <1>35 DEF TypeOK, LockInv, SeenInv, WorkInv, JournalInv, FilesInv,
       RecoverCleansJournal
  <2>2. SweepInv'
    BY <1>35 DEF TypeOK, LockInv, SweepInv, FilesInv, JournalInv,
       RecoverCleansJournal
  <2>3. StatusInv'
    BY <1>35, <1>s DEF TypeOK, LockInv, WorkInv, RecordInv, JournalInv, FilesInv,
       SweepInv, StatusInv, RecoverCleansJournal
  <2>4. LeftInv'
    BY <1>35, <1>s DEF TypeOK, LockInv, SeenInv, WorkInv, JournalInv, FilesInv,
       SweepInv, LeftInv, HolderMemory, Superseded, RecoverCleansJournal
  <2> QED
    BY <2>1, <2>2, <2>3, <2>4
<1>36. ASSUME RecoverCleansBackup PROVE RecoveryInv'
  <2>1. FilesInv'
    BY <1>36 DEF TypeOK, LockInv, SeenInv, WorkInv, JournalInv, FilesInv, SweepInv,
       RecoverCleansBackup
  <2>2. SweepInv'
    BY <1>36 DEF TypeOK, LockInv, SweepInv, FilesInv, JournalInv,
       RecoverCleansBackup
  <2>3. StatusInv'
    BY <1>36, <1>s DEF TypeOK, LockInv, WorkInv, RecordInv, JournalInv, FilesInv,
       SweepInv, StatusInv, RecoverCleansBackup
  <2>4. LeftInv'
    BY <1>36, <1>s DEF TypeOK, LockInv, SeenInv, WorkInv, JournalInv, FilesInv,
       SweepInv, LeftInv, HolderMemory, Superseded, RecoverCleansBackup
  <2> QED
    BY <2>1, <2>2, <2>3, <2>4
<1>37. ASSUME RecoverCleansStage PROVE RecoveryInv'
  <2>1. FilesInv'
    BY <1>37 DEF TypeOK, LockInv, SeenInv, WorkInv, JournalInv, FilesInv, SweepInv,
       RecoverCleansStage
  <2>2. SweepInv'
    BY <1>37 DEF TypeOK, LockInv, SweepInv, FilesInv, JournalInv,
       RecoverCleansStage
  <2>3. StatusInv'
    BY <1>37, <1>s DEF TypeOK, LockInv, WorkInv, RecordInv, JournalInv, FilesInv,
       SweepInv, StatusInv, RecoverCleansStage
  <2>4. LeftInv'
    BY <1>37, <1>s DEF TypeOK, LockInv, SeenInv, WorkInv, JournalInv, FilesInv,
       SweepInv, LeftInv, HolderMemory, Superseded, RecoverCleansStage
  <2> QED
    BY <2>1, <2>2, <2>3, <2>4
<1>38. ASSUME SweepDies PROVE RecoveryInv'
  <2>1. FilesInv'
    BY <1>38 DEF TypeOK, LockInv, SeenInv, WorkInv, JournalInv, FilesInv,
       SweepDies, IdleSweep
  <2>2. SweepInv'
    BY <1>38 DEF TypeOK, LockInv, SweepInv, FilesInv, JournalInv, SweepDies,
       IdleSweep
  <2>3. StatusInv'
    BY <1>38, <1>s DEF TypeOK, LockInv, WorkInv, RecordInv, JournalInv, FilesInv,
       SweepInv, StatusInv, SweepDies, IdleSweep
  <2>4. LeftInv'
    BY <1>38, <1>s DEF TypeOK, LockInv, SeenInv, WorkInv, JournalInv, FilesInv,
       SweepInv, LeftInv, HolderMemory, Superseded, SweepDies, IdleSweep
  <2> QED
    BY <2>1, <2>2, <2>3, <2>4
<1>39. ASSUME NEW j \in Jobs, ReconcileRecord(j) PROVE RecoveryInv'
  <2>1. FilesInv'
    BY <1>39 DEF TypeOK, LockInv, SeenInv, WorkInv, JournalInv, FilesInv,
       ReconcileRecord, ConfirmedDead
  <2>2. SweepInv'
    BY <1>39 DEF TypeOK, LockInv, SweepInv, FilesInv, JournalInv,
       ReconcileRecord, ConfirmedDead
  <2>3. StatusInv'
    BY <1>39, <1>s DEF TypeOK, LockInv, WorkInv, RecordInv, JournalInv, FilesInv,
       SweepInv, StatusInv, ReconcileRecord, ConfirmedDead
  <2>4. LeftInv'
    BY <1>39, <1>s DEF TypeOK, LockInv, SeenInv, WorkInv, JournalInv, FilesInv,
       SweepInv, LeftInv, HolderMemory, Superseded, ReconcileRecord, ConfirmedDead
  <2> QED
    BY <2>1, <2>2, <2>3, <2>4
<1>40. CASE UNCHANGED vars
  BY <1>40 DEF vars, FilesInv, SweepInv, StatusInv, LeftInv, HolderMemory, Superseded
<1> QED
  BY <1>1, <1>2, <1>3, <1>4, <1>5, <1>6, <1>7, <1>8, <1>9, <1>10, <1>11,
     <1>12, <1>13, <1>14, <1>15, <1>16, <1>17, <1>18, <1>19, <1>20, <1>21,
     <1>22, <1>23, <1>24, <1>25, <1>26, <1>27, <1>28, <1>29, <1>30, <1>31,
     <1>32, <1>33, <1>34, <1>35, <1>36, <1>37, <1>38, <1>39, <1>40
     DEF Next, WriterStep, JobStep, SaveStep, TransactionStep, SweepStep, Failures

\* Nothing has happened yet: nothing is left behind.
LEMMA RecoveryInvInit == Init => RecoveryInv
  BY MemoryConstants
     DEF Init, RecoveryInv, FilesInv, SweepInv, StatusInv, LeftInv, Writers, CriticalPcs,
         ApplyPcs, RollbackPcs, FinalPcs, SettledPcs, SweepCleans, IdleSweep

\* The invariant of recovery holds in every reachable state.
THEOREM RecoveryInvariance ==
  ASSUME TornWrites = FALSE, LateDeaths = FALSE
  PROVE  Spec => []RecoveryInv
<1>1. MemoryInv /\ MemoryInv' /\ RecoveryInv /\ [Next]_vars => RecoveryInv'
  BY RecoveryInvStep
<1> QED
  BY <1>1, RecoveryInvInit, MemoryInvariance, PTL DEF Spec

\* If one writer is the only one whose content is in place, nobody has
\* superseded it.
LEMMA AloneIsNotSuperseded ==
  ASSUME NEW o, installed \subseteq {o}
  PROVE  ~Superseded(o)
  BY DEF Superseded

\* Whatever fails a job - its agent, a rollback, the outermost handler,
\* recovery or the sweep that finds its worker dead - its content is not what
\* the memory holds.
THEOREM NoFailedPublisherAlways ==
  ASSUME TornWrites = FALSE, LateDeaths = FALSE, FinalFaults = FALSE
  PROVE  Spec => []NoFailedPublisher
<1>1. RecoveryInv => NoFailedPublisher
  BY AloneIsNotSuperseded DEF RecoveryInv, StatusInv, NoFailedPublisher
<1> QED
  BY <1>1, RecoveryInvariance, PTL

\* Recovery can decide what to do with the journal of every process that
\* died, and mark its record so, as long as no write has failed and nobody
\* else has replaced the memory since.
THEOREM JournalsResolvableAlways ==
  ASSUME TornWrites = FALSE, LateDeaths = FALSE
  PROVE  Spec => []JournalsResolvable
<1>1. MemoryInv /\ RecoveryInv => JournalsResolvable
  <2> SUFFICES ASSUME MemoryInv, RecoveryInv, lock = Free, faults = 0,
                      NEW o \in Writers, journal[o] # None, OnlyWriter(o)
               PROVE  Recovered(o) # "manual" /\ Markable(o, Recovered(o))
    BY DEF JournalsResolvable
  <2> USE MemoryConstants DEF MemoryInv, RecoveryInv, Writers
  <2>1. ~Superseded(o)
    BY AloneIsNotSuperseded DEF OnlyWriter
  <2>2. pc[o] \in SettledPcs /\ HolderMemory = canonical
    BY DEF TypeOK, LockInv, JournalInv, HolderMemory, Pcs, LockedPcs, SettledPcs
  <2>3. canonical = IF o \in installed THEN stage[o] ELSE base[o]
    BY <2>1, <2>2 DEF LeftInv
  <2>4. /\ journal[o].old = base[o] /\ journal[o].new = stage[o]
        /\ o \in installed => journal[o].phase # "prepared"
    BY DEF FilesInv
  <2>5. /\ backup[o] \in {None, base[o]}
        /\ base[o] = stage[o] => backup[o] = None
        /\ journal[o].phase # "prepared" => base[o] = stage[o] \/ backup[o] # None
    BY <2>2 DEF FilesInv, SettledPcs
  <2>6. Recovered(o) # "manual"
    BY <2>3, <2>4, <2>5 DEF Recovered
  <2>7. ASSUME o \in Jobs, status[o] = "complete" PROVE Recovered(o) = "complete"
    <3>1. o \in installed \/ base[o] = stage[o]
      BY <2>1, <2>7 DEF StatusInv
    <3> QED
      BY <3>1, <2>3, <2>4, <2>5 DEF Recovered
  <2>8. ASSUME o \in Jobs, status[o] = "failed" PROVE Recovered(o) = "failed"
    <3>1. o \notin installed /\ base[o] # stage[o]
      BY <2>1, <2>8 DEF StatusInv
    <3> QED
      BY <3>1, <2>3, <2>4, <2>6 DEF Recovered
  <2>9. o \in Jobs => status[o] \in {"running", "complete", "failed"}
    BY DEF TypeOK, StatusInv
  <2> QED
    BY <2>6, <2>7, <2>8, <2>9 DEF Markable
<1> QED
  BY <1>1, MemoryInvariance, RecoveryInvariance, PTL
=============================================================================
