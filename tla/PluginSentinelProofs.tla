----------------------- MODULE PluginSentinelProofs -------------------------
(***************************************************************************)
(* The safety properties of PluginSentinel, for every set of modules, every *)
(* bound and every combination of faults.  IInv is shown to be inductive    *)
(* conjunct by conjunct; the theorems follow from it.                       *)
(***************************************************************************)
EXTENDS PluginSentinel, TLAPS

\* Every step keeps the types; a candidate is handled only while there is one.
LEMMA TypeStep ==
  ASSUME TypeOK, CandidatesAreClear, WatchdogCoversLoad, [Next]_vars
  PROVE  TypeOK'
<1> USE DEF TypeOK, Points, Kinds, Phases
<1>1. ASSUME NEW r \in SUBSET Modules, Launch(r) PROVE TypeOK'
  BY <1>1 DEF Launch, file, watchdog, ResolvedSuspects, Promoted
<1>2. CASE ProbeWritten
  BY <1>2 DEF ProbeWritten, WriteRecord, memory, watchdog
<1>3. ASSUME NEW found \in SUBSET Modules, RefuseSuspects(found) PROVE TypeOK'
  BY <1>3 DEF RefuseSuspects, file, watchdog, history
<1>4. ASSUME NEW m \in Modules, SkipCandidate(m) PROVE TypeOK'
  BY <1>4 DEF SkipCandidate, file, watchdog, history
<1>5. ASSUME NEW m \in Modules, BeginCandidate(m) PROVE TypeOK'
  BY <1>5 DEF BeginCandidate, file, watchdog, history
<1>6. CASE RecordLoading
  BY <1>6 DEF RecordLoading, WriteRecord, memory, watchdog, history
<1>7. CASE RecordFails
  BY <1>7 DEF RecordFails, WriteFails, file, memory, watchdog, history
<1>8. CASE Arm
  BY <1>8 DEF Arm, file, memory, history
<1>9. CASE OpenSucceeds \/ OpenRefused \/ ModuleHangs \/ Classified
  BY <1>9 DEF OpenSucceeds, OpenRefused, ModuleHangs, Classified, file,
      memory, watchdog, history
<1>10. CASE InitReturns
  BY <1>10 DEF InitReturns, file, watchdog, history, CandidatesAreClear,
      LoadWindow
<1>11. CASE Disarm
  BY <1>11 DEF Disarm, file, memory, history
<1>12. CASE ModuleAborts
  BY <1>12 DEF ModuleAborts, ModuleEnds, ProcessEnds, file,
      CandidatesAreClear, LoadWindow
<1>13. CASE LoopEnds \/ PostLoad \/ PostLoadHangs
  BY <1>13 DEF LoopEnds, PostLoad, PostLoadHangs, file, memory, watchdog, history
<1>14. CASE FinalRecord
  BY <1>14 DEF FinalRecord, WriteRecord, WriteFails, file, memory, watchdog,
      history
<1>15. ASSUME NEW m \in Modules, PostLoadAborts(m) PROVE TypeOK'
  BY <1>15 DEF PostLoadAborts, ProcessEnds, file
<1>16. CASE DeadlinePasses
  BY <1>16 DEF DeadlinePasses, file, memory, history
<1>17. CASE WatchdogExits
  BY <1>17 DEF WatchdogExits, WriteRecord, WriteFails, ModuleEnds,
      ProcessEnds, file, CandidatesAreClear, WatchdogCoversLoad, LoadWindow
<1>18. CASE ProbeFails \/ StartupFails \/ HostExits \/ Killed
  BY <1>18 DEF ProbeFails, StartupFails, HostExits, Killed, WriteFails,
      ProcessEnds, file, history
<1>19. CASE UNCHANGED vars
  BY <1>19 DEF vars, file, memory, watchdog, history
<1>20. QED
  BY <1>1, <1>2, <1>3, <1>4, <1>5, <1>6, <1>7, <1>8, <1>9, <1>10, <1>11,
      <1>12, <1>13, <1>14, <1>15, <1>16, <1>17, <1>18, <1>19
      DEF Next, MainStep, WatchdogStep

\* No write of a process says anything but what its launch resolved.
LEMMA MemoryStep ==
  ASSUME MemoryMatchesFile, [Next]_vars
  PROVE  MemoryMatchesFile'
<1> USE DEF MemoryMatchesFile, Resolved
<1>1. ASSUME NEW r \in SUBSET Modules, Launch(r) PROVE MemoryMatchesFile'
  BY <1>1 DEF Launch, file, watchdog, ResolvedSuspects, Promoted, Fresh
<1>2. CASE ProbeWritten
  BY <1>2 DEF ProbeWritten, WriteRecord, memory, watchdog
<1>3. ASSUME NEW found \in SUBSET Modules, RefuseSuspects(found) PROVE MemoryMatchesFile'
  BY <1>3 DEF RefuseSuspects, file, watchdog, history
<1>4. ASSUME NEW m \in Modules, SkipCandidate(m) PROVE MemoryMatchesFile'
  BY <1>4 DEF SkipCandidate, file, watchdog, history
<1>5. ASSUME NEW m \in Modules, BeginCandidate(m) PROVE MemoryMatchesFile'
  BY <1>5 DEF BeginCandidate, file, watchdog, history
<1>6. CASE RecordLoading
  BY <1>6 DEF RecordLoading, WriteRecord, memory, watchdog, history
<1>7. CASE RecordFails
  BY <1>7 DEF RecordFails, WriteFails, file, memory, watchdog, history
<1>8. CASE Arm
  BY <1>8 DEF Arm, file, memory, history
<1>9. CASE OpenSucceeds \/ OpenRefused \/ ModuleHangs \/ Classified
  BY <1>9 DEF OpenSucceeds, OpenRefused, ModuleHangs, Classified, file,
      memory, watchdog, history
<1>10. CASE InitReturns
  BY <1>10 DEF InitReturns, file, watchdog, history
<1>11. CASE Disarm
  BY <1>11 DEF Disarm, file, memory, history
<1>12. CASE ModuleAborts
  BY <1>12 DEF ModuleAborts, ModuleEnds, ProcessEnds, file
<1>13. CASE LoopEnds \/ PostLoad \/ PostLoadHangs
  BY <1>13 DEF LoopEnds, PostLoad, PostLoadHangs, file, memory, watchdog, history
<1>14. CASE FinalRecord
  BY <1>14 DEF FinalRecord, WriteRecord, WriteFails, file, memory, watchdog,
      history
<1>15. ASSUME NEW m \in Modules, PostLoadAborts(m) PROVE MemoryMatchesFile'
  BY <1>15 DEF PostLoadAborts, ProcessEnds, file
<1>16. CASE DeadlinePasses
  BY <1>16 DEF DeadlinePasses, file, memory, history, ResolvedSuspects,
      Promoted, Fresh
<1>17. CASE WatchdogExits
  BY <1>17 DEF WatchdogExits, WriteRecord, WriteFails, ModuleEnds,
      ProcessEnds, file
<1>18. CASE ProbeFails \/ StartupFails \/ HostExits \/ Killed
  BY <1>18 DEF ProbeFails, StartupFails, HostExits, Killed, WriteFails,
      ProcessEnds, file, history
<1>19. CASE UNCHANGED vars
  BY <1>19 DEF vars, file, memory, watchdog, history, ResolvedSuspects,
      Promoted, Fresh
<1>20. QED
  BY <1>1, <1>2, <1>3, <1>4, <1>5, <1>6, <1>7, <1>8, <1>9, <1>10, <1>11,
      <1>12, <1>13, <1>14, <1>15, <1>16, <1>17, <1>18, <1>19
      DEF Next, MainStep, WatchdogStep

\* The watchdog is armed only around the open and the init of cur.
LEMMA CoverStep ==
  ASSUME WatchdogCoversLoad, [Next]_vars
  PROVE  WatchdogCoversLoad'
<1> USE DEF WatchdogCoversLoad
<1>1. ASSUME NEW r \in SUBSET Modules, Launch(r) PROVE WatchdogCoversLoad'
  BY <1>1 DEF Launch, file, watchdog
<1>2. CASE ProbeWritten
  BY <1>2 DEF ProbeWritten, WriteRecord, memory, watchdog
<1>3. ASSUME NEW found \in SUBSET Modules, RefuseSuspects(found) PROVE WatchdogCoversLoad'
  BY <1>3 DEF RefuseSuspects, file, watchdog, history
<1>4. ASSUME NEW m \in Modules, SkipCandidate(m) PROVE WatchdogCoversLoad'
  BY <1>4 DEF SkipCandidate, file, watchdog, history
<1>5. ASSUME NEW m \in Modules, BeginCandidate(m) PROVE WatchdogCoversLoad'
  BY <1>5 DEF BeginCandidate, file, watchdog, history
<1>6. CASE RecordLoading
  BY <1>6 DEF RecordLoading, WriteRecord, memory, watchdog, history
<1>7. CASE RecordFails
  BY <1>7 DEF RecordFails, WriteFails, file, memory, watchdog, history
<1>8. CASE Arm
  BY <1>8 DEF Arm, file, memory, history
<1>9. CASE OpenSucceeds \/ OpenRefused \/ ModuleHangs \/ Classified
  BY <1>9 DEF OpenSucceeds, OpenRefused, ModuleHangs, Classified, file,
      memory, watchdog, history
<1>10. CASE InitReturns
  BY <1>10 DEF InitReturns, file, watchdog, history
<1>11. CASE Disarm
  BY <1>11 DEF Disarm, file, memory, history
<1>12. CASE ModuleAborts
  BY <1>12 DEF ModuleAborts, ModuleEnds, ProcessEnds, file
<1>13. CASE LoopEnds \/ PostLoad \/ PostLoadHangs
  BY <1>13 DEF LoopEnds, PostLoad, PostLoadHangs, file, memory, watchdog, history
<1>14. CASE FinalRecord
  BY <1>14 DEF FinalRecord, WriteRecord, WriteFails, file, memory, watchdog,
      history
<1>15. ASSUME NEW m \in Modules, PostLoadAborts(m) PROVE WatchdogCoversLoad'
  BY <1>15 DEF PostLoadAborts, ProcessEnds, file
<1>16. CASE DeadlinePasses
  BY <1>16 DEF DeadlinePasses, file, memory, history
<1>17. CASE WatchdogExits
  BY <1>17 DEF WatchdogExits, WriteRecord, WriteFails, ModuleEnds,
      ProcessEnds, file
<1>18. CASE ProbeFails \/ StartupFails \/ HostExits \/ Killed
  BY <1>18 DEF ProbeFails, StartupFails, HostExits, Killed, WriteFails,
      ProcessEnds, file, history
<1>19. CASE UNCHANGED vars
  BY <1>19 DEF vars, file, memory, watchdog, history
<1>20. QED
  BY <1>1, <1>2, <1>3, <1>4, <1>5, <1>6, <1>7, <1>8, <1>9, <1>10, <1>11,
      <1>12, <1>13, <1>14, <1>15, <1>16, <1>17, <1>18, <1>19
      DEF Next, MainStep, WatchdogStep

\* A candidate that is still to be loaded was neither suspected nor tried.
LEMMA CandidatesStep ==
  ASSUME TypeOK, MemoryMatchesFile, CandidatesAreClear, WatchdogCoversLoad,
      [Next]_vars
  PROVE  CandidatesAreClear'
<1> USE DEF TypeOK, MemoryMatchesFile, CandidatesAreClear, WatchdogCoversLoad,
      Resolved, LoadWindow
<1>1. ASSUME NEW r \in SUBSET Modules, Launch(r) PROVE CandidatesAreClear'
  BY <1>1 DEF Launch, file, watchdog
<1>2. CASE ProbeWritten
  BY <1>2 DEF ProbeWritten, WriteRecord, memory, watchdog
<1>3. ASSUME NEW found \in SUBSET Modules, RefuseSuspects(found) PROVE CandidatesAreClear'
  BY <1>3 DEF RefuseSuspects, file, watchdog, history
<1>4. ASSUME NEW m \in Modules, SkipCandidate(m) PROVE CandidatesAreClear'
  BY <1>4 DEF SkipCandidate, file, watchdog, history
<1>5. ASSUME NEW m \in Modules, BeginCandidate(m) PROVE CandidatesAreClear'
  BY <1>5 DEF BeginCandidate, file, watchdog, history
<1>6. CASE RecordLoading
  BY <1>6 DEF RecordLoading, WriteRecord, memory, watchdog, history
<1>7. CASE RecordFails
  BY <1>7 DEF RecordFails, WriteFails, file, memory, watchdog, history
<1>8. CASE Arm
  BY <1>8 DEF Arm, file, memory, history
<1>9. CASE OpenSucceeds \/ OpenRefused \/ ModuleHangs \/ Classified
  BY <1>9 DEF OpenSucceeds, OpenRefused, ModuleHangs, Classified, file,
      memory, watchdog, history
<1>10. CASE InitReturns
  BY <1>10 DEF InitReturns, file, watchdog, history
<1>11. CASE Disarm
  BY <1>11 DEF Disarm, file, memory, history
<1>12. CASE ModuleAborts
  BY <1>12 DEF ModuleAborts, ModuleEnds, ProcessEnds, file
<1>13. CASE LoopEnds \/ PostLoad \/ PostLoadHangs
  BY <1>13 DEF LoopEnds, PostLoad, PostLoadHangs, file, memory, watchdog, history
<1>14. CASE FinalRecord
  BY <1>14 DEF FinalRecord, WriteRecord, WriteFails, file, memory, watchdog,
      history
<1>15. ASSUME NEW m \in Modules, PostLoadAborts(m) PROVE CandidatesAreClear'
  BY <1>15 DEF PostLoadAborts, ProcessEnds, file
<1>16. CASE DeadlinePasses
  BY <1>16 DEF DeadlinePasses, file, memory, history
<1>17. CASE WatchdogExits
  BY <1>17 DEF WatchdogExits, WriteRecord, WriteFails, ModuleEnds,
      ProcessEnds, file
<1>18. CASE ProbeFails \/ StartupFails \/ HostExits \/ Killed
  BY <1>18 DEF ProbeFails, StartupFails, HostExits, Killed, WriteFails,
      ProcessEnds, file, history
<1>19. CASE UNCHANGED vars
  BY <1>19 DEF vars, file, memory, watchdog, history
<1>20. QED
  BY <1>1, <1>2, <1>3, <1>4, <1>5, <1>6, <1>7, <1>8, <1>9, <1>10, <1>11,
      <1>12, <1>13, <1>14, <1>15, <1>16, <1>17, <1>18, <1>19
      DEF Next, MainStep, WatchdogStep

\* The loading record is written before the load and outlives it.
LEMMA RecordStep ==
  ASSUME MemoryMatchesFile, CandidatesAreClear, OpenRecordNamesClear,
      NoUnattributedLoad, WatchdogCoversLoad, [Next]_vars
  PROVE  (OpenRecordNamesClear /\ NoUnattributedLoad)'
<1> USE DEF MemoryMatchesFile, CandidatesAreClear, OpenRecordNamesClear,
      NoUnattributedLoad, WatchdogCoversLoad, Resolved, LoadWindow
<1>1. ASSUME NEW r \in SUBSET Modules, Launch(r) PROVE (OpenRecordNamesClear /\ NoUnattributedLoad)'
  BY <1>1 DEF Launch, file, watchdog
<1>2. CASE ProbeWritten
  BY <1>2 DEF ProbeWritten, WriteRecord, memory, watchdog
<1>3. ASSUME NEW found \in SUBSET Modules, RefuseSuspects(found) PROVE (OpenRecordNamesClear /\ NoUnattributedLoad)'
  BY <1>3 DEF RefuseSuspects, file, watchdog, history
<1>4. ASSUME NEW m \in Modules, SkipCandidate(m) PROVE (OpenRecordNamesClear /\ NoUnattributedLoad)'
  BY <1>4 DEF SkipCandidate, file, watchdog, history
<1>5. ASSUME NEW m \in Modules, BeginCandidate(m) PROVE (OpenRecordNamesClear /\ NoUnattributedLoad)'
  BY <1>5 DEF BeginCandidate, file, watchdog, history
<1>6. CASE RecordLoading
  BY <1>6 DEF RecordLoading, WriteRecord, memory, watchdog, history
<1>7. CASE RecordFails
  BY <1>7 DEF RecordFails, WriteFails, file, memory, watchdog, history
<1>8. CASE Arm
  BY <1>8 DEF Arm, file, memory, history
<1>9. CASE OpenSucceeds \/ OpenRefused \/ ModuleHangs \/ Classified
  BY <1>9 DEF OpenSucceeds, OpenRefused, ModuleHangs, Classified, file,
      memory, watchdog, history
<1>10. CASE InitReturns
  BY <1>10 DEF InitReturns, file, watchdog, history
<1>11. CASE Disarm
  BY <1>11 DEF Disarm, file, memory, history
<1>12. CASE ModuleAborts
  BY <1>12 DEF ModuleAborts, ModuleEnds, ProcessEnds, file
<1>13. CASE LoopEnds \/ PostLoad \/ PostLoadHangs
  BY <1>13 DEF LoopEnds, PostLoad, PostLoadHangs, file, memory, watchdog, history
<1>14. CASE FinalRecord
  BY <1>14 DEF FinalRecord, WriteRecord, WriteFails, file, memory, watchdog,
      history
<1>15. ASSUME NEW m \in Modules, PostLoadAborts(m) PROVE (OpenRecordNamesClear /\ NoUnattributedLoad)'
  BY <1>15 DEF PostLoadAborts, ProcessEnds, file
<1>16. CASE DeadlinePasses
  BY <1>16 DEF DeadlinePasses, file, memory, history
<1>17. CASE WatchdogExits
  BY <1>17 DEF WatchdogExits, WriteRecord, WriteFails, ModuleEnds,
      ProcessEnds, file
<1>18. CASE ProbeFails \/ StartupFails \/ HostExits \/ Killed
  BY <1>18 DEF ProbeFails, StartupFails, HostExits, Killed, WriteFails,
      ProcessEnds, file, history
<1>19. CASE UNCHANGED vars
  BY <1>19 DEF vars, file, memory, watchdog, history
<1>20. QED
  BY <1>1, <1>2, <1>3, <1>4, <1>5, <1>6, <1>7, <1>8, <1>9, <1>10, <1>11,
      <1>12, <1>13, <1>14, <1>15, <1>16, <1>17, <1>18, <1>19
      DEF Next, MainStep, WatchdogStep

\* A module that ends the process is then owed for by the record that names it,
\* and a debt is only cleared by a grant.
LEMMA CrashesStep ==
  ASSUME IInv, [Next]_vars
  PROVE  CrashesPaidFor'
<1> USE DEF IInv, TypeOK, CrashesPaidFor, Owing, HeldResponsible, Promoted,
      Resolved
<1>1. ASSUME NEW r \in SUBSET Modules, Launch(r) PROVE CrashesPaidFor'
  BY <1>1 DEF Launch, file, watchdog
<1>2. CASE ProbeWritten
  BY <1>2 DEF ProbeWritten, WriteRecord, memory, watchdog, MemoryMatchesFile,
      ResolvedSuspects, Fresh
<1>3. ASSUME NEW found \in SUBSET Modules, RefuseSuspects(found) PROVE CrashesPaidFor'
  BY <1>3 DEF RefuseSuspects, file, watchdog, history
<1>4. ASSUME NEW m \in Modules, SkipCandidate(m) PROVE CrashesPaidFor'
  BY <1>4 DEF SkipCandidate, file, watchdog, history
<1>5. ASSUME NEW m \in Modules, BeginCandidate(m) PROVE CrashesPaidFor'
  BY <1>5 DEF BeginCandidate, file, watchdog, history
<1>6. CASE RecordLoading
  BY <1>6 DEF RecordLoading, WriteRecord, memory, watchdog, history,
      MemoryMatchesFile
<1>7. CASE RecordFails
  BY <1>7 DEF RecordFails, WriteFails, file, memory, watchdog, history
<1>8. CASE Arm
  BY <1>8 DEF Arm, file, memory, history
<1>9. CASE OpenSucceeds \/ OpenRefused \/ ModuleHangs \/ Classified
  BY <1>9 DEF OpenSucceeds, OpenRefused, ModuleHangs, Classified, file,
      memory, watchdog, history
<1>10. CASE InitReturns
  BY <1>10 DEF InitReturns, file, watchdog, history
<1>11. CASE Disarm
  BY <1>11 DEF Disarm, file, memory, history
<1>12. CASE ModuleAborts
  BY <1>12 DEF ModuleAborts, ModuleEnds, ProcessEnds, file,
      NoUnattributedLoad, LoadWindow
<1>13. CASE LoopEnds \/ PostLoad \/ PostLoadHangs
  BY <1>13 DEF LoopEnds, PostLoad, PostLoadHangs, file, memory, watchdog, history
<1>14. CASE FinalRecord
  BY <1>14 DEF FinalRecord, WriteRecord, WriteFails, file, memory, watchdog,
      history, MemoryMatchesFile
<1>15. ASSUME NEW m \in Modules, PostLoadAborts(m) PROVE CrashesPaidFor'
  BY <1>15 DEF PostLoadAborts, ProcessEnds, file
<1>16. CASE DeadlinePasses
  BY <1>16 DEF DeadlinePasses, file, memory, history
<1>17. CASE WatchdogExits
  BY <1>17 DEF WatchdogExits, WriteRecord, WriteFails, ModuleEnds,
      ProcessEnds, file, MemoryMatchesFile, WatchdogCoversLoad,
      NoUnattributedLoad, LoadWindow
<1>18. CASE ProbeFails \/ StartupFails \/ HostExits \/ Killed
  BY <1>18 DEF ProbeFails, StartupFails, HostExits, Killed, WriteFails,
      ProcessEnds, file, history
<1>19. CASE UNCHANGED vars
  BY <1>19 DEF vars, file, memory, watchdog, history
<1>20. QED
  BY <1>1, <1>2, <1>3, <1>4, <1>5, <1>6, <1>7, <1>8, <1>9, <1>10, <1>11,
      <1>12, <1>13, <1>14, <1>15, <1>16, <1>17, <1>18, <1>19
      DEF Next, MainStep, WatchdogStep

\* The record that names the module that ended the process stays.
LEMMA CulpritStep ==
  ASSUME IInv, [Next]_vars
  PROVE  CulpritHeld'
<1> USE DEF IInv, TypeOK, CulpritHeld, Attribution, HeldResponsible, Promoted,
      Resolved
<1>1. ASSUME NEW r \in SUBSET Modules, Launch(r) PROVE CulpritHeld'
  BY <1>1 DEF Launch, file, watchdog
<1>2. CASE ProbeWritten
  BY <1>2 DEF ProbeWritten, WriteRecord, memory, watchdog
<1>3. ASSUME NEW found \in SUBSET Modules, RefuseSuspects(found) PROVE CulpritHeld'
  BY <1>3 DEF RefuseSuspects, file, watchdog, history
<1>4. ASSUME NEW m \in Modules, SkipCandidate(m) PROVE CulpritHeld'
  BY <1>4 DEF SkipCandidate, file, watchdog, history
<1>5. ASSUME NEW m \in Modules, BeginCandidate(m) PROVE CulpritHeld'
  BY <1>5 DEF BeginCandidate, file, watchdog, history
<1>6. CASE RecordLoading
  BY <1>6 DEF RecordLoading, WriteRecord, memory, watchdog, history
<1>7. CASE RecordFails
  BY <1>7 DEF RecordFails, WriteFails, file, memory, watchdog, history
<1>8. CASE Arm
  BY <1>8 DEF Arm, file, memory, history
<1>9. CASE OpenSucceeds \/ OpenRefused \/ ModuleHangs \/ Classified
  BY <1>9 DEF OpenSucceeds, OpenRefused, ModuleHangs, Classified, file,
      memory, watchdog, history
<1>10. CASE InitReturns
  BY <1>10 DEF InitReturns, file, watchdog, history
<1>11. CASE Disarm
  BY <1>11 DEF Disarm, file, memory, history
<1>12. CASE ModuleAborts
  BY <1>12 DEF ModuleAborts, ModuleEnds, ProcessEnds, file,
      NoUnattributedLoad, LoadWindow
<1>13. CASE LoopEnds \/ PostLoad \/ PostLoadHangs
  BY <1>13 DEF LoopEnds, PostLoad, PostLoadHangs, file, memory, watchdog, history
<1>14. CASE FinalRecord
  BY <1>14 DEF FinalRecord, WriteRecord, WriteFails, file, memory, watchdog,
      history
<1>15. ASSUME NEW m \in Modules, PostLoadAborts(m) PROVE CulpritHeld'
  BY <1>15 DEF PostLoadAborts, ProcessEnds, file
<1>16. CASE DeadlinePasses
  BY <1>16 DEF DeadlinePasses, file, memory, history
<1>17. CASE WatchdogExits
  BY <1>17 DEF WatchdogExits, WriteRecord, WriteFails, ModuleEnds,
      ProcessEnds, file, MemoryMatchesFile, WatchdogCoversLoad,
      NoUnattributedLoad, LoadWindow
<1>18. CASE ProbeFails \/ StartupFails \/ HostExits \/ Killed
  BY <1>18 DEF ProbeFails, StartupFails, HostExits, Killed, WriteFails,
      ProcessEnds, file, history
<1>19. CASE UNCHANGED vars
  BY <1>19 DEF vars, file, memory, watchdog, history
<1>20. QED
  BY <1>1, <1>2, <1>3, <1>4, <1>5, <1>6, <1>7, <1>8, <1>9, <1>10, <1>11,
      <1>12, <1>13, <1>14, <1>15, <1>16, <1>17, <1>18, <1>19
      DEF Next, MainStep, WatchdogStep

\* IInv is an inductive invariant.
THEOREM InductiveInvariant == Spec => []IInv
<1>1. Init => IInv
  BY NoneAssumption
  DEF Init, IInv, TypeOK, MemoryMatchesFile, CandidatesAreClear, OpenRecordNamesClear,
      NoUnattributedLoad, WatchdogCoversLoad, CrashesPaidFor, CulpritHeld, Attribution,
      Owing, HeldResponsible, Promoted, Resolved, LoadWindow, Kinds, Phases, Points
<1>2. IInv /\ [Next]_vars => IInv'
  BY TypeStep, MemoryStep, CoverStep, CandidatesStep, RecordStep, CrashesStep, CulpritStep
  DEF IInv
<1>3. QED
  BY <1>1, <1>2, PTL DEF Spec

\* The file, the memory of the process and the history have their types.
THEOREM TypeCorrect == Spec => []TypeOK
<1>1. IInv => TypeOK
  BY DEF IInv
<1>2. QED
  BY <1>1, InductiveInvariant, PTL

\* No module ends the host from its load more often than once, plus once per
\* fresh retry.
THEOREM CrashesAreBounded == Spec => []CrashesBounded
<1>1. IInv => CrashesBounded
  <2>1. SUFFICES ASSUME IInv, NEW m \in Modules PROVE faults[m] <= 1 + grants[m]
    BY DEF CrashesBounded
  <2>2. faults[m] \in Nat /\ grants[m] \in Nat
    BY <2>1 DEF IInv, TypeOK
  <2>3. faults[m] <= grants[m] + (IF Owing(m) THEN 1 ELSE 0)
    BY <2>1 DEF IInv, CrashesPaidFor
  <2>4. QED
    BY <2>2, <2>3
<1>2. QED
  BY <1>1, InductiveInvariant, PTL

\* The module that ended the last process is held responsible by the file.
THEOREM EveryEndIsAttributed == Spec => []Attribution
<1>1. IInv => Attribution
  BY DEF IInv, CulpritHeld
<1>2. QED
  BY <1>1, InductiveInvariant, PTL

\* A module runs only under the durable record that names it.
THEOREM LoadsAreAttributed == Spec => []NoUnattributedLoad
<1>1. IInv => NoUnattributedLoad
  BY DEF IInv
<1>2. QED
  BY <1>1, InductiveInvariant, PTL

\* The two threads never write the file at the same time.
THEOREM WritersExclude == Spec => []WatchdogExclusive
<1>1. IInv => WatchdogExclusive
  BY DEF IInv, WatchdogCoversLoad, WatchdogExclusive, MainWriting, LoadWindow
<1>2. QED
  BY <1>1, InductiveInvariant, PTL

\* A suspicion leaves the map by a fresh retry only, and a spent retry is usable
\* again only after a boot whose manifest does not list it.
THEOREM SuspicionsAreDurable == Spec => SuspicionIsDurable
<1>1. ASSUME IInv, [Next]_vars PROVE [DurableStep]_vars
  <2> USE <1>1
  <2>1. CASE UNCHANGED file
    BY <2>1 DEF DurableStep, file
  <2>2. CASE ProbeWritten
    BY <2>2 DEF IInv, TypeOK, MemoryMatchesFile, ProbeWritten, WriteRecord, DurableStep,
       ResolvedSuspects, Promoted, OpenRecordNamesClear, Fresh, Kinds
  <2>3. CASE RecordLoading \/ FinalRecord
    <3>1. mSuspects = suspects /\ mConsumed = consumed
      BY <2>3 DEF IInv, MemoryMatchesFile, Resolved, RecordLoading, FinalRecord
    <3>2. suspects' = suspects /\ consumed' = consumed
      BY <2>3, <3>1 DEF RecordLoading, FinalRecord, WriteRecord, WriteFails, file
    <3>3. QED
      BY <3>2 DEF DurableStep
  <2>4. CASE WatchdogExits
    <3>1. mSuspects = suspects /\ mConsumed = consumed
      BY <2>4 DEF IInv, MemoryMatchesFile, WatchdogCoversLoad, Resolved, WatchdogExits
    <3>2. suspects' = suspects /\ consumed' = consumed
      BY <2>4, <3>1 DEF WatchdogExits, WriteRecord, WriteFails, file
    <3>3. QED
      BY <3>2 DEF DurableStep
  <2>5. QED
    BY <2>1, <2>2, <2>3, <2>4
    DEF Next, MainStep, WatchdogStep, vars, Launch, ProbeFails, WriteFails, StartupFails,
        RefuseSuspects, SkipCandidate, BeginCandidate, RecordFails, Arm, OpenSucceeds,
        OpenRefused, InitReturns, Disarm, Classified, ModuleAborts, ModuleHangs, LoopEnds,
        PostLoad, PostLoadHangs, PostLoadAborts, DeadlinePasses, HostExits, Killed
<1>2. QED
  BY <1>1, InductiveInvariant, PTL DEF Spec, SuspicionIsDurable

\* Without outside kills, and with a final record that is always written, an
\* open record outlives the process only when its module ended it.
LEMMA InnocentStep ==
  ASSUME "kill" \notin EnvFaults, "idle" \notin EnvFaults, IInv,
      InnocentAreClear, [Next]_vars
  PROVE  InnocentAreClear'
<1> USE DEF IInv, TypeOK, InnocentAreClear, OnlyCulpritsSuspected,
      OpenRecordNamesClear
<1>1. ASSUME NEW r \in SUBSET Modules, Launch(r) PROVE InnocentAreClear'
  BY <1>1 DEF Launch, file, watchdog
<1>2. CASE ProbeWritten
  BY <1>2 DEF ProbeWritten, WriteRecord, memory, watchdog, MemoryMatchesFile,
      ResolvedSuspects, Promoted, Fresh
<1>3. ASSUME NEW found \in SUBSET Modules, RefuseSuspects(found) PROVE InnocentAreClear'
  BY <1>3 DEF RefuseSuspects, file, watchdog, history
<1>4. ASSUME NEW m \in Modules, SkipCandidate(m) PROVE InnocentAreClear'
  BY <1>4 DEF SkipCandidate, file, watchdog, history
<1>5. ASSUME NEW m \in Modules, BeginCandidate(m) PROVE InnocentAreClear'
  BY <1>5 DEF BeginCandidate, file, watchdog, history
<1>6. CASE RecordLoading
  BY <1>6 DEF RecordLoading, WriteRecord, memory, watchdog, history,
      MemoryMatchesFile, Resolved
<1>7. CASE RecordFails
  BY <1>7 DEF RecordFails, WriteFails, file, memory, watchdog, history
<1>8. CASE Arm
  BY <1>8 DEF Arm, file, memory, history
<1>9. CASE OpenSucceeds \/ OpenRefused \/ ModuleHangs \/ Classified
  BY <1>9 DEF OpenSucceeds, OpenRefused, ModuleHangs, Classified, file,
      memory, watchdog, history
<1>10. CASE InitReturns
  BY <1>10 DEF InitReturns, file, watchdog, history
<1>11. CASE Disarm
  BY <1>11 DEF Disarm, file, memory, history
<1>12. CASE ModuleAborts
  BY <1>12 DEF ModuleAborts, ModuleEnds, ProcessEnds, file,
      NoUnattributedLoad, LoadWindow
<1>13. CASE LoopEnds \/ PostLoad \/ PostLoadHangs
  BY <1>13 DEF LoopEnds, PostLoad, PostLoadHangs, file, memory, watchdog, history
<1>14. CASE FinalRecord
  BY <1>14 DEF FinalRecord, WriteRecord, WriteFails, file, memory, watchdog,
      history, MemoryMatchesFile, Resolved
<1>15. ASSUME NEW m \in Modules, PostLoadAborts(m) PROVE InnocentAreClear'
  BY <1>15 DEF PostLoadAborts, ProcessEnds, file
<1>16. CASE DeadlinePasses
  BY <1>16 DEF DeadlinePasses, file, memory, history
<1>17. CASE WatchdogExits
  BY <1>17 DEF WatchdogExits, WriteRecord, WriteFails, ModuleEnds,
      ProcessEnds, file, MemoryMatchesFile, Resolved, WatchdogCoversLoad,
      NoUnattributedLoad, LoadWindow
<1>18. CASE ProbeFails \/ StartupFails \/ HostExits \/ Killed
  BY <1>18 DEF ProbeFails, StartupFails, HostExits, Killed, WriteFails,
      ProcessEnds, file, history, CandidatesAreClear
<1>19. CASE UNCHANGED vars
  BY <1>19 DEF vars, file, memory, watchdog, history
<1>20. QED
  BY <1>1, <1>2, <1>3, <1>4, <1>5, <1>6, <1>7, <1>8, <1>9, <1>10, <1>11,
      <1>12, <1>13, <1>14, <1>15, <1>16, <1>17, <1>18, <1>19
      DEF Next, MainStep, WatchdogStep

\* Where nothing kills the process from outside and the final record can be
\* written, only a module that ended a process is ever suspected.
THEOREM InnocentModulesStayTrusted ==
  ASSUME "kill" \notin EnvFaults, "idle" \notin EnvFaults
  PROVE  Spec => []OnlyCulpritsSuspected
<1>1. Init => InnocentAreClear
  BY DEF Init, InnocentAreClear, OnlyCulpritsSuspected
<1>2. IInv /\ InnocentAreClear /\ [Next]_vars => InnocentAreClear'
  BY InnocentStep
<1>3. InnocentAreClear => OnlyCulpritsSuspected
  BY DEF InnocentAreClear
<1>4. QED
  BY <1>1, <1>2, <1>3, InductiveInvariant, PTL DEF Spec

-----------------------------------------------------------------------------
\* Every step of the boot is a step of LoadContainment, or leaves what it sees
\* unchanged.
LEMMA RefinementStep ==
  ASSUME IInv, [Next]_vars
  PROVE  [Containment!Next]_(Containment!vars)
<1> USE DEF Containment!vars, TrialStatus, Resolved
<1>1. ASSUME UNCHANGED <<file, faults, grants>>, Resolved' = Resolved
      PROVE  UNCHANGED Containment!vars
  BY <1>1 DEF file
<1>2. ASSUME UNCHANGED <<file, faults, grants>>, Resolved, ~Resolved'
      PROVE  Containment!Stop
  BY <1>2 DEF file, Containment!Stop
<1>3. CASE ProbeWritten
  <2>1. retry \in SUBSET Modules
    BY DEF IInv, TypeOK
  <2>2. Containment!Boot(retry)
    BY <1>3 DEF IInv, TypeOK, MemoryMatchesFile, OpenRecordNamesClear, ProbeWritten,
       WriteRecord, ResolvedSuspects, Promoted, Fresh, Kinds, Phases, Containment!Boot
  <2>3. \E r \in SUBSET Modules : Containment!Boot(r)
    BY <2>1, <2>2 DEF Containment!Boot
  <2>4. QED
    BY <2>3 DEF Containment!Next
<1>4. CASE RecordLoading
  <2>1. cur \in Modules /\ suspects[cur] = "clear" /\ (phase = "idle" \/ moduleRef # cur)
    BY <1>4 DEF IInv, CandidatesAreClear, RecordLoading
  <2>2. suspects' = suspects /\ consumed' = consumed /\ phase' = "loading" /\ moduleRef' = cur
    BY <1>4 DEF IInv, MemoryMatchesFile, RecordLoading, WriteRecord
  <2>3. Containment!Try(cur)
    BY <1>4, <2>1, <2>2 DEF RecordLoading, history, Containment!Try, Containment!Settled
  <2>4. \E m \in Modules : Containment!Try(m) \/ Containment!Crash(m)
    BY <2>1, <2>3 DEF Containment!Try
  <2>5. QED
    BY <2>4 DEF Containment!Next
<1>5. CASE FinalRecord
  <2>1. CASE WriteRecord("idle", None)
    <3>1. suspects' = suspects /\ consumed' = consumed /\ phase' = "idle"
      BY <1>5, <2>1 DEF IInv, MemoryMatchesFile, FinalRecord, WriteRecord
    <3>2. Containment!Settle
      BY <1>5, <3>1 DEF FinalRecord, history, Containment!Settle, Containment!Settled
    <3>3. QED
      BY <3>2 DEF Containment!Next
  <2>2. CASE WriteFails("idle")
    BY <1>1, <1>5, <2>2 DEF FinalRecord, WriteFails, history
  <2>3. QED
    BY <1>5, <2>1, <2>2 DEF FinalRecord
<1>6. CASE ModuleAborts
  <2>1. cur \in Modules /\ TrialStatus[cur] = "trial"
    BY <1>6 DEF IInv, CandidatesAreClear, NoUnattributedLoad, LoadWindow, ModuleAborts
  <2>2. Containment!Crash(cur)
    BY <1>6, <2>1 DEF ModuleAborts, ModuleEnds, ProcessEnds, file, Containment!Crash
  <2>3. QED
    BY <2>1, <2>2 DEF Containment!Next
<1>7. CASE WatchdogExits
  <2>1. /\ dogRef \in Modules /\ TrialStatus[dogRef] = "trial"
        /\ moduleRef = dogRef /\ phase # "idle"
        /\ mSuspects = suspects /\ mConsumed = consumed /\ Resolved
    BY <1>7 DEF IInv, MemoryMatchesFile, CandidatesAreClear, NoUnattributedLoad,
       WatchdogCoversLoad, LoadWindow, WatchdogExits
  <2>2. /\ suspects' = suspects /\ consumed' = consumed
        /\ moduleRef' = moduleRef /\ phase' # "idle"
    BY <1>7, <2>1 DEF WatchdogExits, WriteRecord, WriteFails, file
  <2>3. Containment!Crash(dogRef)
    BY <1>7, <2>1, <2>2 DEF WatchdogExits, ModuleEnds, ProcessEnds, Containment!Crash
  <2>4. QED
    BY <2>1, <2>3 DEF Containment!Next
<1>8. CASE StartupFails \/ HostExits \/ (\E m \in Modules : PostLoadAborts(m))
  BY <1>2, <1>8 DEF StartupFails, HostExits, PostLoadAborts, ProcessEnds, history,
     Containment!Next
<1>9. CASE ProbeFails \/ Killed
  BY <1>1, <1>2, <1>9 DEF ProbeFails, Killed, WriteFails, ProcessEnds, history,
     Containment!Next
<1>10. CASE \/ \E r \in SUBSET Modules : Launch(r)
            \/ \E found \in SUBSET Modules : RefuseSuspects(found)
            \/ \E m \in Modules : SkipCandidate(m) \/ BeginCandidate(m)
  BY <1>1, <1>10 DEF Launch, RefuseSuspects, SkipCandidate, BeginCandidate, history
<1>11. CASE \/ RecordFails \/ Arm \/ OpenSucceeds \/ OpenRefused \/ InitReturns \/ Disarm
            \/ Classified \/ ModuleHangs \/ LoopEnds \/ PostLoad \/ PostLoadHangs
  BY <1>1, <1>11 DEF RecordFails, WriteFails, Arm, OpenSucceeds, OpenRefused, InitReturns,
     Disarm, Classified, ModuleHangs, LoopEnds, PostLoad, PostLoadHangs, history
<1>12. CASE DeadlinePasses \/ UNCHANGED vars
  BY <1>1, <1>12 DEF DeadlinePasses, vars, history
<1>13. QED
  BY <1>3, <1>4, <1>5, <1>6, <1>7, <1>8, <1>9, <1>10, <1>11, <1>12
  DEF Next, MainStep, WatchdogStep

\* The boot implements the abstract containment: at most one module is on trial,
\* only that one can end the host, and a lost trial is a suspicion.
THEOREM ContainmentImplemented == Spec => ImplementsContainment
<1>1. Init => Containment!Init
  BY DEF Init, Containment!Init, TrialStatus, Resolved
<1>2. IInv /\ [Next]_vars => [Containment!Next]_(Containment!vars)
  BY RefinementStep
<1>3. QED
  BY <1>1, <1>2, InductiveInvariant, PTL
  DEF Spec, ImplementsContainment, Containment!Spec

=============================================================================
