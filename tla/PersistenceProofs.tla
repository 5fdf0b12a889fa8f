------------------------- MODULE PersistenceProofs -------------------------
(***************************************************************************)
(* Setup and teardown on disk, for every set of devices and any number of  *)
(* failures, kills and edits: what their ends promise, and that they are   *)
(* the commands of Transaction.                                            *)
(*                                                                         *)
(* PersistenceInv is inductive.  Stages says what holds at each stage of a *)
(* command, Files how the files differ from those it found, Planned what   *)
(* is still to be done to them, and Reload what WirePlumber has of them.   *)
(***************************************************************************)
EXTENDS Persistence, TLAPS

Obsolete == Rules(previous) \ Rules(desired)

\* What each stage of a command has behind it.
Stages ==
    /\ op = "none" => pc = "idle" /\ result = "none"
    /\ op = "setup" => desired \in Device /\ ~failures
    /\ op = "teardown" => desired = None /\ previous # None
    /\ op # "none" => before.config = previous
    /\ pc \in {"idle", "stop", "plan"} =>
          removals = {} /\ creations = {} /\ removed = {} /\ created = {} /\ why = "none"
    /\ pc \in {"stop", "plan", "apply", "save"} => ~late
    /\ pc # "idle" /\ (op = "setup" => ~late) => config = previous
    /\ pc \in {"undo", "reload"} => why # "none"
    /\ pc = "reload" => why # "change" /\ removed = {} /\ created = {}
    /\ why = "save" => op = "setup"
    /\ pc = "erase" => ~failures /\ (forget => previous \notin bonds)
    /\ pc \notin {"idle", "stop"} /\ op = "teardown" /\ ~failures /\ ~raced => unit = "stopped"

\* The rule files that setup and teardown are to leave.
Settled ==
    /\ \A p \in Rules(desired) : disk[p] = "ours"
    /\ \A p \in Obsolete : disk[p] = "absent"
    /\ \A p \in Path \ Involved : disk[p] = before.disk[p]

\* Without an edit, the files are those found, but for what the change says.
Files ==
    ~raced =>
        /\ pc \in {"stop", "plan"} => disk = before.disk
        /\ pc \in {"apply", "save", "undo", "reload"} =>
              /\ \A p \in removed : disk[p] = "absent" /\ before.disk[p] = "ours"
              /\ \A p \in created : disk[p] = "ours" /\ before.disk[p] = "absent"
              /\ ~late \/ pc = "save" =>
                    \A p \in Path \ (removed \cup created) : disk[p] = before.disk[p]
        /\ pc = "save" \/ (pc \in {"bond", "erase"} /\ ~failures) => Settled

\* What a change has done and has still to do.
Planned ==
    /\ removed \subseteq Obsolete /\ created \subseteq Rules(desired)
    /\ pc = "apply" =>
          /\ removals \subseteq Obsolete /\ creations \subseteq Rules(desired)
          /\ \A p \in fresh \cap removals : disk[p] = "ours"
          /\ \A p \in fresh \cap creations : disk[p] = "absent"
          /\ ~raced \/ ~torn => fresh = Involved
          /\ ~raced => /\ \A p \in Obsolete \ removals : disk[p] = "absent"
                       /\ \A p \in Rules(desired) \ creations : disk[p] = "ours"

\* WirePlumber has the rules on disk, or those a change is about to leave or undo.
Loaded ==
    ~torn =>
        /\ pc \notin {"apply", "undo", "reload"} => loaded = Ours
        /\ pc = "apply" \/ (pc = "undo" /\ why = "change") =>
              loaded = (Ours \ created) \cup removed
        /\ ~(pc = "undo" /\ why = "restart")

\* A command that meets no failure, no edit and no foreign rule goes straight on.
Undisturbed ==
    ~troubled /\ ~raced /\ (\A p \in Involved : before.disk[p] # "foreign") =>
        pc \notin {"undo", "reload"} /\ ~failures

PersistenceInv ==
    TypeOK /\ Stages /\ Files /\ Planned /\ Loaded /\ Undisturbed /\ AllOrNothing /\ RetrySucceeds

-----------------------------------------------------------------------------
(* Types *)

\* TypeOK part by part.
FileType ==
    /\ disk \in [Path -> {"absent", "ours", "foreign"}]
    /\ loaded \subseteq Path
    /\ before \in [disk : [Path -> {"absent", "ours", "foreign"}], config : Device \cup {None}]

DeviceType ==
    /\ config \in Device \cup {None} /\ bonds \subseteq Device
    /\ previous \in Device \cup {None} /\ desired \in Device \cup {None}

StageType ==
    /\ unit \in {"running", "stopped"}
    /\ pc \in {"idle", "stop", "plan", "apply", "undo", "reload", "save", "bond", "erase"}
    /\ op \in {"none", "setup", "teardown"}
    /\ op = "setup" => pc \notin {"stop", "bond", "erase"}
    /\ op = "teardown" => pc # "save"
    /\ why \in {"none", "change", "restart", "save"}

ChangeType ==
    /\ removals \subseteq Path /\ creations \subseteq Path
    /\ removed \subseteq Path /\ created \subseteq Path
    /\ fresh \subseteq Path

CountType == faults \in 0..MaxFaults /\ edits \in 0..MaxEdits

FlagType ==
    /\ forget \in BOOLEAN /\ failures \in BOOLEAN
    /\ raced \in BOOLEAN /\ troubled \in BOOLEAN /\ late \in BOOLEAN /\ torn \in BOOLEAN

LEMMA TypeParts ==
    TypeOK <=> FileType /\ DeviceType /\ StageType /\ ChangeType /\ CountType /\ FlagType
BY DEF TypeOK, FileType, DeviceType, StageType, ChangeType, CountType, FlagType

LEMMA RulesType == \A d \in Device \cup {None} : Rules(d) \subseteq Path
BY DEF Rules, Path

LEMMA FileTypeNext == PersistenceInv /\ [Next]_vars => FileType'
<1> SUFFICES ASSUME PersistenceInv, [Next]_vars PROVE FileType'
  OBVIOUS
<1>0. FileType /\ DeviceType /\ ChangeType
  BY TypeParts DEF PersistenceInv
<1> USE DEF Begin, End, Goto, AudioFails, AudioDone, Undo, UndoFails, Works, Fails, Restarts,
   RestartFails, ReplaceFails, Firsts, Lasts, applying, undoing, filesVars, planVars,
   appliedVars, commandVars, stageVars, boundVars, historyVars
<1>1. CASE BeginTeardown
  BY <1>0, <1>1 DEF FileType, Ours, ChangeType, DeviceType, BeginTeardown
<1>2. CASE \E d \in Device : BeginSetup(d)
  BY <1>0, <1>2 DEF FileType, Ours, ChangeType, DeviceType, BeginSetup
<1>3. CASE StopUnit
  BY <1>0, <1>3 DEF FileType, Ours, ChangeType, DeviceType, StopUnit
<1>4. CASE Plan
  BY <1>0, <1>4 DEF FileType, Ours, ChangeType, DeviceType, Plan
<1>5. CASE ApplyRemoval
  BY <1>0, <1>5 DEF FileType, Ours, ChangeType, DeviceType, ApplyRemoval
<1>6. CASE ApplyCreation
  BY <1>0, <1>6 DEF FileType, Ours, ChangeType, DeviceType, ApplyCreation
<1>7. CASE Restart
  BY <1>0, <1>7 DEF FileType, Ours, ChangeType, DeviceType, Restart
<1>8. CASE UndoCreation
  BY <1>0, <1>8 DEF FileType, Ours, ChangeType, DeviceType, UndoCreation
<1>9. CASE UndoRemoval
  BY <1>0, <1>9 DEF FileType, Ours, ChangeType, DeviceType, UndoRemoval
<1>10. CASE UndoEnds
  BY <1>0, <1>10 DEF FileType, Ours, ChangeType, DeviceType, UndoEnds
<1>11. CASE Reload
  BY <1>0, <1>11 DEF FileType, Ours, ChangeType, DeviceType, Reload
<1>12. CASE Save
  BY <1>0, <1>12 DEF FileType, Ours, ChangeType, DeviceType, Save
<1>13. CASE Bond
  BY <1>0, <1>13 DEF FileType, Ours, ChangeType, DeviceType, Bond
<1>14. CASE Erase
  BY <1>0, <1>14 DEF FileType, Ours, ChangeType, DeviceType, Erase
<1>15. CASE Killed
  BY <1>0, <1>15 DEF FileType, Ours, ChangeType, DeviceType, Killed
<1>16. CASE WirePlumberStarts
  BY <1>0, <1>16 DEF FileType, Ours, ChangeType, DeviceType, WirePlumberStarts
<1>17. CASE UnitStarts
  BY <1>0, <1>17 DEF FileType, Ours, ChangeType, DeviceType, UnitStarts
<1>18. CASE \E p \in Path : Edit(p)
  BY <1>0, <1>18 DEF FileType, Ours, ChangeType, DeviceType, Edit
<1>19. CASE UNCHANGED vars
  BY <1>0, <1>19 DEF FileType, Ours, ChangeType, DeviceType, vars
<1> QED
  BY <1>1, <1>2, <1>3, <1>4, <1>5, <1>6, <1>7, <1>8, <1>9, <1>10, <1>11, <1>12, <1>13, <1>14,
     <1>15, <1>16, <1>17, <1>18, <1>19
     DEF Next, Begins, Command

LEMMA DeviceTypeNext == PersistenceInv /\ [Next]_vars => DeviceType'
<1> SUFFICES ASSUME PersistenceInv, [Next]_vars PROVE DeviceType'
  OBVIOUS
<1>0. DeviceType /\ Stages
  BY TypeParts DEF PersistenceInv
<1> USE DEF Begin, End, Goto, AudioFails, AudioDone, Undo, UndoFails, Works, Fails, Restarts,
   RestartFails, ReplaceFails, Firsts, Lasts, applying, undoing, filesVars, planVars,
   appliedVars, commandVars, stageVars, boundVars, historyVars
<1>1. CASE BeginTeardown
  BY <1>0, <1>1 DEF DeviceType, Stages, BeginTeardown
<1>2. CASE \E d \in Device : BeginSetup(d)
  BY <1>0, <1>2 DEF DeviceType, Stages, BeginSetup
<1>3. CASE StopUnit
  BY <1>0, <1>3 DEF DeviceType, Stages, StopUnit
<1>4. CASE Plan
  BY <1>0, <1>4 DEF DeviceType, Stages, Plan
<1>5. CASE ApplyRemoval
  BY <1>0, <1>5 DEF DeviceType, Stages, ApplyRemoval
<1>6. CASE ApplyCreation
  BY <1>0, <1>6 DEF DeviceType, Stages, ApplyCreation
<1>7. CASE Restart
  BY <1>0, <1>7 DEF DeviceType, Stages, Restart
<1>8. CASE UndoCreation
  BY <1>0, <1>8 DEF DeviceType, Stages, UndoCreation
<1>9. CASE UndoRemoval
  BY <1>0, <1>9 DEF DeviceType, Stages, UndoRemoval
<1>10. CASE UndoEnds
  BY <1>0, <1>10 DEF DeviceType, Stages, UndoEnds
<1>11. CASE Reload
  BY <1>0, <1>11 DEF DeviceType, Stages, Reload
<1>12. CASE Save
  BY <1>0, <1>12 DEF DeviceType, Stages, Save
<1>13. CASE Bond
  BY <1>0, <1>13 DEF DeviceType, Stages, Bond
<1>14. CASE Erase
  BY <1>0, <1>14 DEF DeviceType, Stages, Erase
<1>15. CASE Killed
  BY <1>0, <1>15 DEF DeviceType, Stages, Killed
<1>16. CASE WirePlumberStarts
  BY <1>0, <1>16 DEF DeviceType, Stages, WirePlumberStarts
<1>17. CASE UnitStarts
  BY <1>0, <1>17 DEF DeviceType, Stages, UnitStarts
<1>18. CASE \E p \in Path : Edit(p)
  BY <1>0, <1>18 DEF DeviceType, Stages, Edit
<1>19. CASE UNCHANGED vars
  BY <1>0, <1>19 DEF DeviceType, Stages, vars
<1> QED
  BY <1>1, <1>2, <1>3, <1>4, <1>5, <1>6, <1>7, <1>8, <1>9, <1>10, <1>11, <1>12, <1>13, <1>14,
     <1>15, <1>16, <1>17, <1>18, <1>19
     DEF Next, Begins, Command

LEMMA StageTypeNext == PersistenceInv /\ [Next]_vars => StageType'
<1> SUFFICES ASSUME PersistenceInv, [Next]_vars PROVE StageType'
  OBVIOUS
<1>0. StageType /\ Stages
  BY TypeParts DEF PersistenceInv
<1> USE DEF Begin, End, Goto, AudioFails, AudioDone, Undo, UndoFails, Works, Fails, Restarts,
   RestartFails, ReplaceFails, Firsts, Lasts, applying, undoing, filesVars, planVars,
   appliedVars, commandVars, stageVars, boundVars, historyVars
<1>1. CASE BeginTeardown
  BY <1>0, <1>1 DEF StageType, Stages, BeginTeardown
<1>2. CASE \E d \in Device : BeginSetup(d)
  BY <1>0, <1>2 DEF StageType, Stages, BeginSetup
<1>3. CASE StopUnit
  BY <1>0, <1>3 DEF StageType, Stages, StopUnit
<1>4. CASE Plan
  BY <1>0, <1>4 DEF StageType, Stages, Plan
<1>5. CASE ApplyRemoval
  BY <1>0, <1>5 DEF StageType, Stages, ApplyRemoval
<1>6. CASE ApplyCreation
  BY <1>0, <1>6 DEF StageType, Stages, ApplyCreation
<1>7. CASE Restart
  BY <1>0, <1>7 DEF StageType, Stages, Restart
<1>8. CASE UndoCreation
  BY <1>0, <1>8 DEF StageType, Stages, UndoCreation
<1>9. CASE UndoRemoval
  BY <1>0, <1>9 DEF StageType, Stages, UndoRemoval
<1>10. CASE UndoEnds
  BY <1>0, <1>10 DEF StageType, Stages, UndoEnds
<1>11. CASE Reload
  BY <1>0, <1>11 DEF StageType, Stages, Reload
<1>12. CASE Save
  BY <1>0, <1>12 DEF StageType, Stages, Save
<1>13. CASE Bond
  BY <1>0, <1>13 DEF StageType, Stages, Bond
<1>14. CASE Erase
  BY <1>0, <1>14 DEF StageType, Stages, Erase
<1>15. CASE Killed
  BY <1>0, <1>15 DEF StageType, Stages, Killed
<1>16. CASE WirePlumberStarts
  BY <1>0, <1>16 DEF StageType, Stages, WirePlumberStarts
<1>17. CASE UnitStarts
  BY <1>0, <1>17 DEF StageType, Stages, UnitStarts
<1>18. CASE \E p \in Path : Edit(p)
  BY <1>0, <1>18 DEF StageType, Stages, Edit
<1>19. CASE UNCHANGED vars
  BY <1>0, <1>19 DEF StageType, Stages, vars
<1> QED
  BY <1>1, <1>2, <1>3, <1>4, <1>5, <1>6, <1>7, <1>8, <1>9, <1>10, <1>11, <1>12, <1>13, <1>14,
     <1>15, <1>16, <1>17, <1>18, <1>19
     DEF Next, Begins, Command

LEMMA ChangeTypeNext == PersistenceInv /\ [Next]_vars => ChangeType'
<1> SUFFICES ASSUME PersistenceInv, [Next]_vars PROVE ChangeType'
  OBVIOUS
<1>0. ChangeType /\ DeviceType
  BY TypeParts DEF PersistenceInv
<1> USE RulesType
<1> USE DEF Begin, End, Goto, AudioFails, AudioDone, Undo, UndoFails, Works, Fails, Restarts,
   RestartFails, ReplaceFails, Firsts, Lasts, applying, undoing, filesVars, planVars,
   appliedVars, commandVars, stageVars, boundVars, historyVars
<1>1. CASE BeginTeardown
  BY <1>0, <1>1 DEF ChangeType, Involved, Removals, Creations, DeviceType, BeginTeardown
<1>2. CASE \E d \in Device : BeginSetup(d)
  BY <1>0, <1>2 DEF ChangeType, Involved, Removals, Creations, DeviceType, BeginSetup
<1>3. CASE StopUnit
  BY <1>0, <1>3 DEF ChangeType, Involved, Removals, Creations, DeviceType, StopUnit
<1>4. CASE Plan
  BY <1>0, <1>4 DEF ChangeType, Involved, Removals, Creations, DeviceType, Plan
<1>5. CASE ApplyRemoval
  BY <1>0, <1>5 DEF ChangeType, Involved, Removals, Creations, DeviceType, ApplyRemoval
<1>6. CASE ApplyCreation
  BY <1>0, <1>6 DEF ChangeType, Involved, Removals, Creations, DeviceType, ApplyCreation
<1>7. CASE Restart
  BY <1>0, <1>7 DEF ChangeType, Involved, Removals, Creations, DeviceType, Restart
<1>8. CASE UndoCreation
  BY <1>0, <1>8 DEF ChangeType, Involved, Removals, Creations, DeviceType, UndoCreation
<1>9. CASE UndoRemoval
  BY <1>0, <1>9 DEF ChangeType, Involved, Removals, Creations, DeviceType, UndoRemoval
<1>10. CASE UndoEnds
  BY <1>0, <1>10 DEF ChangeType, Involved, Removals, Creations, DeviceType, UndoEnds
<1>11. CASE Reload
  BY <1>0, <1>11 DEF ChangeType, Involved, Removals, Creations, DeviceType, Reload
<1>12. CASE Save
  BY <1>0, <1>12 DEF ChangeType, Involved, Removals, Creations, DeviceType, Save
<1>13. CASE Bond
  BY <1>0, <1>13 DEF ChangeType, Involved, Removals, Creations, DeviceType, Bond
<1>14. CASE Erase
  BY <1>0, <1>14 DEF ChangeType, Involved, Removals, Creations, DeviceType, Erase
<1>15. CASE Killed
  BY <1>0, <1>15 DEF ChangeType, Involved, Removals, Creations, DeviceType, Killed
<1>16. CASE WirePlumberStarts
  BY <1>0, <1>16 DEF ChangeType, Involved, Removals, Creations, DeviceType, WirePlumberStarts
<1>17. CASE UnitStarts
  BY <1>0, <1>17 DEF ChangeType, Involved, Removals, Creations, DeviceType, UnitStarts
<1>18. CASE \E p \in Path : Edit(p)
  BY <1>0, <1>18 DEF ChangeType, Involved, Removals, Creations, DeviceType, Edit
<1>19. CASE UNCHANGED vars
  BY <1>0, <1>19 DEF ChangeType, Involved, Removals, Creations, DeviceType, vars
<1> QED
  BY <1>1, <1>2, <1>3, <1>4, <1>5, <1>6, <1>7, <1>8, <1>9, <1>10, <1>11, <1>12, <1>13, <1>14,
     <1>15, <1>16, <1>17, <1>18, <1>19
     DEF Next, Begins, Command

LEMMA CountTypeNext == PersistenceInv /\ [Next]_vars => CountType'
<1> SUFFICES ASSUME PersistenceInv, [Next]_vars PROVE CountType'
  OBVIOUS
<1>0. CountType
  BY TypeParts DEF PersistenceInv
<1> USE BoundAssumption
<1> USE DEF Begin, End, Goto, AudioFails, AudioDone, Undo, UndoFails, Works, Fails, Restarts,
   RestartFails, ReplaceFails, Firsts, Lasts, applying, undoing, filesVars, planVars,
   appliedVars, commandVars, stageVars, boundVars, historyVars
<1>1. CASE BeginTeardown
  BY <1>0, <1>1 DEF CountType, BeginTeardown
<1>2. CASE \E d \in Device : BeginSetup(d)
  BY <1>0, <1>2 DEF CountType, BeginSetup
<1>3. CASE StopUnit
  BY <1>0, <1>3 DEF CountType, StopUnit
<1>4. CASE Plan
  BY <1>0, <1>4 DEF CountType, Plan
<1>5. CASE ApplyRemoval
  BY <1>0, <1>5 DEF CountType, ApplyRemoval
<1>6. CASE ApplyCreation
  BY <1>0, <1>6 DEF CountType, ApplyCreation
<1>7. CASE Restart
  BY <1>0, <1>7 DEF CountType, Restart
<1>8. CASE UndoCreation
  BY <1>0, <1>8 DEF CountType, UndoCreation
<1>9. CASE UndoRemoval
  BY <1>0, <1>9 DEF CountType, UndoRemoval
<1>10. CASE UndoEnds
  BY <1>0, <1>10 DEF CountType, UndoEnds
<1>11. CASE Reload
  BY <1>0, <1>11 DEF CountType, Reload
<1>12. CASE Save
  BY <1>0, <1>12 DEF CountType, Save
<1>13. CASE Bond
  BY <1>0, <1>13 DEF CountType, Bond
<1>14. CASE Erase
  BY <1>0, <1>14 DEF CountType, Erase
<1>15. CASE Killed
  BY <1>0, <1>15 DEF CountType, Killed
<1>16. CASE WirePlumberStarts
  BY <1>0, <1>16 DEF CountType, WirePlumberStarts
<1>17. CASE UnitStarts
  BY <1>0, <1>17 DEF CountType, UnitStarts
<1>18. CASE \E p \in Path : Edit(p)
  BY <1>0, <1>18 DEF CountType, Edit
<1>19. CASE UNCHANGED vars
  BY <1>0, <1>19 DEF CountType, vars
<1> QED
  BY <1>1, <1>2, <1>3, <1>4, <1>5, <1>6, <1>7, <1>8, <1>9, <1>10, <1>11, <1>12, <1>13, <1>14,
     <1>15, <1>16, <1>17, <1>18, <1>19
     DEF Next, Begins, Command

LEMMA FlagTypeNext == PersistenceInv /\ [Next]_vars => FlagType'
<1> SUFFICES ASSUME PersistenceInv, [Next]_vars PROVE FlagType'
  OBVIOUS
<1>0. FlagType
  BY TypeParts DEF PersistenceInv
<1> USE DEF Begin, End, Goto, AudioFails, AudioDone, Undo, UndoFails, Works, Fails, Restarts,
   RestartFails, ReplaceFails, Firsts, Lasts, applying, undoing, filesVars, planVars,
   appliedVars, commandVars, stageVars, boundVars, historyVars
<1>1. CASE BeginTeardown
  BY <1>0, <1>1 DEF FlagType, BeginTeardown
<1>2. CASE \E d \in Device : BeginSetup(d)
  BY <1>0, <1>2 DEF FlagType, BeginSetup
<1>3. CASE StopUnit
  BY <1>0, <1>3 DEF FlagType, StopUnit
<1>4. CASE Plan
  BY <1>0, <1>4 DEF FlagType, Plan
<1>5. CASE ApplyRemoval
  BY <1>0, <1>5 DEF FlagType, ApplyRemoval
<1>6. CASE ApplyCreation
  BY <1>0, <1>6 DEF FlagType, ApplyCreation
<1>7. CASE Restart
  BY <1>0, <1>7 DEF FlagType, Restart
<1>8. CASE UndoCreation
  BY <1>0, <1>8 DEF FlagType, UndoCreation
<1>9. CASE UndoRemoval
  BY <1>0, <1>9 DEF FlagType, UndoRemoval
<1>10. CASE UndoEnds
  BY <1>0, <1>10 DEF FlagType, UndoEnds
<1>11. CASE Reload
  BY <1>0, <1>11 DEF FlagType, Reload
<1>12. CASE Save
  BY <1>0, <1>12 DEF FlagType, Save
<1>13. CASE Bond
  BY <1>0, <1>13 DEF FlagType, Bond
<1>14. CASE Erase
  BY <1>0, <1>14 DEF FlagType, Erase
<1>15. CASE Killed
  BY <1>0, <1>15 DEF FlagType, Killed
<1>16. CASE WirePlumberStarts
  BY <1>0, <1>16 DEF FlagType, WirePlumberStarts
<1>17. CASE UnitStarts
  BY <1>0, <1>17 DEF FlagType, UnitStarts
<1>18. CASE \E p \in Path : Edit(p)
  BY <1>0, <1>18 DEF FlagType, Edit
<1>19. CASE UNCHANGED vars
  BY <1>0, <1>19 DEF FlagType, vars
<1> QED
  BY <1>1, <1>2, <1>3, <1>4, <1>5, <1>6, <1>7, <1>8, <1>9, <1>10, <1>11, <1>12, <1>13, <1>14,
     <1>15, <1>16, <1>17, <1>18, <1>19
     DEF Next, Begins, Command

-----------------------------------------------------------------------------
(* Stages and files *)

LEMMA InvolvedPaths == TypeOK => Involved \subseteq Path
BY RulesType DEF TypeOK, Involved

\* The file that is removed next, and the one that is created next.
LEMMA RemovalFacts ==
    ASSUME PersistenceInv, pc = "apply", NEW p \in Firsts(removals)
    PROVE  /\ p \in Path /\ p \in Obsolete /\ p \notin Rules(desired) /\ p \notin created
           /\ ~raced \/ ~torn => disk[p] = "ours"
<1>1. Planned /\ ChangeType
  BY TypeParts DEF PersistenceInv
<1>2. p \in removals /\ p \in Path /\ p \in Obsolete
  BY <1>1 DEF Firsts, Planned, ChangeType
<1>3. p \notin Rules(desired) /\ p \in Involved
  BY <1>2 DEF Obsolete, Involved
<1> QED
  BY <1>1, <1>2, <1>3 DEF Planned

LEMMA CreationFacts ==
    ASSUME PersistenceInv, pc = "apply", NEW p \in Firsts(creations)
    PROVE  /\ p \in Path /\ p \in Rules(desired) /\ p \notin Obsolete /\ p \notin removed
           /\ ~raced \/ ~torn => disk[p] = "absent"
<1>1. Planned /\ ChangeType
  BY TypeParts DEF PersistenceInv
<1>2. p \in creations /\ p \in Path /\ p \in Rules(desired)
  BY <1>1 DEF Firsts, Planned, ChangeType
<1>3. p \notin Obsolete /\ p \in Involved
  BY <1>2 DEF Obsolete, Involved
<1> QED
  BY <1>1, <1>2, <1>3 DEF Planned

LEMMA StagesNext == PersistenceInv /\ [Next]_vars => Stages'
<1> SUFFICES ASSUME PersistenceInv, [Next]_vars PROVE Stages'
  OBVIOUS
<1>0. StageType /\ DeviceType /\ FlagType /\ Stages
  BY TypeParts DEF PersistenceInv
<1> USE DEF Begin, End, Goto, AudioFails, AudioDone, Undo, UndoFails, Works, Fails, Restarts,
   RestartFails, ReplaceFails, Firsts, Lasts, applying, undoing, filesVars, planVars,
   appliedVars, commandVars, stageVars, boundVars, historyVars
<1> USE DEF Conflict, Removals, Creations
<1>1. CASE BeginTeardown
  BY <1>0, <1>1 DEF Stages, StageType, DeviceType, FlagType, BeginTeardown
<1>2. CASE \E d \in Device : BeginSetup(d)
  BY <1>0, <1>2 DEF Stages, StageType, DeviceType, FlagType, BeginSetup
<1>3. CASE StopUnit
  BY <1>0, <1>3 DEF Stages, StageType, DeviceType, FlagType, StopUnit
<1>4. CASE Plan
  BY <1>0, <1>4 DEF Stages, StageType, DeviceType, FlagType, Plan
<1>5. CASE ApplyRemoval
  BY <1>0, <1>5 DEF Stages, StageType, DeviceType, FlagType, ApplyRemoval
<1>6. CASE ApplyCreation
  BY <1>0, <1>6 DEF Stages, StageType, DeviceType, FlagType, ApplyCreation
<1>7. CASE Restart
  BY <1>0, <1>7 DEF Stages, StageType, DeviceType, FlagType, Restart
<1>8. CASE UndoCreation
  BY <1>0, <1>8 DEF Stages, StageType, DeviceType, FlagType, UndoCreation
<1>9. CASE UndoRemoval
  BY <1>0, <1>9 DEF Stages, StageType, DeviceType, FlagType, UndoRemoval
<1>10. CASE UndoEnds
  BY <1>0, <1>10 DEF Stages, StageType, DeviceType, FlagType, UndoEnds
<1>11. CASE Reload
  BY <1>0, <1>11 DEF Stages, StageType, DeviceType, FlagType, Reload
<1>12. CASE Save
  BY <1>0, <1>12 DEF Stages, StageType, DeviceType, FlagType, Save
<1>13. CASE Bond
  BY <1>0, <1>13 DEF Stages, StageType, DeviceType, FlagType, Bond
<1>14. CASE Erase
  BY <1>0, <1>14 DEF Stages, StageType, DeviceType, FlagType, Erase
<1>15. CASE Killed
  BY <1>0, <1>15 DEF Stages, StageType, DeviceType, FlagType, Killed
<1>16. CASE WirePlumberStarts
  BY <1>0, <1>16 DEF Stages, StageType, DeviceType, FlagType, WirePlumberStarts
<1>17. CASE UnitStarts
  BY <1>0, <1>17 DEF Stages, StageType, DeviceType, FlagType, UnitStarts
<1>18. CASE \E p \in Path : Edit(p)
  BY <1>0, <1>18 DEF Stages, StageType, DeviceType, FlagType, Edit
<1>19. CASE UNCHANGED vars
  BY <1>0, <1>19 DEF Stages, StageType, DeviceType, FlagType, vars
<1> QED
  BY <1>1, <1>2, <1>3, <1>4, <1>5, <1>6, <1>7, <1>8, <1>9, <1>10, <1>11, <1>12, <1>13, <1>14,
     <1>15, <1>16, <1>17, <1>18, <1>19
     DEF Next, Begins, Command

LEMMA FilesNext == PersistenceInv /\ [Next]_vars => Files'
<1> SUFFICES ASSUME PersistenceInv, [Next]_vars PROVE Files'
  OBVIOUS
<1>0. Files /\ Planned /\ Stages /\ FileType /\ ChangeType /\ FlagType
  BY TypeParts DEF PersistenceInv
<1> USE DEF Begin, End, Goto, AudioFails, AudioDone, Undo, UndoFails, Works, Fails, Restarts,
   RestartFails, ReplaceFails, Firsts, Lasts, applying, undoing, filesVars, planVars,
   appliedVars, commandVars, stageVars, boundVars, historyVars
<1> USE DEF Conflict, Removals, Creations
<1>1. CASE BeginTeardown
  BY <1>0, <1>1 DEF Files, Stages, Planned, Settled, Obsolete, Involved, FileType,
     BeginTeardown
<1>2. CASE \E d \in Device : BeginSetup(d)
  BY <1>0, <1>2 DEF Files, Stages, Planned, Settled, Obsolete, Involved, FileType, BeginSetup
<1>3. CASE StopUnit
  BY <1>0, <1>3 DEF Files, Stages, Planned, Settled, Obsolete, Involved, FileType, StopUnit
<1>4. CASE Plan
  BY <1>0, <1>4 DEF Files, Stages, Planned, Settled, Obsolete, Involved, FileType, Plan
<1>5. CASE ApplyRemoval
  <2>1. PICK p \in Firsts(removals) :
          \/ /\ disk[p] # "absent" /\ disk' = [disk EXCEPT ![p] = "absent"]
             /\ removals' = removals \ {p} /\ removed' = removed \cup {p}
             /\ UNCHANGED <<pc, why, failures, fresh, faults, troubled>>
          \/ /\ IF disk[p] = "absent" THEN Works ELSE Fails
             /\ pc' = "undo" /\ why' = "change"
             /\ UNCHANGED <<disk, removals, removed, fresh, failures>>
    BY <1>5 DEF ApplyRemoval
  <2>2. /\ pc = "apply" /\ UNCHANGED <<creations, created, late, loaded, torn, raced, before>>
        /\ UNCHANGED <<op, previous, desired, result>>
    BY <1>5 DEF ApplyRemoval
  <2>3. /\ p \in Path /\ p \in Obsolete /\ p \notin Rules(desired) /\ p \notin created
        /\ ~raced \/ ~torn => disk[p] = "ours"
    BY <2>1, <2>2, RemovalFacts
  <2>4. Obsolete' = Obsolete /\ Involved' = Involved
    BY <2>2 DEF Obsolete, Involved
  <2>5. ~raced => /\ \A q \in removed : disk[q] = "absent" /\ before.disk[q] = "ours"
                  /\ \A q \in created : disk[q] = "ours" /\ before.disk[q] = "absent"
                  /\ \A q \in Path \ (removed \cup created) : disk[q] = before.disk[q]
    BY <1>0, <2>2 DEF Files, Stages
  <2>6. ~raced => p \notin removed /\ p \notin created /\ before.disk[p] = "ours"
    BY <2>3, <2>5
  <2>9. removed \subseteq Path /\ created \subseteq Path /\ p \in Path
    BY <1>0, <2>3 DEF ChangeType
  <2>7. CASE /\ \A q \in Path : disk'[q] = IF q = p THEN "absent" ELSE disk[q]
             /\ removed' = removed \cup {p} /\ UNCHANGED <<pc, created>>
    <3>1. pc' \notin {"save", "bond", "erase"} /\ pc' \notin {"stop", "plan"}
      BY <2>2, <2>7
    <3>2. ASSUME ~raced
          PROVE  /\ \A q \in removed' : disk'[q] = "absent" /\ before'.disk[q] = "ours"
                 /\ \A q \in created' : disk'[q] = "ours" /\ before'.disk[q] = "absent"
                 /\ ~late' => \A q \in Path \ (removed' \cup created') :
                                 disk'[q] = before'.disk[q]
      BY <2>2, <2>5, <2>6, <2>9, <2>7, <3>2
    <3> QED
      BY <2>2, <3>1, <3>2 DEF Files
  <2>8. CASE /\ pc' = "undo" /\ UNCHANGED <<removed, created>>
             /\ disk' = disk 
    <3>1. pc' \notin {"save", "bond", "erase"} /\ pc' \notin {"stop", "plan"}
      BY <2>2, <2>8
    <3>2. ASSUME ~raced
          PROVE  /\ \A q \in removed' : disk'[q] = "absent" /\ before'.disk[q] = "ours"
                 /\ \A q \in created' : disk'[q] = "ours" /\ before'.disk[q] = "absent"
                 /\ ~late' => \A q \in Path \ (removed' \cup created') :
                                 disk'[q] = before'.disk[q]
      BY <2>2, <2>5, <2>6, <2>9, <2>8, <3>2
    <3> QED
      BY <2>2, <3>1, <3>2 DEF Files
  <2> QED
    BY <1>0, <2>1, <2>2, <2>7, <2>8 DEF FileType
<1>6. CASE ApplyCreation
  <2>1. PICK p \in Firsts(creations) :
          \/ /\ Works /\ disk' = [disk EXCEPT ![p] = "ours"]
             /\ creations' = creations \ {p} /\ created' = created \cup {p}
             /\ UNCHANGED <<pc, why, failures, late, torn>>
          \/ /\ (UNCHANGED <<disk, late>>) \/ (disk' = [disk EXCEPT ![p] = "ours"] /\ late' = TRUE)
             /\ torn' = (torn \/ late')
             /\ pc' = "undo" /\ why' = "change"
             /\ UNCHANGED <<creations, created, failures>>
    BY <1>6 DEF ApplyCreation
  <2>2. /\ pc = "apply" /\ removals = {} /\ UNCHANGED <<removals, removed, loaded>>
        /\ UNCHANGED <<raced, before, fresh, op, previous, desired, result>>
    BY <1>6 DEF ApplyCreation
  <2>3. /\ p \in Path /\ p \in Rules(desired) /\ p \notin Obsolete /\ p \notin removed
        /\ ~raced \/ ~torn => disk[p] = "absent"
    BY <2>1, <2>2, CreationFacts
  <2>4. Obsolete' = Obsolete /\ Involved' = Involved
    BY <2>2 DEF Obsolete, Involved
  <2>5. ~raced => /\ \A q \in removed : disk[q] = "absent" /\ before.disk[q] = "ours"
                  /\ \A q \in created : disk[q] = "ours" /\ before.disk[q] = "absent"
                  /\ \A q \in Path \ (removed \cup created) : disk[q] = before.disk[q]
    BY <1>0, <2>2 DEF Files, Stages
  <2>6. ~raced => p \notin removed /\ p \notin created /\ before.disk[p] = "absent"
    BY <2>3, <2>5
  <2>9. removed \subseteq Path /\ created \subseteq Path /\ p \in Path
    BY <1>0, <2>3 DEF ChangeType
  <2>7. CASE /\ \A q \in Path : disk'[q] = IF q = p THEN "ours" ELSE disk[q]
             /\ created' = created \cup {p} /\ UNCHANGED <<pc, removed>>
    <3>1. pc' \notin {"save", "bond", "erase"} /\ pc' \notin {"stop", "plan"}
      BY <2>2, <2>7
    <3>2. ASSUME ~raced
          PROVE  /\ \A q \in removed' : disk'[q] = "absent" /\ before'.disk[q] = "ours"
                 /\ \A q \in created' : disk'[q] = "ours" /\ before'.disk[q] = "absent"
                 /\ ~late' => \A q \in Path \ (removed' \cup created') :
                                 disk'[q] = before'.disk[q]
      BY <2>2, <2>5, <2>6, <2>9, <2>7, <3>2
    <3> QED
      BY <2>2, <3>1, <3>2 DEF Files
  <2>8. CASE /\ pc' = "undo" /\ UNCHANGED <<removed, created>>
             /\ disk' = disk \/ (late' /\ \A q \in Path \ {p} : disk'[q] = disk[q])
    <3>1. pc' \notin {"save", "bond", "erase"} /\ pc' \notin {"stop", "plan"}
      BY <2>2, <2>8
    <3>2. ASSUME ~raced
          PROVE  /\ \A q \in removed' : disk'[q] = "absent" /\ before'.disk[q] = "ours"
                 /\ \A q \in created' : disk'[q] = "ours" /\ before'.disk[q] = "absent"
                 /\ ~late' => \A q \in Path \ (removed' \cup created') :
                                 disk'[q] = before'.disk[q]
      BY <2>2, <2>5, <2>6, <2>9, <2>8, <3>2
    <3> QED
      BY <2>2, <3>1, <3>2 DEF Files
  <2> QED
    BY <1>0, <2>1, <2>2, <2>7, <2>8 DEF FileType
<1>7. CASE Restart
  BY <1>0, <1>7 DEF Files, Stages, Planned, Settled, Obsolete, Involved, FileType, Restart
<1>8. CASE UndoCreation
  <2>1. PICK p \in Lasts(created) :
          \/ /\ disk' = [disk EXCEPT ![p] = "absent"] /\ created' = created \ {p}
             /\ UNCHANGED <<pc, removed>>
          \/ pc' \in {"idle", "bond"} /\ (pc' = "bond" => failures')
    BY <1>8 DEF UndoCreation
  <2>2. /\ pc = "undo" /\ p \in created /\ p \in Path
        /\ UNCHANGED <<late, raced, before, previous, desired>>
    BY <1>0, <1>8 DEF UndoCreation, Lasts, ChangeType
  <2>3. CASE pc' \in {"idle", "bond"} /\ (pc' = "bond" => failures')
    BY <2>3 DEF Files
  <2>4. CASE /\ disk' = [disk EXCEPT ![p] = "absent"] /\ created' = created \ {p}
             /\ UNCHANGED <<pc, removed>>
    BY <1>0, <2>2, <2>4 DEF Files, FileType
  <2> QED
    BY <2>1, <2>3, <2>4
<1>9. CASE UndoRemoval
  <2>1. PICK p \in Lasts(removed) :
          \/ /\ disk' = [disk EXCEPT ![p] = "ours"] /\ removed' = removed \ {p}
             /\ UNCHANGED <<pc, created, late>>
          \/ pc' \in {"idle", "bond"} /\ (pc' = "bond" => failures')
    BY <1>9 DEF UndoRemoval
  <2>2. /\ pc = "undo" /\ p \in removed /\ p \in Path /\ created = {}
        /\ UNCHANGED <<raced, before, previous, desired>>
    BY <1>0, <1>9 DEF UndoRemoval, Lasts, ChangeType
  <2>3. CASE pc' \in {"idle", "bond"} /\ (pc' = "bond" => failures')
    BY <2>3 DEF Files
  <2>4. CASE /\ disk' = [disk EXCEPT ![p] = "ours"] /\ removed' = removed \ {p}
             /\ UNCHANGED <<pc, created, late>>
    BY <1>0, <2>2, <2>4 DEF Files, FileType
  <2> QED
    BY <2>1, <2>3, <2>4
<1>10. CASE UndoEnds
  BY <1>0, <1>10 DEF Files, Stages, Planned, Settled, Obsolete, Involved, FileType, UndoEnds
<1>11. CASE Reload
  BY <1>0, <1>11 DEF Files, Stages, Planned, Settled, Obsolete, Involved, FileType, Reload
<1>12. CASE Save
  BY <1>0, <1>12 DEF Files, Stages, Planned, Settled, Obsolete, Involved, FileType, Save
<1>13. CASE Bond
  BY <1>0, <1>13 DEF Files, Stages, Planned, Settled, Obsolete, Involved, FileType, Bond
<1>14. CASE Erase
  BY <1>0, <1>14 DEF Files, Stages, Planned, Settled, Obsolete, Involved, FileType, Erase
<1>15. CASE Killed
  BY <1>0, <1>15 DEF Files, Stages, Planned, Settled, Obsolete, Involved, FileType, Killed
<1>16. CASE WirePlumberStarts
  BY <1>0, <1>16 DEF Files, Stages, Planned, Settled, Obsolete, Involved, FileType,
     WirePlumberStarts
<1>17. CASE UnitStarts
  BY <1>0, <1>17 DEF Files, Stages, Planned, Settled, Obsolete, Involved, FileType, UnitStarts
<1>18. CASE \E p \in Path : Edit(p)
  BY <1>0, <1>18 DEF Files, Stages, Planned, Settled, Obsolete, Involved, FileType, Edit
<1>19. CASE UNCHANGED vars
  BY <1>0, <1>19 DEF Files, Stages, Planned, Settled, Obsolete, Involved, FileType, vars
<1> QED
  BY <1>1, <1>2, <1>3, <1>4, <1>5, <1>6, <1>7, <1>8, <1>9, <1>10, <1>11, <1>12, <1>13, <1>14,
     <1>15, <1>16, <1>17, <1>18, <1>19
     DEF Next, Begins, Command

LEMMA PlannedNext == PersistenceInv /\ [Next]_vars => Planned'
<1> SUFFICES ASSUME PersistenceInv, [Next]_vars PROVE Planned'
  OBVIOUS
<1>0. Planned /\ DeviceType /\ ChangeType /\ Stages /\ FileType /\ FlagType
  BY TypeParts DEF PersistenceInv
<1> USE DEF Begin, End, Goto, AudioFails, AudioDone, Undo, UndoFails, Works, Fails, Restarts,
   RestartFails, ReplaceFails, Firsts, Lasts, applying, undoing, filesVars, planVars,
   appliedVars, commandVars, stageVars, boundVars, historyVars
<1> USE DEF Conflict, Removals, Creations
<1>1. CASE BeginTeardown
  BY <1>0, <1>1 DEF Planned, Stages, Obsolete, Involved, FileType, BeginTeardown
<1>2. CASE \E d \in Device : BeginSetup(d)
  BY <1>0, <1>2 DEF Planned, Stages, Obsolete, Involved, FileType, BeginSetup
<1>3. CASE StopUnit
  BY <1>0, <1>3 DEF Planned, Stages, Obsolete, Involved, FileType, StopUnit
<1>4. CASE Plan
  <2>1. /\ pc = "plan" /\ UNCHANGED <<disk, previous, desired, removed, created, raced>>
        /\ fresh' = Involved
    BY <1>0, <1>4 DEF Plan, Stages
  <2>2. removed' = {} /\ created' = {} /\ Obsolete' = Obsolete /\ Involved' = Involved
    BY <1>0, <2>1 DEF Stages, Obsolete, Involved
  <2>3. CASE pc' # "apply"
    BY <2>2, <2>3 DEF Planned
  <2>4. CASE pc' = "apply"
    <3>1. ~Conflict /\ removals' = Removals /\ creations' = Creations
      BY <1>0, <1>4, <2>4 DEF Plan
    <3>2. \A p \in Involved : disk[p] \in {"absent", "ours"}
      BY <1>0, <3>1, InvolvedPaths DEF PersistenceInv, FileType, Conflict
    <3>3. \A p \in Obsolete \cup Rules(desired) : p \in Involved
      BY DEF Obsolete, Involved
    <3> QED
      BY <2>1, <2>2, <3>1, <3>2, <3>3 DEF Planned, Removals, Creations, Obsolete
  <2> QED
    BY <2>3, <2>4
<1>5. CASE ApplyRemoval
  <2>1. PICK p \in Firsts(removals) :
          \/ /\ disk[p] # "absent" /\ disk' = [disk EXCEPT ![p] = "absent"]
             /\ removals' = removals \ {p} /\ removed' = removed \cup {p}
             /\ UNCHANGED <<pc, why, failures, fresh, faults, troubled>>
          \/ /\ IF disk[p] = "absent" THEN Works ELSE Fails
             /\ pc' = "undo" /\ why' = "change"
             /\ UNCHANGED <<disk, removals, removed, fresh, failures>>
    BY <1>5 DEF ApplyRemoval
  <2>2. /\ pc = "apply" /\ UNCHANGED <<creations, created, late, loaded, torn, raced, before>>
        /\ UNCHANGED <<op, previous, desired, result>>
    BY <1>5 DEF ApplyRemoval
  <2>3. /\ p \in Path /\ p \in Obsolete /\ p \notin Rules(desired) /\ p \notin created
        /\ ~raced \/ ~torn => disk[p] = "ours"
    BY <2>1, <2>2, RemovalFacts
  <2>4. Obsolete' = Obsolete /\ Involved' = Involved
    BY <2>2 DEF Obsolete, Involved
  <2>5. removals \subseteq Path /\ creations \subseteq Path /\ Obsolete \subseteq Path
        /\ Rules(desired) \subseteq Path
    BY <1>0, RulesType DEF ChangeType, DeviceType, Obsolete
  <2>6. CASE /\ \A q \in Path : disk'[q] = IF q = p THEN "absent" ELSE disk[q]
             /\ removed' = removed \cup {p} /\ removals' = removals \ {p}
             /\ UNCHANGED <<pc, created, creations, torn, fresh>>
    BY <1>0, <2>2, <2>3, <2>4, <2>5, <2>6 DEF Planned
  <2>7. CASE pc' = "undo" /\ UNCHANGED <<removed, created>>
    BY <1>0, <2>2, <2>4, <2>7 DEF Planned
  <2> QED
    BY <1>0, <2>1, <2>2, <2>6, <2>7 DEF FileType
<1>6. CASE ApplyCreation
  <2>1. PICK p \in Firsts(creations) :
          \/ /\ Works /\ disk' = [disk EXCEPT ![p] = "ours"]
             /\ creations' = creations \ {p} /\ created' = created \cup {p}
             /\ UNCHANGED <<pc, why, failures, late, torn>>
          \/ /\ (UNCHANGED <<disk, late>>) \/ (disk' = [disk EXCEPT ![p] = "ours"] /\ late' = TRUE)
             /\ torn' = (torn \/ late')
             /\ pc' = "undo" /\ why' = "change"
             /\ UNCHANGED <<creations, created, failures>>
    BY <1>6 DEF ApplyCreation
  <2>2. /\ pc = "apply" /\ removals = {} /\ UNCHANGED <<removals, removed, loaded>>
        /\ UNCHANGED <<raced, before, fresh, op, previous, desired, result>>
    BY <1>6 DEF ApplyCreation
  <2>3. /\ p \in Path /\ p \in Rules(desired) /\ p \notin Obsolete /\ p \notin removed
        /\ ~raced \/ ~torn => disk[p] = "absent"
    BY <2>1, <2>2, CreationFacts
  <2>4. Obsolete' = Obsolete /\ Involved' = Involved
    BY <2>2 DEF Obsolete, Involved
  <2>5. removals \subseteq Path /\ creations \subseteq Path /\ Obsolete \subseteq Path
        /\ Rules(desired) \subseteq Path
    BY <1>0, RulesType DEF ChangeType, DeviceType, Obsolete
  <2>6. CASE /\ \A q \in Path : disk'[q] = IF q = p THEN "ours" ELSE disk[q]
             /\ created' = created \cup {p} /\ creations' = creations \ {p}
             /\ UNCHANGED <<pc, removed, removals, torn, fresh>>
    BY <1>0, <2>2, <2>3, <2>4, <2>5, <2>6 DEF Planned
  <2>7. CASE pc' = "undo" /\ UNCHANGED <<removed, created>>
    BY <1>0, <2>2, <2>4, <2>7 DEF Planned
  <2> QED
    BY <1>0, <2>1, <2>2, <2>6, <2>7 DEF FileType
<1>7. CASE Restart
  BY <1>0, <1>7 DEF Planned, Stages, Obsolete, Involved, FileType, Restart
<1>8. CASE UndoCreation
  BY <1>0, <1>8 DEF Planned, Stages, Obsolete, Involved, FileType, UndoCreation
<1>9. CASE UndoRemoval
  BY <1>0, <1>9 DEF Planned, Stages, Obsolete, Involved, FileType, UndoRemoval
<1>10. CASE UndoEnds
  BY <1>0, <1>10 DEF Planned, Stages, Obsolete, Involved, FileType, UndoEnds
<1>11. CASE Reload
  BY <1>0, <1>11 DEF Planned, Stages, Obsolete, Involved, FileType, Reload
<1>12. CASE Save
  BY <1>0, <1>12 DEF Planned, Stages, Obsolete, Involved, FileType, Save
<1>13. CASE Bond
  BY <1>0, <1>13 DEF Planned, Stages, Obsolete, Involved, FileType, Bond
<1>14. CASE Erase
  BY <1>0, <1>14 DEF Planned, Stages, Obsolete, Involved, FileType, Erase
<1>15. CASE Killed
  BY <1>0, <1>15 DEF Planned, Stages, Obsolete, Involved, FileType, Killed
<1>16. CASE WirePlumberStarts
  BY <1>0, <1>16 DEF Planned, Stages, Obsolete, Involved, FileType, WirePlumberStarts
<1>17. CASE UnitStarts
  BY <1>0, <1>17 DEF Planned, Stages, Obsolete, Involved, FileType, UnitStarts
<1>18. CASE \E p \in Path : Edit(p)
  BY <1>0, <1>18 DEF Planned, Stages, Obsolete, Involved, FileType, Edit
<1>19. CASE UNCHANGED vars
  BY <1>0, <1>19 DEF Planned, Stages, Obsolete, Involved, FileType, vars
<1> QED
  BY <1>1, <1>2, <1>3, <1>4, <1>5, <1>6, <1>7, <1>8, <1>9, <1>10, <1>11, <1>12, <1>13, <1>14,
     <1>15, <1>16, <1>17, <1>18, <1>19
     DEF Next, Begins, Command

LEMMA LoadedNext == PersistenceInv /\ [Next]_vars => Loaded'
<1> SUFFICES ASSUME PersistenceInv, [Next]_vars PROVE Loaded'
  OBVIOUS
<1>0. Loaded /\ Planned /\ Stages /\ FileType /\ FlagType
  BY TypeParts DEF PersistenceInv
<1> USE DEF Begin, End, Goto, AudioFails, AudioDone, Undo, UndoFails, Works, Fails, Restarts,
   RestartFails, ReplaceFails, Firsts, Lasts, applying, undoing, filesVars, planVars,
   appliedVars, commandVars, stageVars, boundVars, historyVars
<1> USE DEF Conflict, Removals, Creations
<1>1. CASE BeginTeardown
  BY <1>0, <1>1 DEF Loaded, Stages, Planned, Obsolete, Involved, Ours, FileType, BeginTeardown
<1>2. CASE \E d \in Device : BeginSetup(d)
  BY <1>0, <1>2 DEF Loaded, Stages, Planned, Obsolete, Involved, Ours, FileType, BeginSetup
<1>3. CASE StopUnit
  BY <1>0, <1>3 DEF Loaded, Stages, Planned, Obsolete, Involved, Ours, FileType, StopUnit
<1>4. CASE Plan
  BY <1>0, <1>4 DEF Loaded, Stages, Planned, Obsolete, Involved, Ours, FileType, Plan
<1>5. CASE ApplyRemoval
  <2>1. PICK p \in Firsts(removals) :
          \/ /\ disk[p] # "absent" /\ disk' = [disk EXCEPT ![p] = "absent"]
             /\ removals' = removals \ {p} /\ removed' = removed \cup {p}
             /\ UNCHANGED <<pc, why, failures, fresh, faults, troubled>>
          \/ /\ IF disk[p] = "absent" THEN Works ELSE Fails
             /\ pc' = "undo" /\ why' = "change"
             /\ UNCHANGED <<disk, removals, removed, fresh, failures>>
    BY <1>5 DEF ApplyRemoval
  <2>2. /\ pc = "apply" /\ UNCHANGED <<creations, created, late, loaded, torn, raced, before>>
        /\ UNCHANGED <<op, previous, desired, result>>
    BY <1>5 DEF ApplyRemoval
  <2>3. /\ p \in Path /\ p \in Obsolete /\ p \notin Rules(desired) /\ p \notin created
        /\ ~raced \/ ~torn => disk[p] = "ours"
    BY <2>1, <2>2, RemovalFacts
  <2>4. Obsolete' = Obsolete /\ Involved' = Involved
    BY <2>2 DEF Obsolete, Involved
  <2>5. CASE pc' = pc
    BY <1>0, <2>1, <2>2, <2>3, <2>4, <2>5 DEF Loaded, Planned, FileType, Ours
  <2>6. CASE pc' = "undo"
    BY <1>0, <2>1, <2>2, <2>3, <2>4, <2>6 DEF Loaded, Planned, FileType, Ours
  <2> QED
    BY <2>1, <2>5, <2>6
<1>6. CASE ApplyCreation
  <2>1. PICK p \in Firsts(creations) :
          \/ /\ Works /\ disk' = [disk EXCEPT ![p] = "ours"]
             /\ creations' = creations \ {p} /\ created' = created \cup {p}
             /\ UNCHANGED <<pc, why, failures, late, torn>>
          \/ /\ (UNCHANGED <<disk, late>>) \/ (disk' = [disk EXCEPT ![p] = "ours"] /\ late' = TRUE)
             /\ torn' = (torn \/ late')
             /\ pc' = "undo" /\ why' = "change"
             /\ UNCHANGED <<creations, created, failures>>
    BY <1>6 DEF ApplyCreation
  <2>2. /\ pc = "apply" /\ removals = {} /\ UNCHANGED <<removals, removed, loaded>>
        /\ UNCHANGED <<raced, before, fresh, op, previous, desired, result>>
    BY <1>6 DEF ApplyCreation
  <2>3. /\ p \in Path /\ p \in Rules(desired) /\ p \notin Obsolete /\ p \notin removed
        /\ ~raced \/ ~torn => disk[p] = "absent"
    BY <2>1, <2>2, CreationFacts
  <2>4. Obsolete' = Obsolete /\ Involved' = Involved
    BY <2>2 DEF Obsolete, Involved
  <2>5. CASE pc' = pc
    BY <1>0, <2>1, <2>2, <2>3, <2>4, <2>5 DEF Loaded, Planned, FileType, Ours
  <2>6. CASE pc' = "undo"
    <3>1. why' = "change" /\ created' = created
      BY <2>1, <2>2, <2>6
    <3>2. disk' = disk \/ torn'
      BY <2>1, <2>2, <2>6
    <3>3. torn => torn'
      BY <2>1, <2>2, <2>6
    <3>4. ~torn => loaded = (Ours \ created) \cup removed
      BY <1>0, <2>2 DEF Loaded
    <3> QED
      BY <2>2, <2>6, <3>1, <3>2, <3>3, <3>4 DEF Loaded, Ours
  <2> QED
    BY <2>1, <2>5, <2>6
<1>7. CASE Restart
  BY <1>0, <1>7 DEF Loaded, Stages, Planned, Obsolete, Involved, Ours, FileType, Restart
<1>8. CASE UndoCreation
  BY <1>0, <1>8 DEF Loaded, Stages, Planned, Obsolete, Involved, Ours, FileType, UndoCreation
<1>9. CASE UndoRemoval
  BY <1>0, <1>9 DEF Loaded, Stages, Planned, Obsolete, Involved, Ours, FileType, UndoRemoval
<1>10. CASE UndoEnds
  BY <1>0, <1>10 DEF Loaded, Stages, Planned, Obsolete, Involved, Ours, FileType, UndoEnds
<1>11. CASE Reload
  BY <1>0, <1>11 DEF Loaded, Stages, Planned, Obsolete, Involved, Ours, FileType, Reload
<1>12. CASE Save
  BY <1>0, <1>12 DEF Loaded, Stages, Planned, Obsolete, Involved, Ours, FileType, Save
<1>13. CASE Bond
  BY <1>0, <1>13 DEF Loaded, Stages, Planned, Obsolete, Involved, Ours, FileType, Bond
<1>14. CASE Erase
  BY <1>0, <1>14 DEF Loaded, Stages, Planned, Obsolete, Involved, Ours, FileType, Erase
<1>15. CASE Killed
  BY <1>0, <1>15 DEF Loaded, Stages, Planned, Obsolete, Involved, Ours, FileType, Killed
<1>16. CASE WirePlumberStarts
  BY <1>0, <1>16 DEF Loaded, Stages, Planned, Obsolete, Involved, Ours, FileType,
     WirePlumberStarts
<1>17. CASE UnitStarts
  BY <1>0, <1>17 DEF Loaded, Stages, Planned, Obsolete, Involved, Ours, FileType, UnitStarts
<1>18. CASE \E p \in Path : Edit(p)
  BY <1>0, <1>18 DEF Loaded, Stages, Planned, Obsolete, Involved, Ours, FileType, Edit
<1>19. CASE UNCHANGED vars
  BY <1>0, <1>19 DEF Loaded, Stages, Planned, Obsolete, Involved, Ours, FileType, vars
<1> QED
  BY <1>1, <1>2, <1>3, <1>4, <1>5, <1>6, <1>7, <1>8, <1>9, <1>10, <1>11, <1>12, <1>13, <1>14,
     <1>15, <1>16, <1>17, <1>18, <1>19
     DEF Next, Begins, Command

LEMMA UndisturbedNext == PersistenceInv /\ [Next]_vars => Undisturbed'
<1> SUFFICES ASSUME PersistenceInv, [Next]_vars PROVE Undisturbed'
  OBVIOUS
<1>0. Undisturbed /\ Stages /\ Files /\ Planned /\ FlagType
  BY TypeParts DEF PersistenceInv
<1> USE DEF Begin, End, Goto, AudioFails, AudioDone, Undo, UndoFails, Works, Fails, Restarts,
   RestartFails, ReplaceFails, Firsts, Lasts, applying, undoing, filesVars, planVars,
   appliedVars, commandVars, stageVars, boundVars, historyVars
<1> USE DEF Conflict, Removals, Creations
<1>1. CASE BeginTeardown
  BY <1>0, <1>1 DEF Undisturbed, Stages, Files, Planned, Involved, BeginTeardown
<1>2. CASE \E d \in Device : BeginSetup(d)
  BY <1>0, <1>2 DEF Undisturbed, Stages, Files, Planned, Involved, BeginSetup
<1>3. CASE StopUnit
  BY <1>0, <1>3 DEF Undisturbed, Stages, Files, Planned, Involved, StopUnit
<1>4. CASE Plan
  BY <1>0, <1>4 DEF Undisturbed, Stages, Files, Planned, Involved, Plan
<1>5. CASE ApplyRemoval
  <2>1. PICK p \in Firsts(removals) :
          \/ /\ disk[p] # "absent" /\ disk' = [disk EXCEPT ![p] = "absent"]
             /\ removals' = removals \ {p} /\ removed' = removed \cup {p}
             /\ UNCHANGED <<pc, why, failures, fresh, faults, troubled>>
          \/ /\ IF disk[p] = "absent" THEN Works ELSE Fails
             /\ pc' = "undo" /\ why' = "change"
             /\ UNCHANGED <<disk, removals, removed, fresh, failures>>
    BY <1>5 DEF ApplyRemoval
  <2>2. /\ pc = "apply" /\ UNCHANGED <<creations, created, late, loaded, torn, raced, before>>
        /\ UNCHANGED <<op, previous, desired, result>>
    BY <1>5 DEF ApplyRemoval
  <2>3. /\ p \in Path /\ p \in Obsolete /\ p \notin Rules(desired) /\ p \notin created
        /\ ~raced \/ ~torn => disk[p] = "ours"
    BY <2>1, <2>2, RemovalFacts
  <2>4. Obsolete' = Obsolete /\ Involved' = Involved
    BY <2>2 DEF Obsolete, Involved
  <2>5. CASE pc' = pc
    BY <1>0, <2>1, <2>2, <2>3, <2>4, <2>5 DEF Undisturbed, Works, Fails, Planned
  <2>6. CASE pc' = "undo"
    BY <1>0, <2>1, <2>2, <2>3, <2>4, <2>6 DEF Undisturbed, Works, Fails, Planned
  <2> QED
    BY <2>1, <2>5, <2>6
<1>6. CASE ApplyCreation
  BY <1>0, <1>6 DEF Undisturbed, Stages, Files, Planned, Involved, ApplyCreation
<1>7. CASE Restart
  BY <1>0, <1>7 DEF Undisturbed, Stages, Files, Planned, Involved, Restart
<1>8. CASE UndoCreation
  BY <1>0, <1>8 DEF Undisturbed, Stages, Files, Planned, Involved, UndoCreation
<1>9. CASE UndoRemoval
  BY <1>0, <1>9 DEF Undisturbed, Stages, Files, Planned, Involved, UndoRemoval
<1>10. CASE UndoEnds
  BY <1>0, <1>10 DEF Undisturbed, Stages, Files, Planned, Involved, UndoEnds
<1>11. CASE Reload
  BY <1>0, <1>11 DEF Undisturbed, Stages, Files, Planned, Involved, Reload
<1>12. CASE Save
  BY <1>0, <1>12 DEF Undisturbed, Stages, Files, Planned, Involved, Save
<1>13. CASE Bond
  BY <1>0, <1>13 DEF Undisturbed, Stages, Files, Planned, Involved, Bond
<1>14. CASE Erase
  BY <1>0, <1>14 DEF Undisturbed, Stages, Files, Planned, Involved, Erase
<1>15. CASE Killed
  BY <1>0, <1>15 DEF Undisturbed, Stages, Files, Planned, Involved, Killed
<1>16. CASE WirePlumberStarts
  BY <1>0, <1>16 DEF Undisturbed, Stages, Files, Planned, Involved, WirePlumberStarts
<1>17. CASE UnitStarts
  BY <1>0, <1>17 DEF Undisturbed, Stages, Files, Planned, Involved, UnitStarts
<1>18. CASE \E p \in Path : Edit(p)
  BY <1>0, <1>18 DEF Undisturbed, Stages, Files, Planned, Involved, Edit
<1>19. CASE UNCHANGED vars
  BY <1>0, <1>19 DEF Undisturbed, Stages, Files, Planned, Involved, vars
<1> QED
  BY <1>1, <1>2, <1>3, <1>4, <1>5, <1>6, <1>7, <1>8, <1>9, <1>10, <1>11, <1>12, <1>13, <1>14,
     <1>15, <1>16, <1>17, <1>18, <1>19
     DEF Next, Begins, Command

LEMMA AllOrNothingNext == PersistenceInv /\ [Next]_vars => AllOrNothing'
<1> SUFFICES ASSUME PersistenceInv, [Next]_vars PROVE AllOrNothing'
  OBVIOUS
<1>0. AllOrNothing /\ DeviceType /\ Stages /\ Files /\ StageType /\ FlagType /\ FileType
  BY TypeParts DEF PersistenceInv
<1> USE DEF Begin, End, Goto, AudioFails, AudioDone, Undo, UndoFails, Works, Fails, Restarts,
   RestartFails, ReplaceFails, Firsts, Lasts, applying, undoing, filesVars, planVars,
   appliedVars, commandVars, stageVars, boundVars, historyVars
<1> USE DEF Conflict, Removals, Creations
<1>1. CASE BeginTeardown
  BY <1>0, <1>1 DEF AllOrNothing, Ended, Ours, StageType, Stages, Files, Settled, Obsolete,
     FileType, BeginTeardown
<1>2. CASE \E d \in Device : BeginSetup(d)
  BY <1>0, <1>2 DEF AllOrNothing, Ended, Ours, StageType, Stages, Files, Settled, Obsolete,
     FileType, BeginSetup
<1>3. CASE StopUnit
  BY <1>0, <1>3 DEF AllOrNothing, Ended, Ours, StageType, Stages, Files, Settled, Obsolete,
     FileType, StopUnit
<1>4. CASE Plan
  BY <1>0, <1>4 DEF AllOrNothing, Ended, Ours, StageType, Stages, Files, Settled, Obsolete,
     FileType, Plan
<1>5. CASE ApplyRemoval
  BY <1>0, <1>5 DEF AllOrNothing, Ended, Ours, StageType, Stages, Files, Settled, Obsolete,
     FileType, ApplyRemoval
<1>6. CASE ApplyCreation
  BY <1>0, <1>6 DEF AllOrNothing, Ended, Ours, StageType, Stages, Files, Settled, Obsolete,
     FileType, ApplyCreation
<1>7. CASE Restart
  BY <1>0, <1>7 DEF AllOrNothing, Ended, Ours, StageType, Stages, Files, Settled, Obsolete,
     FileType, Restart
<1>8. CASE UndoCreation
  BY <1>0, <1>8 DEF AllOrNothing, Ended, Ours, StageType, Stages, Files, Settled, Obsolete,
     FileType, UndoCreation
<1>9. CASE UndoRemoval
  BY <1>0, <1>9 DEF AllOrNothing, Ended, Ours, StageType, Stages, Files, Settled, Obsolete,
     FileType, UndoRemoval
<1>10. CASE UndoEnds
  BY <1>0, <1>10 DEF AllOrNothing, Ended, Ours, StageType, Stages, Files, Settled, Obsolete,
     FileType, UndoEnds
<1>11. CASE Reload
  BY <1>0, <1>11 DEF AllOrNothing, Ended, Ours, StageType, Stages, Files, Settled, Obsolete,
     FileType, Reload
<1>12. CASE Save
  <2>1. /\ pc = "save" /\ UNCHANGED <<disk, raced, previous, desired, before>>
        /\ op = "setup" /\ before.config = previous /\ config = previous /\ ~late
    BY <1>0, <1>12 DEF Save, Stages, StageType
  <2>2. CASE pc' = "idle" /\ result' = "complete" /\ config' = desired
    <3>1. ~raced => Settled
      BY <1>0, <2>1 DEF Files
    <3>2. ~raced' => Rules(desired') \subseteq Ours' /\
                     \A p \in Rules(previous') \ Rules(desired') : disk'[p] = "absent"
      BY <1>0, <2>1, <3>1, RulesType DEF Settled, Obsolete, Ours, DeviceType
    <3> QED
      BY <2>1, <2>2, <3>2 DEF AllOrNothing, Ended
  <2>3. CASE /\ pc' = "idle" /\ result' = "configuration-write-failed"
             /\ created = {} /\ removed = {} /\ (config' = config \/ late')
    <3>1. ~raced => disk = before.disk
      <4>1. disk \in [Path -> {"absent", "ours", "foreign"}]
            /\ before.disk \in [Path -> {"absent", "ours", "foreign"}]
        BY <1>0 DEF FileType
      <4>2. ~raced => \A q \in Path : disk[q] = before.disk[q]
        BY <1>0, <2>1, <2>3 DEF Files
      <4> QED
        BY <4>1, <4>2
    <3>2. ~raced' /\ ~late' => before' = [disk |-> disk', config |-> config']
      BY <1>0, <2>1, <2>3, <3>1 DEF FileType
    <3> QED
      BY <2>1, <2>3, <3>2 DEF AllOrNothing, Ended
  <2>4. CASE pc' = "undo"
    BY <2>4 DEF AllOrNothing, Ended
  <2> QED
    BY <1>12, <2>2, <2>3, <2>4 DEF Save
<1>13. CASE Bond
  BY <1>0, <1>13 DEF AllOrNothing, Ended, Ours, StageType, Stages, Files, Settled, Obsolete,
     FileType, Bond
<1>14. CASE Erase
  <2>1. /\ pc = "erase" /\ UNCHANGED <<disk, raced, previous, desired, before>>
        /\ pc' = "idle" /\ op = "teardown" /\ desired = None /\ ~failures
        /\ \/ result' = "complete" /\ config' = None
           \/ result' = "failed" /\ config' = config
    BY <1>0, <1>14 DEF Erase, Stages, StageType
  <2>2. config = previous
    BY <1>0, <2>1 DEF Stages
  <2>3. ~raced => Settled
    BY <1>0, <2>1 DEF Files
  <2>4. ~raced' => Rules(desired') \subseteq Ours' /\
                   \A p \in Rules(previous') \ Rules(desired') : disk'[p] = "absent"
    BY <1>0, <2>1, <2>3, RulesType DEF Settled, Obsolete, Ours, DeviceType
  <2> QED
    BY <2>1, <2>2, <2>4 DEF AllOrNothing, Ended
<1>15. CASE Killed
  BY <1>0, <1>15 DEF AllOrNothing, Ended, Ours, StageType, Stages, Files, Settled, Obsolete,
     FileType, Killed
<1>16. CASE WirePlumberStarts
  BY <1>0, <1>16 DEF AllOrNothing, Ended, Ours, StageType, Stages, Files, Settled, Obsolete,
     FileType, WirePlumberStarts
<1>17. CASE UnitStarts
  BY <1>0, <1>17 DEF AllOrNothing, Ended, Ours, StageType, Stages, Files, Settled, Obsolete,
     FileType, UnitStarts
<1>18. CASE \E p \in Path : Edit(p)
  BY <1>0, <1>18 DEF AllOrNothing, Ended, Ours, StageType, Stages, Files, Settled, Obsolete,
     FileType, Edit
<1>19. CASE UNCHANGED vars
  BY <1>0, <1>19 DEF AllOrNothing, Ended, Ours, StageType, Stages, Files, Settled, Obsolete,
     FileType, vars
<1> QED
  BY <1>1, <1>2, <1>3, <1>4, <1>5, <1>6, <1>7, <1>8, <1>9, <1>10, <1>11, <1>12, <1>13, <1>14,
     <1>15, <1>16, <1>17, <1>18, <1>19
     DEF Next, Begins, Command

LEMMA RetrySucceedsNext == PersistenceInv /\ [Next]_vars => RetrySucceeds'
<1> SUFFICES ASSUME PersistenceInv, [Next]_vars PROVE RetrySucceeds'
  OBVIOUS
<1>0. RetrySucceeds /\ Undisturbed /\ Stages /\ Files /\ FlagType
  BY TypeParts DEF PersistenceInv
<1> USE DEF Begin, End, Goto, AudioFails, AudioDone, Undo, UndoFails, Works, Fails, Restarts,
   RestartFails, ReplaceFails, Firsts, Lasts, applying, undoing, filesVars, planVars,
   appliedVars, commandVars, stageVars, boundVars, historyVars
<1> USE DEF Conflict, Removals, Creations
<1>1. CASE BeginTeardown
  BY <1>0, <1>1 DEF RetrySucceeds, Undisturbed, Stages, Files, Involved, BeginTeardown
<1>2. CASE \E d \in Device : BeginSetup(d)
  BY <1>0, <1>2 DEF RetrySucceeds, Undisturbed, Stages, Files, Involved, BeginSetup
<1>3. CASE StopUnit
  BY <1>0, <1>3 DEF RetrySucceeds, Undisturbed, Stages, Files, Involved, StopUnit
<1>4. CASE Plan
  BY <1>0, <1>4 DEF RetrySucceeds, Undisturbed, Stages, Files, Involved, Plan
<1>5. CASE ApplyRemoval
  BY <1>0, <1>5 DEF RetrySucceeds, Undisturbed, Stages, Files, Involved, ApplyRemoval
<1>6. CASE ApplyCreation
  BY <1>0, <1>6 DEF RetrySucceeds, Undisturbed, Stages, Files, Involved, ApplyCreation
<1>7. CASE Restart
  BY <1>0, <1>7 DEF RetrySucceeds, Undisturbed, Stages, Files, Involved, Restart
<1>8. CASE UndoCreation
  BY <1>0, <1>8 DEF RetrySucceeds, Undisturbed, Stages, Files, Involved, UndoCreation
<1>9. CASE UndoRemoval
  BY <1>0, <1>9 DEF RetrySucceeds, Undisturbed, Stages, Files, Involved, UndoRemoval
<1>10. CASE UndoEnds
  BY <1>0, <1>10 DEF RetrySucceeds, Undisturbed, Stages, Files, Involved, UndoEnds
<1>11. CASE Reload
  BY <1>0, <1>11 DEF RetrySucceeds, Undisturbed, Stages, Files, Involved, Reload
<1>12. CASE Save
  BY <1>0, <1>12 DEF RetrySucceeds, Undisturbed, Stages, Files, Involved, Save
<1>13. CASE Bond
  BY <1>0, <1>13 DEF RetrySucceeds, Undisturbed, Stages, Files, Involved, Bond
<1>14. CASE Erase
  BY <1>0, <1>14 DEF RetrySucceeds, Undisturbed, Stages, Files, Involved, Erase
<1>15. CASE Killed
  BY <1>0, <1>15 DEF RetrySucceeds, Undisturbed, Stages, Files, Involved, Killed
<1>16. CASE WirePlumberStarts
  BY <1>0, <1>16 DEF RetrySucceeds, Undisturbed, Stages, Files, Involved, WirePlumberStarts
<1>17. CASE UnitStarts
  BY <1>0, <1>17 DEF RetrySucceeds, Undisturbed, Stages, Files, Involved, UnitStarts
<1>18. CASE \E p \in Path : Edit(p)
  BY <1>0, <1>18 DEF RetrySucceeds, Undisturbed, Stages, Files, Involved, Edit
<1>19. CASE UNCHANGED vars
  BY <1>0, <1>19 DEF RetrySucceeds, Undisturbed, Stages, Files, Involved, vars
<1> QED
  BY <1>1, <1>2, <1>3, <1>4, <1>5, <1>6, <1>7, <1>8, <1>9, <1>10, <1>11, <1>12, <1>13, <1>14,
     <1>15, <1>16, <1>17, <1>18, <1>19
     DEF Next, Begins, Command

-----------------------------------------------------------------------------
(* The inductive invariant *)

LEMMA InvInit == Init => PersistenceInv
<1> SUFFICES ASSUME Init PROVE PersistenceInv
  OBVIOUS
<1>1. TypeOK
  <2>1. FileType /\ DeviceType /\ ChangeType
    BY PathAssumption DEF Init, FileType, DeviceType, ChangeType
  <2>2. StageType /\ CountType
    BY BoundAssumption DEF Init, StageType, CountType
  <2>3. FlagType
    BY DEF Init, FlagType
  <2> QED
    BY <2>1, <2>2, <2>3, TypeParts
<1>2. Stages /\ Files /\ Planned /\ Undisturbed
  BY DEF Init, Stages, Files, Planned, Undisturbed
<1>3. Loaded /\ AllOrNothing /\ RetrySucceeds
  BY DEF Init, Loaded, Ours, AllOrNothing, Ended, RetrySucceeds
<1> QED
  BY <1>1, <1>2, <1>3 DEF PersistenceInv

LEMMA TypeNext == PersistenceInv /\ [Next]_vars => TypeOK'
<1>1. PersistenceInv /\ [Next]_vars =>
        (FileType /\ DeviceType /\ StageType /\ ChangeType /\ CountType /\ FlagType)'
  BY FileTypeNext, DeviceTypeNext, StageTypeNext, ChangeTypeNext, CountTypeNext, FlagTypeNext
<1> QED
  BY <1>1, TypeParts, PTL

LEMMA InvNext == PersistenceInv /\ [Next]_vars => PersistenceInv'
BY TypeNext, StagesNext, FilesNext, PlannedNext, LoadedNext, UndisturbedNext, AllOrNothingNext,
   RetrySucceedsNext DEF PersistenceInv

\* The inductive invariant of setup and teardown on disk.
THEOREM PersistenceInvCorrect == Spec => []PersistenceInv
BY InvInit, InvNext, PTL DEF Spec

-----------------------------------------------------------------------------
(* What the ends of a command promise *)

\* Stages, files and what is planned keep their types, for any number of devices,
\* failures and edits.
THEOREM TypeOKCorrect == Spec => []TypeOK
<1>1. PersistenceInv => TypeOK
  BY DEF PersistenceInv
<1> QED
  BY <1>1, PersistenceInvCorrect, PTL

\* Rules and configuration change together or not at all, whichever operations fail,
\* unless the end says cleanup-failed or something the promise excepts came in between.
THEOREM AllOrNothingCorrect == Spec => []AllOrNothing
<1>1. PersistenceInv => AllOrNothing
  BY DEF PersistenceInv
<1> QED
  BY <1>1, PersistenceInvCorrect, PTL

\* WirePlumber has the rules that are on disk whenever a command has exited and nothing
\* came between the two.
THEOREM LoadedCorrect == Spec => []LoadedUnlessTorn
<1>1. PersistenceInv => LoadedUnlessTorn
  BY DEF PersistenceInv, Loaded, LoadedUnlessTorn
<1> QED
  BY <1>1, PersistenceInvCorrect, PTL

\* A command can be rerun after any end of the one before: it completes when none of its
\* own operations fails.
THEOREM RetryCorrect == Spec => []RetrySucceeds
<1>1. PersistenceInv => RetrySucceeds
  BY DEF PersistenceInv
<1> QED
  BY <1>1, PersistenceInvCorrect, PTL

-----------------------------------------------------------------------------
(* What a step may never do *)

LEMMA DiskFrame ==
    [Next]_vars =>
        \/ ApplyRemoval \/ ApplyCreation \/ UndoCreation \/ UndoRemoval
        \/ \E p \in Path : Edit(p)
        \/ disk' = disk
BY DEF Next, Begins, Command, Begin, vars, filesVars, undoing, BeginTeardown, BeginSetup,
   StopUnit, Plan, Restart, UndoEnds, Reload, Save, Bond, Erase, Killed, WirePlumberStarts,
   UnitStarts

LEMMA ForeignStep ==
    PersistenceInv /\ [Next]_vars /\ edits' = edits =>
        \A p \in Path : disk[p] = "foreign" /\ disk'[p] # "foreign" =>
            p \notin fresh /\ pc = "apply"
<1> SUFFICES ASSUME PersistenceInv, [Next]_vars, edits' = edits,
                    NEW p \in Path, disk[p] = "foreign", disk'[p] # "foreign",
                    p \in fresh \/ pc # "apply"
             PROVE  FALSE
  OBVIOUS
<1>0. Planned /\ FileType /\ ChangeType /\ CountType
  BY TypeParts DEF PersistenceInv
<1>1. CASE ApplyRemoval
  <2>1. PICK q \in Firsts(removals) :
          pc = "apply" /\ (disk' = disk \/ disk' = [disk EXCEPT ![q] = "absent"])
    BY <1>1 DEF ApplyRemoval
  <2>2. q = p
    BY <1>0, <2>1 DEF FileType
  <2> QED
    BY <1>0, <2>1, <2>2 DEF Planned, Firsts
<1>2. CASE ApplyCreation
  <2>1. PICK q \in Firsts(creations) :
          pc = "apply" /\ (disk' = disk \/ disk' = [disk EXCEPT ![q] = "ours"])
    BY <1>2 DEF ApplyCreation, ReplaceFails
  <2>2. q = p
    BY <1>0, <2>1 DEF FileType
  <2> QED
    BY <1>0, <2>1, <2>2 DEF Planned, Firsts
<1>3. CASE UndoCreation
  BY <1>0, <1>3 DEF UndoCreation, FileType, Lasts
<1>4. CASE UndoRemoval
  BY <1>0, <1>4 DEF UndoRemoval, ReplaceFails, FileType, Lasts
<1>5. CASE \E q \in Path : Edit(q)
  BY <1>0, <1>5 DEF Edit, CountType
<1> QED
  BY <1>1, <1>2, <1>3, <1>4, <1>5, DiskFrame

\* A rule file the user wrote is never changed by a command whose plan saw it, nor by
\* any rollback, whenever it was written.
THEOREM ForeignSurvivesCorrect == Spec => ForeignSurvives
<1>1. PersistenceInv /\ [Next]_vars =>
        [edits' = edits =>
            \A p \in Path : disk[p] = "foreign" /\ disk'[p] # "foreign" =>
                p \notin fresh /\ pc = "apply"]_vars
  BY ForeignStep
<1> QED
  BY <1>1, PersistenceInvCorrect, PTL DEF Spec, ForeignSurvives

LEMMA ErasedBy == PersistenceInv /\ [Next]_vars /\ config # None /\ config' = None => Erase
<1> SUFFICES ASSUME PersistenceInv, [Next]_vars, config # None, config' = None, ~Erase
             PROVE  FALSE
  OBVIOUS
<1>1. Stages /\ StageType
  BY TypeParts DEF PersistenceInv
<1>2. CASE Save
  <2>1. config' \in {config, desired} /\ op = "setup"
    BY <1>1, <1>2 DEF Save, StageType, Stages
  <2> QED
    BY <1>1, <2>1, PathAssumption DEF Stages, Path
<1>3. CASE config' = config
  BY <1>3
<1> QED
  BY <1>2, <1>3 DEF Next, Begins, Command, Begin, vars, filesVars, undoing, applying,
     BeginTeardown, BeginSetup, StopUnit, Plan, ApplyRemoval, ApplyCreation, Restart,
     UndoCreation, UndoRemoval, UndoEnds, Reload, Bond, Killed, WirePlumberStarts, UnitStarts,
     Edit

LEMMA LastStep ==
    PersistenceInv /\ [Next]_vars =>
        (config # None /\ config' = None /\ ~raced =>
            /\ unit = "stopped"
            /\ \A p \in Rules(config) : disk[p] = "absent"
            /\ ~torn => loaded \cap Rules(config) = {}
            /\ forget => config \notin bonds)
<1> SUFFICES ASSUME PersistenceInv, [Next]_vars, config # None, config' = None, ~raced
             PROVE  /\ unit = "stopped"
                    /\ \A p \in Rules(config) : disk[p] = "absent"
                    /\ ~torn => loaded \cap Rules(config) = {}
                    /\ forget => config \notin bonds
  OBVIOUS
<1>1. Stages /\ StageType /\ Files /\ Loaded /\ FileType
  BY TypeParts DEF PersistenceInv
<1>2. pc = "erase" /\ op = "teardown"
  BY <1>1, ErasedBy DEF Erase, StageType, Stages
<1>3. config = previous /\ desired = None /\ ~failures
  BY <1>1, <1>2 DEF Stages
<1>4. \A p \in Rules(config) : disk[p] = "absent"
  BY <1>1, <1>2, <1>3 DEF Files, Settled, Obsolete, Rules
<1>5. ~torn => loaded \cap Rules(config) = {}
  BY <1>1, <1>2, <1>4 DEF Loaded, Ours
<1> QED
  BY <1>1, <1>2, <1>3, <1>4, <1>5 DEF Stages

\* The configuration goes last: after the unit, the rules and the bond to forget.
THEOREM GoesLastCorrect == Spec => ConfigurationGoesLast
<1>1. PersistenceInv /\ [Next]_vars =>
        [config # None /\ config' = None /\ ~raced =>
            /\ unit = "stopped"
            /\ \A p \in Rules(config) : disk[p] = "absent"
            /\ ~torn => loaded \cap Rules(config) = {}
            /\ forget => config \notin bonds]_vars
  BY LastStep
<1> QED
  BY <1>1, PersistenceInvCorrect, PTL DEF Spec, ConfigurationGoesLast

-----------------------------------------------------------------------------
(* Transaction is implemented *)

Holder == Device \cup {None, Mixed}

LEMMA HoldingType == \A files : Holding(files) \in Holder
BY DEF Holding, Holder

\* The rules of a device are told from those of any other, and from none.
LEMMA LayoutInjective ==
    \A g, h \in Device \cup {None} : Layout(g) = Layout(h) => g = h
<1> SUFFICES ASSUME NEW g \in Device \cup {None}, NEW h \in Device \cup {None},
                    Layout(g) = Layout(h)
             PROVE  g = h
  OBVIOUS
<1>1. \A p \in Path : p \in Rules(g) <=> p \in Rules(h)
  <2>1. \A p \in Path : Layout(g)[p] = (IF p \in Rules(g) THEN "ours" ELSE "absent")
                        /\ Layout(h)[p] = (IF p \in Rules(h) THEN "ours" ELSE "absent")
    BY DEF Layout
  <2> QED
    BY <2>1
<1> QED
  BY <1>1, PathAssumption DEF Rules, Path

LEMMA HoldingLayout == \A h \in Device \cup {None} : Holding(Layout(h)) = h
BY LayoutInjective DEF Holding

LEMMA HoldingIs ==
    \A files : \A h \in Device \cup {None} : Holding(files) = h => files = Layout(h)
BY PathAssumption DEF Holding

\* Where the rules are seen, and the stage.
LEMMA Seen ==
    /\ Changing \/ pc = "stop" => Held = Holding(before.disk)
    /\ ~Changing /\ pc # "stop" => Held = Holding(disk)
    /\ Changing => Stage = "change"
    /\ pc \in {"bond", "erase"} => Stage = IF failures THEN "keep" ELSE "erase"
    /\ pc \in {"idle", "stop"} => Stage = pc
BY DEF Held, Stage, Changing


LEMMA SeenNext ==
    /\ (Changing \/ pc = "stop")' => Held' = Holding(before'.disk)
    /\ ~Changing' /\ pc' # "stop" => Held' = Holding(disk')
    /\ Changing' => Stage' = "change"
    /\ pc' \in {"bond", "erase"} => Stage' = IF failures' THEN "keep" ELSE "erase"
    /\ pc' \in {"idle", "stop"} => Stage' = pc'
BY DEF Held, Stage, Changing

\* The files were of nobody, of the previous or of the desired device, and are settled:
\* they are the desired device's.
LEMMA Lands ==
    TypeOK /\ Settled /\ Holding(before.disk) \in {None, previous, desired} =>
        Holding(disk) = desired
<1> SUFFICES ASSUME TypeOK, Settled, Holding(before.disk) \in {None, previous, desired}
             PROVE  Holding(disk) = desired
  OBVIOUS
<1>1. DeviceType /\ FileType
  BY TypeParts
<1>2. PICK h \in {None, previous, desired} : Holding(before.disk) = h
  OBVIOUS
<1>3. before.disk = Layout(h)
  BY <1>1, <1>2, HoldingIs DEF DeviceType
<1>4. \A p \in Path : disk[p] = IF p \in Rules(desired) THEN "ours" ELSE "absent"
  <2> SUFFICES ASSUME NEW p \in Path
               PROVE  disk[p] = IF p \in Rules(desired) THEN "ours" ELSE "absent"
    OBVIOUS
  <2>1. CASE p \in Rules(desired)
    BY <2>1 DEF Settled
  <2>2. CASE p \in Obsolete
    BY <2>2 DEF Settled, Obsolete
  <2>3. CASE p \notin Involved
    <3>1. disk[p] = Layout(h)[p]
      BY <1>3, <2>3 DEF Settled
    <3>2. p \notin Rules(h) /\ p \notin Rules(desired)
      BY <2>3 DEF Involved, Rules
    <3> QED
      BY <3>1, <3>2 DEF Layout
  <2> QED
    BY <2>1, <2>2, <2>3 DEF Involved, Obsolete
<1>5. disk = Layout(desired)
  BY <1>1, <1>4 DEF FileType, Layout
<1> QED
  BY <1>1, <1>5, HoldingLayout DEF DeviceType

\* An operation that fails late: in a setup it may be the save.
Slipping ==
    \/ UNCHANGED <<config, late>>
    \/ late' = TRUE /\ config' \in {config} \cup IF op = "setup" THEN {desired} ELSE {}

Change ==
    \/ Plan
    \/ ApplyRemoval
    \/ ApplyCreation
    \/ Restart
    \/ UndoCreation
    \/ UndoRemoval
    \/ UndoEnds
    \/ Reload
    \/ Save

\* How a step of a change goes on or ends.
ChangeGoes ==
    /\ Changing /\ UNCHANGED <<unit, op, previous, desired, before, raced>>
    /\ \/ Changing' /\ UNCHANGED result /\ Slipping
       \/ op = "setup" /\ pc' = "idle" /\ Slipping
          /\ result' \in {"audio-unavailable", "audio-rule-conflict", "audio-restart-failed",
                          "configuration-write-failed", "cleanup-failed"}
       \/ op = "teardown" /\ pc' = "bond" /\ UNCHANGED <<config, result>> /\ Slipping
          /\ (~failures' => UNCHANGED late)
       \/ op = "setup" /\ pc = "save" /\ pc' = "idle" /\ result' = "complete"
          /\ config' = desired /\ UNCHANGED <<disk, late>>

LEMMA ChangeEnds == PersistenceInv /\ Change => ChangeGoes
<1> SUFFICES ASSUME PersistenceInv, Change PROVE ChangeGoes
  OBVIOUS
<1>0. StageType /\ (op = "none" => pc = "idle") /\ (why = "save" => op = "setup")
      /\ (pc \in {"undo", "reload"} => why # "none")
  BY TypeParts DEF PersistenceInv, Stages
<1> USE <1>0 DEF ChangeGoes, Slipping, Changing, StageType
<1> USE DEF Begin, End, Goto, AudioFails, AudioDone, Undo, UndoFails, Works, Fails, Restarts,
   RestartFails, ReplaceFails, applying, undoing, filesVars, planVars, appliedVars,
   commandVars, stageVars, boundVars, historyVars
<1>1. CASE Plan
  BY <1>1 DEF Plan
<1>2. CASE ApplyRemoval
  BY <1>2 DEF ApplyRemoval
<1>3. CASE ApplyCreation
  BY <1>3 DEF ApplyCreation
<1>4. CASE Restart
  BY <1>4 DEF Restart
<1>5. CASE UndoCreation
  BY <1>5 DEF UndoCreation
<1>6. CASE UndoRemoval
  BY <1>6 DEF UndoRemoval
<1>7. CASE UndoEnds
  BY <1>7 DEF UndoEnds
<1>8. CASE Reload
  BY <1>8 DEF Reload
<1>9. CASE Save
  BY <1>9 DEF Save
<1> QED
  BY <1>1, <1>2, <1>3, <1>4, <1>5, <1>6, <1>7, <1>8, <1>9 DEF Change

LEMMA ChangeStep ==
    PersistenceInv /\ PersistenceInv' /\ Change =>
        [Promise!Next]_<<config, Held, unit, Stage, op, desired, result, Loose>>
<1> SUFFICES ASSUME PersistenceInv, PersistenceInv', Change
             PROVE  \/ Promise!Next
                    \/ UNCHANGED <<config, Held, unit, Stage, op, desired, result, Loose>>
  OBVIOUS
<1>0. /\ Changing /\ Stage = "change" /\ Held = Holding(before.disk)
      /\ UNCHANGED <<unit, op, previous, desired, before, raced>>
      /\ Held' \in Holder /\ raced \in BOOLEAN /\ late \in BOOLEAN /\ late' \in BOOLEAN
  BY ChangeEnds, Seen, HoldingType DEF ChangeGoes, PersistenceInv, TypeOK, Held
<1>1. Slipping => Promise!Slips
  BY <1>0 DEF Slipping, Promise!Slips, Loose
<1>2. CASE Changing' /\ UNCHANGED result /\ Slipping
  <2>1. UNCHANGED <<Held, Stage>>
    BY <1>0, <1>2, SeenNext
  <2>2. Promise!Slip
    BY <1>0, <1>1, <1>2, <2>1 DEF Promise!Slip
  <2> QED
    BY <2>2 DEF Promise!Next, Promise!Work
<1>3. CASE /\ op = "setup" /\ pc' = "idle" /\ Slipping
           /\ result' \in {"audio-unavailable", "audio-rule-conflict", "audio-restart-failed",
                           "configuration-write-failed"}
  <2>1. Stage' = "idle" /\ Held' = Holding(disk')
    BY <1>3, SeenNext DEF Changing
  <2>2. ~raced' /\ ~late' => before'.disk = disk'
    BY <1>3 DEF PersistenceInv, AllOrNothing, Ended
  <2>3. Promise!Leaves(Held)
    BY <1>0, <2>1, <2>2 DEF Promise!Leaves, Promise!Holder, Holder, Loose
  <2>4. Promise!Refuse(result')
    BY <1>0, <1>1, <1>3, <2>1, <2>3 DEF Promise!Refuse, Promise!Exit
  <2> QED
    BY <1>3, <2>4 DEF Promise!Next, Promise!Work, Promise!Refusal
<1>4. CASE op = "setup" /\ pc' = "idle" /\ Slipping /\ result' = "cleanup-failed"
  <2>1. Stage' = "idle"
    BY <1>4, SeenNext DEF Changing
  <2>2. Promise!Break("cleanup-failed")
    BY <1>0, <1>1, <1>4, <2>1 DEF Promise!Break, Promise!Exit, Promise!Holder, Holder
  <2> QED
    BY <2>2 DEF Promise!Next, Promise!Work
<1>5. CASE /\ op = "teardown" /\ pc' = "bond" /\ UNCHANGED <<config, result>> /\ Slipping
           /\ (~failures' => UNCHANGED late)
  <2>1. Stage' = IF failures' THEN "keep" ELSE "erase"
    BY <1>5, SeenNext
  <2>2. CASE failures'
    <3>1. Promise!GiveUpHalf
      BY <1>0, <1>1, <1>5, <2>1, <2>2 DEF Promise!GiveUpHalf, Promise!Holder, Holder
    <3> QED
      BY <3>1 DEF Promise!Next, Promise!Work
  <2>3. CASE ~failures'
    <3>1. Loose \/ unit = "stopped"
      BY <1>0, <1>5, <2>3 DEF PersistenceInv, Stages, Loose
    <3>2. UNCHANGED Loose
      BY <1>0, <1>5, <2>3 DEF Loose
    <3>3. config = previous /\ desired = None
      BY <1>0, <1>5 DEF PersistenceInv, Stages, Changing
    <3>4. ~raced' => Settled'
      BY <1>5, <2>3 DEF PersistenceInv, Files
    <3>5. (TypeOK /\ Settled /\ Holding(before.disk) \in {None, previous, desired} =>
              Holding(disk) = desired)'
      BY Lands, PTL
    <3>6. ~raced /\ Held \in {None, config, None} => Held' = None
      BY <1>0, <1>5, <3>3, <3>4, <3>5, SeenNext DEF PersistenceInv, Changing
    <3>7. Promise!Replaces(None)
      BY <1>0, <1>5, <3>6 DEF Promise!Replaces, Promise!Leaves, Promise!Holder, Holder, Loose
    <3> QED
      BY <1>0, <1>5, <2>1, <2>3, <3>1, <3>2, <3>7
         DEF Promise!GiveUp, Promise!Next, Promise!Work
  <2> QED
    BY <2>2, <2>3
<1>6. CASE /\ op = "setup" /\ pc = "save" /\ pc' = "idle" /\ result' = "complete"
           /\ config' = desired /\ UNCHANGED <<disk, late>>
  <2>1. Stage' = "idle" /\ Held' = Holding(disk)
    BY <1>6, SeenNext DEF Changing
  <2>2. ~raced => Settled
    BY <1>6 DEF PersistenceInv, Files
  <2>3. config = previous
    BY <1>6 DEF PersistenceInv, Stages
  <2>4. ~raced /\ Held \in {None, config, desired} => Held' = desired
    BY <1>0, <2>1, <2>2, <2>3, Lands DEF PersistenceInv
  <2>5. Promise!Replaces(desired)
    BY <1>0, <1>6, <2>4 DEF Promise!Replaces, Promise!Leaves, Promise!Holder, Holder, Loose
  <2>6. Promise!Commit
    BY <1>0, <1>6, <2>1, <2>5 DEF Promise!Commit, Promise!Exit, Loose
  <2> QED
    BY <2>6 DEF Promise!Next, Promise!Work
<1> QED
  BY <1>2, <1>3, <1>4, <1>5, <1>6, ChangeEnds DEF ChangeGoes

LEMMA ImplementsInit == Init => Promise!Init
<1> SUFFICES ASSUME Init PROVE Promise!Init
  OBVIOUS
<1>1. Held = Holding(disk) /\ Stage = "idle"
  BY Seen DEF Init, Changing
<1>2. disk = Layout(None)
  BY DEF Init, Layout, Rules
<1>3. Held = None
  BY <1>1, <1>2, HoldingLayout
<1>4. Loose = FALSE
  BY DEF Init, Loose
<1> QED
  BY <1>1, <1>3, <1>4 DEF Init, Promise!Init

LEMMA ImplementsNext ==
    PersistenceInv /\ PersistenceInv' /\ [Next]_vars =>
        [Promise!Next]_<<config, Held, unit, Stage, op, desired, result, Loose>>
<1> SUFFICES ASSUME PersistenceInv, PersistenceInv', [Next]_vars
             PROVE  \/ Promise!Next
                    \/ UNCHANGED <<config, Held, unit, Stage, op, desired, result, Loose>>
  OBVIOUS
<1>0. /\ Held \in Holder /\ Held' \in Holder /\ Stages /\ Files /\ StageType /\ FlagType
      /\ Stages' /\ Files'
  BY HoldingType, TypeParts DEF PersistenceInv, Held
<1> USE DEF commandVars, stageVars, boundVars, filesVars, planVars, appliedVars, Goto, End
<1>1. CASE Change
  BY <1>1, ChangeStep
<1>2. CASE BeginTeardown \/ \E d \in Device : BeginSetup(d)
  <2>1. /\ pc = "idle" /\ UNCHANGED <<disk, config, unit>> /\ before'.disk = disk
        /\ raced' = FALSE /\ late' = FALSE /\ result' = "none"
        /\ \/ op' = "teardown" /\ config # None /\ desired' = None /\ pc' = "stop"
           \/ op' = "setup" /\ desired' \in Device /\ pc' = "plan"
    BY <1>2 DEF BeginTeardown, BeginSetup, Begin
  <2>2. Stage = "idle" /\ Held = Holding(disk)
    BY <2>1, Seen DEF Changing
  <2>3. Held' = Held /\ (pc' = "stop" => Stage' = "stop") /\ (pc' = "plan" => Stage' = "change")
    BY <2>1, <2>2, SeenNext DEF Changing
  <2>4. Loose' = FALSE
    BY <2>1 DEF Loose
  <2>5. Promise!TeardownBegins \/ \E d \in Device : Promise!SetupBegins(d)
    BY <2>1, <2>2, <2>3, <2>4 DEF Promise!TeardownBegins, Promise!SetupBegins, Promise!Begin
  <2> QED
    BY <2>5 DEF Promise!Next, Promise!Work
<1>3. CASE StopUnit
  <2>1. /\ pc = "stop" /\ pc' = "plan" /\ unit' \in {unit, "stopped"}
        /\ UNCHANGED <<config, op, desired, result, raced, late, before>>
    BY <1>3 DEF StopUnit
  <2>2. Stage = "stop" /\ Stage' = "change" /\ Held' = Held /\ Loose' = Loose
    BY <2>1, Seen, SeenNext DEF Changing, Loose
  <2>3. Promise!Stop(unit')
    BY <2>1, <2>2 DEF Promise!Stop
  <2> QED
    BY <2>1, <2>3 DEF Promise!Next
<1>4. CASE Bond
  <2>1. /\ pc = "bond" /\ UNCHANGED <<disk, config, unit, op, desired, raced, late>>
        /\ \/ pc' = "erase" /\ UNCHANGED <<result, failures>>
           \/ pc' = "idle" /\ result' = "failed"
    BY <1>4 DEF Bond
  <2>2. Stage \in {"keep", "erase"} /\ Held' = Held /\ Loose' = Loose
        /\ (pc' = "erase" => Stage' = Stage) /\ (pc' = "idle" => Stage' = "idle")
    BY <2>1, Seen, SeenNext DEF Changing, Loose
  <2>3. pc' = "idle" => Promise!Fail
    BY <2>1, <2>2 DEF Promise!Fail, Promise!Exit
  <2> QED
    BY <2>1, <2>2, <2>3 DEF Promise!Next, Promise!Work
<1>5. CASE Erase
  <2>1. /\ pc = "erase" /\ pc' = "idle" /\ UNCHANGED <<disk, unit, op, desired, raced, late>>
        /\ \/ config' = None /\ result' = "complete"
           \/ UNCHANGED config /\ result' = "failed"
    BY <1>5 DEF Erase
  <2>2. Stage = "erase" /\ Held' = Held /\ Loose' = Loose /\ Stage' = "idle"
    BY <1>0, <2>1, Seen, SeenNext DEF Changing, Loose, Stages
  <2>3. Promise!Erase \/ Promise!Fail
    BY <2>1, <2>2 DEF Promise!Erase, Promise!Fail, Promise!Exit
  <2> QED
    BY <2>3 DEF Promise!Next, Promise!Work
<1>6. CASE Killed
  <2>1. /\ pc # "idle" /\ pc' = "idle" /\ result' = "killed"
        /\ UNCHANGED <<disk, config, unit, op, desired, raced, late, before>>
    BY <1>6 DEF Killed
  <2>2. Stage # "idle" /\ Stage' = "idle" /\ Loose' = Loose
    BY <1>0, <2>1, Seen, SeenNext DEF Changing, Loose, StageType
  <2>3. Stage # "change" /\ ~Loose => Held' = Held
    BY <1>0, <2>1, Seen, SeenNext DEF Changing, Files, Loose
  <2>4. Promise!Break("killed")
    BY <1>0, <2>1, <2>2, <2>3
       DEF Promise!Break, Promise!Slips, Promise!Exit, Promise!Holder, Holder
  <2> QED
    BY <2>4 DEF Promise!Next, Promise!Work
<1>7. CASE \E p \in Path : Edit(p)
  <2>1. /\ raced' = TRUE
        /\ UNCHANGED <<config, unit, pc, op, desired, result, before, failures>>
    BY <1>7 DEF Edit
  <2>2. Stage' = Stage /\ Loose' = TRUE /\ (Changing \/ pc = "stop" => Held' = Held)
    BY <2>1, Seen, SeenNext DEF Changing, Loose, Stage
  <2>3. Stage \in {"idle", "erase", "keep"} \/ Changing \/ pc = "stop"
    BY <1>0, Seen DEF StageType, Changing
  <2>4. Promise!Disturb
    BY <1>0, <2>1, <2>2, <2>3, Seen DEF Promise!Disturb, Promise!Holder, Holder
  <2> QED
    BY <2>4 DEF Promise!Next
<1>8. CASE WirePlumberStarts
  BY <1>8 DEF WirePlumberStarts, Held, Stage, Loose, Changing
<1>9. CASE UnitStarts
  <2>1. /\ unit = "stopped" /\ config # None /\ unit' = "running" /\ raced' = TRUE
        /\ UNCHANGED <<disk, config, pc, op, desired, result, before, failures>>
    BY <1>9 DEF UnitStarts
  <2>2. Stage' = Stage /\ Loose' = TRUE /\ Held' = Held
    BY <2>1 DEF Changing, Loose, Stage, Held
  <2>3. Promise!UnitBegins
    BY <2>1, <2>2 DEF Promise!UnitBegins
  <2> QED
    BY <2>3 DEF Promise!Next
<1>10. CASE UNCHANGED vars
  BY <1>10 DEF vars, historyVars, Held, Stage, Loose, Changing
<1> QED
  BY <1>1, <1>2, <1>3, <1>4, <1>5, <1>6, <1>7, <1>8, <1>9, <1>10
     DEF Next, Begins, Command, Change

\* Setup and teardown, one file operation at a time, are the commands of Transaction.
THEOREM KeepsPromiseCorrect == Spec => KeepsPromise
<1>1. PersistenceInv /\ PersistenceInv' /\ [Next]_vars =>
        [Promise!Next]_<<config, Held, unit, Stage, op, desired, result, Loose>>
  BY ImplementsNext
<1> QED
  BY <1>1, ImplementsInit, PersistenceInvCorrect, PTL
     DEF Spec, KeepsPromise, Promise!Spec, Promise!transactionVars

=============================================================================
