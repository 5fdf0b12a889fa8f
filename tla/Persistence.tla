---------------------------- MODULE Persistence ----------------------------
(***************************************************************************)
(* What setup and teardown leave on disk: the commit of a setup            *)
(* (commit_persistent of src/setup/production.rs) and Teardown::run of     *)
(* src/teardown.rs, over the audio rules of src/audio.rs, the replacement  *)
(* of a file in src/atomic_file.rs and the configuration of src/config.rs. *)
(*                                                                         *)
(* One command runs at a time, one file operation or systemctl call per    *)
(* step.  Each may fail, the process may be killed between any two of      *)
(* them, and the user may edit a rule file at any moment.  A replacement   *)
(* has three outcomes: done, failed with the file as it was, and "late",   *)
(* an error after the rename, with the new file in place.                  *)
(*                                                                         *)
(* pc is where the command stands:                                         *)
(*   "stop"    teardown, before the unit is stopped and disabled           *)
(*   "plan"    before the rule files are read                              *)
(*   "apply"   files to remove and create, then WirePlumber to restart     *)
(*   "undo"    rollback_files, its cause in why                            *)
(*   "reload"  the files are back, WirePlumber is restarted again          *)
(*   "save"    setup, before the configuration is written                  *)
(*   "bond"    teardown, before the bond is removed if it was asked to     *)
(*   "erase"   teardown, before the configuration is removed               *)
(* and "idle" once it has exited, with its result.                         *)
(***************************************************************************)
EXTENDS Naturals

CONSTANTS
    Device,     \* Bluetooth identities
    Role,       \* the path of the rule all devices share
    Rank,       \* where a BTreeMap keeps a rule path
    None,       \* no device
    Mixed,      \* rules of no device in particular
    MaxFaults,  \* bound: operations that fail and kills, in one behaviour
    MaxEdits    \* bound: edits by the user

Path == Device \cup {Role}

ASSUME PathAssumption ==
    /\ Role \notin Device /\ None \notin Path
    /\ Mixed \notin Device \cup {None}
ASSUME RankAssumption ==
    /\ Rank \in [Path -> Nat]
    /\ \A p, q \in Path : Rank[p] = Rank[q] => p = q
ASSUME BoundAssumption == MaxFaults \in Nat /\ MaxEdits \in Nat

VARIABLES
    disk,       \* rule files: "absent", "ours" (canonical content) or "foreign"
    loaded,     \* rules WirePlumber read when it last started; {} if it is down
    config,     \* the configured device, or None without a configuration
    bonds,      \* devices BlueZ has a bond with
    unit,       \* the service: "running" or "stopped"
    pc, op,     \* op: "setup", "teardown" or "none" before the first command
    previous, desired,   \* whose rules were, and are to be; None: nobody's
    forget,              \* teardown --forget-device
    removals, creations, \* RuleChange planned: paths still to remove and create
    removed, created,    \* RuleChange applied
    why,        \* what rollback_files follows: "none", "change", "restart", "save"
    failures,   \* teardown has collected a failure
    result,     \* how the last command ended
    faults, edits,       \* to bound the model
    before,     \* history: rule files and configuration when the command began
    fresh,      \* history: rule files unchanged since the command read them
    raced,      \* history: an edit, or a start of the unit, during or since the command
    troubled,   \* history: an operation of the command failed
    late,       \* history: a replacement of the command failed late
    torn        \* history: WirePlumber may be behind, see LoadedUnlessTorn

filesVars == <<disk, config>>
planVars == <<removals, creations>>
appliedVars == <<removed, created>>
commandVars == <<op, previous, desired, forget>>
stageVars == <<pc, result>>
boundVars == <<faults, edits>>
historyVars == <<before, fresh, raced, troubled, late, torn>>
vars == <<filesVars, loaded, bonds, unit, stageVars, commandVars, planVars, appliedVars,
          why, failures, boundVars, historyVars>>

Rules(d) == IF d = None THEN {} ELSE {d, Role}
Ours == {p \in Path : disk[p] = "ours"}

-----------------------------------------------------------------------------
(* Faults, ends and rollbacks *)

Fails == faults < MaxFaults /\ faults' = faults + 1 /\ troubled' = TRUE
Works == UNCHANGED <<faults, troubled>>

\* The command exits.
End(code) ==
    /\ pc' = "idle"
    /\ result' = code
    /\ removals' = {} /\ creations' = {}
    /\ removed' = {} /\ created' = {}
    /\ why' = "none"

Goto(stage) == pc' = stage /\ UNCHANGED result

\* The audio rules failed with code: setup ends, teardown goes on.
AudioFails(code) ==
    IF op = "setup"
    THEN End(code) /\ UNCHANGED failures
    ELSE /\ Goto("bond")
         /\ failures' = TRUE
         /\ UNCHANGED <<planVars, appliedVars, why>>

\* Mutant of AudioDone: a teardown goes on like a setup.
AudioDoneSaves == Goto("save") /\ UNCHANGED failures

\* The rules are as desired.  Setup keeps the change for a later rollback.
AudioDone ==
    /\ Goto(IF op = "setup" THEN "save" ELSE "bond")
    /\ UNCHANGED failures

\* rollback_files begins.
Undo(cause) ==
    /\ Goto("undo")
    /\ why' = cause
    /\ UNCHANGED failures

\* Mutant of UndoFails: the rollback's failure is not told.
UndoFailsQuietly(text) ==
    /\ torn' = TRUE
    /\ AudioFails(IF why = "save" THEN "configuration-write-failed" ELSE "audio-restart-failed")

\* rollback_files stops with an error.  commit_persistent looks for
\* audio-rule-conflict first, and the error after a failed restart quotes the
\* rollback's.
UndoFails(text) ==
    /\ torn' = TRUE
    /\ AudioFails(IF why = "restart" /\ text = "audio-rule-conflict"
                  THEN text ELSE "cleanup-failed")

-----------------------------------------------------------------------------
(* Commands begin *)

Begin(name, from, to, stage) ==
    /\ pc = "idle"
    /\ op' = name
    /\ previous' = from /\ desired' = to
    /\ pc' = stage
    /\ result' = "none"
    /\ failures' = FALSE
    /\ before' = [disk |-> disk, config |-> config]
    /\ fresh' = {} /\ raced' = FALSE /\ troubled' = FALSE /\ late' = FALSE
    /\ UNCHANGED <<filesVars, loaded, unit, planVars, appliedVars, why, boundVars, torn>>

\* A setup has bonded with d, verified it and cleaned up: SetupProtocol commits.
BeginSetup(d) ==
    /\ Begin("setup", config, d, "plan")
    /\ bonds' = bonds \cup {d}
    /\ forget' = FALSE

\* Teardown of the configured device; without a configuration it does nothing.
BeginTeardown ==
    /\ config # None
    /\ Begin("teardown", config, None, "stop")
    /\ forget' \in BOOLEAN
    /\ UNCHANGED bonds

\* stop_and_disable, unless the unit cannot be queried or stopped.
StopUnit ==
    /\ pc = "stop"
    /\ \/ Works /\ unit' = "stopped" /\ UNCHANGED failures
       \/ Fails /\ UNCHANGED unit /\ failures' = TRUE
    /\ Goto("plan")
    /\ UNCHANGED <<filesVars, loaded, bonds, commandVars, planVars, appliedVars, why, edits,
                   before, fresh, raced, late, torn>>

-----------------------------------------------------------------------------
(* reconcile: the rule files *)

Involved == Rules(previous) \cup Rules(desired)

\* A rule to be removed is removed if it is ours, one to be there is created
\* where there is none; content that is neither is a conflict.
Conflict == \E p \in Involved : disk[p] = "foreign"

\* Mutant of Removals: a file that is gone already is to be removed.
RemovalsOfAll == Rules(previous) \ Rules(desired)

Removals == {p \in Rules(previous) \ Rules(desired) : disk[p] # "absent"}
Creations == {p \in Rules(desired) : disk[p] # "ours"}

\* Every file is read before one is changed.  A file that cannot be read, or
\* for setup a WirePlumber that does not exist, leaves all as it is.
Plan ==
    /\ pc = "plan"
    /\ fresh' = Involved
    /\ \/ Fails /\ AudioFails("audio-unavailable") /\ UNCHANGED <<planVars, appliedVars, why>>
       \/ /\ Works /\ Conflict
          /\ AudioFails("audio-rule-conflict")
          /\ UNCHANGED <<planVars, appliedVars, why>>
       \/ /\ Works /\ ~Conflict
          /\ removals' = Removals /\ creations' = Creations
          /\ IF Removals = {} /\ Creations = {} THEN AudioDone
                                                    ELSE Goto("apply") /\ UNCHANGED failures
          /\ UNCHANGED <<appliedVars, why>>
    /\ UNCHANGED <<filesVars, loaded, bonds, unit, commandVars, edits, before, raced, late, torn>>

\* The files of a RuleChange are in the order of their paths.
Firsts(paths) == {p \in paths : \A q \in paths : Rank[p] <= Rank[q]}
Lasts(paths) == {p \in paths : \A q \in paths : Rank[q] <= Rank[p]}

applying == <<config, loaded, bonds, unit, commandVars, edits, before, raced, torn>>

ApplyRemoval ==
    /\ pc = "apply"
    /\ \E p \in Firsts(removals) :
       \/ /\ Works /\ disk[p] # "absent"
          /\ disk' = [disk EXCEPT ![p] = "absent"]
          /\ removals' = removals \ {p}
          /\ removed' = removed \cup {p}
          /\ fresh' = fresh
          /\ UNCHANGED <<stageVars, why, failures>>
       \/ /\ IF disk[p] = "absent" THEN Works ELSE Fails
          /\ Undo("change")
          /\ UNCHANGED <<disk, removals, removed, fresh>>
    /\ UNCHANGED <<applying, creations, created, late>>

\* replace_preserving_directories, when it returns an error: before the rename
\* the file is as it was, after it the new content is there.
ReplaceFails(p) ==
    /\ Fails
    /\ \/ UNCHANGED <<disk, late>>
       \/ disk' = [disk EXCEPT ![p] = "ours"] /\ late' = TRUE

\* A file whose creation failed late is not in the change to roll back.
ApplyCreation ==
    /\ pc = "apply" /\ removals = {}
    /\ \E p \in Firsts(creations) :
       \/ /\ Works
          /\ disk' = [disk EXCEPT ![p] = "ours"]
          /\ creations' = creations \ {p}
          /\ created' = created \cup {p}
          /\ UNCHANGED <<stageVars, why, failures, late, torn>>
       \/ /\ ReplaceFails(p)
          /\ torn' = (torn \/ late')
          /\ Undo("change")
          /\ UNCHANGED <<creations, created>>
    /\ UNCHANGED <<config, loaded, bonds, unit, commandVars, removals, removed, edits,
                   before, fresh, raced>>

\* WirePlumber restarts and reads the rules, or it does not and may be down.
Restarts == loaded' = Ours /\ torn' = FALSE
RestartFails == loaded' \in {loaded, {}} /\ torn' = TRUE

\* reconcile_with_reload: a changed set is loaded, or rolled back.
Restart ==
    /\ pc = "apply" /\ removals = {} /\ creations = {}
    /\ \/ Works /\ Restarts /\ AudioDone /\ UNCHANGED why
       \/ Fails /\ RestartFails /\ Undo("restart")
    /\ UNCHANGED <<filesVars, bonds, unit, commandVars, planVars, appliedVars, edits,
                   before, fresh, raced, late>>

-----------------------------------------------------------------------------
(* rollback_change: created rules go, then removed ones come back, last first *)

undoing == <<config, loaded, bonds, unit, commandVars, edits, before, fresh, raced>>

\* Mutant of UndoCreation: what is at the path is removed without reading it.
UndoCreationBlind ==
    /\ pc = "undo"
    /\ \E p \in Lasts(created) :
       \/ /\ Works
          /\ disk' = [disk EXCEPT ![p] = "absent"]
          /\ created' = created \ {p}
          /\ UNCHANGED <<stageVars, planVars, removed, why, failures, torn>>
       \/ Fails /\ UndoFails("io") /\ UNCHANGED disk
    /\ UNCHANGED <<undoing, late>>

\* The check and the removal that follows it are one step.
UndoCreation ==
    /\ pc = "undo"
    /\ \E p \in Lasts(created) :
       \/ /\ Works /\ disk[p] # "foreign"
          /\ disk' = [disk EXCEPT ![p] = "absent"]
          /\ created' = created \ {p}
          /\ UNCHANGED <<stageVars, planVars, removed, why, failures, torn>>
       \/ /\ Works /\ disk[p] = "foreign"
          /\ UndoFails("audio-rule-conflict")
          /\ UNCHANGED disk
       \/ /\ Fails /\ disk[p] # "foreign"
          /\ UndoFails("io")
          /\ UNCHANGED disk
    /\ UNCHANGED <<undoing, late>>

UndoRemoval ==
    /\ pc = "undo" /\ created = {}
    /\ \E p \in Lasts(removed) :
       \/ /\ Works /\ disk[p] # "foreign"
          /\ disk' = [disk EXCEPT ![p] = "ours"]
          /\ removed' = removed \ {p}
          /\ UNCHANGED <<stageVars, planVars, created, why, failures, late, torn>>
       \/ /\ Works /\ disk[p] = "foreign"
          /\ UndoFails("audio-rule-conflict")
          /\ UNCHANGED <<disk, late>>
       \/ /\ ReplaceFails(p) /\ disk[p] = "absent"
          /\ UndoFails("io")
    /\ UNCHANGED undoing

\* Everything is back.  A change that never reached WirePlumber needs no reload.
UndoEnds ==
    /\ pc = "undo" /\ created = {} /\ removed = {}
    /\ IF why = "change"
       THEN AudioFails("audio-unavailable")
       ELSE Goto("reload") /\ UNCHANGED <<planVars, appliedVars, why, failures>>
    /\ Works
    /\ UNCHANGED <<undoing, disk, late, torn>>

\* Mutant of Reload: the restored rules are not loaded.
ReloadNothing ==
    /\ pc = "reload"
    /\ Works
    /\ UNCHANGED loaded /\ torn' = FALSE
    /\ AudioFails(IF why = "save" THEN "configuration-write-failed" ELSE "audio-restart-failed")
    /\ UNCHANGED <<filesVars, bonds, unit, commandVars, edits, before, fresh, raced, late>>

Reload ==
    /\ pc = "reload"
    /\ \/ /\ Works /\ Restarts
          /\ AudioFails(IF why = "save" THEN "configuration-write-failed"
                                        ELSE "audio-restart-failed")
       \/ /\ Fails /\ RestartFails
          /\ AudioFails("cleanup-failed")
    /\ UNCHANGED <<filesVars, bonds, unit, commandVars, edits, before, fresh, raced, late>>

-----------------------------------------------------------------------------
(* The configuration, and the rest of teardown *)

\* Mutant of Save: the rules stay when the configuration is not saved.
SaveKeepsRules ==
    /\ pc = "save"
    /\ \/ Works /\ config' = desired /\ End("complete")
       \/ Fails /\ UNCHANGED config /\ End("configuration-write-failed")
    /\ UNCHANGED <<disk, loaded, bonds, unit, commandVars, failures, edits, before, fresh, raced,
                   late, torn>>

\* A change that was applied is rolled back when the configuration is not saved.
Save ==
    /\ pc = "save"
    /\ \/ /\ Works
          /\ config' = desired
          /\ End("complete")
          /\ UNCHANGED <<failures, late>>
       \/ /\ Fails
          /\ \/ UNCHANGED <<config, late>>
             \/ config' = desired /\ late' = TRUE
          /\ IF created = {} /\ removed = {}
             THEN End("configuration-write-failed") /\ UNCHANGED failures
             ELSE Undo("save") /\ UNCHANGED <<planVars, appliedVars>>
    /\ UNCHANGED <<disk, loaded, bonds, unit, commandVars, edits, before, fresh, raced, torn>>

\* Mutant of Bond: what failed before is forgotten.
BondForgetsFailures ==
    /\ pc = "bond"
    /\ \/ Works /\ bonds' = IF forget THEN bonds \ {previous} ELSE bonds
       \/ Fails /\ forget /\ UNCHANGED bonds
    /\ Goto("erase")
    /\ UNCHANGED <<filesVars, loaded, unit, commandVars, planVars, appliedVars, why, failures,
                   edits, before, fresh, raced, late, torn>>

\* remove_exact, if asked for; a bond that is gone already is no failure.  The
\* configuration is only removed when nothing failed.
Bond ==
    /\ pc = "bond"
    /\ \/ /\ Works
          /\ bonds' = IF forget THEN bonds \ {previous} ELSE bonds
          /\ IF failures
             THEN End("failed")
             ELSE Goto("erase") /\ UNCHANGED <<planVars, appliedVars, why>>
       \/ Fails /\ forget /\ UNCHANGED bonds /\ End("failed")
    /\ UNCHANGED <<filesVars, loaded, unit, commandVars, failures, edits, before, fresh, raced,
                   late, torn>>

Erase ==
    /\ pc = "erase"
    /\ \/ Works /\ config' = None /\ End("complete")
       \/ Fails /\ UNCHANGED config /\ End("failed")
    /\ UNCHANGED <<disk, loaded, bonds, unit, commandVars, failures, edits, before, fresh, raced,
                   late, torn>>

-----------------------------------------------------------------------------
(* External: what ends the process, edits its files and restarts services *)

Killed ==
    /\ pc # "idle"
    /\ Fails
    /\ End("killed")
    /\ torn' = TRUE
    /\ UNCHANGED <<filesVars, loaded, bonds, unit, commandVars, failures, edits,
                   before, fresh, raced, late>>

\* The user writes a rule file of ours, or removes it.
Edit(p) ==
    /\ edits < MaxEdits
    /\ edits' = edits + 1
    /\ disk' = [disk EXCEPT ![p] = IF disk[p] = "foreign" THEN "absent" ELSE "foreign"]
    /\ fresh' = fresh \ {p} /\ raced' = TRUE /\ torn' = TRUE
    /\ UNCHANGED <<config, loaded, bonds, unit, stageVars, commandVars, planVars, appliedVars,
                   why, failures, faults, before, troubled, late>>

\* A login, or the service manager, starts WirePlumber.
WirePlumberStarts ==
    /\ loaded' = Ours
    /\ torn' = (pc # "idle")
    /\ UNCHANGED <<filesVars, bonds, unit, stageVars, commandVars, planVars, appliedVars,
                   why, failures, boundVars, before, fresh, raced, troubled, late>>

\* systemctl --user enable --now, once there is a configuration.
UnitStarts ==
    /\ unit = "stopped" /\ config # None
    /\ unit' = "running"
    /\ raced' = TRUE
    /\ UNCHANGED <<filesVars, loaded, bonds, stageVars, commandVars, planVars, appliedVars,
                   why, failures, boundVars, before, fresh, troubled, late, torn>>

-----------------------------------------------------------------------------
Init ==
    /\ disk = [p \in Path |-> "absent"]
    /\ loaded = {}
    /\ config = None
    /\ bonds = {}
    /\ unit = "stopped"
    /\ pc = "idle" /\ op = "none" /\ result = "none"
    /\ previous = None /\ desired = None /\ forget = FALSE
    /\ removals = {} /\ creations = {} /\ removed = {} /\ created = {}
    /\ why = "none" /\ failures = FALSE
    /\ faults = 0 /\ edits = 0
    /\ before = [disk |-> disk, config |-> config]
    /\ fresh = {} /\ raced = FALSE /\ troubled = FALSE /\ late = FALSE /\ torn = FALSE

Command ==
    \/ StopUnit \/ Plan \/ ApplyRemoval \/ ApplyCreation \/ Restart
    \/ UndoCreation \/ UndoRemoval \/ UndoEnds \/ Reload
    \/ Save \/ Bond \/ Erase

Begins == BeginTeardown \/ \E d \in Device : BeginSetup(d)

Next == Begins \/ Command \/ Killed \/ WirePlumberStarts \/ UnitStarts \/ \E p \in Path : Edit(p)

Spec == Init /\ [][Next]_vars

-----------------------------------------------------------------------------
(* Properties *)

TypeOK ==
    /\ disk \in [Path -> {"absent", "ours", "foreign"}]
    /\ loaded \subseteq Path
    /\ config \in Device \cup {None} /\ bonds \subseteq Device
    /\ unit \in {"running", "stopped"}
    /\ pc \in {"idle", "stop", "plan", "apply", "undo", "reload", "save", "bond", "erase"}
    /\ op \in {"none", "setup", "teardown"} /\ forget \in BOOLEAN
    /\ op = "setup" => pc \notin {"stop", "bond", "erase"}
    /\ op = "teardown" => pc # "save"
    /\ previous \in Device \cup {None} /\ desired \in Device \cup {None}
    /\ removals \subseteq Path /\ creations \subseteq Path
    /\ removed \subseteq Path /\ created \subseteq Path
    /\ why \in {"none", "change", "restart", "save"} /\ failures \in BOOLEAN
    /\ faults \in 0..MaxFaults /\ edits \in 0..MaxEdits
    /\ fresh \subseteq Path
    /\ before \in [disk : [Path -> {"absent", "ours", "foreign"}], config : Device \cup {None}]
    /\ raced \in BOOLEAN /\ troubled \in BOOLEAN /\ late \in BOOLEAN /\ torn \in BOOLEAN

\* "Conflicting content is preserved": what the user wrote over a rule is replaced
\* only by the removals and creations of a plan that was made before it was written.
\* A plan that saw it is a conflict, and no rollback takes it for a rule of its own.
ForeignSurvives ==
    [][edits' = edits =>
          \A p \in Path : disk[p] = "foreign" /\ disk'[p] # "foreign" =>
              p \notin fresh /\ pc = "apply"]_vars

Ended(codes) == pc = "idle" /\ result \in codes

\* A setup that completes has its rules and its configuration, and the rules it
\* replaces are gone.  One that fails leaves rules and configuration as they
\* were, except where it says cleanup-failed, where the user interfered, and
\* where a replacement failed late.  A failed teardown keeps the configuration.
AllOrNothing ==
    /\ Ended({"complete"}) /\ ~raced =>
        /\ config = desired
        /\ Rules(desired) \subseteq Ours
        /\ \A p \in Rules(previous) \ Rules(desired) : disk[p] = "absent"
    /\ Ended({"audio-unavailable", "audio-rule-conflict", "audio-restart-failed",
              "configuration-write-failed"}) /\ ~raced /\ ~late =>
        before = [disk |-> disk, config |-> config]
    /\ Ended({"failed"}) => config = previous

\* WirePlumber runs with the rules on disk when a command has exited, whichever
\* way, unless it was killed, an edit or a start of WirePlumber came in between,
\* a rollback failed or a replacement failed late, and nothing restarted it since.
LoadedUnlessTorn == pc = "idle" /\ ~torn => loaded = Ours

\* "Can be rerun safely": whatever was left behind, a command none of whose
\* operations fails, and that meets no foreign rule, completes.
RetrySucceeds ==
    pc = "idle" /\ op # "none" /\ ~troubled /\ ~raced
        /\ (\A p \in Involved : before.disk[p] # "foreign")
      => result = "complete"

\* "Remove configuration last", and "retained whenever a required cleanup step
\* fails": it goes when the unit, the rules and the bond to forget are gone.
ConfigurationGoesLast ==
    [][config # None /\ config' = None /\ ~raced =>
          /\ unit = "stopped"
          /\ \A p \in Rules(config) : disk[p] = "absent"
          /\ ~torn => loaded \cap Rules(config) = {}
          /\ forget => config \notin bonds]_vars

\* The rule files of h alone, and whose the files are.
Layout(h) == [p \in Path |-> IF p \in Rules(h) THEN "ours" ELSE "absent"]
Holding(files) ==
    IF \E h \in Device \cup {None} : files = Layout(h)
    THEN CHOOSE h \in Device \cup {None} : files = Layout(h)
    ELSE Mixed

\* The abstract specification is implemented: seen from outside, files change
\* when a command goes on to the configuration or exits, and not before.
Changing == pc \in {"plan", "apply", "undo", "reload", "save"}
Held == Holding(IF Changing \/ pc = "stop" THEN before.disk ELSE disk)
Stage ==
    CASE Changing -> "change"
      [] pc \in {"bond", "erase"} -> IF failures THEN "keep" ELSE "erase"
      [] OTHER -> pc
Loose == raced \/ late

Promise == INSTANCE Transaction WITH
    rules <- Held, stage <- Stage, target <- desired, loose <- Loose

KeepsPromise == Promise!Spec

\* "Complete is impossible before audio suppression succeeds": a completed command
\* leaves WirePlumber with the rules on disk.  The code breaks this: killed
\* between the files and the restart, it finds them as desired when run again,
\* and does not restart.
CompleteIsLoaded ==
    Ended({"complete"}) /\ ~raced =>
        loaded \cap Involved = Ours \cap Involved

=============================================================================
