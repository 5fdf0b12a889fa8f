---------------------------- MODULE Transaction ----------------------------
(***************************************************************************)
(* What setup and teardown promise about the device's configuration and    *)
(* its audio rules, seen from outside: a setup commits both at once or     *)
(* neither, a teardown gives up the rules first and the configuration      *)
(* last, and only a command that was killed, that says its cleanup failed  *)
(* or that was disturbed leaves rules of neither kind behind.  Persistence *)
(* is the code, and implements this.                                       *)
(*                                                                         *)
(* loose is TRUE once something the promise does not cover has happened    *)
(* to the command: an edit of its files, a start of the unit, or an        *)
(* operation that failed although it took effect.                          *)
(***************************************************************************)

CONSTANTS
    Device,
    None,       \* nobody's
    Mixed       \* rules of nobody in particular

ASSUME HolderAssumption == None \notin Device /\ Mixed \notin Device \cup {None}

VARIABLES
    config,     \* the configured device, or None without a configuration
    rules,      \* whose rules the files are when no command is changing them
    unit,       \* the service: "running" or "stopped"
    stage,      \* the command: "idle", "stop", "change", "erase" or "keep"
    op,         \* "setup", "teardown" or "none" before the first command
    target,     \* whom the command is for; None for a teardown
    result,     \* how the last command ended
    loose

transactionVars == <<config, rules, unit, stage, op, target, result, loose>>

Holder == Device \cup {None, Mixed}
Refusal == {"audio-unavailable", "audio-rule-conflict", "audio-restart-failed",
            "configuration-write-failed"}

\* An operation fails although it took effect: in a setup it may be the
\* configuration that is in place.
Slips ==
    \/ UNCHANGED <<config, loose>>
    \/ /\ stage = "change"
       /\ loose' = TRUE
       /\ config' \in {config} \cup IF op = "setup" THEN {target} ELSE {}

\* The rules are as promised, unless something came in between.
Leaves(holder) == rules' \in IF loose' THEN Holder ELSE {holder}

\* Rules that a command killed earlier left of another device are not looked for.
Replaces(holder) == IF rules \in {None, config, holder} THEN Leaves(holder) ELSE rules' \in Holder

Exit(code) == stage' = "idle" /\ result' = code

-----------------------------------------------------------------------------
Begin(name, to, first) ==
    /\ stage = "idle"
    /\ op' = name /\ target' = to /\ stage' = first
    /\ result' = "none"
    /\ loose' = FALSE
    /\ UNCHANGED <<config, rules, unit>>

SetupBegins(d) == Begin("setup", d, "change")

TeardownBegins == config # None /\ Begin("teardown", None, "stop")

\* The unit is stopped and disabled, or that fails; the rest goes on.
Stop(state) ==
    /\ stage = "stop"
    /\ stage' = "change"
    /\ unit' = state
    /\ UNCHANGED <<config, rules, op, target, result, loose>>

Commit ==
    /\ op = "setup" /\ stage = "change"
    /\ UNCHANGED <<unit, op, target, loose>>
    /\ config' = target
    /\ Replaces(target)
    /\ Exit("complete")

Refuse(code) ==
    /\ op = "setup" /\ stage = "change"
    /\ Slips
    /\ Leaves(rules)
    /\ Exit(code)
    /\ UNCHANGED <<unit, op, target>>

\* A rollback failed, and the command says so, or the command was killed.
Break(code) ==
    /\ stage # "idle"
    /\ code = "cleanup-failed" => op = "setup" /\ stage = "change"
    /\ Slips
    /\ rules' \in IF stage = "change" \/ loose' THEN Holder ELSE {rules}
    /\ Exit(code)
    /\ UNCHANGED <<unit, op, target>>

\* Teardown gives the rules up and goes on to the configuration.
GiveUp ==
    /\ op = "teardown" /\ stage = "change"
    /\ loose \/ unit = "stopped"
    /\ UNCHANGED <<config, unit, op, target, result, loose>>
    /\ Replaces(None)
    /\ stage' = "erase"

\* Something failed; it goes on, but keeps the configuration.
GiveUpHalf ==
    /\ op = "teardown" /\ stage = "change"
    /\ Slips
    /\ rules' \in Holder
    /\ stage' = "keep"
    /\ UNCHANGED <<unit, op, target, result>>

Erase ==
    /\ stage = "erase"
    /\ config' = None
    /\ Exit("complete")
    /\ UNCHANGED <<rules, unit, op, target, loose>>

Fail ==
    /\ stage \in {"erase", "keep"}
    /\ Exit("failed")
    /\ UNCHANGED <<config, rules, unit, op, target, loose>>

\* A setup goes on to undo what it did.
Slip ==
    /\ Slips
    /\ UNCHANGED <<rules, unit, stage, op, target, result>>

\* A rule file is edited.
Disturb ==
    /\ loose' = TRUE
    /\ rules' \in IF stage \in {"idle", "erase", "keep"} THEN Holder ELSE {rules}
    /\ UNCHANGED <<config, unit, stage, op, target, result>>

UnitBegins ==
    /\ unit = "stopped" /\ config # None
    /\ unit' = "running"
    /\ loose' = TRUE
    /\ UNCHANGED <<config, rules, stage, op, target, result>>

-----------------------------------------------------------------------------
Init ==
    /\ config = None /\ rules = None
    /\ unit = "stopped"
    /\ stage = "idle" /\ op = "none" /\ target = None /\ result = "none"
    /\ loose = FALSE

\* What commands do, without the unit and its daemon.
Work ==
    \/ \E d \in Device : SetupBegins(d)
    \/ TeardownBegins
    \/ Commit \/ \E code \in Refusal : Refuse(code)
    \/ \E code \in {"cleanup-failed", "killed"} : Break(code)
    \/ GiveUp \/ GiveUpHalf \/ Erase \/ Fail \/ Slip

Next ==
    \/ Work \/ Disturb \/ UnitBegins
    \/ \E state \in {unit, "stopped"} : Stop(state)

Spec == Init /\ [][Next]_transactionVars

-----------------------------------------------------------------------------
(* Properties *)

TransactionTypeOK ==
    /\ config \in Device \cup {None}
    /\ rules \in Holder
    /\ unit \in {"running", "stopped"}
    /\ stage \in {"idle", "stop", "change", "erase", "keep"}
    /\ op \in {"none", "setup", "teardown"}
    /\ target \in Device \cup {None}
    /\ result \in {"none", "complete", "cleanup-failed", "killed", "failed"} \cup Refusal
    /\ loose \in BOOLEAN

=============================================================================
