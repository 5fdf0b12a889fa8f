------------------------------- MODULE Setup -------------------------------
(***************************************************************************)
(* The setup transaction: SetupProtocol of src/setup/mod.rs over           *)
(* BluerSetupBackend and AgentGate of src/setup/production.rs, with the    *)
(* caller on stdin and stdout, BlueZ and the phones as the environment.    *)
(*                                                                         *)
(* pc names the await the protocol stands at: "start", one of Preparing    *)
(* (inside prepare), "candidate", "confirm", "settle" (the rest of         *)
(* answer_confirmation), "verify", one of Cleaning (inside                 *)
(* cleanup_temporary), "commit" and "done".  Where the code selects, a     *)
(* command, a signal or a deadline drops what stands there.  BlueZ calls   *)
(* the agent while it is registered, wherever the protocol is.             *)
(***************************************************************************)
EXTENDS Naturals, Sequences, FiniteSets

CONSTANTS
    Device, NoDevice,  \* phones, by identity address
    Found,             \* the adapter settings setup may find
    Named,             \* whom the configuration may name, NoDevice without one
    MaxCalls,          \* bound: agent calls of BlueZ
    MaxSent            \* bound: lines of the caller

ASSUME DeviceAssumption == NoDevice \notin Device
ASSUME NamedAssumption == Named \subseteq Device \cup {NoDevice}
ASSUME BoundsAssumption == MaxCalls \in Nat /\ MaxSent \in Nat

VARIABLES
    repair, configured, migration, \* the option, and the configuration found
    adapter,                       \* its pairable and discoverable settings
    bonded, trusted,               \* the devices of BlueZ
    calls,                         \* agent calls of BlueZ: whose, and what became of them
    snapshot, registered, subscribed, initial_bonds, \* of the backend
    gate,                          \* the backend holds the gate and its notices
    notices, active, approved, waiters, \* of the gate
    sent, taken,                   \* lines of the caller, and how many were read
    pc, candidate, kind,
    report,                        \* the outcome, "none" until it is known
    clean,                         \* no step of this cleanup has failed
    audio, config,                 \* whom the rules and the configuration name
    original,                      \* history: the settings before setup
    stuck,                         \* history: settings whose restoration failed
    confirmed, verified            \* history: by the caller; with ANCS subscribed

optionVars == <<repair, configured, migration, original>>
bondVars == <<bonded, trusted>>
gateVars == <<notices, active, approved, waiters>>
backendVars == <<snapshot, registered, subscribed, initial_bonds, gate>>
callerVars == <<sent, taken>>
runVars == <<pc, candidate, kind, report, clean, confirmed, verified>>
diskVars == <<audio, config>>
vars == <<optionVars, adapter, bondVars, calls, backendVars, gateVars, callerVars, runVars,
          diskVars, stuck>>

Setting == {"pairable", "discoverable"}
ASSUME FoundAssumption == Found \subseteq [Setting -> BOOLEAN]
Captured == [Setting -> BOOLEAN] \cup {<<>>} \* <<>> where nothing is captured
Call == [device : Device, answer : {"waiting", "accepted", "rejected", "canceled"}]
Command == {"confirm", "reject", "cancel", "malformed", "closed"}
Preparing == {"environment", "forget", "window", "agent", "pairable", "discoverable", "reconnect"}
Cleaning == {"quiesce", "restore", "unregister"}
\* "failed" is any code of prepare, the pairing and the verification, "timeout" and
\* "audio-failed" any of theirs; "unheard" an end that stdout did not take.
Report == {"none", "complete", "unheard", "cancelled", "invalid-protocol", "stdin-closed",
           "rejected", "timeout", "failed", "cleanup-failed", "audio-failed",
           "configuration-write-failed"}

-----------------------------------------------------------------------------
(* The caller and the phones *)

\* A line, or the end of stdin, after which nothing comes.
CallerSends ==
    /\ report = "none"
    /\ Len(sent) < MaxSent /\ \A i \in 1..Len(sent) : sent[i] # "closed"
    /\ \E command \in Command : sent' = Append(sent, command)
    /\ UNCHANGED <<optionVars, adapter, bondVars, calls, backendVars, gateVars, taken, runVars,
                   diskVars, stuck>>

\* A device whose call was accepted completes the bond.  Once setup has failed it
\* reads neither bonds nor lines, and no call it left open is followed any further.
PairingCompletes ==
    /\ report = "none"
    /\ \E i \in DOMAIN calls :
        /\ calls[i].answer = "accepted" /\ calls[i].device \notin bonded
        /\ bonded' = bonded \cup {calls[i].device}
    /\ UNCHANGED <<optionVars, adapter, trusted, calls, backendVars, gateVars, callerVars,
                   runVars, diskVars, stuck>>

\* The phone gives up a call; the gate keeps its waiter.
CallCanceled ==
    /\ report = "none"
    /\ \E i \in DOMAIN calls :
        calls[i].answer = "waiting" /\ calls' = [calls EXCEPT ![i].answer = "canceled"]
    /\ UNCHANGED <<optionVars, adapter, bondVars, backendVars, gateVars, callerVars, runVars,
                   diskVars, stuck>>

-----------------------------------------------------------------------------
(* AgentGate *)

\* Mutant of Approved: the approval is taken for one of every device.
ApprovedAnybody(d) == approved # NoDevice

Approved(d) == approved = d

Refused(d) == approved # NoDevice \/ active \notin {NoDevice, d}

Called(d, answer) == calls' = Append(calls, [device |-> d, answer |-> answer])

\* request, past the check of approved and active: it waits for the decision.
\* The first of a device sends a notice, which fails once nobody receives it.
Wait(d) ==
    /\ active' = d
    /\ waiters' = waiters \cup {Len(calls) + 1}
    /\ \/ active # NoDevice /\ Called(d, "waiting") /\ UNCHANGED notices
       \/ active = NoDevice /\ gate /\ Called(d, "waiting") /\ notices' = Append(notices, d)
       \/ active = NoDevice /\ ~gate /\ Called(d, "canceled") /\ UNCHANGED notices
    /\ UNCHANGED approved

\* BlueZ calls the agent for a confirmation or an authorization: request.  A failed
\* setup that has let go of the gate is not followed any further.
AgentCalled ==
    /\ registered = "agent" /\ Len(calls) < MaxCalls
    /\ gate \/ report = "none"
    /\ \E d \in Device :
        \/ Approved(d) /\ Called(d, "accepted") /\ UNCHANGED gateVars
        \/ ~Approved(d) /\ Refused(d) /\ Called(d, "rejected") /\ UNCHANGED gateVars
        \/ ~Approved(d) /\ ~Refused(d) /\ Wait(d)
    /\ UNCHANGED <<optionVars, adapter, bondVars, backendVars, callerVars, runVars, diskVars,
                   stuck>>

\* The waiters get the answer; one whose call was given up is not there to take it.
Released(accepted) ==
    [i \in DOMAIN calls |-> IF i \in waiters /\ calls[i].answer = "waiting"
                            THEN [calls[i] EXCEPT !.answer = IF accepted THEN "accepted"
                                                             ELSE "rejected"]
                            ELSE calls[i]]

\* Mutant of Answer: a refusal leaves the device active.
AnswerKeepsActive(d, accepted) ==
    IF active = d
    THEN /\ approved' = IF accepted THEN d ELSE approved
         /\ calls' = Released(accepted) /\ waiters' = {}
         /\ UNCHANGED active
    ELSE UNCHANGED <<calls, active, approved, waiters>>

\* answer: an error, and no effect, unless the device is active.
Answer(d, accepted) ==
    IF active = d
    THEN /\ approved' = IF accepted THEN d ELSE approved
         /\ active' = IF accepted THEN active ELSE NoDevice
         /\ calls' = Released(accepted) /\ waiters' = {}
    ELSE UNCHANGED <<calls, active, approved, waiters>>

-----------------------------------------------------------------------------
(* How a place is left *)

Unread == taken < Len(sent)

\* next_command; the end of stdin can be read again.
Take(command) ==
    /\ Unread /\ command = sent[taken + 1]
    /\ taken' = IF command = "closed" THEN taken ELSE taken + 1
    /\ UNCHANGED sent

\* Mutant of CommandFailure: a command in the wrong state has a code of its own.
CommandFailureByCommand(command) ==
    CASE command = "cancel" -> "cancelled"
      [] command = "closed" -> "stdin-closed"
      [] OTHER -> command

\* command_failure, and the failures of a decision.
CommandFailure(command) ==
    CASE command = "cancel" -> "cancelled"
      [] command = "closed" -> "stdin-closed"
      [] OTHER -> "invalid-protocol"

\* fail_with_cleanup; where stdout is gone the code cleans up as well.
Fail(failure) == report' = failure /\ pc' = "quiesce" /\ clean' = TRUE

\* write_event: on to the next place, or stdout is gone.
Say(next) ==
    \/ pc' = next /\ UNCHANGED <<report, clean>>
    \/ Fail("unheard")

Start ==
    /\ pc = "start"
    /\ \/ pc' = "environment" /\ UNCHANGED report
       \/ pc' = "done" /\ report' = "unheard"
    /\ UNCHANGED <<optionVars, adapter, bondVars, calls, backendVars, gateVars, callerVars,
                   candidate, kind, clean, confirmed, verified, diskVars, stuck>>

\* What a dropped D-Bus call was about to do may still happen.
InFlight ==
    /\ adapter' \in {adapter} \cup {[adapter EXCEPT ![s] = TRUE] : s \in Setting \cap {pc}}
    /\ \/ UNCHANGED bondVars
       \/ pc = "forget" /\ bonded' = bonded \ {configured} /\ trusted' = trusted \ {configured}
       \/ pc = "settle" /\ candidate \in bonded /\ trusted' = trusted \cup {candidate}
          /\ UNCHANGED bonded

\* A command where no confirmation is active.
CommandAborts ==
    /\ pc \in Preparing \cup {"candidate", "verify"}
    /\ \E command \in Command : Take(command) /\ Fail(CommandFailure(command))
    /\ InFlight
    /\ UNCHANGED <<optionVars, calls, backendVars, gateVars, candidate, kind, confirmed, verified,
                   diskVars, stuck>>

SignalAborts ==
    /\ pc \in Preparing \cup {"candidate", "confirm", "settle", "verify"}
    /\ Fail("cancelled")
    /\ InFlight
    /\ UNCHANGED <<optionVars, calls, backendVars, gateVars, callerVars, candidate, kind,
                   confirmed, verified, diskVars, stuck>>

\* CANDIDATE_TIMEOUT, CONFIRMATION_TIMEOUT and ANCS_TIMEOUT.
DeadlinePasses ==
    /\ pc \in {"candidate", "confirm", "verify"}
    /\ Fail("timeout")
    /\ UNCHANGED <<optionVars, adapter, bondVars, calls, backendVars, gateVars, callerVars,
                   candidate, kind, confirmed, verified, diskVars, stuck>>

-----------------------------------------------------------------------------
(* prepare: its select is biased to the command, then the signal *)

Prepares(place) == pc = place /\ ~Unread

Onward(next) == pc' = next /\ UNCHANGED <<report, clean>>

\* The addresses paired_addresses may return: a bond that cannot be read is none.
BondsRead == SUBSET bonded

\* The devices existing_candidate may accept: connected, and with all of ANCS.
Ready == SUBSET (bonded \cap trusted)

\* configured_or_unique_existing: the configured one, or the only one.
Reusable(ready) ==
    IF configured # NoDevice THEN ready \cap {configured}
    ELSE IF Cardinality(ready) = 1 THEN ready ELSE {}

\* environment, then the choice between repair, migration, reuse and a window.  It
\* fails where the adapter lacks something, repair has no target, or the
\* configured device is not ready (repair-required).
CheckEnvironment ==
    /\ Prepares("environment")
    /\ \/ /\ Fail("failed") /\ UNCHANGED <<candidate, kind>>
       \/ /\ repair /\ configured # NoDevice
          /\ Onward("forget") /\ UNCHANGED <<candidate, kind>>
       \/ /\ ~repair /\ migration /\ configured \in trusted
          /\ candidate' = configured /\ kind' = "existing-bond"
          /\ Onward("reconnect")
       \/ /\ ~repair /\ ~migration
          /\ \E ready \in Ready :
                /\ candidate' \in Reusable(ready) /\ kind' = "existing-bond"
                /\ Say("confirm")
       \/ /\ ~repair /\ configured = NoDevice
          /\ \E ready \in Ready : Reusable(ready) = {}
          /\ Onward("window") /\ UNCHANGED <<candidate, kind>>
    /\ UNCHANGED <<optionVars, adapter, bondVars, calls, backendVars, gateVars, callerVars,
                   confirmed, verified, diskVars, stuck>>

\* The configured device, if BlueZ has it, and no other.
ForgetRepaired ==
    /\ Prepares("forget")
    /\ \/ /\ bonded' = bonded \ {configured} /\ trusted' = trusted \ {configured}
          /\ Onward("window")
       \/ Fail("failed") /\ UNCHANGED bondVars
    /\ UNCHANGED <<optionVars, adapter, calls, backendVars, gateVars, callerVars, candidate, kind,
                   confirmed, verified, diskVars, stuck>>

\* start_fresh_window up to the agent: bonds and settings are captured before
\* anything changes; the application and the advertisement that precede the agent
\* are dropped with prepare.
OpenWindow ==
    /\ Prepares("window")
    /\ \/ /\ initial_bonds' \in BondsRead /\ snapshot' = adapter
          /\ \/ Onward("agent")
             \/ Fail("failed")
       \/ Fail("failed") /\ UNCHANGED <<initial_bonds, snapshot>>
    /\ UNCHANGED <<optionVars, adapter, bondVars, calls, registered, subscribed, gate, gateVars,
                   callerVars, candidate, kind, confirmed, verified, diskVars, stuck>>

RegisterAgent ==
    /\ Prepares("agent")
    /\ \/ registered' = "agent" /\ gate' = TRUE /\ Onward("pairable")
       \/ Fail("failed") /\ UNCHANGED <<registered, gate>>
    /\ UNCHANGED <<optionVars, adapter, bondVars, calls, snapshot, subscribed, initial_bonds,
                   gateVars, callerVars, candidate, kind, confirmed, verified, diskVars, stuck>>

SetPairable ==
    /\ Prepares("pairable")
    /\ \/ adapter' = [adapter EXCEPT !.pairable = TRUE] /\ Onward("discoverable")
       \/ Fail("failed") /\ UNCHANGED adapter
    /\ UNCHANGED <<optionVars, bondVars, calls, backendVars, gateVars, callerVars, candidate,
                   kind, confirmed, verified, diskVars, stuck>>

\* A failure sets pairable back at once, if it can.
SetDiscoverable ==
    /\ Prepares("discoverable")
    /\ \/ adapter' = [adapter EXCEPT !.discoverable = TRUE] /\ Say("candidate")
       \/ /\ adapter' \in {adapter, [adapter EXCEPT !.pairable = snapshot.pairable]}
          /\ Fail("failed")
    /\ UNCHANGED <<optionVars, bondVars, calls, backendVars, gateVars, callerVars, candidate,
                   kind, confirmed, verified, diskVars, stuck>>

\* start_existing_reconnect_window: the runtime advertisement, without an agent.
OpenReconnectWindow ==
    /\ Prepares("reconnect")
    /\ \/ registered' = "advertisement" /\ Say("confirm")
       \/ Fail("failed") /\ UNCHANGED registered
    /\ UNCHANGED <<optionVars, adapter, bondVars, calls, snapshot, subscribed, initial_bonds, gate,
                   gateVars, callerVars, candidate, kind, confirmed, verified, diskVars, stuck>>

-----------------------------------------------------------------------------
(* From the window to a verified candidate *)

\* wait_for_candidate: a device bonded before the window is refused, and the
\* loop goes on.
RefuseBonded ==
    /\ pc = "candidate" /\ notices # <<>>
    /\ Head(notices) \in initial_bonds
    /\ notices' = Tail(notices)
    /\ Answer(Head(notices), FALSE)
    /\ UNCHANGED <<optionVars, adapter, bondVars, backendVars, callerVars, runVars, diskVars,
                   stuck>>

TakeCandidate ==
    /\ pc = "candidate" /\ notices # <<>>
    /\ Head(notices) \notin initial_bonds
    /\ notices' = Tail(notices)
    /\ \/ candidate' = Head(notices) /\ kind' = "pairing" /\ Say("confirm")
       \/ Fail("failed") /\ UNCHANGED <<candidate, kind>>
    /\ UNCHANGED <<optionVars, adapter, bondVars, calls, backendVars, active, approved, waiters,
                   callerVars, confirmed, verified, diskVars, stuck>>

\* answer_confirmation of an existing bond is nothing but the yes.
Confirm ==
    /\ pc = "confirm" /\ Take("confirm")
    /\ confirmed' = candidate
    /\ \/ /\ kind = "existing-bond" /\ Say("verify")
          /\ UNCHANGED <<calls, gateVars>>
       \/ /\ kind = "pairing" /\ Answer(candidate, TRUE) /\ UNCHANGED notices
          /\ IF active = candidate THEN Onward("settle") ELSE Fail("failed")
    /\ UNCHANGED <<optionVars, adapter, bondVars, backendVars, candidate, kind, verified, diskVars,
                   stuck>>

Reject ==
    /\ pc = "confirm" /\ Take("reject")
    /\ IF kind = "pairing" THEN Answer(candidate, FALSE) /\ UNCHANGED notices
       ELSE UNCHANGED <<calls, gateVars>>
    /\ Fail("rejected")
    /\ UNCHANGED <<optionVars, adapter, bondVars, backendVars, candidate, kind, confirmed,
                   verified, diskVars, stuck>>

\* cancel, and what is no command, where a decision is awaited.
DecisionFails ==
    /\ pc = "confirm"
    /\ \E command \in Command \ {"confirm", "reject"} :
        Take(command) /\ Fail(CommandFailure(command))
    /\ UNCHANGED <<optionVars, adapter, bondVars, calls, backendVars, gateVars, candidate, kind,
                   confirmed, verified, diskVars, stuck>>

\* The poll that sees the bond trusts the device.
Settle ==
    /\ pc = "settle" /\ candidate \in bonded
    /\ \/ trusted' = trusted \cup {candidate} /\ Say("verify")
       \/ Fail("failed") /\ UNCHANGED trusted
    /\ UNCHANGED <<optionVars, adapter, bonded, calls, backendVars, gateVars, callerVars,
                   candidate, kind, confirmed, verified, diskVars, stuck>>

\* Mutant of SettleDeadline: the loop polls for ever.
SettleForever == FALSE /\ UNCHANGED vars

\* PAIRING_SETTLE_TIMEOUT, or the device is unknown or cannot be looked up.
SettleDeadline ==
    /\ pc = "settle"
    /\ Fail("failed")
    /\ UNCHANGED <<optionVars, adapter, bondVars, calls, backendVars, gateVars, callerVars,
                   candidate, kind, confirmed, verified, diskVars, stuck>>

\* verify_ancs: both streams, or an error after which neither is kept.
VerifyAncs ==
    /\ pc = "verify"
    /\ \/ /\ candidate \in bonded \cap trusted
          /\ subscribed' = TRUE /\ verified' = candidate
          /\ pc' = "quiesce" /\ clean' = TRUE /\ UNCHANGED report
       \/ Fail("failed") /\ UNCHANGED <<subscribed, verified>>
    /\ UNCHANGED <<optionVars, adapter, bondVars, calls, snapshot, registered, initial_bonds, gate,
                   gateVars, callerVars, candidate, kind, confirmed, diskVars, stuck>>

-----------------------------------------------------------------------------
(* cleanup_temporary, after a failure and after the verification *)

\* quiesce_notifications gives up after CLEANUP_ATTEMPTS.
Quiesce ==
    /\ pc = "quiesce"
    /\ \/ subscribed' = FALSE /\ UNCHANGED clean
       \/ subscribed /\ clean' = FALSE /\ UNCHANGED subscribed
    /\ gate' = FALSE /\ notices' = <<>>
    /\ pc' = "restore"
    /\ UNCHANGED <<optionVars, adapter, bondVars, calls, snapshot, registered, initial_bonds,
                   active, approved, waiters, callerVars, candidate, kind, report, confirmed,
                   verified, diskVars, stuck>>

\* Mutant of Restored: the second setting is given up with the first.
RestoredUpTo(failed) ==
    [s \in Setting |-> IF failed # {} THEN adapter[s] ELSE snapshot[s]]

Restored(failed) == [s \in Setting |-> IF s \in failed THEN adapter[s] ELSE snapshot[s]]

\* restore_adapter: both settings, each whether or not the other failed.
RestoreAdapter ==
    /\ pc = "restore"
    /\ \/ snapshot = <<>> /\ UNCHANGED <<adapter, clean, stuck>>
       \/ /\ snapshot # <<>>
          /\ \E failed \in SUBSET Setting :
                /\ adapter' = Restored(failed)
                /\ stuck' = failed
                /\ clean' = (clean /\ failed = {})
    /\ snapshot' = <<>>
    /\ pc' = "unregister"
    /\ UNCHANGED <<optionVars, bondVars, calls, registered, subscribed, initial_bonds, gate,
                   gateVars, callerVars, candidate, kind, report, confirmed, verified, diskVars>>

\* The handles are dropped whatever failed before; the release may not be seen.
\* A clean end after the verification leads to the commit.
Unregister ==
    /\ pc = "unregister"
    /\ registered' = "none"
    /\ clean' \in IF registered = "none" THEN {clean} ELSE {clean, FALSE}
    /\ IF report = "none" /\ clean'
       THEN \/ pc' = "commit" /\ UNCHANGED report
            \/ pc' = "done" /\ report' = "unheard"
       ELSE /\ pc' = "done"
            /\ report' = IF clean' \/ report = "unheard" THEN report ELSE "cleanup-failed"
    /\ UNCHANGED <<optionVars, adapter, bondVars, calls, snapshot, subscribed, initial_bonds, gate,
                   gateVars, callerVars, candidate, kind, confirmed, verified, diskVars, stuck>>

-----------------------------------------------------------------------------
(* commit: its select is biased to the command, then the signal *)

CommandStopsCommit ==
    /\ pc = "commit"
    /\ \E command \in Command : Take(command) /\ report' = CommandFailure(command)
    /\ pc' = "done"
    /\ UNCHANGED <<optionVars, adapter, bondVars, calls, backendVars, gateVars, candidate, kind,
                   clean, confirmed, verified, diskVars, stuck>>

SignalStopsCommit ==
    /\ pc = "commit"
    /\ report' = "cancelled" /\ pc' = "done"
    /\ UNCHANGED <<optionVars, adapter, bondVars, calls, backendVars, gateVars, callerVars,
                   candidate, kind, clean, confirmed, verified, diskVars, stuck>>

\* Mutant of Undisturbed: the select prefers the commit to a command it has.
CommitFirst == TRUE

Undisturbed == ~Unread

\* A save that fails may have replaced the file: its last step syncs the directory.
SaveFails == config' \in {config, candidate}

\* The adapter's address is the one await; rules, configuration and rollback are
\* one synchronous step.  "mixed" are rules that are neither device's: one was
\* replaced, or removed, and could not be put back.
Commit ==
    /\ pc = "commit" /\ Undisturbed
    /\ pc' = "done"
    /\ \/ /\ audio' = candidate /\ config' = candidate
          /\ report' \in {"complete", "unheard"}
       \/ /\ report' = "audio-failed" /\ UNCHANGED config
          /\ audio' \in IF audio = candidate THEN {audio} ELSE {audio, "mixed"}
       \/ /\ report' = "configuration-write-failed"
          /\ SaveFails /\ UNCHANGED audio
       \/ /\ report' = "cleanup-failed" /\ audio # candidate
          /\ audio' \in {audio, candidate, "mixed"} /\ SaveFails
    /\ UNCHANGED <<optionVars, adapter, bondVars, calls, backendVars, gateVars, callerVars,
                   candidate, kind, clean, confirmed, verified, stuck>>

-----------------------------------------------------------------------------

Init ==
    /\ repair \in BOOLEAN
    /\ configured \in Named
    /\ bonded \in SUBSET Device /\ trusted \in SUBSET bonded
    /\ migration \in BOOLEAN /\ (migration => configured \in bonded)
    /\ adapter \in Found /\ original = adapter
    /\ calls = <<>>
    /\ snapshot = <<>> /\ registered = "none" /\ subscribed = FALSE
    /\ initial_bonds = {} /\ gate = FALSE
    /\ notices = <<>> /\ active = NoDevice /\ approved = NoDevice /\ waiters = {}
    /\ sent = <<>> /\ taken = 0
    /\ pc = "start" /\ candidate = NoDevice /\ kind = "none"
    /\ report = "none" /\ clean = TRUE
    /\ config = configured /\ audio = configured
    /\ stuck = {} /\ confirmed = NoDevice /\ verified = NoDevice

Prepare ==
    \/ CheckEnvironment
    \/ ForgetRepaired
    \/ OpenWindow
    \/ RegisterAgent
    \/ SetPairable
    \/ SetDiscoverable
    \/ OpenReconnectWindow

Pair ==
    \/ RefuseBonded
    \/ TakeCandidate
    \/ Confirm
    \/ Reject
    \/ DecisionFails
    \/ Settle
    \/ SettleDeadline
    \/ VerifyAncs

Abort ==
    \/ CommandAborts
    \/ DeadlinePasses

Signal ==
    \/ SignalAborts
    \/ SignalStopsCommit

CleanUp ==
    \/ Quiesce
    \/ RestoreAdapter
    \/ Unregister

Finish ==
    \/ CommandStopsCommit
    \/ Commit

\* SetupProtocol::run, left to itself.
Protocol == Start \/ Prepare \/ Pair \/ Abort \/ CleanUp \/ Finish

Next ==
    \/ CallerSends
    \/ PairingCompletes
    \/ CallCanceled
    \/ AgentCalled
    \/ Signal
    \/ Protocol

Spec == Init /\ [][Next]_vars

\* Calls on D-Bus return, stdout is read or closed, and deadlines pass.  Nothing
\* is assumed of the phones, and no command or signal need ever come.
FairSpec == Spec /\ WF_vars(Protocol)

-----------------------------------------------------------------------------
(* Properties *)

\* Every variable keeps its type; what is reported is one of the codes of the
\* machine interface.
TypeOK ==
    /\ repair \in BOOLEAN /\ migration \in BOOLEAN
    /\ configured \in Device \cup {NoDevice}
    /\ adapter \in [Setting -> BOOLEAN] /\ original \in [Setting -> BOOLEAN]
    /\ bonded \subseteq Device /\ trusted \subseteq Device
    /\ calls \in Seq(Call)
    /\ snapshot \in Captured
    /\ registered \in {"none", "agent", "advertisement"}
    /\ subscribed \in BOOLEAN /\ gate \in BOOLEAN /\ clean \in BOOLEAN
    /\ initial_bonds \subseteq Device
    /\ notices \in Seq(Device) /\ waiters \subseteq DOMAIN calls
    /\ active \in Device \cup {NoDevice} /\ approved \in Device \cup {NoDevice}
    /\ sent \in Seq(Command) /\ taken \in 0..Len(sent)
    /\ pc \in {"start", "candidate", "confirm", "settle", "verify", "commit", "done"}
              \cup Preparing \cup Cleaning
    /\ candidate \in Device \cup {NoDevice} /\ kind \in {"none", "pairing", "existing-bond"}
    /\ report \in Report
    /\ audio \in Device \cup {NoDevice, "mixed"} /\ config \in Device \cup {NoDevice}
    /\ stuck \subseteq Setting
    /\ confirmed \in Device \cup {NoDevice} /\ verified \in Device \cup {NoDevice}

\* However setup ends, the adapter has the settings it had before, except one
\* that could not be set; and unless the end is cleanup-failed (or nobody reads
\* it), nothing is left of what setup registered, subscribed or changed there.
CleanedUp ==
    pc = "done" =>
        /\ \A s \in Setting \ stuck : adapter[s] = original[s]
        /\ report \notin {"cleanup-failed", "unheard"} =>
              adapter = original /\ registered = "none" /\ ~subscribed

\* BlueZ never gets a yes for a device the caller did not confirm, nor for one
\* that was seen bonded before the window was opened.
OnlyConfirmedAccepted ==
    \A i \in DOMAIN calls : calls[i].answer = "accepted" =>
        calls[i].device = confirmed /\ confirmed \notin initial_bonds

\* A call that waits is going to be answered: it is the gate's, and its device's
\* notice is queued, or the caller is being asked about it.
WaitersAreAsked ==
    pc \in Preparing \cup {"candidate", "confirm", "settle", "verify"} =>
        \A i \in DOMAIN calls : calls[i].answer = "waiting" =>
            /\ i \in waiters /\ calls[i].device = active
            /\ \/ \E n \in DOMAIN notices : notices[n] = active
               \/ pc = "confirm" /\ candidate = active

\* Rules and configuration change for the candidate only, after the caller
\* confirmed it and sent nothing else, ANCS was subscribed on it, and all that
\* was temporary is gone; complete is reported after that too.
CommitIsEarned ==
    [][(diskVars' # diskVars \/ (report' # report /\ report' = "complete")) =>
          /\ config' \in {config, candidate}
          /\ sent = <<"confirm">> /\ confirmed = candidate /\ verified = candidate
          /\ adapter = original /\ registered = "none" /\ ~subscribed]_vars

\* Setup ends, whatever the phones, the caller and BlueZ answer, and without a
\* command or a signal: every wait of the protocol has a deadline that ends it.
Ends == <>(pc = "done")

=============================================================================
