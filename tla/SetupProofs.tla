---------------------------- MODULE SetupProofs ----------------------------
(***************************************************************************)
(* The setup transaction, for every set of phones and any number of agent  *)
(* calls and lines.                                                        *)
(*                                                                         *)
(* SetupInv is inductive.  Gate says what the agent gate owes whom: the    *)
(* device that is active, its calls, and the notice that makes somebody    *)
(* ask about it.  Settings and Temporary follow what setup changed in      *)
(* BlueZ up to the end, and Earned what a commit stands on.                *)
(***************************************************************************)
EXTENDS Setup, TLAPS

\* Where no decision has been read, where the agent may be registered, and where a
\* cleanup that follows the verification leads.
Undecided == {"start", "candidate", "confirm"} \cup Preparing
Windowed == {"pairable", "discoverable", "candidate", "confirm", "settle", "verify"}
Asking == Preparing \cup {"candidate", "confirm", "settle", "verify"}
Ending == Cleaning \cup {"commit"}

\* What the gate has accepted was confirmed, and is no bond of before.
Accepted ==
    /\ pc \in Undecided => confirmed = NoDevice
    /\ approved # NoDevice => approved = confirmed /\ confirmed \notin initial_bonds
    /\ \A i \in DOMAIN calls : calls[i].answer = "accepted" =>
          calls[i].device = confirmed /\ confirmed \notin initial_bonds
    /\ pc = "confirm" /\ kind = "pairing" => candidate \notin initial_bonds

\* The gate's waiters are calls of the active device, and somebody has its notice.
Gate ==
    /\ \A i \in waiters : calls[i].device = active /\ active # NoDevice
    /\ pc \in Asking \cup {"start"} =>
          \A i \in DOMAIN calls : calls[i].answer = "waiting" => i \in waiters
    /\ pc \in Undecided /\ active # NoDevice =>
          \/ \E n \in DOMAIN notices : notices[n] = active
          \/ pc = "confirm" /\ candidate = active
    /\ pc \in {"settle", "verify"} =>
          /\ \A i \in DOMAIN calls : calls[i].answer # "waiting"
          /\ approved # NoDevice \/ registered # "agent"

\* An agent is registered for a pairing only, and its gate is kept up to the cleanup.
Agent ==
    /\ registered = "agent" /\ pc \notin {"restore", "unregister"} =>
          pc \in Windowed \cup {"quiesce"}
    /\ registered = "agent" /\ pc \in Windowed => gate
    /\ pc \in Undecided \ {"confirm", "reconnect"} => kind = "none"
    /\ pc = "reconnect" => kind = "existing-bond"
    /\ pc \in {"start", "environment", "forget", "window", "agent"} =>
          active = NoDevice /\ calls = <<>>
    /\ kind = "existing-bond" => registered # "agent" /\ active = NoDevice /\ calls = <<>>
    /\ kind = "pairing" => candidate \in Device

\* The adapter is as it was found, or its settings are kept to be restored, or could
\* not be.
Settings ==
    /\ snapshot # <<>> => snapshot = original
    /\ snapshot = <<>> => \A s \in Setting \ stuck : adapter[s] = original[s]
    /\ pc \in {"start", "environment", "forget", "window", "reconnect"}
              \cup {"unregister", "commit", "done"} =>
          snapshot = <<>>
    /\ pc \in {"agent", "pairable", "discoverable"} => snapshot # <<>>
    /\ pc \notin {"unregister", "commit", "done"} => stuck = {}
    /\ pc = "unregister" /\ clean => stuck = {}
    /\ pc = "commit" => stuck = {}

\* What setup subscribed and registered goes in the cleanup, or the cleanup says so.
Temporary ==
    /\ subscribed => pc \in Cleaning \cup {"done"}
    /\ subscribed /\ pc \in {"restore", "unregister"} => ~clean
    /\ pc \in {"start", "commit", "done"} => registered = "none"
    /\ pc = "done" /\ report \notin {"cleanup-failed", "unheard"} => stuck = {} /\ ~subscribed

\* Up to the commit, one line was read, and it confirmed the verified candidate.
Earned ==
    /\ pc \in Undecided => taken = 0
    /\ pc \in {"settle", "verify"} \/ (pc \in Ending /\ report = "none") =>
          /\ taken = 1 /\ Len(sent) > 0 /\ sent[1] = "confirm"
          /\ confirmed = candidate
    /\ pc \in Ending /\ report = "none" => verified = candidate
    /\ pc = "commit" => report = "none"

SetupInv == TypeOK /\ Accepted /\ Gate /\ Agent /\ Settings /\ Temporary /\ Earned


-----------------------------------------------------------------------------
(* Types *)

\* TypeOK part by part.
OptionType ==
    /\ repair \in BOOLEAN /\ migration \in BOOLEAN
    /\ configured \in Device \cup {NoDevice}
    /\ original \in [Setting -> BOOLEAN]

AdapterType ==
    /\ adapter \in [Setting -> BOOLEAN]
    /\ snapshot \in Captured
    /\ stuck \subseteq Setting

BondType ==
    bonded \subseteq Device /\ trusted \subseteq Device /\ initial_bonds \subseteq Device

GateType ==
    /\ calls \in Seq(Call)
    /\ notices \in Seq(Device) /\ waiters \subseteq DOMAIN calls
    /\ active \in Device \cup {NoDevice} /\ approved \in Device \cup {NoDevice}

CallerType == sent \in Seq(Command) /\ taken \in 0..Len(sent)

Places == {"start", "candidate", "confirm", "settle", "verify", "commit", "done"}
          \cup Preparing \cup Cleaning

RunType ==
    /\ registered \in {"none", "agent", "advertisement"}
    /\ subscribed \in BOOLEAN /\ gate \in BOOLEAN /\ clean \in BOOLEAN
    /\ pc \in Places
    /\ candidate \in Device \cup {NoDevice} /\ kind \in {"none", "pairing", "existing-bond"}
    /\ report \in Report
    /\ audio \in Device \cup {NoDevice, "mixed"} /\ config \in Device \cup {NoDevice}
    /\ confirmed \in Device \cup {NoDevice} /\ verified \in Device \cup {NoDevice}

LEMMA TypeParts ==
    TypeOK <=> OptionType /\ AdapterType /\ BondType /\ GateType /\ CallerType /\ RunType
BY DEF TypeOK, OptionType, AdapterType, BondType, GateType, CallerType, RunType, Places

LEMMA TypeInit == Init => TypeOK
<1> SUFFICES ASSUME Init PROVE TypeOK
  OBVIOUS
<1>1. OptionType /\ AdapterType
  BY NamedAssumption, FoundAssumption DEF Init, OptionType, AdapterType, Captured
<1>2. BondType /\ GateType /\ CallerType
  BY DEF Init, BondType, GateType, CallerType
<1>3. RunType
  BY NamedAssumption DEF Init, RunType, Places, Report
<1> QED
  BY <1>1, <1>2, <1>3, TypeParts

\* The steps that change the gate or its calls.
LEMMA GateFrame ==
    [Next]_vars =>
        \/ AgentCalled \/ CallCanceled \/ RefuseBonded \/ TakeCandidate \/ Confirm \/ Reject
        \/ Quiesce
        \/ UNCHANGED <<calls, gateVars>>
BY DEF Next, Signal, Protocol, Prepare, Pair, Abort, CleanUp, Finish, vars,
       CallerSends, PairingCompletes, SignalAborts, SignalStopsCommit, Start, CheckEnvironment,
       ForgetRepaired, OpenWindow, RegisterAgent, SetPairable, SetDiscoverable,
       OpenReconnectWindow, DecisionFails, Settle, SettleDeadline, VerifyAncs, CommandAborts,
       DeadlinePasses, RestoreAdapter, Unregister, CommandStopsCommit, Commit

\* Only SetDiscoverable reads the snapshot, and it has one.
LEMMA AdapterFrame ==
    [Next]_vars =>
        \/ CommandAborts \/ SignalAborts \/ OpenWindow \/ SetPairable \/ SetDiscoverable
        \/ RestoreAdapter
        \/ UNCHANGED <<adapter, snapshot, stuck>>
BY DEF Next, Signal, Protocol, Prepare, Pair, Abort, CleanUp, Finish, vars, backendVars,
       CallerSends, PairingCompletes, CallCanceled, AgentCalled, SignalStopsCommit, Start,
       CheckEnvironment, ForgetRepaired, RegisterAgent, OpenReconnectWindow, RefuseBonded,
       TakeCandidate, Confirm, Reject, DecisionFails, Settle, SettleDeadline, VerifyAncs,
       DeadlinePasses, Quiesce, Unregister, CommandStopsCommit, Commit

LEMMA BondFrame ==
    [Next]_vars =>
        \/ CommandAborts \/ SignalAborts \/ PairingCompletes \/ ForgetRepaired \/ OpenWindow
        \/ Settle
        \/ UNCHANGED <<bondVars, initial_bonds>>
BY DEF Next, Signal, Protocol, Prepare, Pair, Abort, CleanUp, Finish, vars, backendVars,
       CallerSends, CallCanceled, AgentCalled, SignalStopsCommit, Start, SetPairable,
       CheckEnvironment, RegisterAgent, SetDiscoverable, OpenReconnectWindow, RefuseBonded,
       TakeCandidate, Confirm, Reject, DecisionFails, SettleDeadline, VerifyAncs,
       DeadlinePasses, Quiesce, RestoreAdapter, Unregister, CommandStopsCommit, Commit

LEMMA CallerFrame ==
    [Next]_vars =>
        \/ CallerSends \/ \E command \in Command : Take(command)
        \/ UNCHANGED callerVars
BY DEF Next, Signal, Protocol, Prepare, Pair, Abort, CleanUp, Finish, vars, Command,
       PairingCompletes, CallCanceled, AgentCalled, SignalAborts, SignalStopsCommit, Start,
       CheckEnvironment, ForgetRepaired, OpenWindow, RegisterAgent, SetPairable, SetDiscoverable,
       OpenReconnectWindow, RefuseBonded, TakeCandidate, Confirm, Reject, DecisionFails, Settle,
       SettleDeadline, VerifyAncs, CommandAborts, DeadlinePasses, Quiesce, RestoreAdapter,
       Unregister, CommandStopsCommit, Commit

\* A call that is added.
LEMMA CalledTypes ==
    ASSUME GateType, NEW d \in Device, NEW answer,
           answer \in {"waiting", "accepted", "rejected", "canceled"}, Called(d, answer)
    PROVE  /\ calls' \in Seq(Call) /\ Len(calls') = Len(calls) + 1
           /\ DOMAIN calls = 1..Len(calls) /\ DOMAIN calls' = 1..(Len(calls) + 1)
           /\ calls'[Len(calls) + 1] = [device |-> d, answer |-> answer]
           /\ \A i \in DOMAIN calls : calls'[i] = calls[i]
BY DEF GateType, Called, Call

\* What the decision does to calls: those the gate still waits for are answered.
LEMMA ReleasedTypes ==
    ASSUME GateType, NEW accepted \in BOOLEAN
    PROVE  /\ Released(accepted) \in Seq(Call)
           /\ DOMAIN Released(accepted) = DOMAIN calls
           /\ \A i \in DOMAIN calls :
                 /\ Released(accepted)[i].device = calls[i].device
                 /\ i \in waiters /\ calls[i].answer = "waiting" =>
                       Released(accepted)[i].answer = IF accepted THEN "accepted" ELSE "rejected"
                 /\ i \notin waiters \/ calls[i].answer # "waiting" =>
                       Released(accepted)[i].answer = calls[i].answer
<1>1. calls \in Seq(Call) /\ DOMAIN calls = 1..Len(calls) /\ Len(calls) \in Nat
  BY DEF GateType
<1>2. \A i \in 1..Len(calls) : calls[i] \in Call
  BY <1>1
<1>3. \A i \in 1..Len(calls) : Released(accepted)[i] \in Call
  BY <1>1, <1>2 DEF Released, Call
<1>4. Released(accepted) \in [1..Len(calls) -> Call]
  BY <1>1, <1>3 DEF Released
<1>5. Released(accepted) \in Seq(Call)
  BY <1>1, <1>4
<1> QED
  BY <1>1, <1>2, <1>5 DEF Released, Call

LEMMA GateTypeNext == TypeOK /\ [Next]_vars => GateType'
<1> SUFFICES ASSUME TypeOK, [Next]_vars PROVE GateType'
  OBVIOUS
<1>0. GateType
  BY TypeParts
<1>1. CASE AgentCalled
  <2>1. PICK d \in Device :
          \/ Approved(d) /\ Called(d, "accepted") /\ UNCHANGED gateVars
          \/ ~Approved(d) /\ Refused(d) /\ Called(d, "rejected") /\ UNCHANGED gateVars
          \/ ~Approved(d) /\ ~Refused(d) /\ Wait(d)
    BY <1>1 DEF AgentCalled
  <2>2. ASSUME NEW answer, answer \in {"waiting", "accepted", "rejected", "canceled"},
               Called(d, answer)
        PROVE  /\ calls' \in Seq(Call) /\ DOMAIN calls \subseteq DOMAIN calls'
               /\ Len(calls) + 1 \in DOMAIN calls'
    <3>1. Len(calls) \in Nat
      BY <1>0 DEF GateType
    <3>2. /\ calls' \in Seq(Call) /\ DOMAIN calls = 1..Len(calls)
          /\ DOMAIN calls' = 1..(Len(calls) + 1)
      BY <1>0, <2>2, CalledTypes
    <3> QED
      BY <3>1, <3>2
  <2>3. CASE (Called(d, "accepted") \/ Called(d, "rejected")) /\ UNCHANGED gateVars
    <3>1. calls' \in Seq(Call) /\ DOMAIN calls \subseteq DOMAIN calls'
      <4>1. CASE Called(d, "accepted")
        BY <2>2, <4>1
      <4>2. CASE Called(d, "rejected")
        BY <2>2, <4>2
      <4> QED
        BY <2>3, <4>1, <4>2
    <3> QED
      BY <1>0, <2>3, <3>1 DEF GateType, gateVars
  <2>4. CASE Wait(d)
    <3>1. Called(d, "waiting") \/ Called(d, "canceled")
      BY <2>4 DEF Wait
    <3>2. /\ calls' \in Seq(Call) /\ DOMAIN calls \subseteq DOMAIN calls'
          /\ Len(calls) + 1 \in DOMAIN calls'
      BY <2>2, <3>1
    <3>3. notices' \in Seq(Device)
      <4>1. notices' = notices \/ notices' = Append(notices, d)
        BY <2>4 DEF Wait
      <4>2. notices \in Seq(Device)
        BY <1>0 DEF GateType
      <4> QED
        BY <4>1, <4>2
    <3>4. active' = d /\ approved' = approved /\ waiters' = waiters \cup {Len(calls) + 1}
      BY <2>4 DEF Wait
    <3> QED
      BY <1>0, <3>2, <3>3, <3>4 DEF GateType
  <2> QED
    BY <2>1, <2>3, <2>4
<1>2. CASE CallCanceled
  <2>1. PICK i \in DOMAIN calls : calls' = [calls EXCEPT ![i].answer = "canceled"]
    BY <1>2 DEF CallCanceled
  <2>2. calls \in Seq(Call) /\ calls[i] \in Call
    BY <1>0 DEF GateType
  <2>3. [calls[i] EXCEPT !.answer = "canceled"] \in Call
    BY <2>2 DEF Call
  <2>4. calls' \in Seq(Call) /\ DOMAIN calls' = DOMAIN calls
    BY <2>1, <2>2, <2>3
  <2> QED
    BY <1>0, <1>2, <2>4 DEF CallCanceled, GateType, gateVars
<1>3. ASSUME NEW d \in Device \cup {NoDevice}, NEW accepted \in BOOLEAN, Answer(d, accepted),
             notices' \in Seq(Device)
      PROVE  GateType'
  BY <1>0, <1>3, ReleasedTypes DEF Answer, GateType
<1>4. CASE RefuseBonded
  <2>1. notices \in Seq(Device) /\ notices # <<>>
    BY <1>0, <1>4 DEF GateType, RefuseBonded
  <2>2. Head(notices) \in Device /\ Tail(notices) \in Seq(Device)
    BY <2>1
  <2> QED
    BY <1>3, <1>4, <2>2 DEF RefuseBonded
<1>5. CASE TakeCandidate
  BY <1>0, <1>5 DEF TakeCandidate, GateType
<1>6. candidate \in Device \cup {NoDevice}
  BY DEF TypeOK
<1>7. CASE Confirm
  <2>1. UNCHANGED <<calls, gateVars>> \/ (Answer(candidate, TRUE) /\ UNCHANGED notices)
    BY <1>7 DEF Confirm
  <2> QED
    BY <1>0, <1>3, <1>6, <2>1 DEF GateType, gateVars
<1>8. CASE Reject
  <2>1. UNCHANGED <<calls, gateVars>> \/ (Answer(candidate, FALSE) /\ UNCHANGED notices)
    BY <1>8 DEF Reject
  <2> QED
    BY <1>0, <1>3, <1>6, <2>1 DEF GateType, gateVars
<1>9. CASE Quiesce
  BY <1>0, <1>9 DEF Quiesce, GateType
<1>10. CASE UNCHANGED <<calls, gateVars>>
  BY <1>0, <1>10 DEF GateType, gateVars
<1> QED
  BY <1>1, <1>2, <1>4, <1>5, <1>7, <1>8, <1>9, <1>10, GateFrame

\* The snapshot SetDiscoverable reads is one.
LEMMA AdapterTypeNext ==
    TypeOK /\ (pc = "discoverable" => snapshot # <<>>) /\ [Next]_vars => AdapterType'
<1> SUFFICES ASSUME TypeOK, pc = "discoverable" => snapshot # <<>>, [Next]_vars
             PROVE  AdapterType'
  OBVIOUS
<1>0. AdapterType
  BY TypeParts
<1>1. ASSUME InFlight PROVE adapter' \in [Setting -> BOOLEAN]
  BY <1>0, <1>1 DEF InFlight, AdapterType
<1>2. CASE CommandAborts
  BY <1>0, <1>1, <1>2 DEF CommandAborts, AdapterType, backendVars
<1>3. CASE SignalAborts
  BY <1>0, <1>1, <1>3 DEF SignalAborts, AdapterType, backendVars
<1>4. CASE OpenWindow
  BY <1>0, <1>4 DEF OpenWindow, AdapterType, Captured
<1>5. CASE SetPairable
  BY <1>0, <1>5 DEF SetPairable, AdapterType, backendVars, Setting
<1>6. CASE SetDiscoverable
  BY <1>0, <1>6 DEF SetDiscoverable, Prepares, AdapterType, Captured, backendVars, Setting
<1>7. CASE RestoreAdapter
  BY <1>0, <1>7 DEF RestoreAdapter, Restored, AdapterType, Captured
<1>8. CASE UNCHANGED <<adapter, snapshot, stuck>>
  BY <1>0, <1>8 DEF AdapterType
<1> QED
  BY <1>2, <1>3, <1>4, <1>5, <1>6, <1>7, <1>8, AdapterFrame

LEMMA BondTypeNext == TypeOK /\ [Next]_vars => BondType'
<1> SUFFICES ASSUME TypeOK, [Next]_vars PROVE BondType'
  OBVIOUS
<1>0. BondType
  BY TypeParts
<1>1. CASE CommandAborts
  BY <1>0, <1>1 DEF CommandAborts, InFlight, BondType, backendVars, bondVars
<1>2. CASE SignalAborts
  BY <1>0, <1>2 DEF SignalAborts, InFlight, BondType, backendVars, bondVars
<1>3. CASE PairingCompletes
  <2>1. calls \in Seq(Call)
    BY DEF TypeOK
  <2>2. \A i \in DOMAIN calls : calls[i].device \in Device
    <3>1. \A i \in DOMAIN calls : calls[i] \in Call
      BY <2>1
    <3> QED
      BY <3>1 DEF Call
  <2> QED
    <3>1. PICK i \in DOMAIN calls : bonded' = bonded \cup {calls[i].device}
      BY <1>3 DEF PairingCompletes
    <3>2. trusted' = trusted /\ initial_bonds' = initial_bonds
      BY <1>3 DEF PairingCompletes, backendVars
    <3> QED
      BY <1>0, <2>2, <3>1, <3>2 DEF BondType
<1>4. CASE ForgetRepaired
  BY <1>0, <1>4 DEF ForgetRepaired, BondType, backendVars, bondVars
<1>5. CASE OpenWindow
  BY <1>0, <1>5 DEF OpenWindow, BondsRead, BondType, bondVars
<1>6. CASE Settle
  BY <1>0, <1>6 DEF Settle, BondType, backendVars
<1>7. CASE UNCHANGED <<bondVars, initial_bonds>>
  BY <1>0, <1>7 DEF BondType, bondVars
<1> QED
  BY <1>1, <1>2, <1>3, <1>4, <1>5, <1>6, <1>7, BondFrame

LEMMA CallerTypeNext == TypeOK /\ [Next]_vars => CallerType'
<1> SUFFICES ASSUME TypeOK, [Next]_vars PROVE CallerType'
  OBVIOUS
<1>0. CallerType
  BY TypeParts
<1>1. CASE CallerSends
  BY <1>0, <1>1 DEF CallerSends, CallerType
<1>2. ASSUME NEW command \in Command, Take(command) PROVE CallerType'
  BY <1>0, <1>2 DEF Take, Unread, CallerType
<1>3. CASE UNCHANGED callerVars
  BY <1>0, <1>3 DEF CallerType, callerVars
<1> QED
  BY <1>1, <1>2, <1>3, CallerFrame

\* command_failure never is "none" or "complete".
LEMMA CommandFailureCode ==
    \A command : CommandFailure(command) \in {"cancelled", "stdin-closed", "invalid-protocol"}
BY DEF CommandFailure

LEMMA RunTypeNext == TypeOK /\ [Next]_vars => RunType'
<1> SUFFICES ASSUME TypeOK, [Next]_vars PROVE RunType'
  OBVIOUS
<1>0. RunType /\ configured \in Device \cup {NoDevice}
  BY TypeParts DEF TypeOK
<1> USE <1>0
<1> USE DEF RunType, Report, runVars, diskVars, backendVars
<1>1. ASSUME NEW failure \in Report, Fail(failure)
      PROVE  report' \in Report /\ pc' \in Places /\ clean' \in BOOLEAN
  BY <1>1 DEF Fail, Places, Cleaning
<1>2. ASSUME NEW next \in Places, Say(next) \/ Onward(next)
      PROVE  report' \in Report /\ pc' \in Places /\ clean' \in BOOLEAN
  BY <1>1, <1>2 DEF Say, Onward
<1>3. CASE CallerSends
  BY <1>1, <1>2, <1>3, CommandFailureCode DEF CallerSends, Places, Preparing, Cleaning
<1>4. CASE PairingCompletes
  BY <1>1, <1>2, <1>4, CommandFailureCode DEF PairingCompletes, Places, Preparing, Cleaning
<1>5. CASE CallCanceled
  BY <1>1, <1>2, <1>5, CommandFailureCode DEF CallCanceled, Places, Preparing, Cleaning
<1>6. CASE AgentCalled
  BY <1>1, <1>2, <1>6, CommandFailureCode DEF AgentCalled, Places, Preparing, Cleaning
<1>7. CASE SignalAborts
  BY <1>1, <1>2, <1>7, CommandFailureCode DEF SignalAborts, Places, Preparing, Cleaning
<1>8. CASE SignalStopsCommit
  BY <1>1, <1>2, <1>8, CommandFailureCode DEF SignalStopsCommit, Places, Preparing, Cleaning
<1>9. CASE Start
  BY <1>1, <1>2, <1>9, CommandFailureCode DEF Start, Places, Preparing, Cleaning
<1>10. CASE CheckEnvironment
  <2>1. \A ready \in Ready : Reusable(ready) \subseteq Device
    BY DEF Ready, Reusable, TypeOK
  <2>2. candidate' \in Device \cup {NoDevice} /\ kind' \in {"none", "pairing", "existing-bond"}
    BY <1>10, <2>1 DEF CheckEnvironment
  <2>3. report' \in Report /\ pc' \in Places /\ clean' \in BOOLEAN
    <3>1. \/ Fail("failed")
          \/ \E next \in {"forget", "reconnect", "confirm", "window"} : Say(next) \/ Onward(next)
      BY <1>10 DEF CheckEnvironment
    <3> QED
      BY <1>1, <1>2, <3>1 DEF Places, Preparing
  <2> QED
    BY <1>10, <2>2, <2>3 DEF CheckEnvironment
<1>11. CASE ForgetRepaired
  BY <1>1, <1>2, <1>11, CommandFailureCode DEF ForgetRepaired, Places, Preparing, Cleaning
<1>12. CASE OpenWindow
  BY <1>1, <1>2, <1>12, CommandFailureCode DEF OpenWindow, Places, Preparing, Cleaning
<1>13. CASE RegisterAgent
  <2>1. registered' \in {"none", "agent", "advertisement"} /\ gate' \in BOOLEAN
    BY <1>13 DEF RegisterAgent
  <2>2. report' \in Report /\ pc' \in Places /\ clean' \in BOOLEAN
    BY <1>13, <1>1, <1>2 DEF RegisterAgent, Places, Preparing
  <2> QED
    BY <1>13, <2>1, <2>2 DEF RegisterAgent
<1>14. CASE SetPairable
  BY <1>1, <1>2, <1>14, CommandFailureCode DEF SetPairable, Places, Preparing, Cleaning
<1>15. CASE SetDiscoverable
  BY <1>1, <1>2, <1>15, CommandFailureCode DEF SetDiscoverable, Places, Preparing, Cleaning
<1>16. CASE OpenReconnectWindow
  BY <1>1, <1>2, <1>16, CommandFailureCode DEF OpenReconnectWindow, Places, Preparing, Cleaning
<1>17. CASE RefuseBonded
  BY <1>1, <1>2, <1>17, CommandFailureCode DEF RefuseBonded, Places, Preparing, Cleaning
<1>18. CASE TakeCandidate
  <2>1. Head(notices) \in Device
    BY <1>18 DEF TakeCandidate, TypeOK
  <2>2. candidate' \in Device \cup {NoDevice} /\ kind' \in {"none", "pairing", "existing-bond"}
    BY <1>18, <2>1 DEF TakeCandidate
  <2>3. report' \in Report /\ pc' \in Places /\ clean' \in BOOLEAN
    BY <1>18, <1>1, <1>2 DEF TakeCandidate, Places
  <2> QED
    BY <1>18, <2>2, <2>3 DEF TakeCandidate
<1>19. CASE Confirm
  BY <1>1, <1>2, <1>19, CommandFailureCode DEF Confirm, Places, Preparing, Cleaning
<1>20. CASE Reject
  BY <1>1, <1>2, <1>20, CommandFailureCode DEF Reject, Places, Preparing, Cleaning
<1>21. CASE DecisionFails
  BY <1>1, <1>2, <1>21, CommandFailureCode DEF DecisionFails, Places, Preparing, Cleaning
<1>22. CASE Settle
  BY <1>1, <1>2, <1>22, CommandFailureCode DEF Settle, Places, Preparing, Cleaning
<1>23. CASE SettleDeadline
  BY <1>1, <1>2, <1>23, CommandFailureCode DEF SettleDeadline, Places, Preparing, Cleaning
<1>24. CASE VerifyAncs
  <2>1. subscribed' \in BOOLEAN /\ verified' \in Device \cup {NoDevice}
    BY <1>24 DEF VerifyAncs
  <2>2. report' \in Report /\ pc' \in Places /\ clean' \in BOOLEAN
    BY <1>24, <1>1 DEF VerifyAncs, Places, Cleaning
  <2> QED
    BY <1>24, <2>1, <2>2 DEF VerifyAncs
<1>25. CASE CommandAborts
  BY <1>1, <1>2, <1>25, CommandFailureCode DEF CommandAborts, Places, Preparing, Cleaning
<1>26. CASE DeadlinePasses
  BY <1>1, <1>2, <1>26, CommandFailureCode DEF DeadlinePasses, Places, Preparing, Cleaning
<1>27. CASE Quiesce
  <2>1. subscribed' \in BOOLEAN /\ clean' \in BOOLEAN /\ gate' \in BOOLEAN
    BY <1>27 DEF Quiesce
  <2> QED
    BY <1>27, <2>1 DEF Quiesce, Places, Cleaning
<1>28. CASE RestoreAdapter
  <2>1. clean' \in BOOLEAN
    BY <1>28 DEF RestoreAdapter
  <2> QED
    BY <1>28, <2>1 DEF RestoreAdapter, Places, Cleaning
<1>29. CASE Unregister
  <2>1. clean' \in BOOLEAN
    BY <1>29 DEF Unregister
  <2>2. report' \in Report /\ pc' \in Places
    BY <1>29 DEF Unregister, Places
  <2> QED
    BY <1>29, <2>1, <2>2 DEF Unregister
<1>30. CASE CommandStopsCommit
  BY <1>1, <1>2, <1>30, CommandFailureCode DEF CommandStopsCommit, Places, Preparing, Cleaning
<1>31. CASE Commit
  <2>1. audio' \in Device \cup {NoDevice, "mixed"} /\ config' \in Device \cup {NoDevice}
    BY <1>31 DEF Commit, SaveFails
  <2>2. report' \in Report /\ pc' \in Places
    BY <1>31 DEF Commit, Places
  <2> QED
    BY <1>31, <2>1, <2>2 DEF Commit
<1>32. CASE UNCHANGED vars
  BY <1>32 DEF vars
<1> QED
  BY <1>3, <1>4, <1>5, <1>6, <1>7, <1>8, <1>9, <1>10, <1>11, <1>12, <1>13, <1>14, <1>15, <1>16,
     <1>17, <1>18, <1>19, <1>20, <1>21, <1>22, <1>23, <1>24, <1>25, <1>26, <1>27, <1>28, <1>29,
     <1>30, <1>31, <1>32
     DEF Next, Signal, Protocol, Prepare, Pair, Abort, CleanUp, Finish

-----------------------------------------------------------------------------
(* Where setup goes *)

\* Once the decision is read there is no way back to it.
LEMMA Undeciding ==
    [Next]_vars /\ pc' \in Undecided => pc \in Undecided /\ confirmed' = confirmed
BY DEF Undecided, Asking, Preparing, Fail, Say, Onward, Prepares, runVars, backendVars,
       Next, Signal, Protocol, Prepare, Pair, Abort, CleanUp, Finish, vars, CallerSends,
       PairingCompletes, CallCanceled, AgentCalled, SignalAborts, SignalStopsCommit, Start,
       CheckEnvironment, ForgetRepaired, OpenWindow, RegisterAgent, SetPairable,
       SetDiscoverable, OpenReconnectWindow, RefuseBonded, TakeCandidate, Confirm, Reject,
       DecisionFails, Settle, SettleDeadline, VerifyAncs, CommandAborts, DeadlinePasses,
       Quiesce, RestoreAdapter, Unregister, CommandStopsCommit, Commit

LEMMA Confirming ==
    [Next]_vars /\ pc = "confirm" /\ pc' \in Undecided =>
        pc' = "confirm" /\ candidate' = candidate /\ kind' = kind
BY DEF Undecided, Asking, Preparing, Fail, Say, Onward, Prepares, runVars, backendVars,
       Next, Signal, Protocol, Prepare, Pair, Abort, CleanUp, Finish, vars, CallerSends,
       PairingCompletes, CallCanceled, AgentCalled, SignalAborts, SignalStopsCommit, Start,
       CheckEnvironment, ForgetRepaired, OpenWindow, RegisterAgent, SetPairable,
       SetDiscoverable, OpenReconnectWindow, RefuseBonded, TakeCandidate, Confirm, Reject,
       DecisionFails, Settle, SettleDeadline, VerifyAncs, CommandAborts, DeadlinePasses,
       Quiesce, RestoreAdapter, Unregister, CommandStopsCommit, Commit

LEMMA StillAsking == [Next]_vars /\ pc' \in Asking => pc \in Asking \cup {"start"}
BY DEF Undecided, Asking, Preparing, Fail, Say, Onward, Prepares, runVars, backendVars,
       Next, Signal, Protocol, Prepare, Pair, Abort, CleanUp, Finish, vars, CallerSends,
       PairingCompletes, CallCanceled, AgentCalled, SignalAborts, SignalStopsCommit, Start,
       CheckEnvironment, ForgetRepaired, OpenWindow, RegisterAgent, SetPairable,
       SetDiscoverable, OpenReconnectWindow, RefuseBonded, TakeCandidate, Confirm, Reject,
       DecisionFails, Settle, SettleDeadline, VerifyAncs, CommandAborts, DeadlinePasses,
       Quiesce, RestoreAdapter, Unregister, CommandStopsCommit, Commit

LEMMA Decided ==
    [Next]_vars /\ pc' \in {"settle", "verify"} =>
        /\ pc \in {"settle", "verify"} \/ Confirm
        /\ registered' = registered
BY DEF Undecided, Asking, Preparing, Fail, Say, Onward, Prepares, runVars, backendVars,
       Next, Signal, Protocol, Prepare, Pair, Abort, CleanUp, Finish, vars, CallerSends,
       PairingCompletes, CallCanceled, AgentCalled, SignalAborts, SignalStopsCommit, Start,
       CheckEnvironment, ForgetRepaired, OpenWindow, RegisterAgent, SetPairable,
       SetDiscoverable, OpenReconnectWindow, RefuseBonded, TakeCandidate, Confirm, Reject,
       DecisionFails, Settle, SettleDeadline, VerifyAncs, CommandAborts, DeadlinePasses,
       Quiesce, RestoreAdapter, Unregister, CommandStopsCommit, Commit

\* How a candidate is found.
LEMMA Finding ==
    Agent /\ [Next]_vars /\ pc' = "confirm" =>
        \/ pc = "confirm"
        \/ TakeCandidate
        \/ kind' = "existing-bond"
BY DEF Undecided, Asking, Preparing, Fail, Say, Onward, Prepares, runVars, backendVars,
       Agent, Next, Signal, Protocol, Prepare, Pair, Abort, CleanUp, Finish, vars,
       CallerSends, PairingCompletes, CallCanceled, AgentCalled, SignalAborts,
       SignalStopsCommit, Start, CheckEnvironment, ForgetRepaired, OpenWindow,
       RegisterAgent, SetPairable, SetDiscoverable, OpenReconnectWindow, RefuseBonded,
       Confirm, Reject, DecisionFails, Settle, SettleDeadline, VerifyAncs, CommandAborts,
       DeadlinePasses, Quiesce, RestoreAdapter, Unregister, CommandStopsCommit, Commit

LEMMA BondsFrame == [Next]_vars => OpenWindow \/ initial_bonds' = initial_bonds
BY DEF backendVars, Next, Signal, Protocol, Prepare, Pair, Abort, CleanUp, Finish, vars,
       CallerSends, PairingCompletes, CallCanceled, AgentCalled, SignalAborts,
       SignalStopsCommit, Start, CheckEnvironment, ForgetRepaired, RegisterAgent,
       SetPairable, SetDiscoverable, OpenReconnectWindow, RefuseBonded, TakeCandidate,
       Confirm, Reject, DecisionFails, Settle, SettleDeadline, VerifyAncs, CommandAborts,
       DeadlinePasses, Quiesce, RestoreAdapter, Unregister, CommandStopsCommit, Commit

LEMMA ConfirmedFrame == [Next]_vars => Confirm \/ confirmed' = confirmed
BY DEF runVars, Next, Signal, Protocol, Prepare, Pair, Abort, CleanUp, Finish, vars,
       CallerSends, PairingCompletes, CallCanceled, AgentCalled, SignalAborts,
       SignalStopsCommit, Start, CheckEnvironment, ForgetRepaired, OpenWindow,
       RegisterAgent, SetPairable, SetDiscoverable, OpenReconnectWindow, RefuseBonded,
       TakeCandidate, Reject, DecisionFails, Settle, SettleDeadline, VerifyAncs,
       CommandAborts, DeadlinePasses, Quiesce, RestoreAdapter, Unregister,
       CommandStopsCommit, Commit

LEMMA AgentNext == SetupInv /\ [Next]_vars => Agent'
<1> SUFFICES ASSUME SetupInv, [Next]_vars PROVE Agent'
  OBVIOUS
<1> USE DEF Undecided, Windowed, Preparing, Fail, Say, Onward, Prepares, runVars, backendVars
<1>1. CASE CallerSends
  BY <1>1 DEF SetupInv, Agent, gateVars, CallerSends
<1>2. CASE PairingCompletes
  BY <1>2 DEF SetupInv, Agent, gateVars, PairingCompletes
<1>3. CASE CallCanceled
  BY <1>3 DEF SetupInv, Agent, gateVars, CallCanceled
<1>4. CASE AgentCalled
  BY <1>4 DEF SetupInv, Agent, gateVars, AgentCalled
<1>5. CASE SignalAborts
  BY <1>5 DEF SetupInv, Agent, gateVars, SignalAborts
<1>6. CASE SignalStopsCommit
  BY <1>6 DEF SetupInv, Agent, gateVars, SignalStopsCommit
<1>7. CASE Start
  BY <1>7 DEF SetupInv, Agent, gateVars, Start
<1>8. CASE CheckEnvironment
  BY <1>8 DEF SetupInv, Agent, gateVars, CheckEnvironment
<1>9. CASE ForgetRepaired
  BY <1>9 DEF SetupInv, Agent, gateVars, ForgetRepaired
<1>10. CASE OpenWindow
  BY <1>10 DEF SetupInv, Agent, gateVars, OpenWindow
<1>11. CASE RegisterAgent
  BY <1>11 DEF SetupInv, Agent, gateVars, RegisterAgent
<1>12. CASE SetPairable
  BY <1>12 DEF SetupInv, Agent, gateVars, SetPairable
<1>13. CASE SetDiscoverable
  BY <1>13 DEF SetupInv, Agent, gateVars, SetDiscoverable
<1>14. CASE OpenReconnectWindow
  BY <1>14 DEF SetupInv, Agent, gateVars, OpenReconnectWindow
<1>15. CASE RefuseBonded
  BY <1>15 DEF SetupInv, Agent, gateVars, RefuseBonded
<1>16. CASE TakeCandidate
  <2>1. Head(notices) \in Device
    BY <1>16 DEF SetupInv, TypeOK, TakeCandidate
  <2> QED
    BY <1>16, <2>1 DEF SetupInv, Agent, TakeCandidate
<1>17. CASE Confirm
  BY <1>17 DEF SetupInv, Agent, gateVars, Confirm
<1>18. CASE Reject
  BY <1>18 DEF SetupInv, Agent, gateVars, Reject
<1>19. CASE DecisionFails
  BY <1>19 DEF SetupInv, Agent, gateVars, DecisionFails
<1>20. CASE Settle
  BY <1>20 DEF SetupInv, Agent, gateVars, Settle
<1>21. CASE SettleDeadline
  BY <1>21 DEF SetupInv, Agent, gateVars, SettleDeadline
<1>22. CASE VerifyAncs
  BY <1>22 DEF SetupInv, Agent, gateVars, VerifyAncs
<1>23. CASE CommandAborts
  BY <1>23 DEF SetupInv, Agent, gateVars, CommandAborts
<1>24. CASE DeadlinePasses
  BY <1>24 DEF SetupInv, Agent, gateVars, DeadlinePasses
<1>25. CASE Quiesce
  BY <1>25 DEF SetupInv, Agent, gateVars, Quiesce
<1>26. CASE RestoreAdapter
  BY <1>26 DEF SetupInv, Agent, gateVars, RestoreAdapter
<1>27. CASE Unregister
  BY <1>27 DEF SetupInv, Agent, gateVars, Unregister
<1>28. CASE CommandStopsCommit
  BY <1>28 DEF SetupInv, Agent, gateVars, CommandStopsCommit
<1>29. CASE Commit
  BY <1>29 DEF SetupInv, Agent, gateVars, Commit
<1>30. CASE UNCHANGED vars
  BY <1>30 DEF SetupInv, Agent, gateVars, vars
<1> QED
  BY <1>1, <1>2, <1>3, <1>4, <1>5, <1>6, <1>7, <1>8, <1>9, <1>10, <1>11, <1>12, <1>13, <1>14,
     <1>15, <1>16, <1>17, <1>18, <1>19, <1>20, <1>21, <1>22, <1>23, <1>24, <1>25, <1>26, <1>27,
     <1>28, <1>29, <1>30
     DEF Next, Signal, Protocol, Prepare, Pair, Abort, CleanUp, Finish

-----------------------------------------------------------------------------
(* The gate *)

\* One more call, at the end.
LEMMA CalledLast ==
    ASSUME GateType, NEW d \in Device, NEW answer,
           answer \in {"waiting", "accepted", "rejected", "canceled"}, Called(d, answer)
    PROVE  /\ DOMAIN calls' = DOMAIN calls \cup {Len(calls) + 1}
           /\ Len(calls) + 1 \notin DOMAIN calls
           /\ calls'[Len(calls) + 1].device = d /\ calls'[Len(calls) + 1].answer = answer
           /\ \A i \in DOMAIN calls : calls'[i] = calls[i]
<1>1. Len(calls) \in Nat
  BY DEF GateType
<1>2. /\ DOMAIN calls = 1..Len(calls) /\ DOMAIN calls' = 1..(Len(calls) + 1)
      /\ calls'[Len(calls) + 1] = [device |-> d, answer |-> answer]
      /\ \A i \in DOMAIN calls : calls'[i] = calls[i]
  BY CalledTypes
<1> QED
  BY <1>1, <1>2

LEMMA CanceledCalls ==
    ASSUME GateType, CallCanceled
    PROVE  /\ DOMAIN calls' = DOMAIN calls
           /\ \A i \in DOMAIN calls : calls'[i].device = calls[i].device
           /\ \A i \in DOMAIN calls : calls'[i].answer \in {calls[i].answer, "canceled"}
<1>1. PICK i \in DOMAIN calls : calls' = [calls EXCEPT ![i].answer = "canceled"]
  BY DEF CallCanceled
<1>2. \A j \in DOMAIN calls : calls[j] \in Call
  BY DEF GateType
<1>3. DOMAIN calls' = DOMAIN calls
  BY <1>1
<1>4. calls'[i] = [calls[i] EXCEPT !.answer = "canceled"]
  BY <1>1
<1>5. \A j \in DOMAIN calls : j # i => calls'[j] = calls[j]
  BY <1>1
<1>6. calls'[i].device = calls[i].device /\ calls'[i].answer = "canceled"
  BY <1>2, <1>4 DEF Call
<1> QED
  BY <1>3, <1>5, <1>6

\* A refusal gives nobody a yes, and lets the device go if it was the active one.
LEMMA Refusing ==
    ASSUME GateType, NEW d, Answer(d, FALSE)
    PROVE  /\ DOMAIN calls' = DOMAIN calls /\ approved' = approved
           /\ \A i \in DOMAIN calls : calls'[i].device = calls[i].device
           /\ \A i \in DOMAIN calls : calls'[i].answer = "accepted" => calls[i].answer = "accepted"
           /\ \A i \in DOMAIN calls : calls'[i].answer = "waiting" =>
                 calls[i].answer = "waiting" /\ (i \in waiters => active # d)
           /\ active = d => waiters' = {} /\ active' = NoDevice
           /\ active # d => UNCHANGED <<calls, active, waiters>>
<1>1. CASE active = d
  <2>1. calls' = Released(FALSE) /\ waiters' = {} /\ active' = NoDevice /\ approved' = approved
    BY <1>1 DEF Answer
  <2> QED
    BY <1>1, <2>1, ReleasedTypes
<1>2. CASE active # d
  BY <1>2 DEF Answer
<1> QED
  BY <1>1, <1>2

\* The yes for the active device answers all that wait for it.
LEMMA Accepting ==
    ASSUME GateType, NEW d, Answer(d, TRUE), active = d
    PROVE  /\ DOMAIN calls' = DOMAIN calls
           /\ approved' = d /\ active' = active /\ waiters' = {}
           /\ \A i \in DOMAIN calls : calls'[i].device = calls[i].device
           /\ \A i \in DOMAIN calls : calls'[i].answer = "accepted" =>
                 calls[i].answer = "accepted" \/ i \in waiters
           /\ \A i \in DOMAIN calls : calls'[i].answer = "waiting" =>
                 calls[i].answer = "waiting" /\ i \notin waiters
<1>1. calls' = Released(TRUE) /\ waiters' = {} /\ active' = active /\ approved' = d
  BY DEF Answer
<1> QED
  BY <1>1, ReleasedTypes

LEMMA AcceptedNext == SetupInv /\ [Next]_vars => Accepted'
<1> SUFFICES ASSUME SetupInv, [Next]_vars PROVE Accepted'
  OBVIOUS
<1>0. GateType /\ TypeOK
  BY TypeParts DEF SetupInv
<1>1. pc' \in Undecided => confirmed' = NoDevice
  BY Undeciding DEF SetupInv, Accepted
<1>2. pc' = "confirm" /\ kind' = "pairing" => candidate' \notin initial_bonds'
  <2> SUFFICES ASSUME pc' = "confirm", kind' = "pairing" PROVE candidate' \notin initial_bonds'
    OBVIOUS
  <2>1. CASE pc = "confirm"
    <3>1. candidate' = candidate /\ kind' = kind
      BY <2>1, Confirming DEF Undecided
    <3>2. initial_bonds' = initial_bonds
      BY <2>1, BondsFrame DEF OpenWindow, Prepares
    <3> QED
      BY <2>1, <3>1, <3>2 DEF SetupInv, Accepted
  <2>2. CASE TakeCandidate
    BY <2>2 DEF TakeCandidate, Say, Fail, backendVars
  <2> QED
    BY <2>1, <2>2, Finding DEF SetupInv
<1>3. \A i \in DOMAIN calls : calls[i].device \in Device /\ calls[i].device # NoDevice
  <2>1. \A i \in DOMAIN calls : calls[i] \in Call
    BY <1>0 DEF GateType
  <2> QED
    BY <2>1, DeviceAssumption DEF Call
<1> DEFINE Approves == approved # NoDevice => approved = confirmed /\ confirmed \notin initial_bonds
           Accepts == \A i \in DOMAIN calls : calls[i].answer = "accepted" =>
                          calls[i].device = confirmed /\ confirmed \notin initial_bonds
<1>4. Approves /\ Accepts
  BY DEF SetupInv, Accepted
<1>5. pc \in Undecided =>
        approved = NoDevice /\ \A i \in DOMAIN calls : calls[i].answer # "accepted"
  BY <1>3, <1>4 DEF SetupInv, Accepted
<1>6. CASE Confirm
  <2>1. confirmed' = candidate /\ initial_bonds' = initial_bonds /\ pc = "confirm"
    BY <1>6 DEF Confirm, backendVars
  <2>2. CASE UNCHANGED <<calls, approved>>
    BY <1>1, <1>2, <1>5, <2>1, <2>2 DEF Accepted, Undecided
  <2>3. CASE kind = "pairing" /\ Answer(candidate, TRUE) /\ active # candidate
    BY <2>2, <2>3 DEF Answer
  <2>4. CASE kind = "pairing" /\ Answer(candidate, TRUE) /\ active = candidate
    <3>1. candidate \notin initial_bonds
      BY <2>1, <2>4 DEF SetupInv, Accepted
    <3>2. /\ DOMAIN calls' = DOMAIN calls /\ approved' = candidate
          /\ \A i \in DOMAIN calls : calls'[i].device = calls[i].device
          /\ \A i \in DOMAIN calls : calls'[i].answer = "accepted" =>
                calls[i].answer = "accepted" \/ i \in waiters
      BY <1>0, <2>4, Accepting
    <3>3. \A i \in waiters : calls[i].device = candidate
      BY <2>4 DEF SetupInv, Gate
    <3>4. \A i \in DOMAIN calls' : calls'[i].answer = "accepted" =>
              calls'[i].device = confirmed' /\ confirmed' \notin initial_bonds'
      BY <1>5, <2>1, <3>1, <3>2, <3>3 DEF Undecided
    <3> QED
      BY <1>1, <1>2, <2>1, <3>1, <3>2, <3>4 DEF Accepted
  <2> QED
    BY <1>6, <2>2, <2>3, <2>4 DEF Confirm, gateVars
<1>7. CASE OpenWindow
  <2>1. UNCHANGED <<calls, approved>> /\ pc \in Undecided
    BY <1>7 DEF OpenWindow, gateVars, Prepares, Undecided, Preparing
  <2> QED
    BY <1>1, <1>2, <1>5, <2>1 DEF Accepted
<1>8. CASE UNCHANGED <<initial_bonds, confirmed>>
  <2>1. SUFFICES ASSUME ~Confirm PROVE Approves' /\ Accepts'
    BY <1>1, <1>2, <1>6 DEF Accepted
  <2>2. CASE AgentCalled
    <3>1. PICK d \in Device :
            \/ Approved(d) /\ Called(d, "accepted") /\ UNCHANGED gateVars
            \/ Called(d, "rejected") /\ UNCHANGED gateVars
            \/ Wait(d)
      BY <2>2 DEF AgentCalled
    <3>2. approved' = approved
      BY <3>1 DEF gateVars, Wait
    <3>3. PICK answer : /\ Called(d, answer)
                        /\ answer \in {"waiting", "rejected", "canceled"}
                           \/ (answer = "accepted" /\ approved = d)
      BY <3>1 DEF Wait, Approved
    <3>4. /\ DOMAIN calls' = DOMAIN calls \cup {Len(calls) + 1}
          /\ calls'[Len(calls) + 1].device = d /\ calls'[Len(calls) + 1].answer = answer
          /\ \A i \in DOMAIN calls : calls'[i] = calls[i]
      BY <1>0, <3>3, CalledLast
    <3> QED
      BY <1>4, <1>8, <3>2, <3>3, <3>4, DeviceAssumption
  <2>3. CASE CallCanceled
    <3>1. approved' = approved
      BY <2>3 DEF CallCanceled, gateVars
    <3> QED
      BY <1>0, <1>4, <1>8, <2>3, <3>1, CanceledCalls
  <2>4. ASSUME NEW d, Answer(d, FALSE) PROVE Approves' /\ Accepts'
    BY <1>0, <1>4, <1>8, <2>4, Refusing
  <2>5. CASE UNCHANGED <<calls, approved>>
    BY <1>4, <1>8, <2>5
  <2>6. CASE RefuseBonded
    BY <2>4, <2>6 DEF RefuseBonded
  <2>7. CASE TakeCandidate \/ Quiesce \/ UNCHANGED <<calls, gateVars>>
    BY <2>5, <2>7 DEF TakeCandidate, Quiesce, gateVars
  <2>8. CASE Reject
    BY <2>4, <2>5, <2>8 DEF Reject, gateVars
  <2> QED
    BY <2>1, <2>2, <2>3, <2>6, <2>7, <2>8, GateFrame
<1> QED
  BY <1>6, <1>7, <1>8, BondsFrame, ConfirmedFrame

\* Where a step leaves the gate alone, a notice or the question remains.
LEMMA GateNext == SetupInv /\ [Next]_vars => Gate'
<1> SUFFICES ASSUME SetupInv, [Next]_vars PROVE Gate'
  OBVIOUS
<1>0. GateType /\ TypeOK /\ Gate
  BY TypeParts DEF SetupInv
<1> DEFINE Waits == \A i \in waiters : calls[i].device = active /\ active # NoDevice
           Known == \A i \in DOMAIN calls : calls[i].answer = "waiting" => i \in waiters
           Queued == \E n \in DOMAIN notices : notices[n] = active
           None == \A i \in DOMAIN calls : calls[i].answer # "waiting"
           Closed == approved # NoDevice \/ registered # "agent"
           Asked == Queued \/ (pc = "confirm" /\ candidate = active)
<1>1. /\ Waits
      /\ pc \in Asking \cup {"start"} => Known
      /\ pc \in Undecided /\ active # NoDevice => Asked
      /\ pc \in {"settle", "verify"} => None /\ Closed
  BY <1>0 DEF Gate
<1>2. SUFFICES /\ Waits'
               /\ pc' \in Asking \cup {"start"} => Known'
               /\ pc' \in Undecided /\ active' # NoDevice => Asked'
               /\ pc' \in {"settle", "verify"} => None' /\ Closed'
  BY DEF Gate
<1>3. pc' \in Asking \cup {"start"} => pc \in Asking \cup {"start"}
  <2>1. pc' = "start" => pc = "start"
    BY Undeciding, StillAsking DEF Undecided, Next, Signal, Protocol, Prepare, Pair, Abort, CleanUp,
       Finish, vars, runVars, Fail, Say, Onward, CallerSends, PairingCompletes, CallCanceled,
       AgentCalled, SignalAborts, SignalStopsCommit, Start, CheckEnvironment, ForgetRepaired,
       OpenWindow, RegisterAgent, SetPairable, SetDiscoverable, OpenReconnectWindow, RefuseBonded,
       TakeCandidate, Confirm, Reject, DecisionFails, Settle, SettleDeadline, VerifyAncs,
       CommandAborts, DeadlinePasses, Quiesce, RestoreAdapter, Unregister, CommandStopsCommit,
       Commit
  <2> QED
    BY <2>1, StillAsking
<1>4. DOMAIN notices = 1..Len(notices) /\ Len(notices) \in Nat /\ notices \in Seq(Device)
  BY <1>0 DEF GateType
<1> HIDE DEF Waits, Known, Queued, None, Closed, Asked
<1>5. CASE AgentCalled
  <2>1. UNCHANGED <<pc, candidate, registered>> /\ registered = "agent"
    BY <1>5 DEF AgentCalled, backendVars, runVars
  <2>2. PICK d \in Device :
          \/ Called(d, "accepted") /\ UNCHANGED gateVars
          \/ Called(d, "rejected") /\ UNCHANGED gateVars
          \/ ~Refused(d) /\ Wait(d)
    BY <1>5 DEF AgentCalled
  <2>3. CASE (Called(d, "accepted") \/ Called(d, "rejected")) /\ UNCHANGED gateVars
    <3>1. PICK answer \in {"accepted", "rejected"} : Called(d, answer)
      BY <2>3
    <3>2. /\ DOMAIN calls' = DOMAIN calls \cup {Len(calls) + 1}
          /\ calls'[Len(calls) + 1].answer = answer
          /\ \A i \in DOMAIN calls : calls'[i] = calls[i]
      BY <1>0, <3>1, CalledLast
    <3>3. UNCHANGED <<notices, active, approved, waiters>>
      BY <2>3 DEF gateVars
    <3>4. Waits' /\ (Known => Known') /\ (None => None')
      BY <1>0, <1>1, <3>1, <3>2, <3>3 DEF Waits, Known, None, GateType
    <3> QED
      BY <1>1, <2>1, <3>3, <3>4 DEF Asked, Queued, Closed
  <2>4. CASE ~Refused(d) /\ Wait(d)
    <3>1. /\ active \in {NoDevice, d} /\ approved = NoDevice
          /\ active' = d /\ approved' = approved /\ waiters' = waiters \cup {Len(calls) + 1}
      BY <2>4 DEF Refused, Wait
    <3>2. PICK answer \in {"waiting", "canceled"} : Called(d, answer)
      BY <2>4 DEF Wait
    <3>3. /\ DOMAIN calls' = DOMAIN calls \cup {Len(calls) + 1}
          /\ calls'[Len(calls) + 1].device = d
          /\ \A i \in DOMAIN calls : calls'[i] = calls[i]
      BY <1>0, <3>2, CalledLast
    <3>4. Waits' /\ (Known => Known')
      BY <1>0, <1>1, <3>1, <3>3, DeviceAssumption DEF Waits, Known, GateType
    <3>5. pc \in Undecided => pc \in Windowed /\ gate
      BY <2>1 DEF SetupInv, Agent, Undecided, Windowed, Preparing
    <3>6. pc \in Undecided => Asked'
      <4>1. CASE active = d
        <5>1. notices' = notices
          BY <2>4, <4>1, DeviceAssumption DEF Wait
        <5> QED
          BY <1>1, <2>1, <3>1, <4>1, <5>1, DeviceAssumption DEF Asked, Queued
      <4>2. CASE active = NoDevice /\ pc \in Undecided
        <5>1. notices' = Append(notices, d)
          BY <2>4, <3>5, <4>2 DEF Wait
        <5>2. DOMAIN notices' = 1..(Len(notices) + 1) /\ notices'[Len(notices) + 1] = d
          BY <1>4, <5>1
        <5> QED
          BY <1>4, <3>1, <5>2 DEF Asked, Queued
      <4> QED
        BY <3>1, <4>1, <4>2
    <3>7. pc \notin {"settle", "verify"}
      BY <1>1, <2>1, <3>1 DEF Closed
    <3> QED
      BY <1>1, <2>1, <3>4, <3>6, <3>7
  <2> QED
    BY <2>2, <2>3, <2>4
<1>6. CASE CallCanceled
  <2>1. UNCHANGED <<pc, candidate, registered, notices, active, approved, waiters>>
    BY <1>6 DEF CallCanceled, backendVars, runVars, gateVars
  <2>2. Waits' /\ (Known => Known') /\ (None => None')
    BY <1>0, <1>1, <1>6, <2>1, CanceledCalls DEF Waits, Known, None, GateType
  <2> QED
    BY <1>1, <2>1, <2>2 DEF Asked, Queued, Closed
<1>7. ASSUME NEW d, Answer(d, FALSE) PROVE Waits' /\ (Known => Known')
  BY <1>0, <1>1, <1>7, Refusing DEF Waits, Known, GateType
<1>8. CASE RefuseBonded
  <2>1. /\ pc = "candidate" /\ pc' = pc /\ notices # <<>> /\ notices' = Tail(notices)
        /\ Answer(Head(notices), FALSE)
    BY <1>8 DEF RefuseBonded, runVars
  <2>2. Known
    BY <1>1, <2>1 DEF Asking
  <2>3. active' # NoDevice => Asked'
    <3> SUFFICES ASSUME active' # NoDevice PROVE Queued'
      BY DEF Asked
    <3>1. active # Head(notices) /\ active' = active
      BY <1>0, <2>1, Refusing
    <3>2. PICK n \in 1..Len(notices) : notices[n] = active
      BY <1>1, <1>4, <2>1, <3>1 DEF Asked, Queued, Undecided
    <3>3. n # 1
      BY <1>4, <2>1, <3>1, <3>2
    <3>4. /\ DOMAIN notices' = 1..(Len(notices) - 1) /\ n - 1 \in 1..(Len(notices) - 1)
          /\ notices'[n - 1] = active
      BY <1>4, <2>1, <3>2, <3>3
    <3> QED
      BY <3>1, <3>4 DEF Queued
  <2> QED
    BY <1>7, <2>1, <2>2, <2>3
<1>9. CASE TakeCandidate
  <2>1. /\ pc = "candidate" /\ pc' \in {"confirm", "quiesce"} /\ notices # <<>>
        /\ notices' = Tail(notices) /\ UNCHANGED <<calls, active, waiters>>
        /\ pc' = "confirm" => candidate' = Head(notices)
    BY <1>9 DEF TakeCandidate, Say, Fail
  <2>2. Waits' /\ Known'
    BY <1>1, <2>1 DEF Waits, Known, Asking
  <2>3. pc' = "confirm" /\ active' # NoDevice => Asked'
    <3> SUFFICES ASSUME pc' = "confirm", active' # NoDevice, active # Head(notices) PROVE Queued'
      BY <2>1 DEF Asked
    <3>1. PICK n \in 1..Len(notices) : notices[n] = active
      BY <1>1, <1>4, <2>1 DEF Asked, Queued, Undecided
    <3>2. n # 1
      BY <1>4, <2>1, <3>1
    <3>3. /\ DOMAIN notices' = 1..(Len(notices) - 1) /\ n - 1 \in 1..(Len(notices) - 1)
          /\ notices'[n - 1] = active
      BY <1>4, <2>1, <3>1, <3>2
    <3> QED
      BY <2>1, <3>3 DEF Queued
  <2> QED
    BY <2>1, <2>2, <2>3 DEF Undecided, Preparing
<1>10. CASE Confirm
  <2>1. /\ pc = "confirm" /\ pc' \in {"verify", "settle", "quiesce"} /\ registered' = registered
    BY <1>10 DEF Confirm, Say, Onward, Fail, backendVars
  <2>2. pc' \notin Undecided
    BY <2>1 DEF Undecided, Preparing
  <2>3. Known
    BY <1>1, <2>1 DEF Asking
  <2>4. CASE kind = "existing-bond"
    <3>1. UNCHANGED <<calls, gateVars>> /\ calls = <<>> /\ registered # "agent"
      BY <1>10, <2>4 DEF Confirm, SetupInv, Agent
    <3>2. Waits' /\ Known' /\ None' /\ Closed'
      BY <1>1, <2>1, <2>3, <3>1 DEF Waits, Known, None, Closed, gateVars
    <3> QED
      BY <2>2, <3>2
  <2>5. CASE kind = "pairing" /\ active = candidate
    <3>1. Answer(candidate, TRUE) /\ candidate # NoDevice
      BY <1>10, <2>5, DeviceAssumption DEF Confirm, SetupInv, Agent
    <3>2. /\ DOMAIN calls' = DOMAIN calls /\ approved' = candidate /\ waiters' = {}
          /\ \A i \in DOMAIN calls : calls'[i].answer = "waiting" =>
                calls[i].answer = "waiting" /\ i \notin waiters
      BY <1>0, <2>5, <3>1, Accepting
    <3>3. Waits' /\ Known' /\ None' /\ Closed'
      BY <2>3, <3>1, <3>2 DEF Waits, Known, None, Closed
    <3> QED
      BY <2>2, <3>3
  <2>6. CASE kind = "pairing" /\ active # candidate
    <3>1. UNCHANGED <<calls, active, waiters>> /\ pc' = "quiesce"
      BY <1>10, <2>6 DEF Confirm, Answer, Fail
    <3> QED
      BY <1>1, <2>3, <3>1 DEF Waits, Known, Undecided, Preparing
  <2> QED
    BY <1>10, <2>4, <2>5, <2>6 DEF Confirm
<1>11. CASE Reject
  <2>1. pc = "confirm" /\ pc' = "quiesce"
    BY <1>11 DEF Reject, Fail
  <2>2. Answer(candidate, FALSE) \/ UNCHANGED <<calls, gateVars>>
    BY <1>11 DEF Reject
  <2>3. Waits'
    BY <1>1, <1>7, <2>2 DEF Waits, gateVars
  <2> QED
    BY <2>1, <2>3 DEF Asking, Undecided, Preparing
<1>12. CASE Quiesce
  <2>1. pc' = "restore" /\ UNCHANGED <<calls, active, waiters>>
    BY <1>12 DEF Quiesce
  <2> QED
    BY <1>1, <2>1 DEF Waits, Asking, Undecided, Preparing
<1>13. CASE UNCHANGED <<calls, gateVars>>
  <2>1. UNCHANGED <<calls, notices, active, approved, waiters>>
    BY <1>13 DEF gateVars
  <2>2. Waits' /\ (pc' \in Asking \cup {"start"} => Known')
    BY <1>1, <1>3, <2>1 DEF Waits, Known
  <2>3. pc' \in Undecided /\ active' # NoDevice => Asked'
    BY <1>1, <2>1, Undeciding, Confirming DEF Asked, Queued
  <2>4. pc' \in {"settle", "verify"} => None' /\ Closed'
    BY <1>1, <1>10, <2>1, Decided DEF None, Closed
  <2> QED
    BY <2>2, <2>3, <2>4
<1> QED
  BY <1>5, <1>6, <1>8, <1>9, <1>10, <1>11, <1>12, <1>13, GateFrame

-----------------------------------------------------------------------------
(* The adapter, and what is temporary *)

LEMMA OptionsFixed == [Next]_vars => UNCHANGED optionVars
BY DEF Next, Signal, Protocol, Prepare, Pair, Abort, CleanUp, Finish, vars, CallerSends,
       PairingCompletes, CallCanceled, AgentCalled, SignalAborts, SignalStopsCommit, Start,
       CheckEnvironment, ForgetRepaired, OpenWindow, RegisterAgent, SetPairable,
       SetDiscoverable, OpenReconnectWindow, RefuseBonded, TakeCandidate, Confirm, Reject,
       DecisionFails, Settle, SettleDeadline, VerifyAncs, CommandAborts, DeadlinePasses,
       Quiesce, RestoreAdapter, Unregister, CommandStopsCommit, Commit

\* The places with nothing captured: before the window, and after the restoration.
Before == {"start", "environment", "forget", "window", "reconnect"}
After == {"unregister", "commit", "done"}

LEMMA Uncaptured ==
    [Next]_vars /\ pc' \in Before \cup After => pc \in Before \cup After \/ RestoreAdapter
BY DEF Before, After, Preparing, Fail, Say, Onward, Prepares, runVars, Next, Signal,
       Protocol, Prepare, Pair, Abort, CleanUp, Finish, vars, CallerSends,
       PairingCompletes, CallCanceled, AgentCalled, SignalAborts, SignalStopsCommit, Start,
       CheckEnvironment, ForgetRepaired, OpenWindow, RegisterAgent, SetPairable,
       SetDiscoverable, OpenReconnectWindow, RefuseBonded, TakeCandidate, Confirm, Reject,
       DecisionFails, Settle, SettleDeadline, VerifyAncs, CommandAborts, DeadlinePasses,
       Quiesce, Unregister, CommandStopsCommit, Commit

LEMMA Capturing ==
    [Next]_vars /\ pc' \in {"agent", "pairable", "discoverable"} =>
        pc \in {"agent", "pairable", "discoverable"} \/ OpenWindow
BY DEF Before, After, Preparing, Fail, Say, Onward, Prepares, runVars, Next, Signal,
       Protocol, Prepare, Pair, Abort, CleanUp, Finish, vars, CallerSends,
       PairingCompletes, CallCanceled, AgentCalled, SignalAborts, SignalStopsCommit, Start,
       CheckEnvironment, ForgetRepaired, RegisterAgent, SetPairable, SetDiscoverable,
       OpenReconnectWindow, RefuseBonded, TakeCandidate, Confirm, Reject, DecisionFails,
       Settle, SettleDeadline, VerifyAncs, CommandAborts, DeadlinePasses, Quiesce,
       RestoreAdapter, Unregister, CommandStopsCommit, Commit

LEMMA StaysAfter == [Next]_vars /\ pc \in After => pc' \in After
BY DEF After, Preparing, Fail, Say, Onward, Prepares, runVars, Next, Signal, Protocol,
       Prepare, Pair, Abort, CleanUp, Finish, vars, CallerSends,
       PairingCompletes, CallCanceled, AgentCalled, SignalAborts, SignalStopsCommit, Start,
       CheckEnvironment, ForgetRepaired, OpenWindow, RegisterAgent, SetPairable,
       SetDiscoverable, OpenReconnectWindow, RefuseBonded, TakeCandidate, Confirm, Reject,
       DecisionFails, Settle, SettleDeadline, VerifyAncs, CommandAborts, DeadlinePasses,
       Quiesce, RestoreAdapter, Unregister, CommandStopsCommit, Commit

LEMMA Restoring ==
    [Next]_vars /\ pc' = "unregister" =>
        RestoreAdapter \/ (pc = "unregister" /\ clean' = clean)
BY DEF After, Preparing, Fail, Say, Onward, Prepares, runVars, Next, Signal, Protocol,
       Prepare, Pair, Abort, CleanUp, Finish, vars, CallerSends,
       PairingCompletes, CallCanceled, AgentCalled, SignalAborts, SignalStopsCommit, Start,
       CheckEnvironment, ForgetRepaired, OpenWindow, RegisterAgent, SetPairable,
       SetDiscoverable, OpenReconnectWindow, RefuseBonded, TakeCandidate, Confirm, Reject,
       DecisionFails, Settle, SettleDeadline, VerifyAncs, CommandAborts, DeadlinePasses,
       Quiesce, Unregister, CommandStopsCommit, Commit

LEMMA Committing ==
    [Next]_vars /\ pc' = "commit" => pc = "commit" \/ (Unregister /\ pc' = "commit")
BY DEF After, Preparing, Fail, Say, Onward, Prepares, runVars, Next, Signal, Protocol,
       Prepare, Pair, Abort, CleanUp, Finish, vars, CallerSends,
       PairingCompletes, CallCanceled, AgentCalled, SignalAborts, SignalStopsCommit, Start,
       CheckEnvironment, ForgetRepaired, OpenWindow, RegisterAgent, SetPairable,
       SetDiscoverable, OpenReconnectWindow, RefuseBonded, TakeCandidate, Confirm, Reject,
       DecisionFails, Settle, SettleDeadline, VerifyAncs, CommandAborts, DeadlinePasses,
       Quiesce, RestoreAdapter, CommandStopsCommit, Commit

LEMMA CleanEnd ==
    ASSUME Unregister
    PROVE  /\ pc = "unregister" /\ (clean' => clean)
           /\ pc' = "commit" => clean'
           /\ pc' = "done" /\ report' \notin {"cleanup-failed", "unheard"} => clean'
<1>1. clean' \in {clean, FALSE}
  BY DEF Unregister
<1>2. clean' => clean
  BY <1>1
<1>3. pc = "unregister"
  BY DEF Unregister
<1>4. pc' = "commit" => clean'
  BY DEF Unregister
<1>5. pc' = "done" /\ report' \notin {"cleanup-failed", "unheard"} => clean'
  BY DEF Unregister
<1> QED
  BY <1>2, <1>3, <1>4, <1>5

LEMMA SettingsNext == SetupInv /\ [Next]_vars => Settings'
<1> SUFFICES ASSUME SetupInv, [Next]_vars PROVE Settings'
  OBVIOUS
<1>0. /\ adapter \in [Setting -> BOOLEAN] /\ original \in [Setting -> BOOLEAN]
      /\ snapshot \in Captured /\ clean \in BOOLEAN /\ Settings
  BY DEF SetupInv, TypeOK
<1>1. original' = original
  BY OptionsFixed DEF optionVars
<1>2. \A f \in [Setting -> BOOLEAN] : f # <<>>
  <2> SUFFICES ASSUME NEW f \in [Setting -> BOOLEAN], f = <<>> PROVE FALSE
    OBVIOUS
  <2>1. DOMAIN f = Setting /\ DOMAIN f = {}
    OBVIOUS
  <2> QED
    BY <2>1 DEF Setting
<1>3. ASSUME snapshot # <<>>, UNCHANGED <<snapshot, stuck>>,
             pc \notin Before \cup After, pc' \notin Before \cup After
      PROVE  Settings'
  BY <1>0, <1>1, <1>3 DEF Settings, Before, After
<1>4. CASE CommandAborts \/ SignalAborts
  <2>1. UNCHANGED <<snapshot, stuck>> /\ pc' = "quiesce" /\ InFlight
    BY <1>4 DEF CommandAborts, SignalAborts, Fail, backendVars
  <2>2. pc \in Preparing \cup {"candidate", "confirm", "settle", "verify"}
    BY <1>4 DEF CommandAborts, SignalAborts
  <2>3. CASE snapshot # <<>>
    BY <1>0, <1>1, <2>1, <2>2, <2>3 DEF Settings, Preparing
  <2>4. CASE snapshot = <<>>
    <3>1. Setting \cap {pc} = {}
      BY <1>0, <2>4 DEF Settings, Setting
    <3>2. adapter' = adapter
      BY <2>1, <3>1 DEF InFlight
    <3> QED
      BY <1>0, <1>1, <2>1, <2>2, <2>4, <3>2 DEF Settings, Preparing
  <2> QED
    BY <2>3, <2>4
<1>5. CASE OpenWindow
  <2>1. /\ pc = "window" /\ pc' \in {"agent", "quiesce"} /\ UNCHANGED <<adapter, stuck>>
        /\ snapshot' = adapter \/ (pc' = "quiesce" /\ snapshot' = snapshot)
    BY <1>5 DEF OpenWindow, Prepares, Onward, Fail
  <2>2. snapshot = <<>> /\ stuck = {}
    BY <1>0, <2>1 DEF Settings
  <2>3. adapter = original
    BY <1>0, <2>2 DEF Settings
  <2> QED
    BY <1>0, <1>1, <1>2, <2>1, <2>2, <2>3 DEF Settings
<1>6. CASE SetPairable \/ SetDiscoverable
  <2>1. /\ pc \in {"pairable", "discoverable"} /\ pc' \in {"discoverable", "candidate", "quiesce"}
        /\ UNCHANGED <<snapshot, stuck>>
    BY <1>6 DEF SetPairable, SetDiscoverable, Prepares, Onward, Say, Fail, backendVars
  <2> QED
    BY <1>0, <1>3, <2>1 DEF Settings, Before, After
<1>7. CASE RestoreAdapter
  <2>1. /\ pc = "restore" /\ pc' = "unregister" /\ snapshot' = <<>>
    BY <1>7 DEF RestoreAdapter
  <2>2. stuck = {}
    BY <1>0, <2>1 DEF Settings
  <2>3. CASE snapshot = <<>>
    BY <1>0, <1>1, <1>7, <2>1, <2>2, <2>3 DEF RestoreAdapter, Settings
  <2>4. CASE snapshot # <<>>
    <3>1. PICK failed \in SUBSET Setting :
            adapter' = Restored(failed) /\ stuck' = failed /\ clean' = (clean /\ failed = {})
      BY <1>7, <2>4 DEF RestoreAdapter
    <3>2. \A s \in Setting \ stuck' : adapter'[s] = original'[s]
      BY <1>0, <1>1, <2>4, <3>1 DEF Restored, Settings
    <3> QED
      BY <1>1, <2>1, <3>1, <3>2 DEF Settings
  <2> QED
    BY <2>3, <2>4
<1>8. CASE UNCHANGED <<adapter, snapshot, stuck>>
  <2>1. pc' \in Before \cup After => snapshot' = <<>>
    BY <1>0, <1>7, <1>8, Uncaptured DEF Settings, Before, After, RestoreAdapter
  <2>2. pc' \in {"agent", "pairable", "discoverable"} => snapshot' # <<>>
    BY <1>0, <1>2, <1>8, Capturing DEF Settings, OpenWindow, Prepares, Before, Fail, Onward
  <2>3. pc' \notin After => stuck' = {}
    BY <1>0, <1>8, StaysAfter DEF Settings, After
  <2>4. pc' = "unregister" /\ clean' => stuck' = {}
    BY <1>0, <1>7, <1>8, Restoring DEF Settings, RestoreAdapter
  <2>5. pc' = "commit" => stuck' = {}
    <3>1. pc' = "commit" => pc = "commit" \/ (pc = "unregister" /\ clean)
      BY CleanEnd, Committing
    <3> QED
      BY <1>0, <1>8, <3>1 DEF Settings
  <2> QED
    BY <1>0, <1>1, <1>8, <2>1, <2>2, <2>3, <2>4, <2>5 DEF Settings, Before, After
<1> QED
  BY <1>4, <1>5, <1>6, <1>7, <1>8, AdapterFrame

LEMMA TemporaryNext == SetupInv /\ [Next]_vars => Temporary'
<1> SUFFICES ASSUME SetupInv, [Next]_vars PROVE Temporary'
  OBVIOUS
<1>0. Temporary /\ Settings /\ Earned /\ clean \in BOOLEAN /\ subscribed \in BOOLEAN
  BY DEF SetupInv, TypeOK
<1> USE DEF Preparing, Cleaning, Fail, Say, Onward, Prepares, runVars, backendVars
<1>1. CASE CallerSends
  BY <1>0, <1>1 DEF Temporary, CallerSends
<1>2. CASE PairingCompletes
  BY <1>0, <1>2 DEF Temporary, PairingCompletes
<1>3. CASE CallCanceled
  BY <1>0, <1>3 DEF Temporary, CallCanceled
<1>4. CASE AgentCalled
  BY <1>0, <1>4 DEF Temporary, AgentCalled
<1>5. CASE SignalAborts
  BY <1>0, <1>5 DEF Temporary, SignalAborts
<1>6. CASE SignalStopsCommit
  BY <1>0, <1>6 DEF Temporary, Settings, SignalStopsCommit
<1>7. CASE Start
  BY <1>0, <1>7 DEF Temporary, Start
<1>8. CASE CheckEnvironment
  BY <1>0, <1>8 DEF Temporary, CheckEnvironment
<1>9. CASE ForgetRepaired
  BY <1>0, <1>9 DEF Temporary, ForgetRepaired
<1>10. CASE OpenWindow
  BY <1>0, <1>10 DEF Temporary, OpenWindow
<1>11. CASE RegisterAgent
  BY <1>0, <1>11 DEF Temporary, RegisterAgent
<1>12. CASE SetPairable
  BY <1>0, <1>12 DEF Temporary, SetPairable
<1>13. CASE SetDiscoverable
  BY <1>0, <1>13 DEF Temporary, SetDiscoverable
<1>14. CASE OpenReconnectWindow
  BY <1>0, <1>14 DEF Temporary, OpenReconnectWindow
<1>15. CASE RefuseBonded
  BY <1>0, <1>15 DEF Temporary, RefuseBonded
<1>16. CASE TakeCandidate
  BY <1>0, <1>16 DEF Temporary, TakeCandidate
<1>17. CASE Confirm
  BY <1>0, <1>17 DEF Temporary, Confirm
<1>18. CASE Reject
  BY <1>0, <1>18 DEF Temporary, Reject
<1>19. CASE DecisionFails
  BY <1>0, <1>19 DEF Temporary, DecisionFails
<1>20. CASE Settle
  BY <1>0, <1>20 DEF Temporary, Settle
<1>21. CASE SettleDeadline
  BY <1>0, <1>21 DEF Temporary, SettleDeadline
<1>22. CASE VerifyAncs
  BY <1>0, <1>22 DEF Temporary, VerifyAncs
<1>23. CASE CommandAborts
  BY <1>0, <1>23 DEF Temporary, CommandAborts
<1>24. CASE DeadlinePasses
  BY <1>0, <1>24 DEF Temporary, DeadlinePasses
<1>25. CASE Quiesce
  BY <1>0, <1>25 DEF Temporary, Quiesce
<1>26. CASE RestoreAdapter
  BY <1>0, <1>26 DEF Temporary, RestoreAdapter
<1>27. CASE Unregister
  <2>1. /\ pc = "unregister" /\ pc' \in {"commit", "done"} /\ registered' = "none"
        /\ UNCHANGED <<subscribed, stuck>>
    BY <1>27 DEF Unregister
  <2>2. pc' = "commit" => clean
    BY <1>27, CleanEnd
  <2>3. pc' = "done" /\ report' \notin {"cleanup-failed", "unheard"} => clean
    BY <1>27, CleanEnd
  <2>4. clean => stuck = {} /\ ~subscribed
    BY <1>0, <2>1 DEF Temporary, Settings
  <2> QED
    BY <1>0, <2>1, <2>2, <2>3, <2>4 DEF Temporary
<1>28. CASE CommandStopsCommit
  BY <1>0, <1>28 DEF Temporary, Settings, CommandStopsCommit
<1>29. CASE Commit
  BY <1>0, <1>29 DEF Temporary, Settings, Commit
<1>30. CASE UNCHANGED vars
  BY <1>0, <1>30 DEF Temporary, vars
<1> QED
  BY <1>1, <1>2, <1>3, <1>4, <1>5, <1>6, <1>7, <1>8, <1>9, <1>10, <1>11, <1>12, <1>13,
     <1>14, <1>15, <1>16, <1>17, <1>18, <1>19, <1>20, <1>21, <1>22, <1>23, <1>24, <1>25,
     <1>26, <1>27, <1>28, <1>29, <1>30
     DEF Next, Signal, Protocol, Prepare, Pair, Abort, CleanUp, Finish

LEMMA EarnedNext == SetupInv /\ [Next]_vars => Earned'
<1> SUFFICES ASSUME SetupInv, [Next]_vars PROVE Earned'
  OBVIOUS
<1>0. Earned /\ Accepted /\ CallerType
  BY TypeParts DEF SetupInv
<1> USE CommandFailureCode
<1> USE DEF Undecided, Ending, Preparing, Cleaning, Fail, Say, Onward, Prepares, runVars, callerVars
<1>1. CASE CallerSends
  BY <1>0, <1>1 DEF Earned, CallerSends
<1>2. CASE PairingCompletes
  BY <1>0, <1>2 DEF Earned, PairingCompletes
<1>3. CASE CallCanceled
  BY <1>0, <1>3 DEF Earned, CallCanceled
<1>4. CASE AgentCalled
  BY <1>0, <1>4 DEF Earned, AgentCalled
<1>5. CASE SignalAborts
  BY <1>0, <1>5 DEF Earned, SignalAborts
<1>6. CASE SignalStopsCommit
  BY <1>0, <1>6 DEF Earned, SignalStopsCommit
<1>7. CASE Start
  BY <1>0, <1>7 DEF Earned, Start
<1>8. CASE CheckEnvironment
  BY <1>0, <1>8 DEF Earned, CheckEnvironment
<1>9. CASE ForgetRepaired
  BY <1>0, <1>9 DEF Earned, ForgetRepaired
<1>10. CASE OpenWindow
  BY <1>0, <1>10 DEF Earned, OpenWindow
<1>11. CASE RegisterAgent
  BY <1>0, <1>11 DEF Earned, RegisterAgent
<1>12. CASE SetPairable
  BY <1>0, <1>12 DEF Earned, SetPairable
<1>13. CASE SetDiscoverable
  BY <1>0, <1>13 DEF Earned, SetDiscoverable
<1>14. CASE OpenReconnectWindow
  BY <1>0, <1>14 DEF Earned, OpenReconnectWindow
<1>15. CASE RefuseBonded
  BY <1>0, <1>15 DEF Earned, RefuseBonded
<1>16. CASE TakeCandidate
  BY <1>0, <1>16 DEF Earned, TakeCandidate
<1>17. CASE Confirm
  <2>1. pc = "confirm" /\ taken = 0 /\ confirmed' = candidate /\ candidate' = candidate
    BY <1>0, <1>17 DEF Earned, Confirm
  <2>2. taken' = 1 /\ sent' = sent /\ Len(sent) > 0 /\ sent[1] = "confirm"
    BY <1>0, <1>17, <2>1 DEF Confirm, Take, Unread, CallerType
  <2>3. pc' \in {"settle", "verify"} \/ (pc' = "quiesce" /\ report' # "none")
    BY <1>17 DEF Confirm
  <2> QED
    BY <2>1, <2>2, <2>3 DEF Earned
<1>18. CASE Reject
  BY <1>0, <1>18 DEF Earned, Reject
<1>19. CASE DecisionFails
  BY <1>0, <1>19 DEF Earned, DecisionFails
<1>20. CASE Settle
  BY <1>0, <1>20 DEF Earned, Settle
<1>21. CASE SettleDeadline
  BY <1>0, <1>21 DEF Earned, SettleDeadline
<1>22. CASE VerifyAncs
  BY <1>0, <1>22 DEF Earned, VerifyAncs
<1>23. CASE CommandAborts
  BY <1>0, <1>23 DEF Earned, CommandAborts
<1>24. CASE DeadlinePasses
  BY <1>0, <1>24 DEF Earned, DeadlinePasses
<1>25. CASE Quiesce
  BY <1>0, <1>25 DEF Earned, Quiesce
<1>26. CASE RestoreAdapter
  BY <1>0, <1>26 DEF Earned, RestoreAdapter
<1>27. CASE Unregister
  BY <1>0, <1>27 DEF Earned, Unregister
<1>28. CASE CommandStopsCommit
  BY <1>0, <1>28 DEF Earned, CommandStopsCommit
<1>29. CASE Commit
  BY <1>0, <1>29 DEF Earned, Commit
<1>30. CASE UNCHANGED vars
  BY <1>0, <1>30 DEF Earned, vars
<1> QED
  BY <1>1, <1>2, <1>3, <1>4, <1>5, <1>6, <1>7, <1>8, <1>9, <1>10, <1>11, <1>12, <1>13,
     <1>14, <1>15, <1>16, <1>17, <1>18, <1>19, <1>20, <1>21, <1>22, <1>23, <1>24, <1>25,
     <1>26, <1>27, <1>28, <1>29, <1>30
     DEF Next, Signal, Protocol, Prepare, Pair, Abort, CleanUp, Finish

-----------------------------------------------------------------------------
(* The inductive invariant *)

LEMMA InvInit == Init => SetupInv
<1> SUFFICES ASSUME Init PROVE SetupInv
  OBVIOUS
<1>1. TypeOK
  BY TypeInit
<1>2. Accepted /\ Gate /\ Agent
  BY DEF Init, Accepted, Gate, Agent, Undecided, Windowed, Preparing
<1>3. Settings /\ Temporary /\ Earned
  BY DEF Init, Settings, Temporary, Earned, Cleaning, Ending, Undecided
<1> QED
  BY <1>1, <1>2, <1>3 DEF SetupInv

LEMMA TypeNext == SetupInv /\ [Next]_vars => TypeOK'
<1> SUFFICES ASSUME SetupInv, [Next]_vars PROVE TypeOK'
  OBVIOUS
<1>1. TypeOK /\ (pc = "discoverable" => snapshot # <<>>)
  BY DEF SetupInv, Settings
<1>2. OptionType'
  BY <1>1, TypeParts, OptionsFixed DEF OptionType, optionVars
<1>3. AdapterType' /\ BondType' /\ GateType' /\ CallerType' /\ RunType'
  BY <1>1, AdapterTypeNext, BondTypeNext, GateTypeNext, CallerTypeNext, RunTypeNext
<1>4. (OptionType /\ AdapterType /\ BondType /\ GateType /\ CallerType /\ RunType)'
  BY <1>2, <1>3
<1> QED
  BY <1>4, TypeParts, PTL

\* The inductive invariant of the setup transaction.
THEOREM SetupInvCorrect == Spec => []SetupInv
<1>1. SetupInv /\ [Next]_vars => SetupInv'
  BY TypeNext, AcceptedNext, GateNext, AgentNext, SettingsNext, TemporaryNext, EarnedNext
     DEF SetupInv
<1> QED
  BY InvInit, <1>1, PTL DEF Spec

-----------------------------------------------------------------------------
(* What follows *)

\* Every variable keeps its type, and setup reports only the codes of the machine
\* interface, for any number of phones, agent calls and lines.
THEOREM TypeOKCorrect == Spec => []TypeOK
<1>1. SetupInv => TypeOK
  BY DEF SetupInv
<1> QED
  BY <1>1, SetupInvCorrect, PTL

\* BlueZ is never told yes for a device that the caller did not confirm or that was
\* bonded before the window, however its calls, their ends and the answer interleave.
THEOREM OnlyConfirmedCorrect == Spec => []OnlyConfirmedAccepted
<1>1. SetupInv => OnlyConfirmedAccepted
  BY DEF SetupInv, Accepted, OnlyConfirmedAccepted
<1> QED
  BY <1>1, SetupInvCorrect, PTL

\* No call of BlueZ is left waiting without a decision to come: its device's notice is
\* queued, or the caller is being asked about that device.
THEOREM WaitersAskedCorrect == Spec => []WaitersAreAsked
<1>1. SetupInv => WaitersAreAsked
  <2> SUFFICES ASSUME SetupInv, pc \in Asking,
                      NEW i \in DOMAIN calls, calls[i].answer = "waiting"
               PROVE  /\ i \in waiters /\ calls[i].device = active
                      /\ \/ \E n \in DOMAIN notices : notices[n] = active
                         \/ pc = "confirm" /\ candidate = active
    BY DEF WaitersAreAsked, Asking
  <2>1. Gate
    BY DEF SetupInv
  <2>2. i \in waiters
    BY <2>1 DEF Gate
  <2>3. calls[i].device = active /\ active # NoDevice
    BY <2>1, <2>2 DEF Gate
  <2>4. pc \in Undecided
    BY <2>1 DEF Gate, Asking, Undecided
  <2> QED
    BY <2>1, <2>2, <2>3, <2>4 DEF Gate
<1> QED
  BY <1>1, SetupInvCorrect, PTL

\* However setup ends, the settings of the adapter are those it found, but for one
\* that BlueZ would not set; any end that does not say that the cleanup failed leaves
\* no handle and no subscription either.
THEOREM CleanedUpCorrect == Spec => []CleanedUp
<1>1. SetupInv => CleanedUp
  <2> SUFFICES ASSUME SetupInv, pc = "done" PROVE CleanedUp
    BY DEF CleanedUp
  <2>1. /\ Settings /\ Temporary
        /\ adapter \in [Setting -> BOOLEAN] /\ original \in [Setting -> BOOLEAN]
    BY DEF SetupInv, TypeOK
  <2>2. \A s \in Setting \ stuck : adapter[s] = original[s]
    BY <2>1 DEF Settings
  <2>3. stuck = {} => adapter = original
    BY <2>1, <2>2
  <2> QED
    BY <2>1, <2>2, <2>3 DEF Temporary, CleanedUp
<1> QED
  BY <1>1, SetupInvCorrect, PTL

LEMMA CommitFrame == [Next]_vars => Commit \/ UNCHANGED diskVars
BY DEF Next, Signal, Protocol, Prepare, Pair, Abort, CleanUp, Finish, vars, CallerSends,
       PairingCompletes, CallCanceled, AgentCalled, SignalAborts, SignalStopsCommit, Start,
       CheckEnvironment, ForgetRepaired, OpenWindow, RegisterAgent, SetPairable,
       SetDiscoverable, OpenReconnectWindow, RefuseBonded, TakeCandidate, Confirm, Reject,
       DecisionFails, Settle, SettleDeadline, VerifyAncs, CommandAborts, DeadlinePasses,
       Quiesce, RestoreAdapter, Unregister, CommandStopsCommit

LEMMA Completing == [Next]_vars /\ report' = "complete" => Commit \/ report' = report
BY CommandFailureCode
   DEF Fail, Say, Onward, Prepares, runVars, Next, Signal, Protocol, Prepare, Pair, Abort,
       CleanUp, Finish, vars, CallerSends,
       PairingCompletes, CallCanceled, AgentCalled, SignalAborts, SignalStopsCommit, Start,
       CheckEnvironment, ForgetRepaired, OpenWindow, RegisterAgent, SetPairable,
       SetDiscoverable, OpenReconnectWindow, RefuseBonded, TakeCandidate, Confirm, Reject,
       DecisionFails, Settle, SettleDeadline, VerifyAncs, CommandAborts, DeadlinePasses,
       Quiesce, RestoreAdapter, Unregister, CommandStopsCommit

LEMMA CommitStands ==
    SetupInv /\ Commit =>
        /\ config' \in {config, candidate}
        /\ sent = <<"confirm">> /\ confirmed = candidate /\ verified = candidate
        /\ adapter = original /\ registered = "none" /\ ~subscribed
<1> SUFFICES ASSUME SetupInv, Commit
             PROVE  /\ config' \in {config, candidate}
                    /\ sent = <<"confirm">> /\ confirmed = candidate /\ verified = candidate
                    /\ adapter = original /\ registered = "none" /\ ~subscribed
  OBVIOUS
<1>1. /\ Settings /\ Temporary /\ Earned /\ CallerType
      /\ adapter \in [Setting -> BOOLEAN] /\ original \in [Setting -> BOOLEAN]
  BY TypeParts DEF SetupInv, AdapterType, OptionType
<1>2. pc = "commit" /\ ~Unread /\ config' \in {config, candidate}
  BY DEF Commit, Undisturbed, SaveFails
<1>3. /\ taken = 1 /\ Len(sent) > 0 /\ sent[1] = "confirm"
      /\ confirmed = candidate /\ verified = candidate
  BY <1>1, <1>2 DEF Earned, Ending
<1>4. Len(sent) = 1
  <2>1. Len(sent) \in Nat /\ ~(taken < Len(sent))
    BY <1>1, <1>2 DEF Unread, CallerType
  <2> QED
    BY <1>3, <2>1
<1>5. sent = <<"confirm">>
  BY <1>1, <1>3, <1>4 DEF CallerType
<1>6. adapter = original
  <2>1. snapshot = <<>> /\ stuck = {}
    BY <1>1, <1>2 DEF Settings
  <2>2. \A s \in Setting : adapter[s] = original[s]
    BY <1>1, <2>1 DEF Settings
  <2> QED
    BY <1>1, <2>2
<1>7. registered = "none" /\ ~subscribed
  BY <1>1, <1>2 DEF Temporary, Cleaning
<1> QED
  BY <1>2, <1>3, <1>5, <1>6, <1>7

\* The rules and the configuration change, and complete is reported, only for a
\* candidate whose confirmation is the one line the caller sent, with ANCS verified on
\* it, and after all that was temporary is gone.
THEOREM CommitEarnedCorrect == Spec => CommitIsEarned
<1>1. SetupInv /\ [Next]_vars =>
        [(diskVars' # diskVars \/ (report' # report /\ report' = "complete")) =>
            /\ config' \in {config, candidate}
            /\ sent = <<"confirm">> /\ confirmed = candidate /\ verified = candidate
            /\ adapter = original /\ registered = "none" /\ ~subscribed]_vars
  BY CommitFrame, Completing, CommitStands
<1> QED
  BY <1>1, SetupInvCorrect, PTL DEF Spec, CommitIsEarned

=============================================================================
