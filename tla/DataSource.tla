----------------------------- MODULE DataSource -----------------------------
(***************************************************************************)
(* The response decoder of src/ancs/codec.rs, DataSourceDecoder, at the    *)
(* granularity of GATT notifications.                                      *)
(*                                                                         *)
(* A response is a record whose cmd is "notification" (it then carries the *)
(* uid it answers, the app that posted the notification and the version of *)
(* its text) or "app" (it then carries the app whose display name it       *)
(* gives).  The phone cuts a response into fragments; a fragment names its *)
(* response, its place in it and how many there are, so a buffer of        *)
(* fragments stands for the decoder's byte buffer.  An expectation is what *)
(* ResponseExpectation holds: a command with the uid or the app.           *)
(***************************************************************************)
EXTENDS Naturals, Sequences

\* The two Control Point requests (notification_attributes_request,
\* app_attributes_request) seen as what the decoder is told to expect.
ExpectNotification(u) == [cmd |-> "notification", uid |-> u]
ExpectApp(a) == [cmd |-> "app", app |-> a]

\* A response r cut into n GATT notifications.
Fragments(r, n) == [i \in 1..n |-> [response |-> r, part |-> i, of |-> n]]

\* Mutant of Answers: only the command is checked.
AnswersCommand(r, e) == r.cmd = e.cmd

\* The command byte and the uid or app identifier of r are the expected ones:
\* the UnexpectedCommand, WrongUid and WrongAppIdentifier checks.
Answers(r, e) ==
    /\ r.cmd = e.cmd
    /\ e.cmd = "notification" => r.uid = e.uid
    /\ e.cmd = "app" => r.app = e.app

\* The first fragments of buf are the whole of one response.
StartsWithResponse(buf) ==
    LET n == Head(buf).of
    IN  /\ Len(buf) >= n
        /\ \A i \in 1..n : /\ buf[i].part = i
                           /\ buf[i].response = Head(buf).response

\* buf is a proper beginning of one response.
IsPartialResponse(buf) ==
    /\ Len(buf) < Head(buf).of
    /\ \A i \in 1..Len(buf) : /\ buf[i].part = i
                              /\ buf[i].response = Head(buf).response

(***************************************************************************)
(* What parse_notification or parse_app can answer on a non-empty buffer.  *)
(* The header (command and uid or app identifier) lies within the first    *)
(* fragment.  A buffer that begins in the middle of a response, or splices *)
(* two responses, parses as an error, or as incomplete while it is too     *)
(* short for the field being read; that a splice happens to have lengths   *)
(* that add up is not distinguished.                                       *)
(***************************************************************************)
Parse(buf, e) ==
    IF Head(buf).part # 1 THEN {"incomplete", "error"}
    ELSE IF ~Answers(Head(buf).response, e) THEN {"error"}
    ELSE IF StartsWithResponse(buf) THEN {"decoded"}
    ELSE IF IsPartialResponse(buf) THEN {"incomplete"}
    ELSE {"incomplete", "error"}

=============================================================================
