------------------------------- MODULE LinkControl -------------------------------
(***************************************************************************)
(* Requests to change the RF link (sysutil_wifi.cpp,                       *)
(* handle_link_control_request): they are passed on to OpenHD over a       *)
(* connection of their own, whose answer main awaits for 900 ms.  OpenHD   *)
(* is external: it takes requests in order, at its own pace, and may       *)
(* restart.                                                                *)
(***************************************************************************)
EXTENDS Integers, Sequences, SequencesExt

CONSTANTS
  LinkRequests, \* requests: what each gives of interface, values and level
  MaxLink       \* bound: requests

ASSUME LinkAssumption ==
  /\ LinkRequests \subseteq [interface : {"missing", "empty", "wlan0"}, width : {"missing", "20", "40"},
                             level : {"missing", "empty", "blank", "high"}]
  /\ MaxLink \in Nat

VARIABLES
  openhd,  \* its control socket is there
  asked,   \* the requests so far
  awaited, \* the one whose answer main awaits, 0 if none
  inbox,   \* those that OpenHD has yet to take
  answers, \* answers on their way: the connection and what it says
  applied, \* those that OpenHD has applied
  told,    \* what the client was told of each
  overdue  \* history: those that were answered for want of an answer

lvars == <<openhd, asked, awaited, inbox, answers, applied, told, overdue>>

has_value(r) ==
  r.interface \notin {"missing", "empty"} \/ r.width # "missing" \/ r.level \notin {"missing", "empty"}

PassedOn(r) == has_value(r) /\ r.width # "40"

\* The request is refused, or sent, or there is nobody to send it to.
handle_link_control_request(r) ==
  /\ awaited = 0 /\ Len(asked) < MaxLink
  /\ asked' = Append(asked, r)
  /\ IF PassedOn(r) /\ openhd
     THEN awaited' = Len(asked') /\ inbox' = Append(inbox, Len(asked')) /\ UNCHANGED told
     ELSE told' = Append(told, FALSE) /\ UNCHANGED <<awaited, inbox>>
  /\ UNCHANGED <<openhd, answers, applied, overdue>>

\* OpenHD applies a request or does not, and answers on its connection.
OpenHdTakes ==
  /\ openhd /\ inbox # <<>> /\ inbox' = Tail(inbox)
  /\ \E ok \in BOOLEAN :
       /\ applied' = IF ok THEN applied \cup {Head(inbox)} ELSE applied
       /\ answers' = answers \cup {[to |-> Head(inbox), ok |-> ok]}
  /\ UNCHANGED <<openhd, asked, awaited, told, overdue>>

\* A slip: the answers to all requests come over one connection.
ReadsAny == answers
\* read_line_with_timeout.
Readable == {a \in answers : a.to = awaited}

Answered ==
  /\ awaited # 0
  /\ \E a \in Readable : told' = Append(told, a.ok) /\ answers' = answers \ {a}
  /\ awaited' = 0
  /\ UNCHANGED <<openhd, asked, inbox, applied, overdue>>

\* The 900 ms are over, or the connection is lost.
Unanswered ==
  /\ awaited # 0 /\ Readable = {}
  /\ told' = Append(told, FALSE) /\ overdue' = overdue \cup {awaited} /\ awaited' = 0
  /\ UNCHANGED <<openhd, asked, inbox, answers, applied>>

OpenHdRestarts ==
  /\ openhd' = ~openhd /\ inbox' = <<>>
  /\ UNCHANGED <<asked, awaited, answers, applied, told, overdue>>

\* The process ends, and the client sees no answer.
LinkEnds ==
  /\ awaited' = 0
  /\ told' = (IF awaited = 0 THEN told ELSE Append(told, FALSE))
  /\ overdue' = (IF awaited = 0 THEN overdue ELSE overdue \cup {awaited})
  /\ UNCHANGED <<asked, answers, applied>>

LinkTypeOK ==
  /\ openhd \in BOOLEAN /\ asked \in Seq(LinkRequests) /\ awaited \in 0..MaxLink
  /\ inbox \in Seq(1..MaxLink) /\ answers \subseteq [to : 1..MaxLink, ok : BOOLEAN]
  /\ applied \subseteq 1..MaxLink /\ told \in Seq(BOOLEAN) /\ overdue \subseteq 1..MaxLink

LinkInit ==
  /\ openhd = FALSE /\ asked = <<>> /\ awaited = 0 /\ inbox = <<>>
  /\ answers = {} /\ applied = {} /\ told = <<>> /\ overdue = {}

\* A client that is told "ok" has its values applied, and one that is told
\* otherwise has not, unless OpenHD took longer than main waits: no answer is
\* taken for that to another request, also when OpenHD is late or restarts.  What
\* main is to refuse is never applied.
LinkAnswersAreTrue ==
  \A n \in DOMAIN told :
    /\ told[n] => n \in applied
    /\ ~told[n] => n \notin applied \/ n \in overdue
    /\ n \in applied => asked[n].width # "40" /\ has_value(asked[n])

=============================================================================
