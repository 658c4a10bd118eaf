------------------------------- MODULE Report -------------------------------
(***************************************************************************)
(* Reporting a user, from the user's page (SearchProfile.swift) or from a  *)
(* post (HomePage.swift): the same code in both.                           *)
(*                                                                         *)
(* The document of the reported user holds a reason per reporter and a     *)
(* count.  The count is read when the report is begun and written, plus    *)
(* one, when the reporter has typed a reason.                              *)
(***************************************************************************)
EXTENDS Integers, Sequences, FiniteSets

CONSTANTS
  Users,
  Reporters,    \* the users who report
  Reported,     \* the users who are reported
  MaxReports,   \* bound on taps on Report and on reports sent
  MaxFailures   \* bound on refused writes

ASSUME ReportAssumption ==
  /\ Reporters \subseteq Users
  /\ Reported \subseteq Users
  /\ MaxReports \in Nat
  /\ MaxFailures \in Nat

VARIABLES
  docs, outbox, \* see Firestore
  reading,      \* per reporter and user, the reads not answered yet
  alert,        \* per reporter, what is presented
  submitted,    \* history: per user, the reports sent off
  accepted,     \* history: the pairs whose report was acknowledged
  taps, failures

vars == <<docs, outbox, reading, alert, submitted, accepted, taps, failures>>

INSTANCE Firestore WITH Clients <- Users

------------------------------------------------------------------------------
(* The fields of reportedUsers/t *)

Count(t, n) == <<"Count", t, n>>
Reason(t, u) == <<"Reason", t, u>>
ReportedField(t, u) == <<"Reported", t, u>>

Fields ==
  ({"Count"} \X Reported \X (1..MaxReports))
    \cup ({"Reason", "Reported"} \X Reported \X Reporters)

\* The count u reads, or 0 when there is no document.
CountSeen(u, t) ==
  LET found == {n \in 1..MaxReports : Sees(u, Count(t, n))} IN
  IF found = {} THEN 0 ELSE CHOOSE n \in found : TRUE

NoAlert == [kind |-> "none"]
Notice == [kind |-> "notice"]
Prompt(t, n) == [kind |-> "prompt", uid |-> t, count |-> n]
Alerts == {NoAlert, Notice}
            \cup [kind : {"prompt"}, uid : Reported, count : 0..MaxReports]

Batches == [puts : SUBSET Fields, dels : SUBSET Fields,
            handler : {"alert", "nothing"}]

TypeOK ==
  /\ docs \in SUBSET Fields
  /\ outbox \in [Users -> Seq(Batches)]
  /\ reading \in [Reporters -> [Reported -> 0..MaxReports]]
  /\ alert \in [Reporters -> Alerts]
  /\ submitted \in [Reported -> 0..MaxReports]
  /\ accepted \in SUBSET (Reporters \X Reported)
  /\ taps \in 0..MaxReports
  /\ failures \in 0..MaxFailures

Init ==
  /\ docs = {}
  /\ outbox = [u \in Users |-> <<>>]
  /\ reading = [u \in Reporters |-> [t \in Reported |-> 0]]
  /\ alert = [u \in Reporters |-> NoAlert]
  /\ submitted = [t \in Reported |-> 0]
  /\ accepted = {}
  /\ taps = 0
  /\ failures = 0

\* A screen presents one alert; what comes while it is up is dropped.
Present(u, a) == alert' = [alert EXCEPT ![u] = IF @ = NoAlert THEN a ELSE @]

------------------------------------------------------------------------------
reportuser(u, t) ==
  /\ u # t
  /\ alert[u] = NoAlert
  /\ taps < MaxReports
  /\ taps' = taps + 1
  /\ reading' = [reading EXCEPT ![u][t] = @ + 1]
  /\ UNCHANGED <<docs, outbox, alert, submitted, accepted, failures>>

\* The document arrives: the reporter is asked for a reason, unless the
\* document names the reporter as the one who has reported before.
DocumentRead(u, t) ==
  /\ reading[u][t] > 0
  /\ reading' = [reading EXCEPT ![u][t] = @ - 1]
  /\ Present(u, IF Sees(u, ReportedField(t, u)) THEN Notice
                ELSE Prompt(t, CountSeen(u, t)))
  /\ UNCHANGED <<docs, outbox, submitted, accepted, taps, failures>>

\* The read answers with an error: nothing happens.
ReadFailed(u, t) ==
  /\ reading[u][t] > 0
  /\ failures < MaxFailures
  /\ failures' = failures + 1
  /\ reading' = [reading EXCEPT ![u][t] = @ - 1]
  /\ UNCHANGED <<docs, outbox, alert, submitted, accepted, taps>>

\* Mutant: setData without merge.
Rest_NoMerge(t, kept) == {f \in Fields : f[2] = t} \ kept

\* What setData with merge removes: the count it replaces.
Rest(t, kept) == {Count(t, n) : n \in 1..MaxReports} \ kept

\* Mutant: leaves the count as it was read, once there is one.
Submit_NoIncrement(u) ==
  LET t == alert[u].uid
      n == IF alert[u].count = 0 THEN 1 ELSE alert[u].count IN
  /\ alert[u].kind = "prompt"
  /\ alert' = [alert EXCEPT ![u] = NoAlert]
  /\ Enqueue(u, [puts |-> {Count(t, n), Reason(t, u)},
                 dels |-> Rest(t, {Count(t, n)}), handler |-> "alert"])
  /\ submitted' = [submitted EXCEPT ![t] = @ + 1]
  /\ UNCHANGED <<docs, reading, accepted, taps, failures>>

\* Mutant: adds two.
Submit_AddsTwo(u) ==
  LET t == alert[u].uid
      n == alert[u].count + 2 IN
  /\ alert[u].kind = "prompt"
  /\ alert' = [alert EXCEPT ![u] = NoAlert]
  /\ Enqueue(u, [puts |-> {Count(t, n), Reason(t, u)},
                 dels |-> Rest(t, {Count(t, n)}), handler |-> "alert"])
  /\ submitted' = [submitted EXCEPT ![t] = @ + 1]
  /\ UNCHANGED <<docs, reading, accepted, taps, failures>>

Submit(u) ==
  LET t == alert[u].uid
      n == alert[u].count + 1 IN
  /\ alert[u].kind = "prompt"
  /\ submitted[t] < MaxReports
  /\ alert' = [alert EXCEPT ![u] = NoAlert]
  /\ Enqueue(u, [puts |-> {Count(t, n), Reason(t, u)},
                 dels |-> Rest(t, {Count(t, n)}), handler |-> "alert"])
  /\ submitted' = [submitted EXCEPT ![t] = @ + 1]
  /\ UNCHANGED <<docs, reading, accepted, taps, failures>>

\* Cancel, or OK under a notice.
DismissAlert(u) ==
  /\ alert[u] # NoAlert
  /\ alert' = [alert EXCEPT ![u] = NoAlert]
  /\ UNCHANGED <<docs, outbox, reading, submitted, accepted, taps, failures>>

\* The completion ignores its error; the screen may be gone.
Announce(u) ==
  \/ Head(outbox[u]).handler = "alert" /\ Present(u, Notice)
  \/ UNCHANGED alert

Committed(u) ==
  /\ Commit(u)
  /\ Announce(u)
  /\ accepted' = accepted \cup
       {<<u, t>> : t \in {x \in Reported : Reason(x, u) \in Head(outbox[u]).puts}}
  /\ UNCHANGED <<reading, submitted, taps, failures>>

Refused(u) ==
  /\ Refuse(u)
  /\ failures < MaxFailures
  /\ failures' = failures + 1
  /\ Announce(u)
  /\ UNCHANGED <<reading, submitted, accepted, taps>>

Relaunch(u) ==
  /\ alert' = [alert EXCEPT ![u] = NoAlert]
  /\ reading' = [reading EXCEPT ![u] = [t \in Reported |-> 0]]
  /\ outbox' = [outbox EXCEPT ![u] =
                  [i \in DOMAIN @ |-> [@[i] EXCEPT !.handler = "nothing"]]]
  /\ UNCHANGED <<docs, submitted, accepted, taps, failures>>

Next ==
  \E u \in Reporters :
    \/ \E t \in Reported :
         \/ reportuser(u, t)
         \/ DocumentRead(u, t)
         \/ ReadFailed(u, t)
    \/ Submit(u)
    \/ DismissAlert(u)
    \/ Committed(u)
    \/ Refused(u)
    \/ Relaunch(u)

Spec == Init /\ [][Next]_vars

------------------------------------------------------------------------------
(* Properties *)

\* Whatever reporters race for the document, a report the server has accepted
\* keeps its reason, and a document with a reason has exactly one count.
ReasonsKept ==
  /\ \A w \in accepted : Reason(w[2], w[1]) \in docs
  /\ \A t \in Reported :
       (\E u \in Reporters : Reason(t, u) \in docs) =>
         Cardinality({n \in 1..MaxReports : Count(t, n) \in docs}) = 1

\* Updates may be lost, but no count ever exceeds the reports sent off, also
\* when a reporter counts on from a write that is refused later.
CountBounded ==
  \A t \in Reported, n \in 1..MaxReports : Count(t, n) \in docs => n <= submitted[t]

\* The reports of a user who is the only one to report t are all counted, once
\* they are acknowledged: reads that overlap one's own writes lose nothing.
CountExact ==
  \A u \in Reporters, t \in Reported :
    (/\ failures = 0
     /\ {w \in accepted : w[2] = t} = {<<u, t>>}
     /\ \A x \in Reporters : outbox[x] = <<>>) =>
      Count(t, submitted[t]) \in docs
==============================================================================
