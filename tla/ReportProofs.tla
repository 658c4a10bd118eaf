---------------------------- MODULE ReportProofs ----------------------------
(***************************************************************************)
(* Proofs about Report, for any reporters, reported users and bounds.  What *)
(* holds of the server holds because every batch on its way puts one count  *)
(* with one reason and deletes the other counts of the same user, and       *)
(* nothing else: Queued says so of all outboxes.                            *)
(***************************************************************************)
EXTENDS Report, FiniteSetTheorems, SequenceTheorems, TLAPS

Numbers == 1..MaxReports

\* Batch b is a report by u, with a count that the reports sent allow.
IsReport(b, u, sent) ==
  /\ u \in Reporters
  /\ \E t \in Reported : \E n \in Numbers :
       /\ n <= sent[t]
       /\ b.puts = {Count(t, n), Reason(t, u)}
       /\ b.dels = Rest(t, {Count(t, n)})

IsQueue(q, u, sent) == \A i \in DOMAIN q : IsReport(q[i], u, sent)

Queued == \A u \in Users : IsQueue(outbox[u], u, submitted)

\* What is asked for counts on from a report that was sent.
Asked ==
  \A u \in Reporters :
    alert[u].kind = "prompt" => alert[u].count <= submitted[alert[u].uid]

\* Exactly one count of t is in D.
OneCount(D, t) ==
  \E n \in Numbers :
    Count(t, n) \in D /\ \A k \in Numbers : Count(t, k) \in D => k = n

Counted == \A t \in Reported : \A u \in Reporters : Reason(t, u) \in docs => OneCount(docs, t)

Accepted == \A w \in accepted : Reason(w[2], w[1]) \in docs

Reads == \A u \in Reporters : \A t \in Reported : reading[u][t] <= taps

Inv == TypeOK /\ Queued /\ Asked /\ Counted /\ Accepted /\ CountBounded /\ Reads

------------------------------------------------------------------------------
(* Lemmas *)

\* The fields of a document are distinct.
LEMMA FieldsDiffer ==
  ASSUME NEW t \in Reported, NEW u \in Reporters, NEW n \in Numbers,
         NEW s \in Reported, NEW v \in Reporters, NEW k \in Numbers
  PROVE  /\ Count(t, n) \in Fields /\ Reason(t, u) \in Fields
         /\ Count(t, n) # Reason(s, v)
         /\ Count(t, n) = Count(s, k) <=> t = s /\ n = k
         /\ Reason(t, u) = Reason(s, v) <=> t = s /\ u = v
  BY DEF Count, Reason, Fields, Numbers

\* What a report leaves out is counts of the user it is about.
LEMMA RestCounts ==
  ASSUME NEW t \in Reported, NEW n \in Numbers
  PROVE  /\ Rest(t, {Count(t, n)}) \in SUBSET Fields
         /\ \A s \in Reported : \A v \in Reporters : Reason(s, v) \notin Rest(t, {Count(t, n)})
         /\ \A s \in Reported : \A k \in Numbers :
              Count(s, k) \in Rest(t, {Count(t, n)}) <=> s = t /\ k # n
<1>1. \A f : f \in Rest(t, {Count(t, n)}) <=> \E k \in Numbers : f = Count(t, k) /\ f # Count(t, n)
  BY DEF Rest, Numbers
<1> HIDE DEF Rest
<1>2. Rest(t, {Count(t, n)}) \in SUBSET Fields
  BY <1>1 DEF Count, Fields, Numbers
<1>3. \A s \in Reported : \A v \in Reporters : Reason(s, v) \notin Rest(t, {Count(t, n)})
  BY <1>1, FieldsDiffer
<1>4. ASSUME NEW s \in Reported, NEW k \in Numbers
      PROVE  Count(s, k) \in Rest(t, {Count(t, n)}) <=> s = t /\ k # n
  BY <1>1 DEF Count
<1> QED BY <1>2, <1>3, <1>4

\* The handler of a batch does not matter.
LEMMA SameFields ==
  ASSUME NEW b, NEW c, NEW u, NEW sent, b.puts = c.puts, b.dels = c.dels,
         IsReport(c, u, sent)
  PROVE  IsReport(b, u, sent)
  BY DEF IsReport

\* A report counts as one also when more reports have been sent.
LEMMA SentGrows ==
  ASSUME NEW b, NEW u, NEW sent \in [Reported -> Nat], NEW more \in [Reported -> Nat],
         \A t \in Reported : sent[t] <= more[t],
         IsReport(b, u, sent)
  PROVE  IsReport(b, u, more)
<1>1. PICK t \in Reported, n \in Numbers :
        /\ n <= sent[t]
        /\ b.puts = {Count(t, n), Reason(t, u)}
        /\ b.dels = Rest(t, {Count(t, n)})
  BY DEF IsReport
<1>2. n <= more[t]
  BY <1>1 DEF Numbers
<1> QED BY <1>1, <1>2 DEF IsReport

\* A prompt names a user and a count.
LEMMA PromptFields ==
  ASSUME NEW a \in Alerts, a.kind = "prompt"
  PROVE  a.uid \in Reported /\ a.count \in 0..MaxReports
<1>1. a # NoAlert /\ a # Notice
  BY DEF NoAlert, Notice
<1>2. a \in [kind : {"prompt"}, uid : Reported, count : 0..MaxReports]
  BY <1>1 DEF Alerts
<1> QED BY <1>2

\* The count a reporter reads is 0 or one that reports sent allow.
LEMMA CountRead ==
  ASSUME Inv, NEW u \in Reporters, NEW t \in Reported
  PROVE  CountSeen(u, t) \in 0..MaxReports /\ CountSeen(u, t) <= submitted[t]
<1> DEFINE found == {n \in 1..MaxReports : Sees(u, Count(t, n))}
<1>1. ASSUME NEW n \in found PROVE n <= submitted[t]
  <2>1. n \in Numbers /\ Sees(u, Count(t, n)) /\ u \in Users
    BY <1>1, ReportAssumption DEF Numbers, ReportAssumption
  <2>2. CASE Count(t, n) \in docs
    BY <2>1, <2>2 DEF Inv, CountBounded, Numbers
  <2>3. CASE \E i \in DOMAIN outbox[u] : Count(t, n) \in outbox[u][i].puts
    <3>1. PICK i \in DOMAIN outbox[u] : Count(t, n) \in outbox[u][i].puts
      BY <2>3
    <3>2. IsReport(outbox[u][i], u, submitted)
      BY <2>1, <3>1 DEF Inv, Queued, IsQueue
    <3>3. PICK s \in Reported, k \in Numbers :
            k <= submitted[s] /\ outbox[u][i].puts = {Count(s, k), Reason(s, u)}
      BY <3>2 DEF IsReport
    <3>4. t = s /\ n = k
      BY <2>1, <3>1, <3>3, FieldsDiffer
    <3> QED BY <3>3, <3>4
  <2> QED BY <2>1, <2>2, <2>3 DEF Sees, Touching
<1>2. submitted[t] \in Nat
  BY DEF Inv, TypeOK
<1>3. CASE found = {}
  BY <1>2, <1>3, ReportAssumption DEF CountSeen, ReportAssumption
<1>4. CASE found # {}
  <2>1. CountSeen(u, t) \in found
    BY <1>4 DEF CountSeen
  <2> QED BY <1>1, <2>1
<1> QED BY <1>3, <1>4

------------------------------------------------------------------------------
(* Steps *)

LEMMA InitInv == Init => Inv
<1> SUFFICES ASSUME Init PROVE Inv
  OBVIOUS
<1>1. TypeOK
  BY ReportAssumption DEF Init, TypeOK, ReportAssumption, Alerts
<1>2. Queued /\ Asked /\ Counted /\ Accepted /\ CountBounded
  BY DEF Init, Queued, IsQueue, Asked, NoAlert, Counted, Accepted, CountBounded
<1>3. Reads
  BY DEF Init, Reads
<1> QED BY <1>1, <1>2, <1>3 DEF Inv

\* A step that touches neither the server, the queues nor the history.
LEMMA ScreenStep ==
  ASSUME Inv,
         UNCHANGED <<docs, outbox, submitted, accepted>>,
         reading' \in [Reporters -> [Reported -> 0..MaxReports]],
         alert' \in [Reporters -> Alerts],
         taps' \in 0..MaxReports, failures' \in 0..MaxFailures,
         Reads',
         \A u \in Reporters :
           \/ alert'[u] = alert[u]
           \/ alert'[u].kind = "prompt" => alert'[u].count <= submitted[alert'[u].uid]
  PROVE  Inv'
<1>1. TypeOK'
  BY DEF Inv, TypeOK
<1>2. Asked'
  BY DEF Inv, Asked
<1>3. Queued' /\ Counted' /\ Accepted' /\ CountBounded'
  BY DEF Inv, Queued, Counted, Accepted, CountBounded
<1> QED BY <1>1, <1>2, <1>3 DEF Inv

\* Presenting an alert that counts on from a report that was sent.
LEMMA PresentStep ==
  ASSUME Inv, NEW u \in Reporters, NEW a \in Alerts, Present(u, a),
         a.kind = "prompt" => a.count <= submitted[a.uid]
  PROVE  /\ alert' \in [Reporters -> Alerts]
         /\ \A v \in Reporters :
              \/ alert'[v] = alert[v]
              \/ alert'[v].kind = "prompt" => alert'[v].count <= submitted[alert'[v].uid]
  BY DEF Present, Inv, TypeOK

LEMMA Step_reportuser ==
  ASSUME Inv, NEW u \in Reporters, NEW t \in Reported, reportuser(u, t)
  PROVE  Inv'
<1>1. \A v \in Reporters : \A s \in Reported : reading[v][s] \in Nat /\ reading[v][s] <= taps
  BY DEF Inv, TypeOK, Reads
<1>2. taps \in Nat /\ taps' = taps + 1 /\ taps' \in 0..MaxReports
  BY ReportAssumption DEF reportuser, Inv, TypeOK, ReportAssumption
<1>3. reading' = [reading EXCEPT ![u] = [reading[u] EXCEPT ![t] = reading[u][t] + 1]]
  BY DEF reportuser
<1>4. reading' \in [Reporters -> [Reported -> 0..MaxReports]] /\ Reads'
  BY <1>1, <1>2, <1>3, ReportAssumption DEF Inv, TypeOK, Reads, ReportAssumption
<1> QED BY <1>2, <1>4, ScreenStep DEF reportuser, Inv, TypeOK

\* A read that is answered is one less to wait for.
LEMMA Answered ==
  ASSUME Inv, NEW u \in Reporters, NEW t \in Reported,
         reading[u][t] > 0, taps' = taps,
         reading' = [reading EXCEPT ![u][t] = @ - 1]
  PROVE  reading' \in [Reporters -> [Reported -> 0..MaxReports]] /\ Reads'
<1>1. \A v \in Reporters : \A s \in Reported :
        reading[v][s] \in 0..MaxReports /\ reading[v][s] <= taps
  BY DEF Inv, TypeOK, Reads
<1>2. taps \in Nat
  BY DEF Inv, TypeOK
<1>3. reading' = [reading EXCEPT ![u] = [reading[u] EXCEPT ![t] = reading[u][t] - 1]]
  OBVIOUS
<1> QED BY <1>1, <1>2, <1>3, ReportAssumption DEF Inv, TypeOK, Reads, ReportAssumption

LEMMA Step_DocumentRead ==
  ASSUME Inv, NEW u \in Reporters, NEW t \in Reported, DocumentRead(u, t)
  PROVE  Inv'
<1> DEFINE a == IF Sees(u, ReportedField(t, u)) THEN Notice ELSE Prompt(t, CountSeen(u, t))
<1>1. a \in Alerts /\ (a.kind = "prompt" => a.count <= submitted[a.uid])
  BY CountRead DEF Alerts, Notice, Prompt
<1>2. Present(u, a)
  BY DEF DocumentRead
<1> HIDE DEF a
<1>3. /\ alert' \in [Reporters -> Alerts]
      /\ \A v \in Reporters :
           \/ alert'[v] = alert[v]
           \/ alert'[v].kind = "prompt" => alert'[v].count <= submitted[alert'[v].uid]
  BY <1>1, <1>2, PresentStep
<1>4. reading' \in [Reporters -> [Reported -> 0..MaxReports]] /\ Reads'
  BY Answered DEF DocumentRead
<1>5. UNCHANGED <<docs, outbox, submitted, accepted, taps, failures>>
  BY DEF DocumentRead
<1> QED BY <1>3, <1>4, <1>5, ScreenStep DEF Inv, TypeOK

LEMMA Step_ReadFailed ==
  ASSUME Inv, NEW u \in Reporters, NEW t \in Reported, ReadFailed(u, t)
  PROVE  Inv'
<1>1. reading' \in [Reporters -> [Reported -> 0..MaxReports]] /\ Reads'
  BY Answered DEF ReadFailed
<1>2. failures' \in 0..MaxFailures
  BY ReportAssumption DEF ReadFailed, Inv, TypeOK, ReportAssumption
<1> QED BY <1>1, <1>2, ScreenStep DEF ReadFailed, Inv, TypeOK

LEMMA Step_Submit ==
  ASSUME Inv, NEW u \in Reporters, Submit(u)
  PROVE  Inv'
<1> DEFINE t == alert[u].uid
           n == alert[u].count + 1
           b == [puts |-> {Count(t, n), Reason(t, u)},
                 dels |-> Rest(t, {Count(t, n)}), handler |-> "alert"]
<1>1. /\ u \in Users /\ t \in Reported /\ n \in Numbers
      /\ submitted[t] \in Nat /\ submitted[t] < MaxReports /\ n <= submitted[t] + 1
  <2>1. alert[u] \in Alerts /\ alert[u].kind = "prompt" /\ submitted[t] < MaxReports
    BY DEF Submit, Inv, TypeOK
  <2>2. t \in Reported /\ alert[u].count \in 0..MaxReports
    BY <2>1, PromptFields
  <2>3. submitted[t] \in 0..MaxReports /\ alert[u].count <= submitted[t]
    BY <2>1, <2>2 DEF Inv, TypeOK, Asked
  <2> QED BY <2>1, <2>2, <2>3, ReportAssumption DEF ReportAssumption, Numbers
<1>2. /\ alert' = [alert EXCEPT ![u] = NoAlert]
      /\ outbox' = [outbox EXCEPT ![u] = Append(outbox[u], b)]
      /\ submitted' = [submitted EXCEPT ![t] = submitted[t] + 1]
      /\ UNCHANGED <<docs, reading, accepted, taps, failures>>
  BY DEF Submit, Enqueue
<1>3. b \in Batches /\ b.puts = {Count(t, n), Reason(t, u)} /\ b.dels = Rest(t, {Count(t, n)})
  BY <1>1, FieldsDiffer, RestCounts DEF Batches
<1> HIDE DEF b, t, n
<1>4. /\ submitted' \in [Reported -> 0..MaxReports] /\ submitted'[t] = submitted[t] + 1
      /\ \A s \in Reported : submitted[s] <= submitted'[s]
  BY <1>1, <1>2, ReportAssumption DEF ReportAssumption, Inv, TypeOK
<1>5. IsReport(b, u, submitted')
  BY <1>1, <1>3, <1>4 DEF IsReport
<1>6. outbox[u] \in Seq(Batches)
  BY <1>1 DEF Inv, TypeOK
<1>7. /\ Append(outbox[u], b) \in Seq(Batches)
      /\ \A i \in DOMAIN Append(outbox[u], b) :
           \/ i \in DOMAIN outbox[u] /\ Append(outbox[u], b)[i] = outbox[u][i]
           \/ Append(outbox[u], b)[i] = b
  BY <1>3, <1>6
<1>8. TypeOK'
  <2>1. outbox' \in [Users -> Seq(Batches)]
    BY <1>2, <1>7 DEF Inv, TypeOK
  <2>2. alert' \in [Reporters -> Alerts]
    BY <1>2 DEF Inv, TypeOK, Alerts
  <2> QED BY <1>2, <1>4, <2>1, <2>2 DEF Inv, TypeOK
<1>9. Queued'
  <2> SUFFICES ASSUME NEW v \in Users, NEW i \in DOMAIN outbox'[v]
               PROVE  IsReport(outbox'[v][i], v, submitted')
    BY DEF Queued, IsQueue
  <2>1. CASE i \in DOMAIN outbox[v] /\ outbox'[v][i] = outbox[v][i]
    <3>1. IsReport(outbox[v][i], v, submitted)
      BY <2>1 DEF Inv, Queued, IsQueue
    <3>2. submitted \in [Reported -> Nat] /\ submitted' \in [Reported -> Nat]
      BY <1>4 DEF Inv, TypeOK
    <3> QED BY <1>4, <2>1, <3>1, <3>2, SentGrows
  <2>2. CASE v = u /\ outbox'[v][i] = b
    BY <1>5, <2>2
  <2> QED BY <1>1, <1>2, <1>7, <2>1, <2>2 DEF Inv, TypeOK
<1>10. Asked'
  <2> SUFFICES ASSUME NEW v \in Reporters, alert'[v].kind = "prompt"
               PROVE  alert'[v].count <= submitted'[alert'[v].uid]
    BY DEF Asked
  <2>1. v # u /\ alert'[v] = alert[v]
    BY <1>2 DEF Inv, TypeOK, NoAlert
  <2>2. /\ alert[v].count \in Nat /\ alert[v].uid \in Reported
        /\ alert[v].count <= submitted[alert[v].uid]
    BY <2>1, PromptFields DEF Inv, TypeOK, Asked
  <2> QED BY <1>4, <2>1, <2>2 DEF Inv, TypeOK
<1>11. Counted' /\ Accepted'
  BY <1>2 DEF Inv, Counted, Accepted
<1>12. CountBounded'
  <2> SUFFICES ASSUME NEW s \in Reported, NEW k \in 1..MaxReports, Count(s, k) \in docs'
               PROVE  k <= submitted'[s]
    BY DEF CountBounded
  <2>1. k <= submitted[s]
    BY <1>2 DEF Inv, CountBounded
  <2> QED BY <1>4, <2>1 DEF Inv, TypeOK
<1>13. Reads'
  BY <1>2 DEF Inv, Reads
<1> QED BY <1>8, <1>9, <1>10, <1>11, <1>12, <1>13 DEF Inv

LEMMA Step_DismissAlert ==
  ASSUME Inv, NEW u \in Reporters, DismissAlert(u)
  PROVE  Inv'
<1>1. alert' = [alert EXCEPT ![u] = NoAlert]
  BY DEF DismissAlert
<1>2. alert' \in [Reporters -> Alerts]
  BY <1>1 DEF Inv, TypeOK, Alerts
<1>3. \A v \in Reporters :
        \/ alert'[v] = alert[v]
        \/ alert'[v].kind = "prompt" => alert'[v].count <= submitted[alert'[v].uid]
  BY <1>1 DEF Inv, TypeOK, NoAlert
<1>4. UNCHANGED <<docs, outbox, reading, submitted, accepted, taps, failures>>
  BY DEF DismissAlert
<1>5. Reads'
  BY <1>4 DEF Inv, Reads
<1> QED BY <1>2, <1>3, <1>4, <1>5, ScreenStep DEF Inv, TypeOK

\* What is left of a queue of reports when the oldest is answered.
LEMMA TailReports ==
  ASSUME NEW u, NEW sent, NEW q \in Seq(Batches), q # <<>>, IsQueue(q, u, sent)
  PROVE  Tail(q) \in Seq(Batches) /\ IsQueue(Tail(q), u, sent) /\ IsReport(Head(q), u, sent)
<1>1. /\ Tail(q) \in Seq(Batches) /\ 1 \in DOMAIN q /\ Head(q) = q[1]
      /\ \A i \in DOMAIN Tail(q) : i + 1 \in DOMAIN q /\ Tail(q)[i] = q[i + 1]
  BY HeadTailProperties
<1> QED BY <1>1 DEF IsQueue

\* The completion presents a notice or nothing.
LEMMA AnnounceStep ==
  ASSUME Inv, NEW u \in Reporters, Announce(u)
  PROVE  /\ alert' \in [Reporters -> Alerts]
         /\ \A v \in Reporters :
              \/ alert'[v] = alert[v]
              \/ alert'[v].kind = "prompt" => alert'[v].count <= submitted[alert'[v].uid]
<1>1. Notice \in Alerts /\ Notice.kind # "prompt"
  BY DEF Notice, Alerts
<1>2. CASE Present(u, Notice)
  BY <1>1, <1>2, PresentStep
<1>3. CASE alert' = alert
  BY <1>3 DEF Inv, TypeOK
<1> QED BY <1>2, <1>3 DEF Announce

LEMMA Step_Committed ==
  ASSUME Inv, NEW u \in Reporters, Committed(u)
  PROVE  Inv'
<1> DEFINE q == outbox[u]
           D == Head(q).dels
           P == Head(q).puts
<1>1. /\ q # <<>> /\ docs' = (docs \ D) \cup P
      /\ outbox' = [outbox EXCEPT ![u] = Tail(q)]
      /\ Announce(u)
      /\ accepted' = accepted \cup {<<u, t>> : t \in {x \in Reported : Reason(x, u) \in P}}
      /\ UNCHANGED <<reading, submitted, taps, failures>>
  BY DEF Committed, Commit
<1>2. u \in Users /\ q \in Seq(Batches) /\ IsQueue(q, u, submitted)
  BY ReportAssumption DEF ReportAssumption, Inv, TypeOK, Queued
<1>3. Tail(q) \in Seq(Batches) /\ IsQueue(Tail(q), u, submitted) /\ IsReport(Head(q), u, submitted)
  BY <1>1, <1>2, TailReports
<1>4. PICK t \in Reported, n \in Numbers :
        n <= submitted[t] /\ P = {Count(t, n), Reason(t, u)} /\ D = Rest(t, {Count(t, n)})
  BY <1>3 DEF IsReport
<1> HIDE DEF q, D, P
<1>5. /\ \A s \in Reported : \A v \in Reporters :
           Reason(s, v) \in docs' <=> Reason(s, v) \in docs \/ (s = t /\ v = u)
      /\ \A s \in Reported : \A k \in Numbers :
           Count(s, k) \in docs' <=> IF s = t THEN k = n ELSE Count(s, k) \in docs
  <2>1. ASSUME NEW s \in Reported, NEW v \in Reporters
        PROVE  Reason(s, v) \in docs' <=> Reason(s, v) \in docs \/ (s = t /\ v = u)
    BY <1>1, <1>4, FieldsDiffer, RestCounts
  <2>2. ASSUME NEW s \in Reported, NEW k \in Numbers
        PROVE  Count(s, k) \in docs' <=> IF s = t THEN k = n ELSE Count(s, k) \in docs
    BY <1>1, <1>4, FieldsDiffer, RestCounts
  <2> QED BY <2>1, <2>2
<1>6. TypeOK'
  <2>1. docs' \in SUBSET Fields
    BY <1>1, <1>4, FieldsDiffer DEF Inv, TypeOK
  <2>2. outbox' \in [Users -> Seq(Batches)]
    BY <1>1, <1>3 DEF Inv, TypeOK
  <2>3. alert' \in [Reporters -> Alerts]
    BY <1>1, AnnounceStep
  <2>4. accepted' \in SUBSET (Reporters \X Reported)
    BY <1>1 DEF Inv, TypeOK
  <2> QED BY <1>1, <2>1, <2>2, <2>3, <2>4 DEF Inv, TypeOK
<1>7. Queued'
  BY <1>1, <1>3 DEF Inv, TypeOK, Queued
<1>8. Asked'
  BY <1>1, AnnounceStep DEF Inv, Asked
<1>9. Counted'
  <2> SUFFICES ASSUME NEW s \in Reported, NEW v \in Reporters, Reason(s, v) \in docs'
               PROVE  OneCount(docs', s)
    BY DEF Counted
  <2>1. CASE s = t
    BY <1>5, <2>1 DEF OneCount
  <2>2. CASE s # t
    <3>1. OneCount(docs, s)
      BY <1>5, <2>2 DEF Inv, Counted
    <3> QED BY <1>5, <2>2, <3>1 DEF OneCount
  <2> QED BY <2>1, <2>2
<1>10. Accepted'
  <2> SUFFICES ASSUME NEW w \in accepted' PROVE Reason(w[2], w[1]) \in docs'
    BY DEF Accepted
  <2>1. CASE w \in accepted
    <3>1. w[1] \in Reporters /\ w[2] \in Reported /\ Reason(w[2], w[1]) \in docs
      BY <2>1 DEF Inv, TypeOK, Accepted
    <3> QED BY <1>5, <3>1
  <2>2. CASE w \notin accepted
    <3>1. PICK s \in Reported : w = <<u, s>> /\ Reason(s, u) \in P
      BY <1>1, <2>2
    <3> QED BY <1>1, <3>1
  <2> QED BY <2>1, <2>2
<1>11. CountBounded'
  BY <1>1, <1>4, <1>5 DEF Inv, CountBounded, Numbers
<1>12. Reads'
  BY <1>1 DEF Inv, Reads
<1> QED BY <1>6, <1>7, <1>8, <1>9, <1>10, <1>11, <1>12 DEF Inv

LEMMA Step_Refused ==
  ASSUME Inv, NEW u \in Reporters, Refused(u)
  PROVE  Inv'
<1>1. /\ outbox[u] # <<>> /\ outbox' = [outbox EXCEPT ![u] = Tail(outbox[u])]
      /\ Announce(u)
      /\ failures' \in 0..MaxFailures
      /\ UNCHANGED <<docs, reading, submitted, accepted, taps>>
  BY ReportAssumption DEF Refused, Refuse, Inv, TypeOK, ReportAssumption
<1>2. u \in Users /\ outbox[u] \in Seq(Batches) /\ IsQueue(outbox[u], u, submitted)
  BY ReportAssumption DEF ReportAssumption, Inv, TypeOK, Queued
<1>3. Tail(outbox[u]) \in Seq(Batches) /\ IsQueue(Tail(outbox[u]), u, submitted)
  BY <1>1, <1>2, TailReports
<1>4. TypeOK'
  <2>1. outbox' \in [Users -> Seq(Batches)]
    BY <1>1, <1>3 DEF Inv, TypeOK
  <2> QED BY <1>1, <2>1, AnnounceStep DEF Inv, TypeOK
<1>5. Queued'
  BY <1>1, <1>3 DEF Inv, TypeOK, Queued
<1>6. Asked'
  BY <1>1, AnnounceStep DEF Inv, Asked
<1>7. Counted' /\ Accepted' /\ CountBounded' /\ Reads'
  BY <1>1 DEF Inv, Counted, Accepted, CountBounded, Reads
<1> QED BY <1>4, <1>5, <1>6, <1>7 DEF Inv

\* After a restart the queue is the same but for its handlers.
LEMMA Step_Relaunch ==
  ASSUME Inv, NEW u \in Reporters, Relaunch(u)
  PROVE  Inv'
<1> DEFINE q == outbox[u]
           r == [i \in DOMAIN q |-> [q[i] EXCEPT !.handler = "nothing"]]
<1>1. /\ alert' = [alert EXCEPT ![u] = NoAlert]
      /\ reading' = [reading EXCEPT ![u] = [t \in Reported |-> 0]]
      /\ outbox' = [outbox EXCEPT ![u] = r]
      /\ UNCHANGED <<docs, submitted, accepted, taps, failures>>
  BY DEF Relaunch
<1>2. u \in Users /\ q \in Seq(Batches) /\ IsQueue(q, u, submitted)
  BY ReportAssumption DEF ReportAssumption, Inv, TypeOK, Queued
<1> HIDE DEF q
<1>3. \A i \in DOMAIN q : q[i] \in Batches
  BY <1>2
<1>4. /\ DOMAIN r = DOMAIN q
      /\ \A i \in DOMAIN q :
           r[i] \in Batches /\ r[i].puts = q[i].puts /\ r[i].dels = q[i].dels
  BY <1>3 DEF Batches
<1>5. r \in Seq(Batches)
  <2>1. DOMAIN r = 1..Len(q) /\ Len(q) \in Nat
    BY <1>2, <1>4
  <2> HIDE DEF r
  <2>2. r \in [1..Len(q) -> Batches]
    BY <1>4, <2>1 DEF r
  <2> QED BY <2>1, <2>2
<1> HIDE DEF r
<1>6. IsQueue(r, u, submitted)
  BY <1>2, <1>4, SameFields DEF IsQueue
<1>7. TypeOK'
  <2>1. outbox' \in [Users -> Seq(Batches)]
    BY <1>1, <1>5 DEF Inv, TypeOK
  <2>2. alert' \in [Reporters -> Alerts]
    BY <1>1 DEF Inv, TypeOK, Alerts
  <2>3. reading' \in [Reporters -> [Reported -> 0..MaxReports]]
    BY <1>1, ReportAssumption DEF Inv, TypeOK, ReportAssumption
  <2> QED BY <1>1, <2>1, <2>2, <2>3 DEF Inv, TypeOK
<1>8. Queued'
  BY <1>1, <1>6 DEF Inv, TypeOK, Queued
<1>9. Asked'
  BY <1>1 DEF Inv, TypeOK, Asked, NoAlert
<1>10. Counted' /\ Accepted' /\ CountBounded'
  BY <1>1 DEF Inv, Counted, Accepted, CountBounded
<1>11. Reads'
  BY <1>1 DEF Inv, TypeOK, Reads
<1> QED BY <1>7, <1>8, <1>9, <1>10, <1>11 DEF Inv

------------------------------------------------------------------------------
(* The invariant *)

LEMMA StepInv ==
  ASSUME Inv, [Next]_vars
  PROVE  Inv'
<1>1. CASE UNCHANGED vars
  BY <1>1 DEF vars, Inv, TypeOK, Queued, Asked, Counted, Accepted, CountBounded, Reads
<1>2. CASE Next
  <2>1. PICK u \in Reporters :
          \/ \E t \in Reported : reportuser(u, t) \/ DocumentRead(u, t) \/ ReadFailed(u, t)
          \/ Submit(u) \/ DismissAlert(u) \/ Committed(u) \/ Refused(u) \/ Relaunch(u)
    BY <1>2, Zenon DEF Next
  <2> QED BY <2>1, Step_reportuser, Step_DocumentRead, Step_ReadFailed, Step_Submit,
             Step_DismissAlert, Step_Committed, Step_Refused, Step_Relaunch
<1> QED BY <1>1, <1>2

LEMMA InvHolds == Spec => []Inv
  BY InitInv, StepInv, PTL DEF Spec

\* Every variable keeps its type, for any reporters and bounds.
THEOREM TypeCorrect == Spec => []TypeOK
<1>1. Inv => TypeOK
  BY DEF Inv
<1> QED BY <1>1, InvHolds, PTL

\* Whatever reporters race for the document (SearchProfile.swift:547-577), an
\* accepted report keeps its reason and a document with a reason has one count.
THEOREM ReasonsStay == Spec => []ReasonsKept
<1>1. Inv => ReasonsKept
  <2> SUFFICES ASSUME Inv PROVE ReasonsKept
    OBVIOUS
  <2>1. ASSUME NEW t \in Reported, OneCount(docs, t)
        PROVE  Cardinality({n \in 1..MaxReports : Count(t, n) \in docs}) = 1
    <3>1. PICK n \in Numbers :
            Count(t, n) \in docs /\ \A k \in Numbers : Count(t, k) \in docs => k = n
      BY <2>1 DEF OneCount
    <3>2. {k \in 1..MaxReports : Count(t, k) \in docs} = {n}
      BY <3>1 DEF Numbers
    <3> QED BY <3>2, FS_Singleton
  <2> QED BY <2>1 DEF Inv, Accepted, Counted, ReasonsKept
<1> QED BY <1>1, InvHolds, PTL

\* No count on the server exceeds the reports sent off, also when a reporter
\* counts on from a write that is still queued, or refused later.
THEOREM CountsStay == Spec => []CountBounded
<1>1. Inv => CountBounded
  BY DEF Inv
<1> QED BY <1>1, InvHolds, PTL

------------------------------------------------------------------------------
(* The reports of the only reporter of a user are all counted. *)

\* Batch b makes n the count of t.
Bears(b, t, n) ==
  \A k \in Numbers :
    /\ Count(t, k) \in b.puts <=> k = n
    /\ Count(t, k) \in b.dels <=> k # n

\* It has nothing to do with the count of t.
Clear(b, t) == \A k \in Numbers : Count(t, k) \notin b.puts \cup b.dels

AllClear(q, t) == \A i \in DOMAIN q : Clear(q[i], t)

\* Over the documents D and the queue q, the count of t reads as n.
Standing(q, D, t, n) ==
  \/ /\ n \in Numbers
     /\ \E i \in DOMAIN q :
          /\ Bears(q[i], t, n)
          /\ \A j \in DOMAIN q : j > i => Clear(q[j], t)
  \/ /\ AllClear(q, t)
     /\ \A k \in Numbers : Count(t, k) \in D <=> k = n

\* Nobody but u has sent a report of t, and none of u's was refused.
Alone(u, t) ==
  /\ failures = 0
  /\ \A w \in accepted : w[2] = t => w[1] = u
  /\ \A v \in Reporters \ {u} : AllClear(outbox[v], t)

\* What such a reporter reads, and has been asked about, is the number of its
\* own reports: a read sees the writes of its own client that are queued.
Exact ==
  \A u \in Reporters, t \in Reported : Alone(u, t) =>
    /\ Standing(outbox[u], docs, t, submitted[t])
    /\ alert[u].kind = "prompt" /\ alert[u].uid = t => alert[u].count = submitted[t]

\* Every report either makes some n the count of t or leaves it alone.
LEMMA ReportBears ==
  ASSUME NEW b, NEW u, NEW sent, NEW t \in Reported, IsReport(b, u, sent)
  PROVE  \/ Clear(b, t) /\ \A v \in Reporters : Reason(t, v) \notin b.puts
         \/ \E n \in Numbers : Bears(b, t, n) /\ Reason(t, u) \in b.puts
<1>1. PICK s \in Reported, n \in Numbers :
        /\ u \in Reporters
        /\ b.puts = {Count(s, n), Reason(s, u)}
        /\ b.dels = Rest(s, {Count(s, n)})
  BY DEF IsReport
<1>2. CASE s = t
  <2>1. ASSUME NEW k \in Numbers
        PROVE  /\ Count(t, k) \in b.puts <=> k = n
               /\ Count(t, k) \in b.dels <=> k # n
    BY <1>1, <1>2, FieldsDiffer, RestCounts
  <2>2. Bears(b, t, n)
    BY <2>1 DEF Bears
  <2> QED BY <1>1, <1>2, <2>2
<1>3. CASE s # t
  <2>1. ASSUME NEW k \in Numbers
        PROVE  Count(t, k) \notin b.puts \cup b.dels
    BY <1>1, <1>3, FieldsDiffer, RestCounts
  <2>2. ASSUME NEW v \in Reporters
        PROVE  Reason(t, v) \notin b.puts
    BY <1>1, <1>3, FieldsDiffer
  <2> QED BY <2>1, <2>2 DEF Clear
<1> QED BY <1>2, <1>3

\* The reports of u that wait, one by one.
LEMMA WaitingReport ==
  ASSUME Inv, NEW u \in Reporters, NEW i \in DOMAIN outbox[u]
  PROVE  IsReport(outbox[u][i], u, submitted)
  BY ReportAssumption DEF ReportAssumption, Inv, Queued, IsQueue

LEMMA ReadsStanding ==
  ASSUME Inv, NEW u \in Reporters, NEW t \in Reported, NEW n \in 0..MaxReports,
         Standing(outbox[u], docs, t, n)
  PROVE  CountSeen(u, t) = n
<1> DEFINE q == outbox[u]
           found == {k \in 1..MaxReports : Sees(u, Count(t, k))}
<1>1. q \in Seq(Batches)
  BY ReportAssumption DEF ReportAssumption, Inv, TypeOK
<1>2. ASSUME NEW k \in Numbers
      PROVE  Sees(u, Count(t, k)) <=> k = n
  <2> DEFINE own == Touching(q, Count(t, k))
  <2>1. \A j : j \in own <=> j \in DOMAIN q /\ Count(t, k) \in q[j].puts \cup q[j].dels
    BY DEF Touching
  <2>2. Sees(u, Count(t, k)) <=>
          \/ own = {} /\ Count(t, k) \in docs
          \/ \E i \in own : (\A j \in own : j <= i) /\ Count(t, k) \in q[i].puts
    BY DEF Sees
  <2> HIDE DEF own
  <2>3. CASE AllClear(q, t) /\ (Count(t, k) \in docs <=> k = n)
    <3>1. own = {}
      BY <2>1, <2>3 DEF AllClear, Clear
    <3> QED BY <2>2, <2>3, <3>1
  <2>4. ASSUME NEW i \in DOMAIN q, Bears(q[i], t, n),
               \A j \in DOMAIN q : j > i => Clear(q[j], t)
        PROVE  Sees(u, Count(t, k)) <=> k = n
    <3>1. DOMAIN q \subseteq Int
      BY <1>1
    <3>2. i \in own
      BY <2>1, <2>4 DEF Bears
    <3>3. \A j \in own : j <= i
      <4> SUFFICES ASSUME NEW j \in own, j > i PROVE FALSE
        BY <2>1, <2>4, <3>1
      <4> QED BY <2>1, <2>4 DEF Clear
    <3>4. \A h \in own : (\A j \in own : j <= h) => h = i
      BY <2>1, <3>1, <3>2, <3>3
    <3>5. Sees(u, Count(t, k)) <=> Count(t, k) \in q[i].puts
      BY <2>2, <3>2, <3>3, <3>4
    <3> QED BY <2>4, <3>5 DEF Bears
  <2> QED BY <2>3, <2>4 DEF Standing
<1>3. \A k : k \in found <=> k \in Numbers /\ k = n
  BY <1>2 DEF Numbers
<1>4. CASE n = 0
  <2>1. found = {}
    BY <1>3, <1>4 DEF Numbers
  <2> QED BY <1>4, <2>1 DEF CountSeen
<1>5. CASE n # 0
  <2>1. n \in Numbers
    BY <1>5, ReportAssumption DEF Numbers, ReportAssumption
  <2>2. found = {n}
    BY <1>3, <2>1
  <2>3. CountSeen(u, t) \in found
    BY <2>2 DEF CountSeen
  <2> QED BY <2>2, <2>3
<1> QED BY <1>4, <1>5

LEMMA InitExact == Init => Exact
<1> SUFFICES ASSUME Init, NEW u \in Reporters, NEW t \in Reported
             PROVE  /\ Standing(outbox[u], docs, t, submitted[t])
                    /\ alert[u].kind # "prompt"
  BY DEF Exact
<1>1. outbox[u] = <<>> /\ docs = {} /\ submitted[t] = 0 /\ alert[u] = NoAlert
  BY ReportAssumption DEF Init, ReportAssumption
<1>2. Standing(outbox[u], docs, t, submitted[t])
  BY <1>1, ReportAssumption DEF Standing, AllClear, Numbers, ReportAssumption
<1> QED BY <1>1, <1>2 DEF NoAlert

\* A step that touches neither the server, the queues nor the history.
LEMMA ScreenExact ==
  ASSUME Inv, Exact, UNCHANGED <<docs, outbox, submitted, accepted>>,
         failures' = failures \/ failures' # 0,
         \A v \in Reporters, t \in Reported :
           alert'[v].kind = "prompt" /\ alert'[v].uid = t =>
             \/ alert'[v] = alert[v]
             \/ Alone(v, t) => alert'[v].count = submitted[t]
  PROVE  Exact'
<1> SUFFICES ASSUME NEW v \in Reporters, NEW t \in Reported, Alone(v, t)'
             PROVE  /\ Standing(outbox'[v], docs', t, submitted'[t])
                    /\ alert'[v].kind = "prompt" /\ alert'[v].uid = t =>
                         alert'[v].count = submitted'[t]
  BY DEF Exact
<1>1. Alone(v, t)
  BY DEF Alone
<1> QED BY <1>1 DEF Exact

LEMMA DocumentReadExact ==
  ASSUME Inv, Exact, NEW u \in Reporters, NEW t \in Reported, DocumentRead(u, t)
  PROVE  Exact'
<1> DEFINE a == IF Sees(u, ReportedField(t, u)) THEN Notice ELSE Prompt(t, CountSeen(u, t))
<1>1. a.kind = "prompt" => a.uid = t /\ a.count = CountSeen(u, t)
  BY DEF Notice, Prompt
<1>2. Present(u, a) /\ UNCHANGED <<docs, outbox, submitted, accepted, taps, failures>>
  BY DEF DocumentRead
<1> HIDE DEF a
<1>3. Alone(u, t) => CountSeen(u, t) = submitted[t]
  <2>1. submitted[t] \in 0..MaxReports
    BY DEF Inv, TypeOK
  <2> QED BY <2>1, ReadsStanding DEF Exact
<1>4. \A v \in Reporters : alert'[v] = alert[v] \/ (v = u /\ alert'[v] = a)
  BY <1>2 DEF Present, Inv, TypeOK
<1> QED BY <1>1, <1>2, <1>3, <1>4, ScreenExact

LEMMA SubmitExact ==
  ASSUME Inv, Exact, NEW u \in Reporters, Submit(u)
  PROVE  Exact'
<1> DEFINE t == alert[u].uid
           n == alert[u].count + 1
           b == [puts |-> {Count(t, n), Reason(t, u)},
                 dels |-> Rest(t, {Count(t, n)}), handler |-> "alert"]
<1>1. u \in Users /\ t \in Reported /\ n \in Numbers /\ alert[u].kind = "prompt"
  <2>1. alert[u] \in Alerts /\ alert[u].kind = "prompt" /\ submitted[t] < MaxReports
    BY DEF Submit, Inv, TypeOK
  <2>2. t \in Reported /\ alert[u].count \in 0..MaxReports
    BY <2>1, PromptFields
  <2>3. submitted[t] \in 0..MaxReports /\ alert[u].count <= submitted[t]
    BY <2>1, <2>2 DEF Inv, TypeOK, Asked
  <2> QED BY <2>1, <2>2, <2>3, ReportAssumption DEF ReportAssumption, Numbers
<1>2. /\ alert' = [alert EXCEPT ![u] = NoAlert]
      /\ outbox' = [outbox EXCEPT ![u] = Append(outbox[u], b)]
      /\ submitted' = [submitted EXCEPT ![t] = submitted[t] + 1]
      /\ UNCHANGED <<docs, accepted, failures>>
  BY DEF Submit, Enqueue
<1>3. b \in Batches /\ b.puts = {Count(t, n), Reason(t, u)} /\ b.dels = Rest(t, {Count(t, n)})
  BY <1>1, FieldsDiffer, RestCounts DEF Batches
<1> HIDE DEF b
<1>4. Bears(b, t, n)
  BY <1>1, <1>3, FieldsDiffer, RestCounts DEF Bears
<1>5. \A s \in Reported \ {t} : Clear(b, s)
  BY <1>1, <1>3, FieldsDiffer, RestCounts DEF Clear
<1>6. n = alert[u].count + 1
  OBVIOUS
<1> HIDE DEF t, n
<1>7. outbox[u] \in Seq(Batches)
  BY <1>1 DEF Inv, TypeOK
<1> DEFINE q == outbox[u]
           r == Append(q, b)
<1>8. /\ Len(q) \in Nat /\ DOMAIN q = 1..Len(q) /\ DOMAIN r = 1..Len(q) + 1
      /\ r[Len(q) + 1] = b
      /\ \A i \in DOMAIN q : r[i] = q[i]
  BY <1>3, <1>7
<1> SUFFICES ASSUME NEW v \in Reporters, NEW s \in Reported, Alone(v, s)'
             PROVE  /\ Standing(outbox'[v], docs', s, submitted'[s])
                    /\ alert'[v].kind = "prompt" /\ alert'[v].uid = s =>
                         alert'[v].count = submitted'[s]
  BY DEF Exact
<1>9. v \in Users /\ \A w \in Reporters : w \in Users
  BY ReportAssumption DEF ReportAssumption
<1>10. \A w \in Reporters : outbox'[w] = IF w = u THEN r ELSE outbox[w]
  BY <1>2, <1>9 DEF Inv, TypeOK
<1> HIDE DEF q, r
<1>11. ASSUME NEW x \in Reported, AllClear(r, x)
       PROVE  AllClear(q, x) /\ x # t
  <2>1. AllClear(q, x)
    BY <1>8, <1>11 DEF AllClear
  <2>2. Clear(b, x)
    BY <1>8, <1>11 DEF AllClear
  <2> QED BY <1>1, <1>4, <2>1, <2>2 DEF Clear, Bears
<1>12. Alone(v, s)
  <2> SUFFICES ASSUME NEW w \in Reporters \ {v}
               PROVE  AllClear(outbox[w], s)
    BY <1>2 DEF Alone
  <2>1. AllClear(outbox'[w], s)
    BY DEF Alone
  <2> QED BY <1>10, <1>11, <2>1 DEF q
<1>13. s = t => v = u
  <2> SUFFICES ASSUME v # u, s = t PROVE FALSE
    OBVIOUS
  <2>1. AllClear(outbox'[u], s)
    BY DEF Alone
  <2> QED BY <1>10, <1>11, <2>1
<1>14. /\ Standing(outbox[v], docs, s, submitted[s])
       /\ alert[v].kind = "prompt" /\ alert[v].uid = s => alert[v].count = submitted[s]
  BY <1>12 DEF Exact
<1>15. CASE s = t
  <2>1. alert[u].count = submitted[t]
    BY <1>1, <1>13, <1>14, <1>15 DEF t
  <2>2. submitted'[t] = n
    BY <1>1, <1>2, <1>6, <2>1 DEF Inv, TypeOK
  <2>3. Standing(r, docs', t, n)
    <3>1. Len(q) + 1 \in DOMAIN r /\ \A j \in DOMAIN r : ~ (j > Len(q) + 1)
      BY <1>8
    <3> QED BY <1>1, <1>4, <1>8, <3>1 DEF Standing
  <2>4. alert'[v] = NoAlert
    BY <1>2, <1>13, <1>15 DEF Inv, TypeOK
  <2> QED BY <1>10, <1>13, <1>15, <2>2, <2>3, <2>4 DEF NoAlert
<1>16. CASE s # t
  <2>1. submitted'[s] = submitted[s]
    BY <1>1, <1>2, <1>16 DEF Inv, TypeOK
  <2>2. alert'[v] = alert[v] \/ alert'[v] = NoAlert
    BY <1>2 DEF Inv, TypeOK
  <2>3. Standing(outbox'[v], docs', s, submitted'[s])
    <3>1. CASE v # u
      BY <1>2, <1>10, <1>14, <2>1, <3>1
    <3>2. CASE v = u
      <4>1. Clear(b, s)
        BY <1>5, <1>16
      <4>2. Standing(q, docs, s, submitted[s])
        BY <1>14, <3>2 DEF q
      <4>3. CASE AllClear(q, s) /\ \A k \in Numbers : Count(s, k) \in docs <=> k = submitted[s]
        <5>1. AllClear(r, s)
          BY <1>8, <4>1, <4>3 DEF AllClear
        <5>2. Standing(r, docs, s, submitted[s])
          BY <4>3, <5>1 DEF Standing
        <5> QED BY <1>2, <1>10, <2>1, <3>2, <5>2
      <4>4. ASSUME NEW i \in DOMAIN q, Bears(q[i], s, submitted[s]),
                   \A j \in DOMAIN q : j > i => Clear(q[j], s),
                   submitted[s] \in Numbers
            PROVE  Standing(outbox'[v], docs', s, submitted'[s])
        <5>1. i \in DOMAIN r /\ r[i] = q[i]
          BY <1>8
        <5>2. \A j \in DOMAIN r : j > i => Clear(r[j], s)
          BY <1>8, <4>1, <4>4
        <5>3. Standing(r, docs, s, submitted[s])
          BY <4>4, <5>1, <5>2 DEF Standing
        <5> QED BY <1>2, <1>10, <2>1, <3>2, <5>3
      <4> QED BY <4>2, <4>3, <4>4 DEF Standing
    <3> QED BY <3>1, <3>2
  <2> QED BY <1>14, <2>1, <2>2, <2>3 DEF NoAlert
<1> QED BY <1>15, <1>16

\* The server applies the oldest report: what the client reads stays.
LEMMA StandingCommitted ==
  ASSUME NEW q \in Seq(Batches), q # <<>>, NEW D, NEW E, NEW t, NEW n,
         E = (D \ Head(q).dels) \cup Head(q).puts,
         Clear(Head(q), t) \/ \E k \in Numbers : Bears(Head(q), t, k),
         Standing(q, D, t, n)
  PROVE  Standing(Tail(q), E, t, n)
<1> DEFINE r == Tail(q)
<1>1. /\ Len(r) \in Nat /\ DOMAIN r = 1..Len(r) /\ DOMAIN q = 1..Len(r) + 1
      /\ Head(q) = q[1]
      /\ \A j \in 1..Len(r) : r[j] = q[j + 1]
  BY HeadTailProperties
<1> HIDE DEF r
<1>2. CASE AllClear(q, t) /\ \A k \in Numbers : Count(t, k) \in D <=> k = n
  <2>1. AllClear(r, t)
    BY <1>1, <1>2 DEF AllClear
  <2>2. Clear(q[1], t)
    BY <1>1, <1>2 DEF AllClear
  <2>3. \A k \in Numbers : Count(t, k) \in E <=> k = n
    BY <1>1, <1>2, <2>2 DEF Clear
  <2> QED BY <2>1, <2>3 DEF Standing, r
<1>3. ASSUME NEW i \in DOMAIN q, Bears(q[i], t, n),
             \A j \in DOMAIN q : j > i => Clear(q[j], t), n \in Numbers
      PROVE  Standing(r, E, t, n)
  <2>1. CASE i = 1
    <3>1. AllClear(r, t)
      BY <1>1, <1>3, <2>1 DEF AllClear
    <3>2. \A k \in Numbers : Count(t, k) \in E <=> k = n
      BY <1>1, <1>3, <2>1 DEF Bears
    <3> QED BY <3>1, <3>2 DEF Standing
  <2>2. CASE i # 1
    <3>1. i - 1 \in DOMAIN r /\ r[i - 1] = q[i]
      BY <1>1, <2>2
    <3>2. \A j \in DOMAIN r : j > i - 1 => Clear(r[j], t)
      BY <1>1, <1>3
    <3> QED BY <1>3, <3>1, <3>2 DEF Standing
  <2> QED BY <2>1, <2>2
<1> QED BY <1>2, <1>3 DEF Standing, r

LEMMA CommittedExact ==
  ASSUME Inv, Exact, NEW u \in Reporters, Committed(u)
  PROVE  Exact'
<1> DEFINE q == outbox[u]
           b == Head(q)
<1>1. /\ q # <<>> /\ docs' = (docs \ b.dels) \cup b.puts
      /\ outbox' = [outbox EXCEPT ![u] = Tail(q)]
      /\ Announce(u)
      /\ accepted' = accepted \cup {<<u, t>> : t \in {x \in Reported : Reason(x, u) \in b.puts}}
      /\ UNCHANGED <<submitted, failures>>
  BY DEF Committed, Commit
<1>2. q \in Seq(Batches)
  BY ReportAssumption DEF ReportAssumption, Inv, TypeOK
<1>3. 1 \in DOMAIN q /\ b = q[1]
  BY <1>1, <1>2
<1>4. IsReport(b, u, submitted)
  BY <1>3, WaitingReport
<1> SUFFICES ASSUME NEW v \in Reporters, NEW t \in Reported, Alone(v, t)'
             PROVE  /\ Standing(outbox'[v], docs', t, submitted'[t])
                    /\ alert'[v].kind = "prompt" /\ alert'[v].uid = t =>
                         alert'[v].count = submitted'[t]
  BY DEF Exact
<1>5. \A w \in Reporters : outbox'[w] = IF w = u THEN Tail(q) ELSE outbox[w]
  BY <1>1, ReportAssumption DEF Inv, TypeOK, ReportAssumption
<1> HIDE DEF q, b
<1>6. \/ Clear(b, t)
      \/ \E n \in Numbers : Bears(b, t, n) /\ Reason(t, u) \in b.puts
  BY <1>4, ReportBears
<1>7. v # u => Clear(b, t)
  <2> SUFFICES ASSUME v # u, Reason(t, u) \in b.puts PROVE FALSE
    BY <1>6
  <2>1. <<u, t>> \in accepted'
    BY <1>1
  <2> QED BY <2>1 DEF Alone
<1>8. ASSUME AllClear(Tail(q), t), Clear(b, t)
      PROVE  AllClear(q, t)
  <2>1. /\ DOMAIN Tail(q) = 1..Len(Tail(q)) /\ DOMAIN q = 1..Len(Tail(q)) + 1
        /\ Len(Tail(q)) \in Nat
        /\ \A j \in 1..Len(Tail(q)) : Tail(q)[j] = q[j + 1]
    BY <1>1, <1>2, HeadTailProperties
  <2>2. ASSUME NEW i \in DOMAIN q PROVE Clear(q[i], t)
    <3>1. i = 1 \/ (i - 1 \in DOMAIN Tail(q) /\ Tail(q)[i - 1] = q[i])
      BY <2>1
    <3> QED BY <1>3, <1>8, <3>1 DEF AllClear
  <2> QED BY <2>2 DEF AllClear
<1>9. Alone(v, t)
  <2>1. failures = 0 /\ \A w \in accepted : w[2] = t => w[1] = v
    BY <1>1 DEF Alone
  <2>2. ASSUME NEW w \in Reporters \ {v} PROVE AllClear(outbox[w], t)
    <3>1. AllClear(outbox'[w], t)
      BY DEF Alone
    <3> QED BY <1>5, <1>7, <1>8, <3>1 DEF q
  <2> QED BY <2>1, <2>2 DEF Alone
<1>10. /\ Standing(outbox[v], docs, t, submitted[t])
       /\ alert[v].kind = "prompt" /\ alert[v].uid = t => alert[v].count = submitted[t]
  BY <1>9 DEF Exact
<1>11. Standing(outbox'[v], docs', t, submitted'[t])
  <2>1. CASE v = u
    <3>1. Standing(q, docs, t, submitted[t])
      BY <1>10, <2>1 DEF q
    <3>2. Standing(Tail(q), docs', t, submitted[t])
      BY <1>1, <1>2, <1>6, <3>1, StandingCommitted DEF b
    <3> QED BY <1>1, <1>5, <2>1, <3>2
  <2>2. CASE v # u
    <3>1. \A k \in Numbers : Count(t, k) \in docs' <=> Count(t, k) \in docs
      BY <1>1, <1>7, <2>2 DEF Clear
    <3> QED BY <1>1, <1>5, <1>10, <2>2, <3>1 DEF Standing
  <2> QED BY <2>1, <2>2
<1>12. alert'[v] = alert[v] \/ alert'[v] = Notice
  BY <1>1 DEF Announce, Present, Inv, TypeOK
<1> QED BY <1>1, <1>10, <1>11, <1>12 DEF Notice

LEMMA RelaunchExact ==
  ASSUME Inv, Exact, NEW u \in Reporters, Relaunch(u)
  PROVE  Exact'
<1> DEFINE q == outbox[u]
           r == [i \in DOMAIN q |-> [q[i] EXCEPT !.handler = "nothing"]]
<1>1. /\ alert' = [alert EXCEPT ![u] = NoAlert]
      /\ outbox' = [outbox EXCEPT ![u] = r]
      /\ UNCHANGED <<docs, submitted, accepted, failures>>
  BY DEF Relaunch
<1>2. q \in Seq(Batches)
  BY ReportAssumption DEF ReportAssumption, Inv, TypeOK
<1> HIDE DEF q
<1>3. /\ DOMAIN r = DOMAIN q
      /\ \A i \in DOMAIN q : r[i].puts = q[i].puts /\ r[i].dels = q[i].dels
  <2>1. \A i \in DOMAIN q : q[i] \in Batches
    BY <1>2
  <2> QED BY <2>1 DEF Batches
<1> HIDE DEF r
<1>4. \A w \in Reporters : outbox'[w] = IF w = u THEN r ELSE outbox[w]
  BY <1>1, ReportAssumption DEF Inv, TypeOK, ReportAssumption
<1>5. \A t : /\ \A i \in DOMAIN q : Clear(r[i], t) <=> Clear(q[i], t)
             /\ \A i \in DOMAIN q, n \in Numbers : Bears(r[i], t, n) <=> Bears(q[i], t, n)
  BY <1>3 DEF Clear, Bears
<1>6. \A t : AllClear(r, t) <=> AllClear(q, t)
  BY <1>3, <1>5 DEF AllClear
<1>7. \A t, n : Standing(q, docs, t, n) => Standing(r, docs, t, n)
  BY <1>3, <1>5, <1>6 DEF Standing
<1> SUFFICES ASSUME NEW v \in Reporters, NEW t \in Reported, Alone(v, t)'
             PROVE  /\ Standing(outbox'[v], docs', t, submitted'[t])
                    /\ alert'[v].kind = "prompt" /\ alert'[v].uid = t =>
                         alert'[v].count = submitted'[t]
  BY DEF Exact
<1>8. Alone(v, t)
  <2>1. ASSUME NEW w \in Reporters \ {v} PROVE AllClear(outbox[w], t)
    <3>1. AllClear(outbox'[w], t)
      BY DEF Alone
    <3> QED BY <1>4, <1>6, <3>1 DEF q
  <2> QED BY <1>1, <2>1 DEF Alone
<1>9. /\ Standing(outbox[v], docs, t, submitted[t])
      /\ alert[v].kind = "prompt" /\ alert[v].uid = t => alert[v].count = submitted[t]
  BY <1>8 DEF Exact
<1>10. Standing(outbox'[v], docs', t, submitted'[t])
  BY <1>1, <1>4, <1>7, <1>9 DEF q
<1>11. alert'[v] = alert[v] \/ alert'[v] = NoAlert
  BY <1>1 DEF Inv, TypeOK
<1> QED BY <1>1, <1>9, <1>10, <1>11 DEF NoAlert

LEMMA StepExact == Inv /\ Exact /\ [Next]_vars => Exact'
<1> SUFFICES ASSUME Inv, Exact, [Next]_vars PROVE Exact'
  OBVIOUS
<1>1. CASE UNCHANGED vars
  BY <1>1 DEF vars, Exact, Alone
<1>2. ASSUME NEW u \in Reporters, NEW t \in Reported, reportuser(u, t) \/ ReadFailed(u, t)
      PROVE  Exact'
  <2>1. failures \in Nat
    BY DEF Inv, TypeOK
  <2>2. UNCHANGED <<docs, outbox, submitted, accepted, alert>>
        /\ (failures' = failures \/ failures' # 0)
    BY <1>2, <2>1 DEF reportuser, ReadFailed
  <2> QED BY <2>2, ScreenExact
<1>3. ASSUME NEW u \in Reporters, DismissAlert(u)
      PROVE  Exact'
  <2>1. \A v \in Reporters : alert'[v] = alert[v] \/ alert'[v] = NoAlert
    BY <1>3 DEF DismissAlert, Inv, TypeOK
  <2> QED BY <1>3, <2>1, ScreenExact DEF DismissAlert, NoAlert
<1>4. ASSUME NEW u \in Reporters, Refused(u)
      PROVE  Exact'
  <2>1. failures' # 0
    BY <1>4 DEF Refused, Inv, TypeOK
  <2> QED BY <2>1 DEF Exact, Alone
<1>5. CASE Next
  <2>1. PICK u \in Reporters :
          \/ \E t \in Reported : reportuser(u, t) \/ DocumentRead(u, t) \/ ReadFailed(u, t)
          \/ Submit(u) \/ DismissAlert(u) \/ Committed(u) \/ Refused(u) \/ Relaunch(u)
    BY <1>5, Zenon DEF Next
  <2> QED BY <1>2, <1>3, <1>4, <2>1, DocumentReadExact, SubmitExact, CommittedExact,
             RelaunchExact
<1> QED BY <1>1, <1>5

\* As long as nothing fails, the count of a user whom only one user reports is
\* the number of those reports, however often they overlap, wait in the queue
\* or outlive a restart: a read sees the client's own queued writes.
THEOREM CountsAreExact == Spec => []CountExact
<1>1. Init => Inv /\ Exact
  BY InitInv, InitExact
<1>2. (Inv /\ Exact) /\ [Next]_vars => (Inv /\ Exact)'
  BY StepInv, StepExact
<1>3. Inv /\ Exact => CountExact
  <2> SUFFICES ASSUME Inv, Exact, NEW u \in Reporters, NEW t \in Reported,
                      failures = 0, {w \in accepted : w[2] = t} = {<<u, t>>},
                      \A x \in Reporters : outbox[x] = <<>>
               PROVE  Count(t, submitted[t]) \in docs
    BY DEF CountExact
  <2>1. Alone(u, t)
    BY DEF Alone, AllClear
  <2>2. \A k \in Numbers : Count(t, k) \in docs <=> k = submitted[t]
    BY <2>1 DEF Exact, Standing
  <2>3. <<u, t>> \in accepted
    OBVIOUS
  <2>4. Reason(t, u) \in docs
    BY <2>3 DEF Inv, Accepted
  <2>5. PICK n \in Numbers : Count(t, n) \in docs
    BY <2>4 DEF Inv, Counted, OneCount
  <2> QED BY <2>2, <2>5
<1> QED BY <1>1, <1>2, <1>3, PTL DEF Spec
==============================================================================
