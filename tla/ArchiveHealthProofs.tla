-------------------------- MODULE ArchiveHealthProofs --------------------------
(***************************************************************************)
(* Proofs about ArchiveHealth for all deployments, ranges, pending times    *)
(* and counters: a lasting fault and a single failure fire the alert, and   *)
(* an alert without a fault has only one explanation.                       *)
(***************************************************************************)
EXTENDS ArchiveHealth, TLAPS

-----------------------------------------------------------------------------
Monitored == Required /\ SameLabels
Own == deployed.fileLabels

\* A fault is in the range, and it has been pending under a label set for as long
\* as its newest scrapes had these labels.
SickInv ==
    Required =>
        /\ sick <= Len(history) /\ (sick > 0 => history[1].labels \in Labels)
        /\ \A l \in Labels : \A n \in 0 .. sick :
              (\A i \in 1 .. n : history[i].labels = l) => n <= pending[l]

\* The newest sample of a monitored archive whose counters are known shows
\* them, or zeros if the file was not readable then.
KnownInv ==
    known # {} => /\ \E k \in [Counter -> 0 .. MaxCount] : known = {k}
                  /\ Monitored => /\ Len(history) >= 1 /\ history[1].labels = Own
                                  /\ history[1].count \in known \cup {Zero}

\* debt scrapes ago a counter rose: the two samples are still in the range.
Step(h, n) ==
    /\ n < Len(h) /\ h[n].labels = Own /\ h[n + 1].labels = Own
    /\ \E c \in Counter : h[n].count[c] # h[n + 1].count[c] /\ h[n].count[c] > 0
DebtInv == Monitored /\ debt > 0 => debt <= pending[Own] /\ Step(history, debt)

\* Samples taken since the last failure show the counters as they are, or zeros.
QuietInv == \A i \in 1 .. Len(history) : i <= quiet => history[i].count \in {count, Zero}

IInv == TypeOK /\ SickInv /\ KnownInv /\ DebtInv /\ QuietInv

\* A sample in the range shows zeros although the counters are not zero.
ShownAsZero(l) ==
    count # Zero /\ \E j \in 1 .. Len(history) : history[j].labels = l /\ history[j].count = Zero

\* An alert that starts to fire on a healthy archive without a failure in the
\* range is the work of a scrape that exported the counters as zero: a read
\* error of the status file is the only source of false alarms.
AlarmsAreExplained ==
    [][\A l \in Labels : ~Firing(l) /\ Firing(l)' =>
          sick' > 0 \/ quiet' <= Window \/ ShownAsZero(l)']_vars

-----------------------------------------------------------------------------
\* One scrape: its type, and what it shows of a monitored archive.
LEMMA ScrapeType == TypeOK => Scrape \in Sample
<1> SUFFICES ASSUME TypeOK PROVE Scrape \in Sample
  OBVIOUS
<1> USE ArchiveAssumption
<1>1. /\ deployed.flagLabels \in Labels /\ deployed.fileLabels \in Labels
      /\ deployed.flag \in BOOLEAN
  BY DEF TypeOK
<1>2. Zero \in [Counter -> 0 .. MaxCount]
  BY DEF Zero
<1>3. Nothing \in Sample
  BY <1>2 DEF Nothing, Sample, NoStamp
<1>4. LoadStatus \in Sample
  <2>1. CASE kind = "torn"
    BY <1>1, <1>2, <2>1 DEF LoadStatus, Sample, NoStamp
  <2>2. CASE kind # "torn"
    <3>1. (IF deployed.fileEnabled = "unset" THEN deployed.flag
           ELSE deployed.fileEnabled = "true") \in BOOLEAN
      BY <1>1
    <3>2. (IF kind = "ok" THEN age ELSE NoStamp) \in 0 .. NoStamp
      BY DEF TypeOK, NoStamp
    <3>3. (IF kind = "ok" THEN count ELSE Zero) \in [Counter -> 0 .. MaxCount]
      BY <1>2 DEF TypeOK
    <3> QED
      BY <1>1, <2>2, <3>1, <3>2, <3>3 DEF LoadStatus, Sample, TypeOK
  <2> QED
    BY <2>1, <2>2
<1>5. [LoadStatus EXCEPT !.enabled = TRUE, !.success = FALSE] \in Sample
  BY <1>4 DEF Sample
<1> QED
  BY <1>3, <1>4, <1>5 DEF Scrape, Collect

LEMMA ScrapeShows ==
    ASSUME TypeOK, Monitored, up
    PROVE  /\ Scrape.labels = Own /\ Scrape.enabled
           /\ kind # "ok" => Scrape.stamp = NoStamp /\ Scrape.count = Zero
           /\ kind = "ok" => /\ Scrape.success = success /\ Scrape.stamp = age
                             /\ Scrape.count = count
<1>1. deployed.flag = TRUE /\ deployed.fileEnabled \in {"true", "unset"}
  BY ArchiveAssumption DEF TypeOK, Monitored, Required
<1> QED
  BY <1>1 DEF Monitored, SameLabels, Scrape, Collect, LoadStatus, Own

\* Whatever is deployed, a scrape shows the counters or zeros, and a scrape with
\* labels is one of the exporter.
LEMMA ScrapeCounts == Scrape.count \in {count, Zero}
BY DEF Scrape, Collect, LoadStatus, Nothing

\* The history after a scrape: the scrape in front, the rest one place later.
LEMMA Remembered ==
    ASSUME TypeOK, NEW s \in Sample
    PROVE  /\ Remember(s) \in Seq(Entry)
           /\ Len(Remember(s)) = IF Len(history) < Window THEN Len(history) + 1 ELSE Window
           /\ Remember(s)[1] = [labels |-> IF s.enabled THEN s.labels ELSE NoSeries,
                                count |-> s.count]
           /\ \A i \in 1 .. Len(Remember(s)) - 1 : Remember(s)[i + 1] = history[i]
<1> DEFINE n == IF Len(history) < Window THEN Len(history) ELSE Window - 1
           e == [labels |-> IF s.enabled THEN s.labels ELSE NoSeries, count |-> s.count]
           older == SubSeq(history, 1, n)
<1>1. n \in 0 .. Len(history) /\ n + 1 = IF Len(history) < Window THEN Len(history) + 1 ELSE Window
  BY ArchiveAssumption DEF TypeOK
<1>2. e \in Entry
  BY DEF Sample, Entry
<1>3. history \in Seq(Entry)
  BY DEF TypeOK
<1> HIDE DEF n, e
<1>4. older \in Seq(Entry) /\ Len(older) = n /\ \A i \in 1 .. n : older[i] = history[i]
  BY <1>1, <1>3
<1> HIDE DEF older
<1>5. /\ <<e>> \o older \in Seq(Entry) /\ Len(<<e>> \o older) = n + 1
      /\ (<<e>> \o older)[1] = e
      /\ \A i \in 1 .. n : (<<e>> \o older)[i + 1] = older[i]
  BY <1>1, <1>2, <1>4
<1>6. Remember(s) = <<e>> \o older
  BY DEF Remember, e, older, n
<1> QED
  BY <1>1, <1>4, <1>5, <1>6 DEF e

\* The numbers of the state, for steps that need nothing else of its type.
LEMMA Ranges ==
    TypeOK => /\ Len(history) \in 0 .. Window /\ quiet \in 0 .. Window + 1
              /\ debt \in 0 .. For + 1 /\ sick \in 0 .. For + 1
              /\ \A l \in Labels : pending[l] \in 0 .. For + 1
              /\ \A c \in Counter : count[c] \in Nat /\ Zero[c] = 0
BY ArchiveAssumption DEF TypeOK, Zero

-----------------------------------------------------------------------------
LEMMA InitInv == Init => IInv
<1> SUFFICES ASSUME Init PROVE IInv
  OBVIOUS
<1> USE ArchiveAssumption
<1>1. Nothing \in Sample /\ Zero \in [Counter -> 0 .. MaxCount]
  BY DEF Nothing, Sample, Zero, NoStamp
<1>2. TypeOK
  BY <1>1 DEF Init, TypeOK
<1>3. SickInv
  BY DEF Init, SickInv
<1> QED
  BY <1>2, <1>3 DEF Init, IInv, KnownInv, DebtInv, QuietInv

LEMMA TypeStep == TypeOK /\ [Next]_vars => TypeOK'
<1> SUFFICES ASSUME TypeOK, [Next]_vars PROVE TypeOK'
  OBVIOUS
<1> USE ArchiveAssumption DEF TypeOK
<1>1. CASE Deliver
  BY <1>1 DEF Deliver, Publish, prometheus, ghosts
<1>2. CASE FailDelivery
  <2>1. count' \in [Counter -> 0 .. MaxCount]
    BY <1>2 DEF FailDelivery, Counter
  <2>2. success' \in BOOLEAN
    BY <1>2, Zenon DEF FailDelivery
  <2> QED
    BY <1>2, <2>1, <2>2 DEF FailDelivery, Publish, prometheus
<1>3. CASE DeadLetter
  <2>1. count' \in [Counter -> 0 .. MaxCount]
    BY <1>3 DEF DeadLetter, Counter
  <2> QED
    BY <1>3, <2>1 DEF DeadLetter, Publish, prometheus
<1>4. CASE BreakFile
  BY <1>4 DEF BreakFile, prometheus, ghosts
<1>5. CASE SwitchExporter
  BY <1>5 DEF SwitchExporter, archive, prometheus, ghosts
<1>6. CASE Tick
  <2>1. scraped' \in Sample
    BY <1>6, ScrapeType DEF Tick, Evaluate
  <2>2. history' \in Seq(Entry) /\ Len(history') <= Window
    <3>1. history' = Remember(scraped')
      BY <1>6 DEF Tick, Evaluate
    <3>2. Remember(scraped') \in Seq(Entry) /\ Len(Remember(scraped')) <= Window
      <4> HIDE DEF TypeOK
      <4>1. /\ Remember(scraped') \in Seq(Entry)
            /\ Len(Remember(scraped')) = IF Len(history) < Window THEN Len(history) + 1 ELSE Window
        BY <2>1, Remembered
      <4> QED
        BY <4>1 DEF TypeOK
    <3> QED
      BY <3>1, <3>2
  <2>3. ASSUME NEW n \in 0 .. For + 1, NEW b PROVE Wait(n, b) \in 0 .. For + 1
    BY DEF Wait
  <2>4. pending' \in [Labels -> 0 .. For + 1] /\ missing' \in 0 .. For + 1
    BY <1>6, <2>3 DEF Tick, Evaluate
  <2>5. sick' \in 0 .. For + 1 /\ debt' \in 0 .. For + 1 /\ quiet' \in 0 .. Window + 1
    BY <1>6 DEF Tick, Evaluate, Observe, Successive
  <2>6. known' \in SUBSET [Counter -> 0 .. MaxCount]
    BY <1>6 DEF Tick, Evaluate, Observe
  <2>7. age' \in 0 .. Stale + 1
    BY <1>6 DEF Tick
  <2> QED
    BY <1>6, <2>1, <2>2, <2>4, <2>5, <2>6, <2>7 DEF Tick
<1>7. CASE UNCHANGED vars
  BY <1>7 DEF vars, archive, prometheus, ghosts
<1> QED
  BY <1>1, <1>2, <1>3, <1>4, <1>5, <1>6, <1>7 DEF Next

\* The state and the rules of the archive are of one deployment.
LEMMA SameDeployment == [Next]_vars => deployed' = deployed
BY DEF Next, Deliver, FailDelivery, DeadLetter, BreakFile, SwitchExporter, Tick, vars

-----------------------------------------------------------------------------
\* What a tick does to the history, for the invariants about it.
LEMMA TickHistory ==
    ASSUME TypeOK, TypeOK', Tick
    PROVE  /\ Len(history') >= 1
           /\ Len(history') = IF Len(history) < Window THEN Len(history) + 1 ELSE Window
           /\ history'[1].labels = IF scraped'.enabled THEN scraped'.labels ELSE NoSeries
           /\ history'[1].count = scraped'.count
           /\ \A i \in 1 .. Len(history') - 1 : history'[i + 1] = history[i]
<1>1. scraped' \in Sample /\ history' = Remember(scraped')
  BY DEF Tick, Evaluate, TypeOK
<1> DEFINE s == scraped'
<1>2. /\ Len(Remember(s)) = IF Len(history) < Window THEN Len(history) + 1 ELSE Window
      /\ Remember(s)[1] = [labels |-> IF s.enabled THEN s.labels ELSE NoSeries,
                           count |-> s.count]
      /\ \A i \in 1 .. Len(Remember(s)) - 1 : Remember(s)[i + 1] = history[i]
  BY <1>1, Remembered
<1>3. Window >= 2 /\ Len(history) \in Nat
  BY ArchiveAssumption DEF TypeOK
<1> QED
  BY <1>1, <1>2, <1>3

\* An alert that is active at a tick has been pending for one tick more.
LEMMA TickPending ==
    ASSUME TypeOK, Tick, NEW n \in 0 .. For + 1, NEW l \in Labels, n <= pending[l],
           Degraded(scraped', history', l)
    PROVE  pending'[l] >= 1 /\ (n <= For => pending'[l] >= n + 1) /\ pending'[l] >= n
<1>1. pending'[l] = Wait(pending[l], TRUE)
  BY DEF Tick, Evaluate
<1>2. pending[l] \in 0 .. For + 1
  BY DEF TypeOK
<1> QED
  BY <1>1, <1>2, ArchiveAssumption DEF Wait

\* An unhealthy archive that has to be enabled is scraped as one, under some labels.
LEMMA UnhealthyScrape ==
    ASSUME TypeOK, Required, up, Unhealthy
    PROVE  /\ Scrape.enabled /\ Scrape.labels \in Labels
           /\ ~Scrape.success \/ Scrape.stamp = NoStamp \/ Scrape.stamp > Stale
<1>1. /\ deployed.flag = TRUE /\ deployed.fileEnabled \in {"true", "unset"}
      /\ deployed.flagLabels \in Labels /\ deployed.fileLabels \in Labels
  BY ArchiveAssumption DEF TypeOK, Required
<1>2. CASE kind # "ok"
  BY <1>1, <1>2 DEF Scrape, Collect, LoadStatus
<1>3. CASE kind = "ok"
  BY <1>1, <1>3 DEF Scrape, Collect, LoadStatus, Unhealthy
<1> QED
  BY <1>2, <1>3

LEMMA SickStep == IInv /\ TypeOK' /\ [Next]_vars => SickInv'
<1> SUFFICES ASSUME IInv, TypeOK', [Next]_vars, Required' PROVE SickInv'
  BY DEF SickInv
<1>1. Required /\ deployed' = deployed
  BY SameDeployment DEF Required
<1>2. /\ sick <= Len(history)
      /\ \A l \in Labels : \A n \in 0 .. sick :
            (\A i \in 1 .. n : history[i].labels = l) => n <= pending[l]
  BY <1>1 DEF IInv, SickInv
<1>3. CASE Tick
  <2>1. sick' = Successive(sick, up /\ Unhealthy) /\ scraped' = Scrape
    BY <1>3 DEF Tick, Evaluate, Observe
  <2>2. CASE up /\ Unhealthy
    <3>1. /\ scraped'.enabled /\ scraped'.labels \in Labels
          /\ ~scraped'.success \/ scraped'.stamp = NoStamp \/ scraped'.stamp > Stale
      BY <1>1, <2>1, <2>2, UnhealthyScrape DEF IInv
    <3>2. sick' = (IF sick > For THEN sick ELSE sick + 1) /\ sick \in 0 .. For + 1
      BY <2>1, <2>2, Ranges DEF Successive, IInv
    <3>3. sick' <= Len(history')
      BY <1>2, <1>3, <3>2, TickHistory, Ranges, ArchiveAssumption DEF IInv
    <3>4. history'[1].labels = scraped'.labels
      BY <1>3, <3>1, TickHistory DEF IInv
    <3>5. ASSUME NEW l \in Labels, NEW n \in 0 .. sick', \A i \in 1 .. n : history'[i].labels = l
          PROVE  n <= pending'[l]
      <4>1. pending'[l] \in 0 .. For + 1
        BY <3>5 DEF TypeOK
      <4>2. CASE n # 0
        <5> DEFINE m == n - 1
        <5>1. m \in 0 .. sick /\ m \in 0 .. For + 1 /\ n = m + 1 /\ n \in 1 .. For + 1
          BY <3>2, <3>5, <4>2, ArchiveAssumption
        <5>2. \A i \in 1 .. m : history[i].labels = l
          <6> SUFFICES ASSUME NEW i \in 1 .. m PROVE history[i].labels = l
            OBVIOUS
          <6>1. i + 1 \in 1 .. n /\ i \in 1 .. Len(history') - 1
            BY <3>2, <3>3, <3>5, <5>1, Ranges DEF IInv
          <6>2. history'[i + 1] = history[i]
            BY <1>3, <6>1, TickHistory DEF IInv
          <6> QED
            BY <3>5, <6>1, <6>2
        <5>3. m <= pending[l]
          BY <1>2, <5>1, <5>2
        <5>4. Degraded(scraped', history', l)
          BY <3>1, <3>4, <3>5, <5>1 DEF Degraded
        <5>5. (m <= For => pending'[l] >= m + 1) /\ pending'[l] >= m
          BY <1>3, <5>1, <5>3, <5>4, TickPending DEF IInv
        <5> QED
          BY <4>1, <5>1, <5>5, ArchiveAssumption
      <4> QED
        BY <4>1, <4>2, ArchiveAssumption
    <3> QED
      BY <3>1, <3>3, <3>4, <3>5 DEF SickInv
  <2>3. CASE ~(up /\ Unhealthy)
    <3>1. sick' = 0
      BY <2>1, <2>3 DEF Successive
    <3>2. Len(history') \in Nat /\ \A l \in Labels : pending'[l] \in 0 .. For + 1
      BY DEF TypeOK
    <3> QED
      BY <3>1, <3>2, ArchiveAssumption DEF SickInv
  <2> QED
    BY <2>2, <2>3
<1>4. CASE ~Tick
  <2>1. UNCHANGED <<history, pending, sick>>
    BY <1>4 DEF Next, Deliver, FailDelivery, DeadLetter, BreakFile, SwitchExporter, vars,
                prometheus, ghosts
  <2> QED
    BY <1>1, <2>1 DEF IInv, SickInv
<1> QED
  BY <1>3, <1>4

LEMMA KnownStep == IInv /\ TypeOK' /\ [Next]_vars => KnownInv'
<1> SUFFICES ASSUME IInv, TypeOK', [Next]_vars PROVE KnownInv'
  OBVIOUS
<1>1. deployed' = deployed /\ Own' = Own /\ Monitored' = Monitored
  BY SameDeployment DEF Monitored, Required, SameLabels, Own
<1>2. CASE Tick
  <2>1. scraped' = Scrape /\ known' = IF ~up THEN {} ELSE IF kind = "ok" THEN {count} ELSE known
    BY <1>2 DEF Tick, Evaluate, Observe
  <2>2. known' # {} => \E k \in [Counter -> 0 .. MaxCount] : known' = {k}
    BY <2>1 DEF IInv, TypeOK, KnownInv
  <2>3. ASSUME known' # {}, Monitored
        PROVE  /\ Len(history') >= 1 /\ history'[1].labels = Own
               /\ history'[1].count \in known' \cup {Zero}
    <3>1. up
      BY <2>1, <2>3
    <3>2. /\ scraped'.labels = Own /\ scraped'.enabled
          /\ kind # "ok" => scraped'.count = Zero
          /\ kind = "ok" => scraped'.count = count
      BY <2>1, <2>3, <3>1, ScrapeShows DEF IInv
    <3> QED
      BY <1>2, <2>1, <3>1, <3>2, TickHistory DEF IInv
  <2> QED
    BY <1>1, <2>2, <2>3 DEF KnownInv
<1>3. CASE ~Tick
  <2>1. UNCHANGED <<history, known>>
    BY <1>3 DEF Next, Deliver, FailDelivery, DeadLetter, BreakFile, SwitchExporter, vars,
                prometheus, ghosts
  <2> QED
    BY <1>1, <2>1 DEF IInv, KnownInv
<1> QED
  BY <1>2, <1>3

\* A step of the counters between two samples of the range keeps the alert active.
LEMMA StepIncreases ==
    ASSUME NEW h, NEW n \in Nat, n >= 1, Len(h) \in Nat, Step(h, n)
    PROVE  \E c \in Counter : Increased(h, Own, c)
<1>1. PICK c \in Counter : h[n].count[c] # h[n + 1].count[c] /\ h[n].count[c] > 0
  BY DEF Step
<1>2. /\ n \in 1 .. Len(h) /\ n + 1 \in 1 .. Len(h) /\ n < n + 1
      /\ h[n].labels = Own /\ h[n + 1].labels = Own
  BY DEF Step
<1>3. \A k \in n + 1 .. (n + 1) - 1 : h[k].labels # Own
  OBVIOUS
<1> QED
  BY <1>1, <1>2, <1>3 DEF Increased

LEMMA DebtStep == IInv /\ TypeOK' /\ [Next]_vars => DebtInv'
<1> SUFFICES ASSUME IInv, TypeOK', [Next]_vars, Monitored', debt' > 0
             PROVE  debt' <= pending'[Own'] /\ Step(history, debt)'
  BY DEF DebtInv
<1>1. Monitored /\ Own' = Own /\ Own \in Labels
  BY SameDeployment, ArchiveAssumption
     DEF Monitored, Required, SameLabels, Own, IInv, TypeOK
<1>2. CASE Tick
  <2>1. up /\ debt' = IF debt \in 1 .. For THEN debt + 1 ELSE IF Rose THEN 1 ELSE 0
    BY <1>2 DEF Tick, Evaluate, Observe
  <2>2. scraped' = Scrape /\ scraped'.labels = Own /\ scraped'.enabled
    BY <1>1, <1>2, <2>1, ScrapeShows DEF Tick, Evaluate, IInv
  <2>3. debt' \in Nat /\ Len(history') \in Nat /\ history'[1].labels = Own
    BY <1>2, <2>1, <2>2, TickHistory, Ranges, ArchiveAssumption DEF IInv
  <2>4. CASE debt \in 1 .. For
    <3>1. debt' = debt + 1 /\ debt <= pending[Own] /\ Step(history, debt)
      BY <1>1, <2>1, <2>4 DEF IInv, DebtInv
    <3>2. debt + 1 < Len(history')
      BY <1>2, <2>4, <3>1, TickHistory, Ranges, ArchiveAssumption DEF Step, IInv
    <3>3. history'[debt + 1] = history[debt] /\ history'[debt + 2] = history[debt + 1]
      <4>1. debt \in 1 .. Len(history') - 1 /\ debt + 1 \in 1 .. Len(history') - 1
        BY <2>3, <2>4, <3>2
      <4> QED
        BY <1>2, <2>4, <4>1, TickHistory DEF IInv
    <3>4. Step(history', debt + 1)
      BY <2>4, <3>1, <3>2, <3>3 DEF Step
    <3>5. Degraded(scraped', history', Own)
      BY <2>2, <2>3, <2>4, <3>4, StepIncreases DEF Degraded
    <3>6. pending'[Own] >= debt + 1
      <4>1. debt \in 0 .. For + 1 /\ debt <= For
        BY <2>4, Ranges DEF IInv
      <4> QED
        BY <1>1, <1>2, <3>1, <3>5, <4>1, TickPending DEF IInv
    <3> QED
      BY <1>1, <3>1, <3>4, <3>6 DEF Step
  <2>5. CASE debt \notin 1 .. For
    <3>1. Rose /\ debt' = 1
      BY <2>1, <2>5
    <3>2. PICK old \in known, c \in Counter : kind = "ok" /\ count[c] > old[c]
      BY <3>1 DEF Rose
    <3>3. /\ known = {old} /\ old \in [Counter -> 0 .. MaxCount]
          /\ Len(history) >= 1 /\ history[1].labels = Own /\ history[1].count \in {old, Zero}
      BY <1>1, <3>2 DEF IInv, KnownInv
    <3>4. scraped'.count = count /\ history'[1].count = count
      BY <1>1, <1>2, <2>1, <2>2, <3>2, ScrapeShows, TickHistory DEF IInv
    <3>5. Len(history') > 1 /\ history'[2] = history[1]
      <4>1. Len(history') > 1
        BY <1>2, <3>3, TickHistory, Ranges, ArchiveAssumption DEF IInv
      <4>2. 1 \in 1 .. Len(history') - 1
        BY <2>3, <4>1
      <4> QED
        BY <1>2, <4>1, <4>2, TickHistory DEF IInv
    <3>6. count[c] # history[1].count[c] /\ count[c] > 0
      <4>1. count[c] \in Nat /\ old[c] \in Nat /\ Zero[c] = 0
        BY <3>2, <3>3, Ranges, ArchiveAssumption DEF IInv
      <4> QED
        BY <3>2, <3>3, <4>1
    <3>7. Step(history', 1)
      BY <2>3, <3>3, <3>4, <3>5, <3>6 DEF Step
    <3>8. Degraded(scraped', history', Own)
      BY <2>2, <2>3, <3>7, StepIncreases DEF Degraded
    <3>9. pending'[Own] >= 1
      <4>1. 0 \in 0 .. For + 1 /\ 0 <= pending[Own]
        BY <1>1, ArchiveAssumption DEF IInv, TypeOK
      <4> QED
        BY <1>1, <1>2, <3>8, <4>1, TickPending DEF IInv
    <3> QED
      BY <1>1, <3>1, <3>7, <3>9 DEF Step
  <2> QED
    BY <2>4, <2>5
<1>3. CASE ~Tick
  <2>1. UNCHANGED <<history, pending, debt>>
    BY <1>3 DEF Next, Deliver, FailDelivery, DeadLetter, BreakFile, SwitchExporter, vars,
                prometheus, ghosts
  <2> QED
    BY <1>1, <2>1 DEF IInv, DebtInv, Step
<1> QED
  BY <1>2, <1>3

LEMMA QuietStep == IInv /\ TypeOK' /\ [Next]_vars => QuietInv'
<1> SUFFICES ASSUME IInv, TypeOK', [Next]_vars,
                    NEW i \in 1 .. Len(history'), i <= quiet'
             PROVE  history'[i].count \in {count', Zero}
  BY DEF QuietInv
<1>1. CASE Tick
  <2>1. count' = count /\ scraped' = Scrape
    BY <1>1 DEF Tick, Evaluate
  <2>2. CASE i = 1
    BY <1>1, <2>1, <2>2, ScrapeCounts, TickHistory DEF IInv
  <2>3. CASE i # 1
    <3>1. i - 1 \in 1 .. Len(history') - 1 /\ i - 1 \in 1 .. Len(history)
      BY <1>1, <2>3, TickHistory, Ranges, ArchiveAssumption DEF IInv
    <3>2. history'[(i - 1) + 1] = history[i - 1]
      BY <1>1, <3>1, TickHistory DEF IInv
    <3>3. i - 1 <= quiet
      BY <1>1, <3>1, ArchiveAssumption DEF Tick, Evaluate, Observe, IInv, TypeOK
    <3>4. history[i - 1].count \in {count, Zero}
      BY <3>1, <3>3 DEF IInv, QuietInv
    <3> QED
      BY <2>1, <3>1, <3>2, <3>4
  <2> QED
    BY <2>2, <2>3
<1>2. CASE FailDelivery \/ DeadLetter
  BY <1>2 DEF FailDelivery, DeadLetter
<1>3. CASE Deliver \/ BreakFile \/ SwitchExporter \/ UNCHANGED vars
  <2>1. UNCHANGED <<history, quiet, count>>
    BY <1>3 DEF Deliver, BreakFile, SwitchExporter, vars, archive, prometheus, ghosts
  <2> QED
    BY <2>1 DEF IInv, QuietInv
<1> QED
  BY <1>1, <1>2, <1>3 DEF Next

-----------------------------------------------------------------------------
\* Every reachable state is of the right type.
THEOREM TypeCorrect == Spec => []TypeOK
<1>1. Init => TypeOK
  BY InitInv DEF IInv
<1> QED
  BY <1>1, TypeStep, PTL DEF Spec

\* The strengthening of the two invariants below.
LEMMA HistoryTells == Spec => []IInv
<1>1. IInv /\ [Next]_vars => IInv'
  BY TypeStep, SickStep, KnownStep, DebtStep, QuietStep DEF IInv
<1> QED
  BY InitInv, <1>1, PTL DEF Spec

\* A fault that lasts for the pending time under the same labels is reported,
\* whatever it is made of.
THEOREM LastingFaultsFire == Spec => []UnhealthyIsReported
<1>1. IInv => UnhealthyIsReported
  <2> SUFFICES ASSUME IInv, Required, sick > For,
                      \A i, j \in 1 .. For + 1 : history[i].labels = history[j].labels
               PROVE  pending[history[1].labels] > For
    BY DEF UnhealthyIsReported, Firing
  <2> DEFINE l == history[1].labels
  <2>1. sick = For + 1 /\ 1 \in 1 .. For + 1 /\ For + 1 \in 0 .. sick
    BY Ranges, ArchiveAssumption DEF IInv
  <2>2. l \in Labels /\ \A i \in 1 .. For + 1 : history[i].labels = l
    BY <2>1, ArchiveAssumption DEF IInv, SickInv
  <2>3. For + 1 <= pending[l] /\ pending[l] \in 0 .. For + 1
    BY <2>1, <2>2, Ranges DEF IInv, SickInv
  <2> QED
    BY <2>3, ArchiveAssumption
<1> QED
  BY <1>1, HistoryTells, PTL

\* A single failure is reported, even if the file is unreadable in between.
THEOREM SingleFailuresFire == Spec => []FailureIsReported
<1>1. IInv => FailureIsReported
  BY ArchiveAssumption DEF IInv, TypeOK, DebtInv, FailureIsReported, Monitored, Firing, Own,
     Required, SameLabels
<1> QED
  BY <1>1, HistoryTells, PTL

\* A healthy scrape: the alert is active only for an increase.
LEMMA HealthyScrape ==
    ASSUME TypeOK, Tick, sick' = 0, NEW l \in Labels, Degraded(scraped', history', l)
    PROVE  \E c \in Counter : Increased(history', l, c)
<1>1. scraped' = Scrape /\ Scrape.labels = l
  BY DEF Tick, Evaluate, Degraded
<1>2. up
  BY <1>1, ArchiveAssumption DEF Scrape, Nothing
<1>3. ~Unhealthy
  BY <1>2, Ranges, ArchiveAssumption DEF Tick, Evaluate, Observe, Successive
<1>4. Scrape.success = TRUE /\ Scrape.stamp = age
  BY <1>2, <1>3 DEF Scrape, Collect, LoadStatus, Unhealthy, TypeOK
<1>5. age # NoStamp /\ ~(age > Stale)
  BY <1>3, ArchiveAssumption DEF Unhealthy, NoStamp, TypeOK
<1> QED
  BY <1>1, <1>4, <1>5 DEF Degraded

\* A false alarm has one explanation, a scrape that could not read the file.
THEOREM FalseAlarmsAreResets == Spec => AlarmsAreExplained
<1>1. ASSUME IInv, IInv', [Next]_vars, NEW l \in Labels, ~Firing(l), Firing(l)',
             ~(sick' > 0), ~(quiet' <= Window)
      PROVE  ShownAsZero(l)'
  <2>1. Tick
    <3>1. pending' # pending
      BY <1>1 DEF Firing
    <3> QED
      BY <1>1, <3>1 DEF Next, Deliver, FailDelivery, DeadLetter, BreakFile, SwitchExporter,
                        vars, prometheus
  <2>2. Degraded(scraped', history', l)
    <3>1. pending'[l] = Wait(pending[l], Degraded(scraped', history', l)) /\ pending'[l] # 0
      BY <1>1, <2>1, ArchiveAssumption DEF Tick, Evaluate, Firing
    <3> QED
      BY <3>1 DEF Wait
  <2>3. sick' = 0
    BY <1>1, ArchiveAssumption DEF IInv, TypeOK
  <2>4. PICK c \in Counter : Increased(history', l, c)
    BY <1>1, <2>1, <2>2, <2>3, HealthyScrape DEF IInv
  <2>5. PICK i \in 1 .. Len(history'), j \in 1 .. Len(history') :
              /\ history'[i].labels = l /\ history'[j].labels = l
              /\ history'[i].count[c] # history'[j].count[c] /\ history'[i].count[c] > 0
    BY <2>4 DEF Increased
  <2>6. i <= quiet' /\ j <= quiet'
    <3>1. Len(history)' \in 0 .. Window
      BY <1>1, ArchiveAssumption DEF IInv, TypeOK
    <3>2. quiet' \in 0 .. Window + 1
      BY <1>1 DEF IInv, TypeOK
    <3> QED
      BY <1>1, <3>1, <3>2, ArchiveAssumption
  <2>7. history'[i].count \in {count', Zero} /\ history'[j].count \in {count', Zero}
    BY <1>1, <2>6 DEF IInv, QuietInv
  <2>8. Zero[c] = 0
    BY DEF Zero
  <2>9. history'[j].count = Zero /\ count' # Zero
    BY <2>5, <2>7, <2>8
  <2> QED
    BY <2>5, <2>9 DEF ShownAsZero
<1>2. IInv /\ IInv' /\ [Next]_vars
      => [\A l \in Labels : ~Firing(l) /\ Firing(l)' =>
             sick' > 0 \/ quiet' <= Window \/ ShownAsZero(l)']_vars
  BY <1>1
<1> QED
  BY <1>2, HistoryTells, PTL DEF AlarmsAreExplained, Spec
=============================================================================
