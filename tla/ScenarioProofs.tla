----------------------------- MODULE ScenarioProofs -----------------------------
(***************************************************************************)
(* Proofs about Scenario for any number of repetitions and faults.  The     *)
(* script is taken apart: what a call needs is found among the calls before *)
(* it (WellPlaced), which concatenation preserves, so that each function of *)
(* scenario.go is looked at once and on its own.                            *)
(***************************************************************************)
EXTENDS Scenario, TLAPS

-----------------------------------------------------------------------------
(***************************************************************************)
(* Scripts.                                                                 *)
(***************************************************************************)
Value == {"valid", "invalid", "keep"}
Field == {"creation", "revocation", "renewal"}

Swap == {"enter", "leave"}
Probe == {"probe", "lookup-token"}
Last == "denied-reader-kv-write"
Failures == {"failed-namespace-pki-issue-invalid-domain", "failed-database-update-user",
             "failed-database-delete-user", "failed-database-initialize",
             "failed-database-new-user", "failed-pki-issue-invalid-domain",
             "failed-userpass-login", Last}

\* A call on its own: what its operation is applied to, and its name.
Proper(s) ==
    /\ s.op = "role" => s.of \in Role /\ \A f \in Field : s.statements[f] \in Value
    /\ s.op \in Probe \cup {"create"} => s.of \in Mount
    /\ s.op \in {"issue", "lookup", "renew", "revoke"} => s.of \in Lease
    /\ s.op \in {"expect-issue", "expect-renew", "expect-revoke"} => s.of \in Role
    /\ s.op = "enter" => s.of \in Namespace
    /\ s.op \in Swap => s.name = "none"
    /\ s.op \in Expecting <=> s.name \in Failures
    \* The roles of the leases that are renewed keep their renewal statements.
    /\ s.op = "role" => s.of # "readonly"
    /\ s.op = "role" /\ s.of = "ns-readonly" => s.statements.renewal # "invalid"
    /\ s.op = "renew" /\ s.of \in Role => s.of \in {"readonly", "ns-readonly"}

\* Before call i of q: the statements of field f of role r are v; lease l was
\* issued and not revoked; the client's database mount was made sure of; no
\* change of namespace; the client is the root namespace's.
Written(q, i, r, f, v) ==
    \E j \in 1 .. i - 1 :
        /\ q[j].op = "role" /\ q[j].of = r /\ q[j].statements[f] = v
        /\ \A k \in j + 1 .. i - 1 :
              q[k].op = "role" /\ q[k].of = r => q[k].statements[f] \in {v, "keep"}
Issued(q, i, l) ==
    \E j \in 1 .. i - 1 : /\ q[j].op = "issue" /\ q[j].of = l
                          /\ \A k \in j + 1 .. i - 1 : ~(q[k].op = "revoke" /\ q[k].of = l)
Steady(q, j, i) == \A k \in j .. i - 1 : q[k].op \notin Swap
Ensured(q, i) ==
    \E j \in 1 .. i - 1 : /\ q[j].op = "create" /\ q[j].of = "database" /\ Steady(q, j + 1, i)
Returned(q, i) ==
    \E j \in 2 .. i - 1 : q[j - 1].op = "leave" /\ q[j].op = "leave" /\ Steady(q, j + 1, i)
AtRoot(q, i) == Steady(q, 1, i) \/ Returned(q, i)
Mounted(q, i) == Ensured(q, i) \/ AtRoot(q, i)

\* Call i has what it needs from the calls before it, and a lease that is
\* issued is revoked later.
WellPlaced(q, i) ==
    LET s == q[i]
    IN /\ Proper(s)
       /\ s.op \in Probe =>
             /\ i + 1 \in 1 .. Len(q) /\ q[i + 1].op = "create"
             /\ q[i + 1].name = s.name /\ q[i + 1].of = s.of
       /\ s.op = "create" => i - 1 \in 1 .. Len(q) /\ q[i - 1].op \in Probe /\ q[i - 1].of = s.of
       /\ s.op = "issue" => \E j \in i + 1 .. Len(q) : q[j].op = "revoke" /\ q[j].of = s.of
       /\ s.op \in {"lookup", "renew", "expect-revoke"} => Issued(q, i, s.of)
       /\ s.op = "role" \/ (s.op = "issue" /\ s.of \in Role) => Mounted(q, i)
       /\ s.op = "issue" /\ s.of \in Role /\ s.of # "readonly" => Written(q, i, s.of, "creation", "valid")
       /\ s.op = "revoke" /\ s.of \in Role /\ s.of # "readonly" => Written(q, i, s.of, "revocation", "valid")
       /\ s.op = "expect-issue" => Written(q, i, s.of, "creation", "invalid")
       /\ s.op = "expect-renew" => Written(q, i, s.of, "renewal", "invalid")
       /\ s.op = "expect-revoke" => Written(q, i, s.of, "revocation", "invalid")

Elements(q) == {q[i] : i \in 1 .. Len(q)}
Listed(q) == q \in Seq(Elements(q))
IsScript(q) == Listed(q) /\ \A i \in 1 .. Len(q) : WellPlaced(q, i)

-----------------------------------------------------------------------------
(***************************************************************************)
(* The state between two calls.                                             *)
(***************************************************************************)
Active == pc # 0 /\ ~failed

RunInv ==
    /\ pc \in DOMAIN Script => ~failed
    /\ own => pc = 0
    /\ result # "none" => pc = 0

ServerInv ==
    /\ <<"root", "database">> \in mounts
    /\ \A f \in Field : roles["readonly"][f] = "valid"
    /\ roles["ns-readonly"].renewal = "valid"

\* The present call writes the field, and its first attempts may have done so.
Rewriting(r, f) ==
    /\ pc \in DOMAIN Script /\ Script[pc].op = "role" /\ Script[pc].of = r
    /\ roles[r][f] = Script[pc].statements[f]

\* What the calls made so far have brought about, and will undo.
WritesLast ==
    \A r \in Role, f \in Field, v \in {"valid", "invalid"} :
        Written(Script, pc, r, f, v) => roles[r][f] = v \/ Rewriting(r, f)
MountsLast == Ensured(Script, pc) => <<client, "database">> \in mounts
ClientReturns ==
    /\ AtRoot(Script, pc) => client = "root"
    /\ pc - 1 \in DOMAIN Script /\ Script[pc - 1].op = "leave" => client # "payments"
LeasesEnd ==
    \A l \in Lease : Live(l) => \E j \in pc .. Len(Script) : Script[j].op = "revoke" /\ Script[j].of = l
ProgressInv == Active => WritesLast /\ MountsLast /\ ClientReturns /\ LeasesEnd

UndisturbedInv ==
    ~faulty /\ pc # 0 =>
        /\ ~failed /\ database
        /\ \A l \in Lease : Issued(Script, pc, l) => Live(l)
        /\ pc \in DOMAIN Script /\ Script[pc].op = "create" => <<client, Script[pc].of>> \notin mounts

\* The report shows that call j went as it should.
Told(r, j) ==
    Script[j].op \notin Probe \cup Swap =>
        Script[j].name \in DOMAIN r /\ r[Script[j].name] = Want(Script[j].name)
ReportInv ==
    /\ Active => \A j \in 1 .. pc - 1 : Told(report, j)
    /\ pc \in DOMAIN Script \/ failed => Last \notin DOMAIN report
OutcomeInv ==
    /\ own => result \in {"ok", "failed"} /\ (Accepted(disk) <=> result = "ok")
    /\ result = "ok" => \A l \in Lease : ~Live(l)

IInv ==
    /\ TypeOK /\ SucceedsUndisturbed
    /\ RunInv /\ ServerInv /\ ProgressInv /\ UndisturbedInv /\ ReportInv /\ OutcomeInv

-----------------------------------------------------------------------------
(***************************************************************************)
(* Putting scripts together.                                                *)
(***************************************************************************)
Inner(q) == \A i \in 1 .. Len(q) : q[i].name # Last

\* A part that makes sure of the mount its roles need by itself; a part that
\* ends where it begins, in the root namespace.
SelfReliant(q, i) ==
    q[i].op = "role" \/ (q[i].op = "issue" /\ q[i].of \in Role) => Ensured(q, i) \/ Returned(q, i)
Nested(q) == IsScript(q) /\ Inner(q) /\ \A i \in 1 .. Len(q) : SelfReliant(q, i)
Closed(q) == IsScript(q) /\ Inner(q) /\ AtRoot(q, Len(q) + 1)

Joined(c, p, q) ==
    /\ Len(p) \in Nat /\ Len(q) \in Nat /\ Len(c) = Len(p) + Len(q)
    /\ \A i \in 1 .. Len(p) : c[i] = p[i]
    /\ \A i \in 1 .. Len(q) : c[Len(p) + i] = q[i]

LEMMA SeqElements ==
    ASSUME NEW S, NEW q \in Seq(S)
    PROVE  Listed(q)
BY DEF Listed, Elements

LEMMA SeqMore ==
    ASSUME NEW S, NEW T, NEW q \in Seq(S), S \subseteq T
    PROVE  q \in Seq(T)
OBVIOUS

LEMMA Concatenation ==
    ASSUME NEW p, NEW q, Listed(p), Listed(q)
    PROVE  Listed(p \o q) /\ Joined(p \o q, p, q)
<1> DEFINE S == Elements(p) \cup Elements(q)
<1>1. p \in Seq(S) /\ q \in Seq(S)
  BY SeqMore DEF Listed
<1> HIDE DEF S
<1>2. p \o q \in Seq(S) /\ Joined(p \o q, p, q)
  BY <1>1 DEF Joined
<1> QED
  BY <1>2, SeqElements

\* What is before a call of the first part stays before it.
LEMMA BeforeFirst ==
    ASSUME NEW c, NEW p, NEW q, Joined(c, p, q), NEW i \in 1 .. Len(p) + 1
    PROVE  /\ \A r, f, v : Written(p, i, r, f, v) <=> Written(c, i, r, f, v)
           /\ \A l : Issued(p, i, l) <=> Issued(c, i, l)
           /\ \A j \in Nat : j >= 1 => (Steady(p, j, i) <=> Steady(c, j, i))
           /\ Ensured(p, i) <=> Ensured(c, i)
           /\ Returned(p, i) <=> Returned(c, i)
<1>1. \A k \in 1 .. i - 1 : c[k] = p[k]
  BY DEF Joined
<1>0. \A j \in 1 .. i - 1 : c[j] = p[j] /\ \A k \in j + 1 .. i - 1 : c[k] = p[k]
  BY <1>1 DEF Joined
<1>2. ASSUME NEW r, NEW f, NEW v
      PROVE  Written(p, i, r, f, v) <=> Written(c, i, r, f, v)
  BY <1>0 DEF Written
<1>3. ASSUME NEW l PROVE Issued(p, i, l) <=> Issued(c, i, l)
  BY <1>0 DEF Issued
<1>4. \A j \in Nat : j >= 1 => (Steady(p, j, i) <=> Steady(c, j, i))
  BY <1>1 DEF Steady, Joined
<1>5. Ensured(p, i) <=> Ensured(c, i)
  BY <1>1, <1>4 DEF Ensured, Joined
<1>6. Returned(p, i) <=> Returned(c, i)
  BY <1>1, <1>4 DEF Returned, Joined
<1> QED
  BY <1>2, <1>3, <1>4, <1>5, <1>6

\* So does what is before a call of the second part, further on.
LEMMA BeforeSecond ==
    ASSUME NEW c, NEW p, NEW q, Joined(c, p, q), NEW i \in 1 .. Len(q) + 1
    PROVE  /\ \A r, f, v : Written(q, i, r, f, v) => Written(c, Len(p) + i, r, f, v)
           /\ \A l : Issued(q, i, l) => Issued(c, Len(p) + i, l)
           /\ \A j \in Nat : j >= 1 => (Steady(q, j, i) <=> Steady(c, Len(p) + j, Len(p) + i))
           /\ Ensured(q, i) => Ensured(c, Len(p) + i)
           /\ Returned(q, i) => Returned(c, Len(p) + i)
<1> DEFINE n == Len(p)
<1>1. n \in Nat /\ Len(q) \in Nat
  BY DEF Joined
<1>2. \A k \in 1 .. i - 1 : c[n + k] = q[k]
  BY <1>1 DEF Joined
<1>3. \A j \in 1 .. i - 1 : \A k \in n + j + 1 .. n + i - 1 :
         k - n \in j + 1 .. i - 1 /\ c[k] = q[k - n]
  <2> SUFFICES ASSUME NEW j \in 1 .. i - 1, NEW k \in n + j + 1 .. n + i - 1
               PROVE  k - n \in j + 1 .. i - 1 /\ c[k] = q[k - n]
    OBVIOUS
  <2>1. k - n \in j + 1 .. i - 1 /\ k - n \in 1 .. i - 1 /\ n + (k - n) = k
    BY <1>1
  <2> QED
    BY <1>2, <2>1
<1> HIDE DEF n
<1>4. ASSUME NEW r, NEW f, NEW v, Written(q, i, r, f, v) PROVE Written(c, n + i, r, f, v)
  <2>1. PICK j \in 1 .. i - 1 :
           /\ q[j].op = "role" /\ q[j].of = r /\ q[j].statements[f] = v
           /\ \A k \in j + 1 .. i - 1 :
                 q[k].op = "role" /\ q[k].of = r => q[k].statements[f] \in {v, "keep"}
    BY <1>4 DEF Written
  <2>2. n + j \in 1 .. n + i - 1 /\ c[n + j] = q[j]
    BY <1>1, <1>2
  <2>3. \A k \in n + j + 1 .. n + i - 1 :
           c[k].op = "role" /\ c[k].of = r => c[k].statements[f] \in {v, "keep"}
    BY <1>3, <2>1
  <2> QED
    BY <1>1, <2>1, <2>2, <2>3 DEF Written
<1>5. ASSUME NEW l, Issued(q, i, l) PROVE Issued(c, n + i, l)
  <2>1. PICK j \in 1 .. i - 1 :
           /\ q[j].op = "issue" /\ q[j].of = l
           /\ \A k \in j + 1 .. i - 1 : ~(q[k].op = "revoke" /\ q[k].of = l)
    BY <1>5 DEF Issued
  <2>2. n + j \in 1 .. n + i - 1 /\ c[n + j] = q[j]
    BY <1>1, <1>2
  <2>3. \A k \in n + j + 1 .. n + i - 1 : ~(c[k].op = "revoke" /\ c[k].of = l)
    BY <1>3, <2>1
  <2> QED
    BY <1>1, <2>1, <2>2, <2>3 DEF Issued
<1>6. ASSUME NEW j \in Nat, j >= 1 PROVE Steady(q, j, i) <=> Steady(c, n + j, n + i)
  <2>1. \A k \in j .. i - 1 : n + k \in n + j .. n + i - 1 /\ c[n + k] = q[k]
    BY <1>1, <1>2, <1>6
  <2>2. \A k \in n + j .. n + i - 1 : k - n \in j .. i - 1 /\ c[k] = q[k - n]
    <3> SUFFICES ASSUME NEW k \in n + j .. n + i - 1
                 PROVE  k - n \in j .. i - 1 /\ c[k] = q[k - n]
      OBVIOUS
    <3>1. k - n \in j .. i - 1 /\ k - n \in 1 .. i - 1 /\ n + (k - n) = k
      BY <1>1, <1>6
    <3> QED
      BY <1>2, <3>1
  <2>3. ASSUME Steady(q, j, i) PROVE Steady(c, n + j, n + i)
    <3> SUFFICES ASSUME NEW k \in n + j .. (n + i) - 1 PROVE c[k].op \notin Swap
      BY DEF Steady
    <3>1. k - n \in j .. i - 1 /\ c[k] = q[k - n]
      BY <1>1, <2>2
    <3> QED
      BY <2>3, <3>1 DEF Steady
  <2>4. ASSUME Steady(c, n + j, n + i) PROVE Steady(q, j, i)
    <3> SUFFICES ASSUME NEW k \in j .. i - 1 PROVE q[k].op \notin Swap
      BY DEF Steady
    <3>1. n + k \in n + j .. (n + i) - 1 /\ c[n + k] = q[k]
      BY <1>1, <2>1
    <3> QED
      BY <2>4, <3>1 DEF Steady
  <2> QED
    BY <2>3, <2>4
<1>7. ASSUME Ensured(q, i) PROVE Ensured(c, n + i)
  <2>1. PICK j \in 1 .. i - 1 : q[j].op = "create" /\ q[j].of = "database" /\ Steady(q, j + 1, i)
    BY <1>7 DEF Ensured
  <2>2. n + j \in 1 .. n + i - 1 /\ c[n + j] = q[j] /\ n + (j + 1) = (n + j) + 1
    BY <1>1, <1>2
  <2>3. Steady(c, (n + j) + 1, n + i)
    BY <1>6, <2>1, <2>2
  <2> QED
    BY <1>1, <2>1, <2>2, <2>3 DEF Ensured
<1>8. ASSUME Returned(q, i) PROVE Returned(c, n + i)
  <2>1. PICK j \in 2 .. i - 1 : q[j - 1].op = "leave" /\ q[j].op = "leave" /\ Steady(q, j + 1, i)
    BY <1>8 DEF Returned
  <2>2. /\ n + j \in 2 .. n + i - 1 /\ c[n + j] = q[j] /\ n + (j + 1) = (n + j) + 1
        /\ c[(n + j) - 1] = q[j - 1]
    <3>1. j - 1 \in 1 .. i - 1 /\ n + (j - 1) = (n + j) - 1
      BY <1>1
    <3>2. c[n + (j - 1)] = q[j - 1]
      BY <1>2, <3>1
    <3>3. n + j \in 2 .. n + i - 1 /\ c[n + j] = q[j] /\ n + (j + 1) = (n + j) + 1
      BY <1>1, <1>2
    <3> QED
      BY <3>1, <3>2, <3>3
  <2>3. Steady(c, (n + j) + 1, n + i)
    BY <1>6, <2>1, <2>2
  <2> QED
    BY <1>1, <2>1, <2>2, <2>3 DEF Returned
<1> QED
  BY <1>4, <1>5, <1>6, <1>7, <1>8 DEF n

LEMMA StillAtRoot ==
    ASSUME NEW c, NEW m \in Nat, NEW i \in Nat, m >= 1, i >= m, AtRoot(c, m), Steady(c, m, i)
    PROVE  AtRoot(c, i)
<1>1. ASSUME NEW j \in Nat, Steady(c, j, m) PROVE Steady(c, j, i)
  <2>1. \A k \in j .. i - 1 : k \in j .. m - 1 \/ k \in m .. i - 1
    OBVIOUS
  <2> QED
    BY <1>1, <2>1 DEF Steady
<1>2. CASE Steady(c, 1, m)
  BY <1>1, <1>2 DEF AtRoot
<1>3. CASE Returned(c, m)
  <2>1. PICK j \in 2 .. m - 1 :
           c[j - 1].op = "leave" /\ c[j].op = "leave" /\ Steady(c, j + 1, m)
    BY <1>3 DEF Returned
  <2>2. j \in 2 .. i - 1 /\ Steady(c, j + 1, i)
    BY <1>1, <2>1
  <2> QED
    BY <2>1, <2>2 DEF AtRoot, Returned
<1> QED
  BY <1>2, <1>3 DEF AtRoot

\* A call of the first or of the second part is as well placed in the whole; a
\* call of the second part that relies on the root namespace needs a first part
\* that ends there.
LEMMA PlacedFirst ==
    ASSUME NEW c, NEW p, NEW q, Joined(c, p, q), NEW i \in 1 .. Len(p), WellPlaced(p, i)
    PROVE  WellPlaced(c, i)
<1>1. Len(p) \in Nat /\ Len(q) \in Nat /\ Len(c) = Len(p) + Len(q) /\ i \in 1 .. Len(p) + 1
  BY DEF Joined
<1>2. c[i] = p[i] /\ \A k \in 1 .. Len(p) : k \in 1 .. Len(c) /\ c[k] = p[k]
  BY <1>1 DEF Joined
<1>3. /\ \A r, f, v : Written(p, i, r, f, v) <=> Written(c, i, r, f, v)
      /\ \A l : Issued(p, i, l) <=> Issued(c, i, l)
      /\ Steady(p, 1, i) <=> Steady(c, 1, i)
      /\ Ensured(p, i) <=> Ensured(c, i)
      /\ Returned(p, i) <=> Returned(c, i)
  BY <1>1, BeforeFirst
<1>4. Mounted(p, i) <=> Mounted(c, i)
  BY <1>3 DEF Mounted, AtRoot
<1>5. ASSUME p[i].op \in Probe
      PROVE  /\ i + 1 \in 1 .. Len(c) /\ c[i + 1].op = "create"
             /\ c[i + 1].name = p[i].name /\ c[i + 1].of = p[i].of
  <2>1. /\ i + 1 \in 1 .. Len(p) /\ p[i + 1].op = "create"
        /\ p[i + 1].name = p[i].name /\ p[i + 1].of = p[i].of
    BY <1>5 DEF WellPlaced
  <2> QED
    BY <1>2, <2>1
<1>6. ASSUME p[i].op = "create"
      PROVE  i - 1 \in 1 .. Len(c) /\ c[i - 1].op \in Probe /\ c[i - 1].of = p[i].of
  <2>1. i - 1 \in 1 .. Len(p) /\ p[i - 1].op \in Probe /\ p[i - 1].of = p[i].of
    BY <1>6 DEF WellPlaced
  <2> QED
    BY <1>2, <2>1
<1>7. ASSUME p[i].op = "issue"
      PROVE  \E j \in i + 1 .. Len(c) : c[j].op = "revoke" /\ c[j].of = p[i].of
  <2>1. PICK j \in i + 1 .. Len(p) : p[j].op = "revoke" /\ p[j].of = p[i].of
    BY <1>7 DEF WellPlaced
  <2>2. j \in 1 .. Len(p) /\ j \in i + 1 .. Len(c)
    BY <1>1
  <2> QED
    BY <1>2, <2>1, <2>2
<1> QED
  BY <1>2, <1>3, <1>4, <1>5, <1>6, <1>7 DEF WellPlaced

LEMMA PlacedSecond ==
    ASSUME NEW c, NEW p, NEW q, Joined(c, p, q), NEW i \in 1 .. Len(q), WellPlaced(q, i),
           AtRoot(p, Len(p) + 1) \/ SelfReliant(q, i)
    PROVE  WellPlaced(c, Len(p) + i)
<1> DEFINE n == Len(p)
<1>1. n \in Nat /\ Len(q) \in Nat /\ Len(c) = n + Len(q) /\ i \in 1 .. Len(q) + 1
  BY DEF Joined
<1>2. c[n + i] = q[i] /\ \A k \in 1 .. Len(q) : n + k \in 1 .. Len(c) /\ c[n + k] = q[k]
  BY <1>1 DEF Joined
<1>3. /\ \A r, f, v : Written(q, i, r, f, v) => Written(c, n + i, r, f, v)
      /\ \A l : Issued(q, i, l) => Issued(c, n + i, l)
      /\ \A j \in Nat : j >= 1 => (Steady(q, j, i) <=> Steady(c, n + j, n + i))
      /\ Ensured(q, i) => Ensured(c, n + i)
      /\ Returned(q, i) => Returned(c, n + i)
  BY <1>1, BeforeSecond
<1> HIDE DEF n
<1>4. q[i].op = "role" \/ (q[i].op = "issue" /\ q[i].of \in Role) => Mounted(c, n + i)
  <2> SUFFICES ASSUME q[i].op = "role" \/ (q[i].op = "issue" /\ q[i].of \in Role)
               PROVE  Mounted(c, n + i)
    OBVIOUS
  <2>1. CASE Ensured(q, i) \/ Returned(q, i)
    BY <1>3, <2>1 DEF Mounted, AtRoot
  <2>2. CASE AtRoot(p, n + 1) /\ Steady(q, 1, i)
    <3>1. Steady(c, n + 1, n + i)
      BY <1>3, <2>2
    <3>2. AtRoot(c, n + 1)
      <4>1. n + 1 \in 1 .. Len(p) + 1
        BY <1>1 DEF n
      <4>2. Steady(p, 1, n + 1) <=> Steady(c, 1, n + 1)
        BY <4>1, BeforeFirst
      <4>3. Returned(p, n + 1) <=> Returned(c, n + 1)
        BY <4>1, BeforeFirst
      <4> QED
        BY <2>2, <4>2, <4>3 DEF AtRoot
    <3>3. AtRoot(c, n + i)
      BY <1>1, <3>1, <3>2, StillAtRoot
    <3> QED
      BY <3>3 DEF Mounted
  <2> QED
    BY <2>1, <2>2 DEF WellPlaced, Mounted, AtRoot, SelfReliant, n
<1>5. q[i].op \in Probe =>
         /\ (n + i) + 1 \in 1 .. Len(c) /\ c[(n + i) + 1].op = "create"
         /\ c[(n + i) + 1].name = q[i].name /\ c[(n + i) + 1].of = q[i].of
  <2> SUFFICES ASSUME q[i].op \in Probe
               PROVE  /\ (n + i) + 1 \in 1 .. Len(c) /\ c[(n + i) + 1].op = "create"
                      /\ c[(n + i) + 1].name = q[i].name /\ c[(n + i) + 1].of = q[i].of
    OBVIOUS
  <2>1. /\ i + 1 \in 1 .. Len(q) /\ q[i + 1].op = "create"
        /\ q[i + 1].name = q[i].name /\ q[i + 1].of = q[i].of
    BY DEF WellPlaced
  <2>2. (n + i) + 1 = n + (i + 1)
    BY <1>1
  <2>3. (n + i) + 1 \in 1 .. Len(c) /\ c[(n + i) + 1] = q[i + 1]
    BY <1>2, <2>1, <2>2
  <2> QED
    BY <2>1, <2>3
<1>6. q[i].op = "create" =>
         (n + i) - 1 \in 1 .. Len(c) /\ c[(n + i) - 1].op \in Probe /\ c[(n + i) - 1].of = q[i].of
  <2> SUFFICES ASSUME q[i].op = "create"
               PROVE  /\ (n + i) - 1 \in 1 .. Len(c) /\ c[(n + i) - 1].op \in Probe
                      /\ c[(n + i) - 1].of = q[i].of
    OBVIOUS
  <2>1. i - 1 \in 1 .. Len(q) /\ q[i - 1].op \in Probe /\ q[i - 1].of = q[i].of
    BY DEF WellPlaced
  <2>2. (n + i) - 1 = n + (i - 1)
    BY <1>1
  <2>3. (n + i) - 1 \in 1 .. Len(c) /\ c[(n + i) - 1] = q[i - 1]
    BY <1>2, <2>1, <2>2
  <2> QED
    BY <2>1, <2>3
<1>7. q[i].op = "issue" =>
         \E j \in (n + i) + 1 .. Len(c) : c[j].op = "revoke" /\ c[j].of = q[i].of
  <2> SUFFICES ASSUME q[i].op = "issue"
               PROVE  \E j \in (n + i) + 1 .. Len(c) : c[j].op = "revoke" /\ c[j].of = q[i].of
    OBVIOUS
  <2>1. PICK j \in i + 1 .. Len(q) : q[j].op = "revoke" /\ q[j].of = q[i].of
    BY DEF WellPlaced
  <2>2. n + j \in (n + i) + 1 .. Len(c) /\ c[n + j] = q[j]
    BY <1>1, <1>2, <2>1
  <2> QED
    BY <2>1, <2>2
<1> QED
  BY <1>2, <1>3, <1>4, <1>5, <1>6, <1>7 DEF WellPlaced, n

LEMMA Join ==
    ASSUME NEW p, NEW q, IsScript(p), IsScript(q),
           AtRoot(p, Len(p) + 1) \/ \A i \in 1 .. Len(q) : SelfReliant(q, i)
    PROVE  IsScript(p \o q) /\ Joined(p \o q, p, q)
<1>1. Listed(p \o q) /\ Joined(p \o q, p, q)
  BY Concatenation DEF IsScript
<1>2. ASSUME NEW i \in 1 .. Len(p \o q) PROVE WellPlaced(p \o q, i)
  <2>1. CASE i \in 1 .. Len(p)
    BY <1>1, <2>1, PlacedFirst DEF IsScript
  <2>2. CASE i \notin 1 .. Len(p)
    <3>1. /\ i - Len(p) \in 1 .. Len(q) /\ Len(p) + (i - Len(p)) = i
          /\ WellPlaced(q, i - Len(p))
      BY <1>1, <2>2 DEF Joined, IsScript
    <3>2. WellPlaced(p \o q, Len(p) + (i - Len(p)))
      BY <1>1, <3>1, PlacedSecond
    <3> QED
      BY <3>1, <3>2
  <2> QED
    BY <2>1, <2>2
<1> QED
  BY <1>1, <1>2 DEF IsScript

LEMMA InnerJoin ==
    ASSUME NEW c, NEW p, NEW q, Joined(c, p, q), Inner(p), Inner(q)
    PROVE  Inner(c)
<1> SUFFICES ASSUME NEW i \in 1 .. Len(c) PROVE c[i].name # Last
  BY DEF Inner
<1>1. i \in 1 .. Len(p) \/ (i - Len(p) \in 1 .. Len(q) /\ Len(p) + (i - Len(p)) = i)
  BY DEF Joined
<1> QED
  BY <1>1 DEF Joined, Inner

LEMMA ClosedJoin ==
    ASSUME NEW p, NEW q, Closed(p), Closed(q)
    PROVE  Closed(p \o q)
<1> DEFINE c == p \o q
           n == Len(p)
<1>1. IsScript(c) /\ Joined(c, p, q)
  BY Join DEF Closed
<1>2. Inner(c)
  BY <1>1, InnerJoin DEF Closed
<1>3. n \in Nat /\ Len(q) \in Nat /\ Len(c) + 1 = n + (Len(q) + 1)
  BY <1>1 DEF Joined
<1> HIDE DEF c
<1>4. n + 1 \in 1 .. Len(p) + 1 /\ Len(q) + 1 \in 1 .. Len(q) + 1
  BY <1>3
<1>5. AtRoot(c, n + 1)
  BY <1>1, <1>4, BeforeFirst DEF Closed, AtRoot
<1>6. CASE Steady(q, 1, Len(q) + 1)
  <2>1. Steady(c, n + 1, n + (Len(q) + 1))
    BY <1>1, <1>4, <1>6, BeforeSecond
  <2> QED
    BY <1>1, <1>2, <1>3, <1>5, <2>1, StillAtRoot DEF Closed, c
<1>7. CASE Returned(q, Len(q) + 1)
  <2>1. Returned(c, n + (Len(q) + 1))
    BY <1>1, <1>4, <1>7, BeforeSecond
  <2> QED
    BY <1>1, <1>2, <1>3, <2>1 DEF Closed, AtRoot, c
<1> QED
  BY <1>6, <1>7 DEF Closed, AtRoot

LEMMA NestedJoin ==
    ASSUME NEW p, NEW q, Nested(p), Nested(q)
    PROVE  Nested(p \o q)
<1> DEFINE c == p \o q
           n == Len(p)
<1>1. IsScript(c) /\ Joined(c, p, q)
  BY Join DEF Nested
<1>2. Inner(c)
  BY <1>1, InnerJoin DEF Nested
<1> HIDE DEF c
<1>3. ASSUME NEW i \in 1 .. Len(c) PROVE SelfReliant(c, i)
  <2>1. n \in Nat /\ Len(q) \in Nat /\ Len(c) = n + Len(q)
    BY <1>1 DEF Joined
  <2>2. CASE i \in 1 .. n
    <3>1. i \in 1 .. Len(p) + 1 /\ c[i] = p[i]
      BY <1>1, <2>1, <2>2 DEF Joined
    <3>2. Ensured(p, i) <=> Ensured(c, i)
      BY <1>1, <3>1, BeforeFirst
    <3>3. Returned(p, i) <=> Returned(c, i)
      BY <1>1, <3>1, BeforeFirst
    <3> QED
      BY <2>2, <3>1, <3>2, <3>3 DEF Nested, SelfReliant
  <2>3. CASE i \notin 1 .. n
    <3>1. PICK k \in 1 .. Len(q) : i = n + k
      <4>1. i - n \in 1 .. Len(q) /\ i = n + (i - n)
        BY <2>1, <2>3
      <4> QED
        BY <4>1
    <3>2. k \in 1 .. Len(q) + 1 /\ c[n + k] = q[k]
      BY <1>1, <2>1 DEF Joined
    <3>3. (Ensured(q, k) => Ensured(c, n + k)) /\ (Returned(q, k) => Returned(c, n + k))
      BY <1>1, <3>2, BeforeSecond
    <3> QED
      BY <3>1, <3>2, <3>3 DEF Nested, SelfReliant
  <2> QED
    BY <2>2, <2>3
<1> QED
  BY <1>1, <1>2, <1>3 DEF Nested, c

-----------------------------------------------------------------------------
(***************************************************************************)
(* The functions of the scenario.                                           *)
(***************************************************************************)

-----------------------------------------------------------------------------
(***************************************************************************)
(* The functions of the scenario.                                           *)
(***************************************************************************)
LEMMA ShortLists ==
    ASSUME NEW a, NEW b, NEW c, NEW d, NEW e
    PROVE  /\ Listed(<<a>>) /\ Listed(<<a, b>>) /\ Listed(<<a, b, c>>)
           /\ Listed(<<a, b, c, d>>) /\ Listed(<<a, b, c, d, e>>)
<1>1. /\ <<a>> \in Seq({a}) /\ <<a, b>> \in Seq({a, b}) /\ <<a, b, c>> \in Seq({a, b, c})
      /\ <<a, b, c, d>> \in Seq({a, b, c, d}) /\ <<a, b, c, d, e>> \in Seq({a, b, c, d, e})
  OBVIOUS
<1> QED
  BY <1>1, SeqElements

\* Operations that need nothing from earlier calls.
Free == {"call", "configure", "expect", "reader-login"}
Unconditional(s) ==
    s.op \in Free /\ (s.op = "expect" <=> s.name \in Failures) /\ s.name # Last

LEMMA FreePart ==
    ASSUME NEW q, Listed(q), Len(q) \in Nat, \A i \in 1 .. Len(q) : Unconditional(q[i])
    PROVE  Closed(q) /\ Nested(q)
<1>1. \A i \in 1 .. Len(q) : Proper(q[i])
  BY DEF Unconditional, Free, Proper, Probe, Swap, Expecting
<1>2. \A i \in 1 .. Len(q) : WellPlaced(q, i)
  BY <1>1 DEF Unconditional, Free, WellPlaced, Probe
<1>3. Steady(q, 1, Len(q) + 1) /\ Inner(q) /\ \A i \in 1 .. Len(q) : SelfReliant(q, i)
  BY DEF Unconditional, Free, Steady, Inner, SelfReliant, Swap
<1> QED
  BY <1>2, <1>3 DEF Closed, Nested, AtRoot, IsScript

LEMMA FreeLists ==
    ASSUME NEW a, NEW b, NEW c, Unconditional(a), Unconditional(b), Unconditional(c)
    PROVE  /\ Closed(<<a>>) /\ Nested(<<a>>)
           /\ Closed(<<a, b>>) /\ Nested(<<a, b>>)
           /\ Closed(<<a, b, c>>)
<1>1. \A i \in 1 .. Len(<<a>>) : Unconditional(<<a>>[i])
  OBVIOUS
<1>2. \A i \in 1 .. Len(<<a, b>>) : Unconditional(<<a, b>>[i])
  OBVIOUS
<1>3. \A i \in 1 .. Len(<<a, b, c>>) : Unconditional(<<a, b, c>>[i])
  OBVIOUS
<1>4. Len(<<a>>) \in Nat /\ Len(<<a, b>>) \in Nat /\ Len(<<a, b, c>>) \in Nat
  OBVIOUS
<1>5. Listed(<<a>>) /\ Listed(<<a, b>>) /\ Listed(<<a, b, c>>)
  BY ShortLists
<1> QED
  BY <1>1, <1>2, <1>3, <1>4, <1>5, FreePart

LEMMA FreeCall ==
    ASSUME NEW n, n \notin Failures
    PROVE  Unconditional(Calls(n))
BY DEF Unconditional, Calls, Step, Free, Failures

LEMMA FreeFailure ==
    ASSUME NEW n \in Failures \ {Last}
    PROVE  Unconditional(Step("expect", n, "none"))
BY DEF Unconditional, Step, Free

LEMMA EnsurePart ==
    ASSUME NEW m \in Mount, NEW n, n \notin Failures
    PROVE  Closed(Ensure(m, n)) /\ Nested(Ensure(m, n))
<1> DEFINE q == Ensure(m, n)
<1>1. /\ q[1] = Step("probe", n, m) /\ q[2] = Step("create", n, m) /\ Len(q) = 2
      /\ Listed(q)
  BY ShortLists DEF Ensure
<1> HIDE DEF q
<1>2. /\ q[1].op = "probe" /\ q[1].name = n /\ q[1].of = m
      /\ q[2].op = "create" /\ q[2].name = n /\ q[2].of = m
  BY <1>1 DEF Step
<1>3. \A i \in 1 .. Len(q) : i = 1 \/ i = 2
  BY <1>1
<1>4. Proper(q[1]) /\ Proper(q[2])
  BY <1>2 DEF Proper, Probe, Swap, Expecting
<1>5. WellPlaced(q, 1) /\ WellPlaced(q, 2)
  BY <1>1, <1>2, <1>4 DEF WellPlaced, Probe
<1>6. Steady(q, 1, Len(q) + 1) /\ Inner(q) /\ \A i \in 1 .. Len(q) : SelfReliant(q, i)
  BY <1>1, <1>2, <1>3 DEF Steady, Inner, SelfReliant, Swap, Failures
<1> QED
  BY <1>1, <1>3, <1>5, <1>6 DEF Closed, Nested, AtRoot, IsScript, q

LEMMA SwapPart ==
    ASSUME NEW n \in Namespace
    PROVE  Nested(<<Step("enter", "none", n)>>) /\ Nested(<<Step("leave", "none", "none")>>)
<1>1. ASSUME NEW s, s.op \in Swap, s.op = "enter" => s.of \in Namespace, s.name = "none"
      PROVE  Nested(<<s>>)
  <2> DEFINE q == <<s>>
  <2>1. q[1] = s /\ Len(q) = 1 /\ Listed(q)
    BY ShortLists
  <2> HIDE DEF q
  <2>2. Proper(q[1])
    BY <1>1, <2>1 DEF Proper, Probe, Swap, Expecting, Failures, Last
  <2>3. WellPlaced(q, 1) /\ SelfReliant(q, 1) /\ q[1].name # Last
    BY <1>1, <2>1, <2>2 DEF WellPlaced, SelfReliant, Probe, Swap, Last
  <2> QED
    BY <2>1, <2>3 DEF Nested, IsScript, Inner, q
<1> QED
  BY <1>1 DEF Step, Swap

LEMMA CanaryPart == Closed(ensureAuditCanary)
<1> DEFINE q == ensureAuditCanary
<1>1. /\ q[1] = Step("call", "write-audit-canary", "none")
      /\ q[2] = Step("lookup-token", "audit-canary-token", "canary")
      /\ q[3] = Step("create", "audit-canary-token", "canary")
      /\ q[4] = Step("call", "read-audit-canary", "none")
      /\ Len(q) = 4 /\ Listed(q)
  BY ShortLists DEF ensureAuditCanary, Calls
<1> HIDE DEF q
<1>2. \A i \in 1 .. Len(q) : i = 1 \/ i = 2 \/ i = 3 \/ i = 4
  BY <1>1
<1>3. /\ q[1].op = "call" /\ q[1].of = "none"
      /\ q[2].op = "lookup-token" /\ q[2].of = "canary"
      /\ q[3].op = "create" /\ q[3].of = "canary"
      /\ q[4].op = "call" /\ q[4].of = "none"
  BY <1>1 DEF Step
<1>4. \A i \in 1 .. Len(q) : q[i].name \notin Failures
  BY <1>1, <1>2 DEF Step, Failures, Last
<1>5. Proper(q[1]) /\ Proper(q[2]) /\ Proper(q[3]) /\ Proper(q[4])
  BY <1>1, <1>3, <1>4 DEF Proper, Lease, Mount, Role, Probe, Swap, Expecting
<1>6. q[2].name = q[3].name
  BY <1>1, <1>3 DEF Step
<1>7. \A i \in 1 .. Len(q) : WellPlaced(q, i)
  <2>1. WellPlaced(q, 1)
    BY <1>1, <1>3, <1>5 DEF WellPlaced, Probe, Role
  <2>2. WellPlaced(q, 2)
    BY <1>1, <1>3, <1>5, <1>6 DEF WellPlaced, Probe, Role
  <2>3. WellPlaced(q, 3)
    BY <1>1, <1>3, <1>5 DEF WellPlaced, Probe, Role
  <2>4. WellPlaced(q, 4)
    BY <1>1, <1>3, <1>5 DEF WellPlaced, Probe, Role
  <2> QED
    BY <1>2, <2>1, <2>2, <2>3, <2>4
<1>8. Steady(q, 1, Len(q) + 1) /\ Inner(q)
  BY <1>1, <1>2, <1>3, <1>4 DEF Steady, Inner, Swap, Failures
<1> QED
  BY <1>1, <1>7, <1>8 DEF Closed, AtRoot, IsScript, q

LEMMA TokenPart == Closed(exerciseTokenLifecycle)
<1> DEFINE q == exerciseTokenLifecycle
<1>1. /\ q[1] = Step("call", "create-expiring-token", "none")
      /\ q[2] = Step("issue", "create-token", "token")
      /\ q[3] = Step("lookup", "lookup-token", "token")
      /\ q[4] = Step("renew", "renew-token", "token")
      /\ q[5] = Step("revoke", "revoke-token", "token")
      /\ Len(q) = 5 /\ Listed(q)
  BY ShortLists DEF exerciseTokenLifecycle, Calls
<1> HIDE DEF q
<1>2. \A i \in 1 .. Len(q) : i = 1 \/ i = 2 \/ i = 3 \/ i = 4 \/ i = 5
  BY <1>1
<1>3. /\ q[1].op = "call" /\ q[1].of = "none"
      /\ q[2].op = "issue" /\ q[2].of = "token"
      /\ q[3].op = "lookup" /\ q[3].of = "token"
      /\ q[4].op = "renew" /\ q[4].of = "token"
      /\ q[5].op = "revoke" /\ q[5].of = "token"
  BY <1>1 DEF Step
<1>4. \A i \in 1 .. Len(q) : q[i].name \notin Failures
  BY <1>1, <1>2 DEF Step, Failures, Last
<1>5. Proper(q[1]) /\ Proper(q[2]) /\ Proper(q[3]) /\ Proper(q[4]) /\ Proper(q[5])
  BY <1>1, <1>3, <1>4 DEF Proper, Lease, Mount, Role, Probe, Swap, Expecting
<1>6. Issued(q, 3, "token") /\ Issued(q, 4, "token")
  BY <1>1, <1>3 DEF Issued
<1>7. \A i \in 1 .. Len(q) : WellPlaced(q, i)
  <2>1. WellPlaced(q, 1)
    BY <1>1, <1>3, <1>5 DEF WellPlaced, Probe, Role
  <2>2. WellPlaced(q, 2)
    <3>1. 5 \in 2 + 1 .. Len(q) /\ q[5].op = "revoke" /\ q[5].of = q[2].of
      BY <1>1, <1>3
    <3> QED
      BY <1>1, <1>3, <1>5, <3>1 DEF WellPlaced, Probe, Role
  <2>3. WellPlaced(q, 3)
    BY <1>1, <1>3, <1>5, <1>6 DEF WellPlaced, Probe, Role
  <2>4. WellPlaced(q, 4)
    BY <1>1, <1>3, <1>5, <1>6 DEF WellPlaced, Probe, Role
  <2>5. WellPlaced(q, 5)
    BY <1>1, <1>3, <1>5 DEF WellPlaced, Probe, Role
  <2> QED
    BY <1>2, <2>1, <2>2, <2>3, <2>4, <2>5
<1>8. Steady(q, 1, Len(q) + 1) /\ Inner(q)
  BY <1>1, <1>2, <1>3, <1>4 DEF Steady, Inner, Swap, Failures
<1> QED
  BY <1>1, <1>7, <1>8 DEF Closed, AtRoot, IsScript, q

LEMMA DatabasePart == Closed(exerciseDatabaseLease)
<1> DEFINE q == exerciseDatabaseLease
<1>1. /\ q[1] = Step("issue", "read-database-credentials", "readonly")
      /\ q[2] = Step("lookup", "lookup-database-lease", "readonly")
      /\ q[3] = Step("renew", "renew-database-lease", "readonly")
      /\ q[4] = Step("revoke", "revoke-database-lease", "readonly")
      /\ Len(q) = 4 /\ Listed(q)
  BY ShortLists DEF exerciseDatabaseLease, exerciseDatabaseLeaseLifecycle
<1> HIDE DEF q
<1>2. \A i \in 1 .. Len(q) : i = 1 \/ i = 2 \/ i = 3 \/ i = 4
  BY <1>1
<1>3. /\ q[1].op = "issue" /\ q[1].of = "readonly"
      /\ q[2].op = "lookup" /\ q[2].of = "readonly"
      /\ q[3].op = "renew" /\ q[3].of = "readonly"
      /\ q[4].op = "revoke" /\ q[4].of = "readonly"
  BY <1>1 DEF Step
<1>4. \A i \in 1 .. Len(q) : q[i].name \notin Failures
  BY <1>1, <1>2 DEF Step, Failures, Last
<1>5. Proper(q[1]) /\ Proper(q[2]) /\ Proper(q[3]) /\ Proper(q[4])
  BY <1>1, <1>3, <1>4 DEF Proper, Lease, Mount, Role, Probe, Swap, Expecting
<1>6. Issued(q, 2, "readonly") /\ Issued(q, 3, "readonly") /\ Steady(q, 1, 1)
  BY <1>1, <1>3 DEF Issued, Steady
<1>7. \A i \in 1 .. Len(q) : WellPlaced(q, i)
  <2>1. WellPlaced(q, 1)
    <3>1. 4 \in 1 + 1 .. Len(q) /\ q[4].op = "revoke" /\ q[4].of = q[1].of
      BY <1>1, <1>3
    <3> QED
      BY <1>1, <1>3, <1>5, <1>6, <3>1 DEF WellPlaced, Probe, Role, Mounted, AtRoot
  <2>2. WellPlaced(q, 2)
    BY <1>1, <1>3, <1>5, <1>6 DEF WellPlaced, Probe, Role
  <2>3. WellPlaced(q, 3)
    BY <1>1, <1>3, <1>5, <1>6 DEF WellPlaced, Probe, Role
  <2>4. WellPlaced(q, 4)
    BY <1>1, <1>3, <1>5 DEF WellPlaced, Probe, Role
  <2> QED
    BY <1>2, <2>1, <2>2, <2>3, <2>4
<1>8. Steady(q, 1, Len(q) + 1) /\ Inner(q)
  BY <1>1, <1>2, <1>3, <1>4 DEF Steady, Inner, Swap, Failures
<1> QED
  BY <1>1, <1>7, <1>8 DEF Closed, AtRoot, IsScript, q

LEMMA NamespaceTokenPart == Nested(exerciseNamespaceToken)
<1> DEFINE q == exerciseNamespaceToken
<1>1. /\ q[1] = Step("issue", "create-namespace-token", "ns-token")
      /\ q[2] = Step("lookup", "lookup-namespace-token", "ns-token")
      /\ q[3] = Step("revoke", "revoke-namespace-token", "ns-token")
      /\ Len(q) = 3 /\ Listed(q)
  BY ShortLists DEF exerciseNamespaceToken
<1> HIDE DEF q
<1>2. \A i \in 1 .. Len(q) : i = 1 \/ i = 2 \/ i = 3
  BY <1>1
<1>3. /\ q[1].op = "issue" /\ q[1].of = "ns-token"
      /\ q[2].op = "lookup" /\ q[2].of = "ns-token"
      /\ q[3].op = "revoke" /\ q[3].of = "ns-token"
  BY <1>1 DEF Step
<1>4. \A i \in 1 .. Len(q) : q[i].name \notin Failures
  BY <1>1, <1>2 DEF Step, Failures, Last
<1>5. Proper(q[1]) /\ Proper(q[2]) /\ Proper(q[3])
  BY <1>1, <1>3, <1>4 DEF Proper, Lease, Mount, Role, Probe, Swap, Expecting
<1>6. Issued(q, 2, "ns-token")
  BY <1>1, <1>3 DEF Issued
<1>7. \A i \in 1 .. Len(q) : WellPlaced(q, i)
  <2>1. WellPlaced(q, 1)
    <3>1. 3 \in 1 + 1 .. Len(q) /\ q[3].op = "revoke" /\ q[3].of = q[1].of
      BY <1>1, <1>3
    <3> QED
      BY <1>1, <1>3, <1>5, <3>1 DEF WellPlaced, Probe, Role
  <2>2. WellPlaced(q, 2)
    BY <1>1, <1>3, <1>5, <1>6 DEF WellPlaced, Probe, Role
  <2>3. WellPlaced(q, 3)
    BY <1>1, <1>3, <1>5 DEF WellPlaced, Probe, Role
  <2> QED
    BY <1>2, <2>1, <2>2, <2>3
<1>8. Steady(q, 1, Len(q) + 1) /\ Inner(q)
  BY <1>1, <1>2, <1>3, <1>4 DEF Steady, Inner, Swap, Failures
<1>9. \A i \in 1 .. Len(q) : SelfReliant(q, i)
  BY <1>2, <1>3 DEF SelfReliant, Role
<1> QED
  BY <1>1, <1>7, <1>8, <1>9 DEF Closed, Nested, AtRoot, IsScript, q

LEMMA NamespaceDatabasePart == Nested(exerciseNamespaceDatabaseLease)
<1> DEFINE q == exerciseNamespaceDatabaseLease
<1>1. /\ q[1] = Step("probe", "ensure-namespace-database-mount", "database")
      /\ q[2] = Step("create", "ensure-namespace-database-mount", "database")
      /\ q[3] = Step("configure", "configure-namespace-postgres-database", "none")
      /\ q[4] = writeDatabaseRole("ns-readonly", "write-namespace-database-readonly-role", Statements("valid", "valid", "keep"))
      /\ q[5] = Step("issue", "read-namespace-database-credentials", "ns-readonly")
      /\ q[6] = Step("lookup", "lookup-namespace-database-lease", "ns-readonly")
      /\ q[7] = Step("renew", "renew-namespace-database-lease", "ns-readonly")
      /\ q[8] = Step("revoke", "revoke-namespace-database-lease", "ns-readonly")
      /\ Len(q) = 8 /\ Listed(q)
  <2> DEFINE a == Ensure("database", "ensure-namespace-database-mount")
             b == <<Step("configure", "configure-namespace-postgres-database", "none"),
                    writeDatabaseRole("ns-readonly", "write-namespace-database-readonly-role", Good)>>
             c == exerciseDatabaseLeaseLifecycle("ns-readonly", "read-namespace-database-credentials",
                    "lookup-namespace-database-lease", "renew-namespace-database-lease",
                    "revoke-namespace-database-lease")
             ab == a \o b
  <2>1. /\ a[1] = Step("probe", "ensure-namespace-database-mount", "database")
        /\ a[2] = Step("create", "ensure-namespace-database-mount", "database")
        /\ b[1] = Step("configure", "configure-namespace-postgres-database", "none")
        /\ b[2] = writeDatabaseRole("ns-readonly", "write-namespace-database-readonly-role",
                                    Statements("valid", "valid", "keep"))
        /\ c[1] = Step("issue", "read-namespace-database-credentials", "ns-readonly")
        /\ c[2] = Step("lookup", "lookup-namespace-database-lease", "ns-readonly")
        /\ c[3] = Step("renew", "renew-namespace-database-lease", "ns-readonly")
        /\ c[4] = Step("revoke", "revoke-namespace-database-lease", "ns-readonly")
        /\ Len(a) = 2 /\ Len(b) = 2 /\ Len(c) = 4
    BY DEF Ensure, Good, exerciseDatabaseLeaseLifecycle
  <2>2. Listed(a) /\ Listed(b) /\ Listed(c)
    BY ShortLists DEF Ensure, exerciseDatabaseLeaseLifecycle
  <2>3. q = ab \o c
    BY DEF exerciseNamespaceDatabaseLease
  <2> HIDE DEF a, b, c, ab, q
  <2>4. Listed(ab) /\ Joined(ab, a, b)
    BY <2>2, Concatenation DEF ab
  <2>5. Listed(q) /\ Joined(q, ab, c)
    BY <2>2, <2>3, <2>4, Concatenation
  <2>6. Len(ab) = 4 /\ ab[1] = a[1] /\ ab[2] = a[2] /\ ab[2 + 1] = b[1] /\ ab[2 + 2] = b[2]
    BY <2>1, <2>4 DEF Joined
  <2>7. /\ Len(q) = 8 /\ q[1] = ab[1] /\ q[2] = ab[2] /\ q[3] = ab[3] /\ q[4] = ab[4]
        /\ q[4 + 1] = c[1] /\ q[4 + 2] = c[2] /\ q[4 + 3] = c[3] /\ q[4 + 4] = c[4]
    BY <2>1, <2>5, <2>6 DEF Joined
  <2> QED
    BY <2>1, <2>5, <2>6, <2>7
<1> HIDE DEF q
<1>2. \A i \in 1 .. Len(q) : i = 1 \/ i = 2 \/ i = 3 \/ i = 4 \/ i = 5 \/ i = 6 \/ i = 7 \/ i = 8
  BY <1>1
<1>3. /\ q[1].op = "probe" /\ q[1].of = "database"
      /\ q[2].op = "create" /\ q[2].of = "database"
      /\ q[3].op = "configure" /\ q[3].of = "none"
      /\ q[4].op = "role" /\ q[4].of = "ns-readonly"
      /\ q[5].op = "issue" /\ q[5].of = "ns-readonly"
      /\ q[6].op = "lookup" /\ q[6].of = "ns-readonly"
      /\ q[7].op = "renew" /\ q[7].of = "ns-readonly"
      /\ q[8].op = "revoke" /\ q[8].of = "ns-readonly"
  BY <1>1 DEF Step, writeDatabaseRole
<1>4. /\ q[4].statements = Statements("valid", "valid", "keep")
  BY <1>1 DEF writeDatabaseRole
<1>5. \A i \in 1 .. Len(q) : (q[i].op \in Expecting <=> q[i].name \in Failures) /\ q[i].name # Last
  BY <1>1, <1>2, <1>3 DEF Step, writeDatabaseRole, Expecting, Failures, Last
<1>6. /\ Proper(q[1])
      /\ Proper(q[2])
      /\ Proper(q[3])
      /\ Proper(q[4])
      /\ Proper(q[5])
      /\ Proper(q[6])
      /\ Proper(q[7])
      /\ Proper(q[8])
  <2>1. Proper(q[1])
    BY <1>1, <1>3, <1>4, <1>5 DEF Proper, Lease, Mount, Role, Probe, Swap
  <2>2. Proper(q[2])
    BY <1>1, <1>3, <1>4, <1>5 DEF Proper, Lease, Mount, Role, Probe, Swap
  <2>3. Proper(q[3])
    BY <1>1, <1>3, <1>4, <1>5 DEF Proper, Lease, Mount, Role, Probe, Swap
  <2>4. Proper(q[4])
    BY <1>1, <1>3, <1>4, <1>5 DEF Proper, Lease, Mount, Role, Probe, Swap, Statements, Field, Value
  <2>5. Proper(q[5])
    BY <1>1, <1>3, <1>4, <1>5 DEF Proper, Lease, Mount, Role, Probe, Swap
  <2>6. Proper(q[6])
    BY <1>1, <1>3, <1>4, <1>5 DEF Proper, Lease, Mount, Role, Probe, Swap
  <2>7. Proper(q[7])
    BY <1>1, <1>3, <1>4, <1>5 DEF Proper, Lease, Mount, Role, Probe, Swap
  <2>8. Proper(q[8])
    BY <1>1, <1>3, <1>4, <1>5 DEF Proper, Lease, Mount, Role, Probe, Swap
  <2> QED
    BY <2>1, <2>2, <2>3, <2>4, <2>5, <2>6, <2>7, <2>8
<1>7. q[2].name = q[1].name
  BY <1>1, <1>3, <1>4 DEF Step
<1>8. Ensured(q, 4) /\ Ensured(q, 5)
  BY <1>1, <1>3, <1>4 DEF Ensured, Steady, Swap
<1>9. Issued(q, 6, "ns-readonly") /\ Issued(q, 7, "ns-readonly")
  BY <1>1, <1>3, <1>4 DEF Issued
<1>10. Written(q, 5, "ns-readonly", "creation", "valid") /\ Written(q, 8, "ns-readonly", "revocation", "valid")
  BY <1>1, <1>3, <1>4 DEF Written, Statements
<1>11. \A i \in 1 .. Len(q) : WellPlaced(q, i)
  <2>1. WellPlaced(q, 1)
    BY <1>1, <1>3, <1>6, <1>7, <1>8, <1>9, <1>10 DEF WellPlaced, Probe, Role, Mounted, AtRoot
  <2>2. WellPlaced(q, 2)
    BY <1>1, <1>3, <1>6, <1>7, <1>8, <1>9, <1>10 DEF WellPlaced, Probe, Role, Mounted, AtRoot
  <2>3. WellPlaced(q, 3)
    BY <1>1, <1>3, <1>6, <1>7, <1>8, <1>9, <1>10 DEF WellPlaced, Probe, Role, Mounted, AtRoot
  <2>4. WellPlaced(q, 4)
    BY <1>1, <1>3, <1>6, <1>7, <1>8, <1>9, <1>10 DEF WellPlaced, Probe, Role, Mounted, AtRoot
  <2>5. WellPlaced(q, 5)
    <3>1. 8 \in 5 + 1 .. Len(q) /\ q[8].op = "revoke" /\ q[8].of = q[5].of
      BY <1>1, <1>3
    <3> QED
      BY <1>1, <1>3, <1>6, <1>7, <1>8, <1>9, <1>10, <3>1 DEF WellPlaced, Probe, Role, Mounted, AtRoot
  <2>6. WellPlaced(q, 6)
    BY <1>1, <1>3, <1>6, <1>7, <1>8, <1>9, <1>10 DEF WellPlaced, Probe, Role, Mounted, AtRoot
  <2>7. WellPlaced(q, 7)
    BY <1>1, <1>3, <1>6, <1>7, <1>8, <1>9, <1>10 DEF WellPlaced, Probe, Role, Mounted, AtRoot
  <2>8. WellPlaced(q, 8)
    BY <1>1, <1>3, <1>6, <1>7, <1>8, <1>9, <1>10 DEF WellPlaced, Probe, Role, Mounted, AtRoot
  <2> QED
    BY <1>2, <2>1, <2>2, <2>3, <2>4, <2>5, <2>6, <2>7, <2>8
<1>12. Inner(q) /\ \A i \in 1 .. Len(q) : SelfReliant(q, i)
  BY <1>2, <1>3, <1>5, <1>7, <1>8, <1>9, <1>10 DEF Inner, SelfReliant, Role
<1> QED
  BY <1>1, <1>11, <1>12 DEF Nested, IsScript, q

LEMMA RenewFailurePart == Closed(renewFailure)
<1> DEFINE q == renewFailure
<1>1. /\ q[1] = writeDatabaseRole("failure-renew", "write-database-failure-renew-role", Statements("valid", "valid", "keep"))
      /\ q[2] = Step("issue", "read-database-failure-renew-credentials", "failure-renew")
      /\ q[3] = writeDatabaseRole("failure-renew", "write-database-failure-renew-invalid-role", Statements("valid", "valid", "invalid"))
      /\ q[4] = Step("expect-renew", "failed-database-update-user", "failure-renew")
      /\ q[5] = writeDatabaseRole("failure-renew", "write-database-failure-renew-recovery-role", Statements("valid", "valid", "keep"))
      /\ q[6] = Step("revoke", "revoke-database-failure-renew-lease", "failure-renew")
      /\ Len(q) = 6 /\ Listed(q)
  <2> DEFINE a == issueDatabaseLease("failure-renew", "write-database-failure-renew-role",
                                     "read-database-failure-renew-credentials")
             b == <<writeDatabaseRole("failure-renew", "write-database-failure-renew-invalid-role",
                                      Statements("valid", "valid", "invalid")),
                    Step("expect-renew", "failed-database-update-user", "failure-renew"),
                    writeDatabaseRole("failure-renew",
                                      "write-database-failure-renew-recovery-role", Good),
                    Step("revoke", "revoke-database-failure-renew-lease", "failure-renew")>>
  <2>1. /\ a[1] = writeDatabaseRole("failure-renew", "write-database-failure-renew-role", Statements("valid", "valid", "keep"))
        /\ a[2] = Step("issue", "read-database-failure-renew-credentials", "failure-renew")
        /\ b[1] = writeDatabaseRole("failure-renew", "write-database-failure-renew-invalid-role", Statements("valid", "valid", "invalid"))
        /\ b[2] = Step("expect-renew", "failed-database-update-user", "failure-renew")
        /\ b[3] = writeDatabaseRole("failure-renew", "write-database-failure-renew-recovery-role", Statements("valid", "valid", "keep"))
        /\ b[4] = Step("revoke", "revoke-database-failure-renew-lease", "failure-renew")
        /\ Len(a) = 2 /\ Len(b) = 4
    BY DEF issueDatabaseLease, Good
  <2>2. Listed(a) /\ Listed(b)
    BY ShortLists DEF issueDatabaseLease
  <2>3. q = a \o b
    BY DEF renewFailure
  <2> HIDE DEF a, b, q
  <2>4. Listed(q) /\ Joined(q, a, b)
    BY <2>2, <2>3, Concatenation
  <2>5. /\ Len(q) = 6 /\ q[1] = a[1] /\ q[2] = a[2]
        /\ q[2 + 1] = b[1] /\ q[2 + 2] = b[2] /\ q[2 + 3] = b[3] /\ q[2 + 4] = b[4]
    BY <2>1, <2>4 DEF Joined
  <2> QED
    BY <2>1, <2>4, <2>5
<1> HIDE DEF q
<1>2. \A i \in 1 .. Len(q) : i = 1 \/ i = 2 \/ i = 3 \/ i = 4 \/ i = 5 \/ i = 6
  BY <1>1
<1>3. /\ q[1].op = "role" /\ q[1].of = "failure-renew"
      /\ q[2].op = "issue" /\ q[2].of = "failure-renew"
      /\ q[3].op = "role" /\ q[3].of = "failure-renew"
      /\ q[4].op = "expect-renew" /\ q[4].of = "failure-renew"
      /\ q[5].op = "role" /\ q[5].of = "failure-renew"
      /\ q[6].op = "revoke" /\ q[6].of = "failure-renew"
  BY <1>1 DEF Step, writeDatabaseRole
<1>4. /\ q[1].statements = Statements("valid", "valid", "keep")
      /\ q[3].statements = Statements("valid", "valid", "invalid")
      /\ q[5].statements = Statements("valid", "valid", "keep")
  BY <1>1 DEF writeDatabaseRole
<1>5. \A i \in 1 .. Len(q) : (q[i].op \in Expecting <=> q[i].name \in Failures) /\ q[i].name # Last
  BY <1>1, <1>2, <1>3 DEF Step, writeDatabaseRole, Expecting, Failures, Last
<1>6. /\ Proper(q[1])
      /\ Proper(q[2])
      /\ Proper(q[3])
      /\ Proper(q[4])
      /\ Proper(q[5])
      /\ Proper(q[6])
  <2>1. Proper(q[1])
    BY <1>1, <1>3, <1>4, <1>5 DEF Proper, Lease, Mount, Role, Probe, Swap, Statements, Field, Value
  <2>2. Proper(q[2])
    BY <1>1, <1>3, <1>4, <1>5 DEF Proper, Lease, Mount, Role, Probe, Swap
  <2>3. Proper(q[3])
    BY <1>1, <1>3, <1>4, <1>5 DEF Proper, Lease, Mount, Role, Probe, Swap, Statements, Field, Value
  <2>4. Proper(q[4])
    BY <1>1, <1>3, <1>4, <1>5 DEF Proper, Lease, Mount, Role, Probe, Swap
  <2>5. Proper(q[5])
    BY <1>1, <1>3, <1>4, <1>5 DEF Proper, Lease, Mount, Role, Probe, Swap, Statements, Field, Value
  <2>6. Proper(q[6])
    BY <1>1, <1>3, <1>4, <1>5 DEF Proper, Lease, Mount, Role, Probe, Swap
  <2> QED
    BY <2>1, <2>2, <2>3, <2>4, <2>5, <2>6
<1>7. Steady(q, 1, 1) /\ Steady(q, 1, 2) /\ Steady(q, 1, 3) /\ Steady(q, 1, 5)
  BY <1>1, <1>3, <1>4 DEF Steady, Swap
<1>8. Written(q, 2, "failure-renew", "creation", "valid") /\ Written(q, 6, "failure-renew", "revocation", "valid")
  BY <1>1, <1>3, <1>4 DEF Written, Statements
<1>9. Written(q, 4, "failure-renew", "renewal", "invalid")
  BY <1>1, <1>3, <1>4 DEF Written, Statements
<1>10. \A i \in 1 .. Len(q) : WellPlaced(q, i)
  <2>1. WellPlaced(q, 1)
    BY <1>1, <1>3, <1>6, <1>7, <1>8, <1>9 DEF WellPlaced, Probe, Role, Mounted, AtRoot
  <2>2. WellPlaced(q, 2)
    <3>1. 6 \in 2 + 1 .. Len(q) /\ q[6].op = "revoke" /\ q[6].of = q[2].of
      BY <1>1, <1>3
    <3> QED
      BY <1>1, <1>3, <1>6, <1>7, <1>8, <1>9, <3>1 DEF WellPlaced, Probe, Role, Mounted, AtRoot
  <2>3. WellPlaced(q, 3)
    BY <1>1, <1>3, <1>6, <1>7, <1>8, <1>9 DEF WellPlaced, Probe, Role, Mounted, AtRoot
  <2>4. WellPlaced(q, 4)
    BY <1>1, <1>3, <1>6, <1>7, <1>8, <1>9 DEF WellPlaced, Probe, Role, Mounted, AtRoot
  <2>5. WellPlaced(q, 5)
    BY <1>1, <1>3, <1>6, <1>7, <1>8, <1>9 DEF WellPlaced, Probe, Role, Mounted, AtRoot
  <2>6. WellPlaced(q, 6)
    BY <1>1, <1>3, <1>6, <1>7, <1>8, <1>9 DEF WellPlaced, Probe, Role, Mounted, AtRoot
  <2> QED
    BY <1>2, <2>1, <2>2, <2>3, <2>4, <2>5, <2>6
<1>11. Steady(q, 1, Len(q) + 1) /\ Inner(q)
  BY <1>1, <1>2, <1>3, <1>5 DEF Steady, Inner, Swap
<1> QED
  BY <1>1, <1>10, <1>11 DEF Closed, AtRoot, IsScript, q

LEMMA RevokeFailurePart == Closed(revokeFailure)
<1> DEFINE q == revokeFailure
<1>1. /\ q[1] = writeDatabaseRole("failure-revoke", "write-database-failure-revoke-role", Statements("valid", "valid", "keep"))
      /\ q[2] = Step("issue", "read-database-failure-revoke-credentials", "failure-revoke")
      /\ q[3] = writeDatabaseRole("failure-revoke", "write-database-failure-revoke-invalid-role", Statements("valid", "invalid", "keep"))
      /\ q[4] = Step("expect-revoke", "failed-database-delete-user", "failure-revoke")
      /\ q[5] = writeDatabaseRole("failure-revoke", "write-database-failure-revoke-recovery-role", Statements("valid", "valid", "keep"))
      /\ q[6] = Step("revoke", "revoke-database-failure-revoke-lease", "failure-revoke")
      /\ Len(q) = 6 /\ Listed(q)
  <2> DEFINE a == issueDatabaseLease("failure-revoke", "write-database-failure-revoke-role",
                                     "read-database-failure-revoke-credentials")
             b == <<writeDatabaseRole("failure-revoke", "write-database-failure-revoke-invalid-role",
                                      Statements("valid", "invalid", "keep")),
                    Step("expect-revoke", "failed-database-delete-user", "failure-revoke")>>
             c == <<writeDatabaseRole("failure-revoke",
                                      "write-database-failure-revoke-recovery-role", Good),
                    Step("revoke", "revoke-database-failure-revoke-lease", "failure-revoke")>>
             ab == a \o b
  <2>1. /\ a[1] = writeDatabaseRole("failure-revoke", "write-database-failure-revoke-role", Statements("valid", "valid", "keep"))
        /\ a[2] = Step("issue", "read-database-failure-revoke-credentials", "failure-revoke")
        /\ b[1] = writeDatabaseRole("failure-revoke", "write-database-failure-revoke-invalid-role", Statements("valid", "invalid", "keep"))
        /\ b[2] = Step("expect-revoke", "failed-database-delete-user", "failure-revoke")
        /\ c[1] = writeDatabaseRole("failure-revoke", "write-database-failure-revoke-recovery-role", Statements("valid", "valid", "keep"))
        /\ c[2] = Step("revoke", "revoke-database-failure-revoke-lease", "failure-revoke")
        /\ Len(a) = 2 /\ Len(b) = 2 /\ Len(c) = 2
    BY DEF issueDatabaseLease, Good
  <2>2. Listed(a) /\ Listed(b) /\ Listed(c)
    BY ShortLists DEF issueDatabaseLease
  <2>3. q = ab \o c
    BY DEF revokeFailure, provokeRevokeFailure
  <2> HIDE DEF a, b, c, ab, q
  <2>4. Listed(ab) /\ Joined(ab, a, b)
    BY <2>2, Concatenation DEF ab
  <2>5. Listed(q) /\ Joined(q, ab, c)
    BY <2>2, <2>3, <2>4, Concatenation
  <2>6. Len(ab) = 4 /\ ab[1] = a[1] /\ ab[2] = a[2] /\ ab[2 + 1] = b[1] /\ ab[2 + 2] = b[2]
    BY <2>1, <2>4 DEF Joined
  <2>7. /\ Len(q) = 6 /\ q[1] = ab[1] /\ q[2] = ab[2] /\ q[3] = ab[3] /\ q[4] = ab[4]
        /\ q[4 + 1] = c[1] /\ q[4 + 2] = c[2]
    BY <2>1, <2>5, <2>6 DEF Joined
  <2> QED
    BY <2>1, <2>5, <2>6, <2>7
<1> HIDE DEF q
<1>2. \A i \in 1 .. Len(q) : i = 1 \/ i = 2 \/ i = 3 \/ i = 4 \/ i = 5 \/ i = 6
  BY <1>1
<1>3. /\ q[1].op = "role" /\ q[1].of = "failure-revoke"
      /\ q[2].op = "issue" /\ q[2].of = "failure-revoke"
      /\ q[3].op = "role" /\ q[3].of = "failure-revoke"
      /\ q[4].op = "expect-revoke" /\ q[4].of = "failure-revoke"
      /\ q[5].op = "role" /\ q[5].of = "failure-revoke"
      /\ q[6].op = "revoke" /\ q[6].of = "failure-revoke"
  BY <1>1 DEF Step, writeDatabaseRole
<1>4. /\ q[1].statements = Statements("valid", "valid", "keep")
      /\ q[3].statements = Statements("valid", "invalid", "keep")
      /\ q[5].statements = Statements("valid", "valid", "keep")
  BY <1>1 DEF writeDatabaseRole
<1>5. \A i \in 1 .. Len(q) : (q[i].op \in Expecting <=> q[i].name \in Failures) /\ q[i].name # Last
  BY <1>1, <1>2, <1>3 DEF Step, writeDatabaseRole, Expecting, Failures, Last
<1>6. /\ Proper(q[1])
      /\ Proper(q[2])
      /\ Proper(q[3])
      /\ Proper(q[4])
      /\ Proper(q[5])
      /\ Proper(q[6])
  <2>1. Proper(q[1])
    BY <1>1, <1>3, <1>4, <1>5 DEF Proper, Lease, Mount, Role, Probe, Swap, Statements, Field, Value
  <2>2. Proper(q[2])
    BY <1>1, <1>3, <1>4, <1>5 DEF Proper, Lease, Mount, Role, Probe, Swap
  <2>3. Proper(q[3])
    BY <1>1, <1>3, <1>4, <1>5 DEF Proper, Lease, Mount, Role, Probe, Swap, Statements, Field, Value
  <2>4. Proper(q[4])
    BY <1>1, <1>3, <1>4, <1>5 DEF Proper, Lease, Mount, Role, Probe, Swap
  <2>5. Proper(q[5])
    BY <1>1, <1>3, <1>4, <1>5 DEF Proper, Lease, Mount, Role, Probe, Swap, Statements, Field, Value
  <2>6. Proper(q[6])
    BY <1>1, <1>3, <1>4, <1>5 DEF Proper, Lease, Mount, Role, Probe, Swap
  <2> QED
    BY <2>1, <2>2, <2>3, <2>4, <2>5, <2>6
<1>7. Steady(q, 1, 1) /\ Steady(q, 1, 2) /\ Steady(q, 1, 3) /\ Steady(q, 1, 5)
  BY <1>1, <1>3, <1>4 DEF Steady, Swap
<1>8. Written(q, 2, "failure-revoke", "creation", "valid") /\ Written(q, 6, "failure-revoke", "revocation", "valid")
  BY <1>1, <1>3, <1>4 DEF Written, Statements
<1>9. Written(q, 4, "failure-revoke", "revocation", "invalid") /\ Issued(q, 4, "failure-revoke")
  BY <1>1, <1>3, <1>4 DEF Written, Issued, Statements
<1>10. \A i \in 1 .. Len(q) : WellPlaced(q, i)
  <2>1. WellPlaced(q, 1)
    BY <1>1, <1>3, <1>6, <1>7, <1>8, <1>9 DEF WellPlaced, Probe, Role, Mounted, AtRoot
  <2>2. WellPlaced(q, 2)
    <3>1. 6 \in 2 + 1 .. Len(q) /\ q[6].op = "revoke" /\ q[6].of = q[2].of
      BY <1>1, <1>3
    <3> QED
      BY <1>1, <1>3, <1>6, <1>7, <1>8, <1>9, <3>1 DEF WellPlaced, Probe, Role, Mounted, AtRoot
  <2>3. WellPlaced(q, 3)
    BY <1>1, <1>3, <1>6, <1>7, <1>8, <1>9 DEF WellPlaced, Probe, Role, Mounted, AtRoot
  <2>4. WellPlaced(q, 4)
    BY <1>1, <1>3, <1>6, <1>7, <1>8, <1>9 DEF WellPlaced, Probe, Role, Mounted, AtRoot
  <2>5. WellPlaced(q, 5)
    BY <1>1, <1>3, <1>6, <1>7, <1>8, <1>9 DEF WellPlaced, Probe, Role, Mounted, AtRoot
  <2>6. WellPlaced(q, 6)
    BY <1>1, <1>3, <1>6, <1>7, <1>8, <1>9 DEF WellPlaced, Probe, Role, Mounted, AtRoot
  <2> QED
    BY <1>2, <2>1, <2>2, <2>3, <2>4, <2>5, <2>6
<1>11. Steady(q, 1, Len(q) + 1) /\ Inner(q)
  BY <1>1, <1>2, <1>3, <1>5 DEF Steady, Inner, Swap
<1> QED
  BY <1>1, <1>10, <1>11 DEF Closed, AtRoot, IsScript, q

\* The first three calls of exerciseDatabaseExpectedFailures.
createFailure ==
    <<Step("expect", "failed-database-initialize", "none"),
      writeDatabaseRole("failure-create", "write-database-failure-create-role",
                        Statements("invalid", "keep", "keep")),
      Step("expect-issue", "failed-database-new-user", "failure-create")>>

LEMMA CreateFailurePart == Closed(createFailure)
<1> DEFINE q == createFailure
<1>1. /\ q[1] = Step("expect", "failed-database-initialize", "none")
      /\ q[2] = writeDatabaseRole("failure-create", "write-database-failure-create-role", Statements("invalid", "keep", "keep"))
      /\ q[3] = Step("expect-issue", "failed-database-new-user", "failure-create")
      /\ Len(q) = 3 /\ Listed(q)
  BY ShortLists DEF createFailure
<1> HIDE DEF q
<1>2. \A i \in 1 .. Len(q) : i = 1 \/ i = 2 \/ i = 3
  BY <1>1
<1>3. /\ q[1].op = "expect" /\ q[1].of = "none"
      /\ q[2].op = "role" /\ q[2].of = "failure-create"
      /\ q[3].op = "expect-issue" /\ q[3].of = "failure-create"
  BY <1>1 DEF Step, writeDatabaseRole
<1>4. /\ q[2].statements = Statements("invalid", "keep", "keep")
  BY <1>1 DEF writeDatabaseRole
<1>5. \A i \in 1 .. Len(q) : (q[i].op \in Expecting <=> q[i].name \in Failures) /\ q[i].name # Last
  BY <1>1, <1>2, <1>3 DEF Step, writeDatabaseRole, Expecting, Failures, Last
<1>6. /\ Proper(q[1])
      /\ Proper(q[2])
      /\ Proper(q[3])
  <2>1. Proper(q[1])
    BY <1>1, <1>3, <1>4, <1>5 DEF Proper, Lease, Mount, Role, Probe, Swap
  <2>2. Proper(q[2])
    BY <1>1, <1>3, <1>4, <1>5 DEF Proper, Lease, Mount, Role, Probe, Swap, Statements, Field, Value
  <2>3. Proper(q[3])
    BY <1>1, <1>3, <1>4, <1>5 DEF Proper, Lease, Mount, Role, Probe, Swap
  <2> QED
    BY <2>1, <2>2, <2>3
<1>7. Steady(q, 1, 2)
  BY <1>1, <1>3, <1>4 DEF Steady, Swap
<1>8. Written(q, 3, "failure-create", "creation", "invalid")
  BY <1>1, <1>3, <1>4 DEF Written, Statements
<1>9. \A i \in 1 .. Len(q) : WellPlaced(q, i)
  <2>1. WellPlaced(q, 1)
    BY <1>1, <1>3, <1>6, <1>7, <1>8 DEF WellPlaced, Probe, Role, Mounted, AtRoot
  <2>2. WellPlaced(q, 2)
    BY <1>1, <1>3, <1>6, <1>7, <1>8 DEF WellPlaced, Probe, Role, Mounted, AtRoot
  <2>3. WellPlaced(q, 3)
    BY <1>1, <1>3, <1>6, <1>7, <1>8 DEF WellPlaced, Probe, Role, Mounted, AtRoot
  <2> QED
    BY <1>2, <2>1, <2>2, <2>3
<1>10. Steady(q, 1, Len(q) + 1) /\ Inner(q)
  BY <1>1, <1>2, <1>3, <1>5 DEF Steady, Inner, Swap
<1> QED
  BY <1>1, <1>9, <1>10 DEF Closed, AtRoot, IsScript, q

LEMMA MountParts ==
    /\ Closed(exerciseKVv1) /\ Closed(exerciseTransit) /\ Closed(exercisePKI)
    /\ Nested(exerciseNamespaceAppRole) /\ Nested(exerciseNamespaceTransit)
    /\ Nested(exerciseNamespacePKI)
<1>1. /\ Unconditional(Calls("delete-kv-v1")) /\ Unconditional(Calls("decrypt-transit"))
      /\ Unconditional(Calls("ensure-pki-root")) /\ Unconditional(Calls("issue-pki-certificate"))
      /\ Unconditional(Calls("revoke-pki-certificate"))
      /\ Unconditional(Calls("login-namespace-approle"))
      /\ Unconditional(Calls("decrypt-namespace-transit"))
      /\ Unconditional(Calls("issue-namespace-pki-certificate"))
      /\ Unconditional(Step("expect", "failed-namespace-pki-issue-invalid-domain", "none"))
  BY FreeCall, FreeFailure DEF Failures, Last
<1>2. /\ Closed(Ensure("kv-v1", "ensure-kv-v1-mount"))
      /\ Closed(Ensure("transit", "ensure-transit-mount"))
      /\ Closed(Ensure("pki", "ensure-pki-mount"))
      /\ Nested(Ensure("approle", "ensure-namespace-approle-auth"))
      /\ Nested(Ensure("transit", "ensure-namespace-transit-mount"))
      /\ Nested(Ensure("pki", "ensure-namespace-pki-mount"))
  BY EnsurePart DEF Failures, Last, Mount
<1>3. Closed(exerciseKVv1)
  <2>1. Closed(<<Calls("delete-kv-v1")>>)
    BY <1>1, FreeLists
  <2> QED
    BY <1>2, <2>1, ClosedJoin DEF exerciseKVv1
<1>4. Closed(exerciseTransit)
  <2>1. Closed(<<Calls("decrypt-transit")>>)
    BY <1>1, FreeLists
  <2> QED
    BY <1>2, <2>1, ClosedJoin DEF exerciseTransit
<1>5. Closed(exercisePKI)
  <2>1. Closed(<<Calls("ensure-pki-root"), Calls("issue-pki-certificate"),
                 Calls("revoke-pki-certificate")>>)
    BY <1>1, FreeLists
  <2> QED
    BY <1>2, <2>1, ClosedJoin DEF exercisePKI
<1>6. Nested(exerciseNamespaceAppRole)
  <2>1. Nested(<<Calls("login-namespace-approle")>>)
    BY <1>1, FreeLists
  <2> QED
    BY <1>2, <2>1, NestedJoin DEF exerciseNamespaceAppRole
<1>7. Nested(exerciseNamespaceTransit)
  <2>1. Nested(<<Calls("decrypt-namespace-transit")>>)
    BY <1>1, FreeLists
  <2> QED
    BY <1>2, <2>1, NestedJoin DEF exerciseNamespaceTransit
<1>8. Nested(exerciseNamespacePKI)
  <2>1. Nested(<<Calls("issue-namespace-pki-certificate"),
                 Step("expect", "failed-namespace-pki-issue-invalid-domain", "none")>>)
    BY <1>1, FreeLists
  <2> QED
    BY <1>2, <2>1, NestedJoin DEF exerciseNamespacePKI
<1> QED
  BY <1>3, <1>4, <1>5, <1>6, <1>7, <1>8

\* The callbacks of withClient end by leaving the inner namespace, the whole by
\* leaving the outer one.
Leave == <<Step("leave", "none", "none")>>
EndsLeaving(q) == Len(q) \in Nat /\ Len(q) >= 1 /\ q[Len(q)].op = "leave"

LEMMA LeavingJoin ==
    ASSUME NEW p, NEW q, Listed(p), Listed(q), EndsLeaving(q)
    PROVE  EndsLeaving(p \o q)
<1>1. Joined(p \o q, p, q)
  BY Concatenation
<1>2. Len(q) \in 1 .. Len(q)
  BY DEF EndsLeaving
<1> QED
  BY <1>1, <1>2 DEF Joined, EndsLeaving

LEMMA LeaveOnce == Nested(Leave) /\ EndsLeaving(Leave)
<1>1. Nested(Leave)
  BY SwapPart DEF Leave, Namespace
<1>2. EndsLeaving(Leave)
  BY DEF EndsLeaving, Leave, Step
<1> QED
  BY <1>1, <1>2

LEMMA LeaveTwice ==
    ASSUME NEW p, Nested(p), EndsLeaving(p)
    PROVE  Closed(p \o Leave)
<1> DEFINE c == p \o Leave
           n == Len(p)
<1>1. Nested(c)
  BY LeaveOnce, NestedJoin
<1>2. Joined(c, p, Leave) /\ n \in Nat /\ n >= 1
  BY LeaveOnce, Concatenation DEF Nested, IsScript, EndsLeaving
<1>3. Len(Leave) = 1 /\ Leave[1].op = "leave"
  BY DEF Leave, Step
<1> HIDE DEF c
<1>4. Len(c) = n + 1 /\ c[n].op = "leave" /\ c[n + 1].op = "leave"
  BY <1>2, <1>3 DEF Joined, EndsLeaving
<1> HIDE DEF n
<1>5. /\ n + 1 \in 2 .. (Len(c) + 1) - 1 /\ c[(n + 1) - 1].op = "leave"
      /\ Steady(c, (n + 1) + 1, Len(c) + 1)
  BY <1>2, <1>4 DEF Steady
<1>6. Returned(c, Len(c) + 1)
  BY <1>4, <1>5 DEF Returned
<1> QED
  BY <1>1, <1>6 DEF Nested, Closed, AtRoot, c

LEMMA NestedNamespacePart ==
    Nested(exerciseNestedNamespace) /\ EndsLeaving(exerciseNestedNamespace)
<1> DEFINE enter == <<Step("enter", "none", "payments")>>
           body == Ensure("secret", "ensure-nested-namespace-secret-mount")
                   \o <<Calls("read-nested-namespace-kv")>>
           first == <<Calls("ensure-nested-namespace-payments")>>
           all == enter \o body \o Leave
<1>1. Nested(<<Calls("read-nested-namespace-kv")>>) /\ Nested(first)
  <2>1. /\ Unconditional(Calls("read-nested-namespace-kv"))
        /\ Unconditional(Calls("ensure-nested-namespace-payments"))
    BY FreeCall DEF Failures, Last
  <2> QED
    BY <2>1, FreeLists
<1>2. Nested(Ensure("secret", "ensure-nested-namespace-secret-mount"))
  BY EnsurePart DEF Failures, Last, Mount
<1>3. Nested(enter)
  BY SwapPart DEF Namespace
<1>4. exerciseNestedNamespace = first \o all
  BY DEF exerciseNestedNamespace, withClient, Leave
<1> HIDE DEF first, enter
<1>5. Nested(body)
  BY <1>1, <1>2, NestedJoin
<1> HIDE DEF body
<1>6. Nested(enter \o body)
  BY <1>3, <1>5, NestedJoin
<1>7. Nested(all)
  BY <1>6, LeaveOnce, NestedJoin
<1>8. EndsLeaving(all)
  BY <1>6, LeaveOnce, LeavingJoin DEF Nested, IsScript
<1> HIDE DEF all
<1>9. Nested(first \o all) /\ EndsLeaving(first \o all)
  BY <1>1, <1>7, <1>8, NestedJoin, LeavingJoin DEF Nested, IsScript
<1> QED
  BY <1>4, <1>9

LEMMA NamespacePart == Closed(exerciseNamespace)
<1> DEFINE enter == <<Step("enter", "none", "team-a")>>
           first == <<Calls("ensure-namespace-team-a")>>
           a == Ensure("secret", "ensure-namespace-secret-mount")
                \o Ensure("userpass", "ensure-namespace-userpass-auth")
           b == a \o <<Calls("login-namespace-userpass")>>
           c == b \o exerciseNamespaceToken
           d == c \o exerciseNamespaceAppRole
           e == d \o exerciseNamespaceTransit
           f == e \o exerciseNamespacePKI
           g == f \o exerciseNamespaceDatabaseLease
           body == g \o exerciseNestedNamespace
<1>1. Nested(<<Calls("login-namespace-userpass")>>) /\ Closed(first)
  <2>1. /\ Unconditional(Calls("login-namespace-userpass"))
        /\ Unconditional(Calls("ensure-namespace-team-a"))
    BY FreeCall DEF Failures, Last
  <2> QED
    BY <2>1, FreeLists
<1>2. /\ Nested(Ensure("secret", "ensure-namespace-secret-mount"))
      /\ Nested(Ensure("userpass", "ensure-namespace-userpass-auth"))
  BY EnsurePart DEF Failures, Last, Mount
<1>3. Nested(enter)
  BY SwapPart DEF Namespace
<1>4. exerciseNamespace = first \o ((enter \o body) \o Leave)
  BY DEF exerciseNamespace, withClient, Leave
<1> HIDE DEF first, enter
<1>5. Nested(a)
  BY <1>2, NestedJoin
<1> HIDE DEF a
<1>6. Nested(b)
  BY <1>1, <1>5, NestedJoin
<1> HIDE DEF b
<1>7. Nested(c)
  BY <1>6, NamespaceTokenPart, NestedJoin
<1> HIDE DEF c
<1>8. Nested(d)
  BY <1>7, MountParts, NestedJoin
<1> HIDE DEF d
<1>9. Nested(e)
  BY <1>8, MountParts, NestedJoin
<1> HIDE DEF e
<1>10. Nested(f)
  BY <1>9, MountParts, NestedJoin
<1> HIDE DEF f
<1>11. Nested(g)
  BY <1>10, NamespaceDatabasePart, NestedJoin
<1> HIDE DEF g
<1>12. Nested(body) /\ EndsLeaving(body)
  BY <1>11, NestedNamespacePart, NestedJoin, LeavingJoin DEF Nested, IsScript
<1> HIDE DEF body
<1>13. Nested(enter \o body) /\ EndsLeaving(enter \o body)
  BY <1>3, <1>12, NestedJoin, LeavingJoin DEF Nested, IsScript
<1>14. Closed((enter \o body) \o Leave)
  BY <1>13, LeaveTwice
<1> QED
  BY <1>1, <1>4, <1>14, ClosedJoin

LEMMA FeatureFailuresPart == Closed(exerciseFeatureExpectedFailures)
<1> DEFINE first == <<Step("expect", "failed-pki-issue-invalid-domain", "none")>>
           a == createFailure \o renewFailure
<1>1. Closed(first)
  <2>1. Unconditional(Step("expect", "failed-pki-issue-invalid-domain", "none"))
    BY FreeFailure DEF Failures, Last
  <2> QED
    BY <2>1, FreeLists
<1>2. exerciseFeatureExpectedFailures = first \o (a \o revokeFailure)
  BY DEF exerciseFeatureExpectedFailures, exerciseDatabaseExpectedFailures, createFailure
<1> HIDE DEF first
<1>3. Closed(a)
  BY CreateFailurePart, RenewFailurePart, ClosedJoin
<1> HIDE DEF a
<1>4. Closed(a \o revokeFailure)
  BY <1>3, RevokeFailurePart, ClosedJoin
<1> QED
  BY <1>1, <1>2, <1>4, ClosedJoin

LEMMA FinalPart ==
    /\ IsScript(exerciseExpectedFailures) /\ Len(exerciseExpectedFailures) = 3
    /\ exerciseExpectedFailures[3].op = "expect" /\ exerciseExpectedFailures[3].name = Last
    /\ exerciseExpectedFailures[1].name # Last /\ exerciseExpectedFailures[2].name # Last
<1> DEFINE q == exerciseExpectedFailures
<1>1. /\ q[1] = Step("expect", "failed-userpass-login", "none")
      /\ q[2] = Step("reader-login", "login-userpass-reader", "none")
      /\ q[3] = Step("expect", "denied-reader-kv-write", "none")
      /\ Len(q) = 3 /\ Listed(q)
  BY ShortLists DEF exerciseExpectedFailures
<1> HIDE DEF q
<1>2. /\ q[1].op = "expect" /\ q[2].op = "reader-login" /\ q[3].op = "expect"
      /\ q[1].name \in Failures /\ q[2].name \notin Failures /\ q[3].name = Last
      /\ q[1].name # Last /\ q[2].name # Last /\ Last \in Failures
  BY <1>1 DEF Step, Failures, Last
<1>3. Proper(q[1]) /\ Proper(q[2]) /\ Proper(q[3])
  BY <1>2 DEF Proper, Probe, Swap, Expecting
<1>4. WellPlaced(q, 1) /\ WellPlaced(q, 2) /\ WellPlaced(q, 3)
  BY <1>2, <1>3 DEF WellPlaced, Probe
<1>5. \A i \in 1 .. Len(q) : i = 1 \/ i = 2 \/ i = 3
  BY <1>1
<1> QED
  BY <1>1, <1>2, <1>4, <1>5 DEF IsScript, q

\* The whole script; only its last call has the last name.
LEMMA WholeScript ==
    /\ IsScript(Script) /\ Len(Script) \in Nat /\ Len(Script) >= 1
    /\ Script[Len(Script)].op = "expect" /\ Script[Len(Script)].name = Last
    /\ \A i \in 1 .. Len(Script) : Script[i].name = Last => i = Len(Script)
<1> DEFINE first == <<Calls("login-userpass-admin"), Calls("delete-kv")>>
           second == <<Calls("login-approle")>>
           a == first \o ensureAuditCanary
           b == a \o second
           c == b \o exerciseTokenLifecycle
           d == c \o exerciseDatabaseLease
           e == d \o exerciseKVv1
           f == e \o exerciseTransit
           g == f \o exercisePKI
           h == g \o exerciseNamespace
           body == h \o exerciseFeatureExpectedFailures
           q == exerciseExpectedFailures
<1>1. Closed(first) /\ Closed(second)
  <2>1. /\ Unconditional(Calls("login-userpass-admin"))
        /\ Unconditional(Calls("delete-kv"))
        /\ Unconditional(Calls("login-approle"))
    BY FreeCall DEF Failures, Last
  <2> QED
    BY <2>1, FreeLists
<1>2. Script = body \o q
  BY DEF Script
<1> HIDE DEF first, second, q
<1>3. Closed(a)
  BY <1>1, CanaryPart, ClosedJoin
<1> HIDE DEF a
<1>4. Closed(b)
  BY <1>1, <1>3, ClosedJoin
<1> HIDE DEF b
<1>5. Closed(c)
  BY <1>4, TokenPart, ClosedJoin
<1> HIDE DEF c
<1>6. Closed(d)
  BY <1>5, DatabasePart, ClosedJoin
<1> HIDE DEF d
<1>7. Closed(e)
  BY <1>6, MountParts, ClosedJoin
<1> HIDE DEF e
<1>8. Closed(f)
  BY <1>7, MountParts, ClosedJoin
<1> HIDE DEF f
<1>9. Closed(g)
  BY <1>8, MountParts, ClosedJoin
<1> HIDE DEF g
<1>10. Closed(h)
  BY <1>9, NamespacePart, ClosedJoin
<1> HIDE DEF h
<1>11. Closed(body)
  BY <1>10, FeatureFailuresPart, ClosedJoin
<1> HIDE DEF body
<1>12. IsScript(Script) /\ Joined(Script, body, q)
  BY <1>2, <1>11, FinalPart, Join DEF Closed, q
<1>13. /\ Len(q) = 3 /\ q[3].op = "expect" /\ q[3].name = Last
       /\ q[1].name # Last /\ q[2].name # Last
  BY FinalPart DEF q
<1>14. /\ Len(body) \in Nat /\ Len(Script) = Len(body) + 3
       /\ Script[Len(body) + 1] = q[1] /\ Script[Len(body) + 2] = q[2]
       /\ Script[Len(body) + 3] = q[3]
  BY <1>12, <1>13 DEF Joined
<1>15. \A i \in 1 .. Len(Script) :
          i \in 1 .. Len(body) \/ i = Len(body) + 1 \/ i = Len(body) + 2 \/ i = Len(body) + 3
  BY <1>14
<1>16. \A i \in 1 .. Len(body) : Script[i].name # Last
  BY <1>11, <1>12 DEF Joined, Closed, Inner
<1> QED
  BY <1>12, <1>13, <1>14, <1>15, <1>16

LEMMA Positions ==
    /\ DOMAIN Script = 1 .. Len(Script) /\ Len(Script) \in Nat /\ Len(Script) >= 1
    /\ \A i \in DOMAIN Script : WellPlaced(Script, i) /\ Proper(Script[i])
<1>1. IsScript(Script) /\ Len(Script) \in Nat /\ Len(Script) >= 1
  BY WholeScript
<1>2. Script \in Seq(Elements(Script))
  BY <1>1 DEF IsScript, Listed
<1>3. DOMAIN Script = 1 .. Len(Script)
  BY <1>2
<1> QED
  BY <1>1, <1>3 DEF IsScript, WellPlaced

LEMMA WantOf ==
    ASSUME NEW i \in DOMAIN Script
    PROVE  Want(Script[i].name) = IF Script[i].op \in Expecting THEN "expected_error" ELSE "success"
<1>1. \A j \in DOMAIN Script : Script[j].op \in Expecting <=> Script[j].name \in Failures
  BY Positions DEF Proper
<1> QED
  BY <1>1 DEF Want

\* One call further on, what was written, issued, ensured or left before it is
\* what the call itself did or was there already.
LEMMA OneFurther ==
    ASSUME NEW i \in DOMAIN Script
    PROVE  /\ \A r \in Role, f \in Field, v \in {"valid", "invalid"} : Written(Script, i + 1, r, f, v) =>
                 \/ Script[i].op = "role" /\ Script[i].of = r /\ Script[i].statements[f] = v
                 \/ /\ Written(Script, i, r, f, v)
                    /\ Script[i].op = "role" /\ Script[i].of = r =>
                          Script[i].statements[f] \in {v, "keep"}
           /\ \A l \in Lease : Issued(Script, i + 1, l) =>
                 \/ Script[i].op = "issue" /\ Script[i].of = l
                 \/ Issued(Script, i, l) /\ ~(Script[i].op = "revoke" /\ Script[i].of = l)
           /\ Ensured(Script, i + 1) =>
                 \/ Script[i].op = "create" /\ Script[i].of = "database"
                 \/ Ensured(Script, i) /\ Script[i].op \notin Swap
           /\ AtRoot(Script, i + 1) =>
                 \/ AtRoot(Script, i) /\ Script[i].op \notin Swap
                 \/ /\ i - 1 \in DOMAIN Script /\ Script[i - 1].op = "leave"
                    /\ Script[i].op = "leave"
<1>1. i \in Nat /\ i >= 1 /\ DOMAIN Script = 1 .. Len(Script) /\ Len(Script) \in Nat
  BY Positions
<1>0. (i + 1) - 1 = i
  BY <1>1
<1>2. ASSUME NEW r \in Role, NEW f \in Field, NEW v \in {"valid", "invalid"},
             Written(Script, i + 1, r, f, v)
      PROVE  \/ Script[i].op = "role" /\ Script[i].of = r /\ Script[i].statements[f] = v
             \/ /\ Written(Script, i, r, f, v)
                /\ Script[i].op = "role" /\ Script[i].of = r =>
                      Script[i].statements[f] \in {v, "keep"}
  <2>1. PICK j \in 1 .. i :
           /\ Script[j].op = "role" /\ Script[j].of = r /\ Script[j].statements[f] = v
           /\ \A k \in j + 1 .. i :
                 Script[k].op = "role" /\ Script[k].of = r => Script[k].statements[f] \in {v, "keep"}
    BY <1>0, <1>2 DEF Written
  <2>2. CASE j = i
    BY <2>1, <2>2
  <2>3. CASE j # i
    <3>1. j \in 1 .. i - 1 /\ i \in j + 1 .. i /\ \A k \in j + 1 .. i - 1 : k \in j + 1 .. i
      BY <1>1, <2>3
    <3> QED
      BY <2>1, <3>1 DEF Written
  <2> QED
    BY <2>2, <2>3
<1>3. ASSUME NEW l \in Lease, Issued(Script, i + 1, l)
      PROVE  \/ Script[i].op = "issue" /\ Script[i].of = l
             \/ Issued(Script, i, l) /\ ~(Script[i].op = "revoke" /\ Script[i].of = l)
  <2>1. PICK j \in 1 .. i :
           /\ Script[j].op = "issue" /\ Script[j].of = l
           /\ \A k \in j + 1 .. i : ~(Script[k].op = "revoke" /\ Script[k].of = l)
    BY <1>0, <1>3 DEF Issued
  <2>2. CASE j = i
    BY <2>1, <2>2
  <2>3. CASE j # i
    <3>1. j \in 1 .. i - 1 /\ i \in j + 1 .. i /\ \A k \in j + 1 .. i - 1 : k \in j + 1 .. i
      BY <1>1, <2>3
    <3> QED
      BY <2>1, <3>1 DEF Issued
  <2> QED
    BY <2>2, <2>3
<1>4. ASSUME Ensured(Script, i + 1)
      PROVE  \/ Script[i].op = "create" /\ Script[i].of = "database"
             \/ Ensured(Script, i) /\ Script[i].op \notin Swap
  <2>1. PICK j \in 1 .. i :
           /\ Script[j].op = "create" /\ Script[j].of = "database"
           /\ \A k \in j + 1 .. i : Script[k].op \notin Swap
    BY <1>0, <1>4 DEF Ensured, Steady
  <2>2. CASE j = i
    BY <2>1, <2>2
  <2>3. CASE j # i
    <3>1. j \in 1 .. i - 1 /\ i \in j + 1 .. i /\ \A k \in j + 1 .. i - 1 : k \in j + 1 .. i
      BY <1>1, <2>3
    <3> QED
      BY <2>1, <3>1 DEF Ensured, Steady
  <2> QED
    BY <2>2, <2>3
<1>5. ASSUME AtRoot(Script, i + 1)
      PROVE  \/ AtRoot(Script, i) /\ Script[i].op \notin Swap
             \/ /\ i - 1 \in DOMAIN Script /\ Script[i - 1].op = "leave"
                /\ Script[i].op = "leave"
  <2>1. CASE Steady(Script, 1, i + 1)
    <3>1. i \in 1 .. i /\ \A k \in 1 .. i - 1 : k \in 1 .. i
      BY <1>1
    <3> QED
      BY <1>0, <2>1, <3>1 DEF Steady, AtRoot
  <2>2. CASE Returned(Script, i + 1)
    <3>1. PICK j \in 2 .. i :
             /\ Script[j - 1].op = "leave" /\ Script[j].op = "leave"
             /\ \A k \in j + 1 .. i : Script[k].op \notin Swap
      BY <1>0, <2>2 DEF Returned, Steady
    <3>2. CASE j = i
      <4>1. i - 1 \in DOMAIN Script
        BY <1>1, <3>2
      <4> QED
        BY <3>1, <3>2, <4>1
    <3>3. CASE j # i
      <4>1. j \in 2 .. i - 1 /\ i \in j + 1 .. i /\ \A k \in j + 1 .. i - 1 : k \in j + 1 .. i
        BY <1>1, <3>3
      <4> QED
        BY <3>1, <4>1 DEF Returned, Steady, AtRoot
    <3> QED
      BY <3>2, <3>3
  <2> QED
    BY <1>5, <2>1, <2>2 DEF AtRoot
<1> QED
  BY <1>2, <1>3, <1>4, <1>5

\* Before the first call nothing has been done.
LEMMA AtFirst ==
    /\ \A r, f, v : ~Written(Script, 1, r, f, v)
    /\ \A l : ~Issued(Script, 1, l)
    /\ ~Ensured(Script, 1)
BY DEF Written, Issued, Ensured

-----------------------------------------------------------------------------
(***************************************************************************)
(* What a step does.                                                        *)
(***************************************************************************)
LEMMA InitInv == Init => IInv
<1> SUFFICES ASSUME Init PROVE IInv
  OBVIOUS
<1> USE DEF Init
<1>0. 0 \notin DOMAIN Script
  BY Positions
<1>1. TypeOK
  <2>1. pc \in 0 .. Reporting
    BY Positions DEF Reporting
  <2>2. \A r \in {report, disk} : DOMAIN r \subseteq StepName /\ \A n \in DOMAIN r : r[n] \in Status
    BY DEF Empty
  <2>3. roles \in [Role -> [creation : {"valid", "invalid"}, revocation : {"valid", "invalid"},
                            renewal : {"valid", "invalid"}]]
    BY DEF Statements
  <2>4. client \in Namespace /\ mounts \subseteq Namespace \X Mount
    BY DEF Namespace, Mount
  <2>5. tries \in 0 .. MaxRetries /\ faults \in 0 .. MaxFaults
    BY ScenarioAssumption
  <2>6. failed \in BOOLEAN /\ own \in BOOLEAN /\ faulty \in BOOLEAN /\ database \in BOOLEAN
    BY Zenon
  <2> QED
    BY <2>1, <2>2, <2>3, <2>4, <2>5, <2>6 DEF TypeOK
<1>2. SucceedsUndisturbed /\ RunInv /\ OutcomeInv
  BY <1>0 DEF SucceedsUndisturbed, RunInv, OutcomeInv
<1>3. ServerInv
  BY DEF ServerInv, Field, Role, Statements
<1>4. ProgressInv /\ UndisturbedInv
  BY DEF ProgressInv, UndisturbedInv, Active
<1>5. ReportInv
  BY <1>0 DEF ReportInv, Active
<1> QED
  BY <1>1, <1>2, <1>3, <1>4, <1>5 DEF IInv

\* A call ends in one of these ways, whatever the server and the faults do.
Again(s) ==
    /\ pc' = pc /\ failed' = failed /\ report' = report
    /\ NoEffect \/ Effect(s, "orphan")
GivesUp(s) ==
    /\ pc' = Reporting /\ failed' = TRUE
    /\ report' = report \/ (s.op \notin Expecting /\ addStep(s.name, "error"))
Done(s) ==
    /\ pc' = pc + 1 /\ failed' = failed /\ addStep(s.name, "success")
    /\ s.op \notin Expecting \cup Probe /\ Effect(s, "known")
Found(s) ==
    /\ pc' = pc + 2 /\ failed' = failed /\ addStep(s.name, "success")
    /\ s.op \in Probe /\ Effect(s, "known") /\ <<client, s.of>> \in mounts
NotFound(s) ==
    /\ pc' = pc + 1 /\ failed' = failed /\ report' = report
    /\ s.op \in Probe /\ NoEffect
    /\ faulty' \/ <<client, s.of>> \notin mounts
Refused(s) ==
    /\ pc' = pc + 1 /\ failed' = failed /\ addStep(s.name, "expected_error")
    /\ s.op \in Expecting
    /\ NoEffect \/ Effect(s, "orphan")

Ends(s) == Again(s) \/ GivesUp(s) \/ Done(s) \/ Found(s) \/ NotFound(s) \/ Refused(s)

LEMMA Outcomes ==
    ASSUME IInv, Call \/ LoseCall
    PROVE  /\ pc \in DOMAIN Script /\ ~failed /\ ~own /\ result = "none" /\ pc # 0
           /\ Script[pc].op \notin Swap
           /\ UNCHANGED <<client, disk, result, database, own>>
           /\ NoEffect \/ Effect(Script[pc], "known") \/ Effect(Script[pc], "orphan")
           /\ tries' \in 0 .. MaxRetries
           /\ UNCHANGED <<faulty, faults>> \/ (faulty' = TRUE /\ faults' = faults + 1 /\ faults < MaxFaults)
           /\ Ends(Script[pc])
<1> DEFINE s == Script[pc]
<1>1. Calling
  BY DEF Call, LoseCall
<1>2. pc \in DOMAIN Script /\ s.op \notin Swap /\ pc # 0
  BY <1>1, Positions DEF Calling, Swap
<1>3. ~failed /\ ~own /\ result = "none"
  BY <1>2 DEF IInv, RunInv, TypeOK
<1>4. UNCHANGED <<client, disk, result, database, own>>
  BY DEF Call, LoseCall
<1>5. UNCHANGED <<faulty, faults>> \/ (faulty' = TRUE /\ faults' = faults + 1 /\ faults < MaxFaults)
  BY DEF Call, LoseCall, Fault
<1>6. tries \in 0 .. MaxRetries /\ MaxRetries \in Nat
  BY ScenarioAssumption DEF IInv, TypeOK
<1> HIDE DEF s
<1>7. ASSUME Failed(s), NoEffect \/ Effect(s, "orphan"), s.op \in Probe => NoEffect,
             s.op = "lookup-token" => faulty' \/ <<client, s.of>> \notin mounts
      PROVE  Ends(s) /\ tries' = 0
  <2>1. CASE s.op \in Expecting /\ addStep(s.name, "expected_error") /\ Advance(1)
    BY <1>7, <2>1 DEF Ends, Refused, Advance
  <2>2. CASE s.op = "lookup-token" /\ Advance(1) /\ UNCHANGED report
    BY <1>7, <2>2 DEF Ends, NotFound, Advance, Probe
  <2>3. CASE s.op = "reader-login" /\ Stop /\ UNCHANGED report
    BY <2>3 DEF Ends, GivesUp, Stop
  <2>4. CASE /\ s.op \notin Expecting \cup {"lookup-token", "reader-login"}
             /\ addStep(s.name, "error") /\ Stop
    BY <2>4 DEF Ends, GivesUp, Stop
  <2> QED
    BY <1>7, <2>1, <2>2, <2>3, <2>4 DEF Failed
<1>8. ASSUME Repeat(s), NoEffect \/ Effect(s, "orphan"), s.op \in Probe => NoEffect,
             s.op = "lookup-token" => faulty' \/ <<client, s.of>> \notin mounts
      PROVE  Ends(s) /\ tries' \in 0 .. MaxRetries
  <2>1. CASE tries < MaxRetries
    BY <1>6, <1>8, <2>1 DEF Repeat, Ends, Again
  <2>2. CASE ~(tries < MaxRetries)
    BY <1>6, <1>7, <1>8, <2>2 DEF Repeat
  <2> QED
    BY <2>1, <2>2
<1>9. ASSUME NEW k, Effect(s, k), s.op \in Probe PROVE NoEffect
  BY <1>9 DEF Effect, NoEffect, Probe
<1>10. CASE Denied(s) /\ NoEffect /\ Failed(s)
  <2>1. s.op = "lookup-token" => <<client, s.of>> \notin mounts
    BY <1>10 DEF Denied
  <2> QED
    BY <1>2, <1>3, <1>4, <1>5, <1>6, <1>7, <1>10, <2>1 DEF s
<1>11. CASE ~Denied(s) /\ Broken(s) /\ NoEffect /\ Repeat(s)
  <2>1. s.op # "lookup-token"
    BY <1>11 DEF Broken
  <2> QED
    BY <1>2, <1>3, <1>4, <1>5, <1>8, <1>11, <2>1 DEF s
<1>12. CASE ~Denied(s) /\ ~Broken(s) /\ Effect(s, "known") /\ Succeeded(s)
  <2>1. s.op = "lookup-token" => <<client, s.of>> \in mounts
    BY <1>12 DEF Denied
  <2>2. ASSUME s.op \in Expecting, Stop, UNCHANGED report
        PROVE  Ends(s)
    BY <1>12, <2>2 DEF Ends, GivesUp, Stop
  <2>3. ASSUME s.op = "probe", <<client, s.of>> \notin mounts, Advance(1), UNCHANGED report
        PROVE  Ends(s)
    <3>1. NoEffect
      BY <1>9, <1>12, <2>3 DEF Probe
    <3> QED
      BY <2>3, <3>1 DEF Ends, NotFound, Advance, Probe
  <2>4. ASSUME s.op = "lookup-token" \/ (s.op = "probe" /\ <<client, s.of>> \in mounts),
               addStep(s.name, "success"), Advance(2)
        PROVE  Ends(s)
    BY <1>12, <2>1, <2>4 DEF Ends, Found, Advance, Probe
  <2>5. ASSUME s.op \notin Expecting \cup {"probe", "lookup-token"},
               addStep(s.name, "success"), Advance(1)
        PROVE  Ends(s)
    BY <1>12, <2>5 DEF Ends, Done, Advance, Probe
  <2>6. tries' = 0 /\ Ends(s)
    BY <1>12, <2>2, <2>3, <2>4, <2>5 DEF Succeeded, Stop, Advance
  <2> QED
    BY <1>2, <1>3, <1>4, <1>5, <1>6, <1>12, <2>6 DEF s
<1>13. CASE LoseCall
  <2>1. faulty' = TRUE /\ Repeat(s) /\ (NoEffect \/ Effect(s, "orphan"))
    BY <1>13 DEF LoseCall, Fault, s
  <2>2. s.op \in Probe => NoEffect
    BY <1>9, <2>1
  <2> QED
    BY <1>2, <1>3, <1>4, <1>5, <1>8, <2>1, <2>2 DEF s
<1> QED
  BY <1>10, <1>11, <1>12, <1>13 DEF Call, s

LEMMA TypeStep ==
    ASSUME IInv, [Next]_vars
    PROVE  TypeOK'
<1> USE DEF IInv
<1>1. CASE Call \/ LoseCall
  <2> DEFINE s == Script[pc]
  <2>1. /\ pc \in DOMAIN Script /\ s \in {Script[i] : i \in DOMAIN Script}
        /\ NoEffect \/ Effect(s, "known") \/ Effect(s, "orphan")
        /\ UNCHANGED <<client, disk, result, database, own>>
        /\ Ends(s) /\ tries' \in 0 .. MaxRetries
        /\ UNCHANGED <<faulty, faults>> \/ (faulty' = TRUE /\ faults' = faults + 1 /\ faults < MaxFaults)
    BY <1>1, Outcomes
  <2>2. WellPlaced(Script, pc) /\ Proper(s) /\ pc \in 1 .. Len(Script) /\ Len(Script) \in Nat
    BY <2>1, Positions
  <2>3. s.name \in StepName
    BY <2>1 DEF StepName
  <2>4. s.op \in Probe => pc + 1 \in 1 .. Len(Script)
    BY <2>2 DEF WellPlaced
  <2> HIDE DEF s
  <2>5. pc' \in 0 .. Reporting
    BY <2>1, <2>2, <2>4 DEF Ends, Again, GivesUp, Done, Found, NotFound, Refused, Reporting, TypeOK
  <2>6. failed' \in BOOLEAN
    BY <2>1 DEF Ends, Again, GivesUp, Done, Found, NotFound, Refused, TypeOK
  <2>7. DOMAIN report' \subseteq StepName /\ \A n \in DOMAIN report' : report'[n] \in Status
    <3>1. \A st \in Status : addStep(s.name, st) =>
             DOMAIN report' \subseteq StepName /\ \A n \in DOMAIN report' : report'[n] \in Status
      BY <2>3 DEF addStep, TypeOK
    <3>2. report' = report \/ \E st \in Status : addStep(s.name, st)
      BY <2>1 DEF Ends, Again, GivesUp, Done, Found, NotFound, Refused, Status
    <3> QED
      BY <3>1, <3>2 DEF TypeOK
  <2>8. ASSUME NEW k \in {"known", "orphan"}, Effect(s, k)
        PROVE  /\ mounts' \subseteq Namespace \X Mount /\ leases' \subseteq Lease \X {"known", "orphan"}
               /\ roles' \in [Role -> [creation : {"valid", "invalid"}, revocation : {"valid", "invalid"},
                                       renewal : {"valid", "invalid"}]]
    <3>1. mounts' \subseteq Namespace \X Mount
      BY <2>2, <2>8 DEF Effect, Proper, TypeOK
    <3>2. leases' \subseteq Lease \X {"known", "orphan"}
      BY <2>2, <2>8 DEF Effect, Proper, TypeOK, Lease, Role
    <3>3. ASSUME s.op = "role"
          PROVE  Update(roles[s.of], s.statements) \in
                    [creation : {"valid", "invalid"}, revocation : {"valid", "invalid"},
                     renewal : {"valid", "invalid"}]
      <4>1. s.of \in Role /\ \A f \in Field : s.statements[f] \in {"valid", "invalid", "keep"}
        BY <2>2, <3>3 DEF Proper, Value
      <4>2. roles[s.of] \in [creation : {"valid", "invalid"}, revocation : {"valid", "invalid"},
                             renewal : {"valid", "invalid"}]
        BY <4>1 DEF TypeOK
      <4> QED
        BY <4>1, <4>2 DEF Update, Field
    <3>4. roles' \in [Role -> [creation : {"valid", "invalid"}, revocation : {"valid", "invalid"},
                               renewal : {"valid", "invalid"}]]
      BY <2>8, <3>3 DEF Effect, TypeOK
    <3> QED
      BY <3>1, <3>2, <3>4
  <2>9. /\ mounts' \subseteq Namespace \X Mount /\ leases' \subseteq Lease \X {"known", "orphan"}
        /\ roles' \in [Role -> [creation : {"valid", "invalid"}, revocation : {"valid", "invalid"},
                                renewal : {"valid", "invalid"}]]
    BY <2>1, <2>8 DEF NoEffect, TypeOK
  <2>10. faulty' \in BOOLEAN /\ own' \in BOOLEAN /\ database' \in BOOLEAN
    BY <2>1, Zenon DEF TypeOK
  <2>11. faults' \in 0 .. MaxFaults
    BY <2>1, ScenarioAssumption DEF TypeOK
  <2> QED
    BY <2>1, <2>5, <2>6, <2>7, <2>9, <2>10, <2>11 DEF TypeOK
<1>2. CASE SwapClient
  <2>1. pc \in 1 .. Len(Script) /\ Len(Script) \in Nat /\ Proper(Script[pc])
    BY <1>2, Positions DEF SwapClient
  <2>2. client' \in Namespace
    BY <1>2, <2>1 DEF SwapClient, Proper, Namespace
  <2> QED
    BY <1>2, <2>1, <2>2, ScenarioAssumption
    DEF SwapClient, Advance, Reporting, server, TypeOK
<1>3. CASE Start
  <2>1. 1 \in 0 .. Reporting
    BY Positions DEF Reporting
  <2>2. DOMAIN report' \subseteq StepName /\ \A n \in DOMAIN report' : report'[n] \in Status
    BY <1>3 DEF Start, Empty
  <2>3. leases' \subseteq Lease \X {"known", "orphan"}
    <3> SUFFICES ASSUME NEW l \in leases PROVE <<l[1], "orphan">> \in Lease \X {"known", "orphan"}
      BY <1>3 DEF Start
    <3> QED
      BY DEF TypeOK
  <2>4. failed' \in BOOLEAN /\ own' \in BOOLEAN /\ faulty' \in BOOLEAN
    BY <1>3, Zenon DEF Start, TypeOK
  <2> QED
    BY <1>3, <2>1, <2>2, <2>3, <2>4, ScenarioAssumption DEF Start, Namespace, TypeOK
<1>4. CASE writeReport
  <2>1. own' \in BOOLEAN
    BY <1>4, Zenon DEF writeReport
  <2> QED
    BY <1>4, <2>1, Positions DEF writeReport, server, Reporting, TypeOK
<1>5. CASE FailReport \/ Kill
  <2>1. faulty' \in BOOLEAN
    BY <1>5, Zenon DEF FailReport, Kill, Fault
  <2>2. faults' \in 0 .. MaxFaults
    BY <1>5, ScenarioAssumption DEF FailReport, Kill, Fault, TypeOK
  <2>3. DOMAIN disk' \subseteq StepName /\ \A n \in DOMAIN disk' : disk'[n] \in Status
    BY <1>5 DEF FailReport, Kill, Empty, TypeOK
  <2> QED
    BY <1>5, <2>1, <2>2, <2>3, Positions DEF FailReport, Kill, server, Reporting, TypeOK
<1>6. CASE DatabaseDown
  <2>1. faulty' \in BOOLEAN /\ database' \in BOOLEAN
    BY <1>6, Zenon DEF DatabaseDown, Fault
  <2> QED
    BY <1>6, <2>1, ScenarioAssumption DEF DatabaseDown, Fault, TypeOK
<1>7. CASE DatabaseUp
  <2>1. database' \in BOOLEAN
    BY <1>7, Zenon DEF DatabaseUp
  <2> QED
    BY <1>7, <2>1 DEF DatabaseUp, TypeOK
<1>8. ASSUME NEW lease \in Lease, NEW knower \in {"known", "orphan"}, Expire(lease, knower)
      PROVE  TypeOK'
  <2>1. faulty' \in BOOLEAN
    BY <1>8, Zenon DEF Expire, Fault, TypeOK
  <2>2. faults' \in 0 .. MaxFaults
    BY <1>8, ScenarioAssumption DEF Expire, Fault, TypeOK
  <2> QED
    BY <1>8, <2>1, <2>2 DEF Expire, TypeOK
<1>9. CASE UNCHANGED vars
  BY <1>9 DEF vars, server, TypeOK
<1> QED
  BY <1>1, <1>2, <1>3, <1>4, <1>5, <1>6, <1>7, <1>8, <1>9 DEF Next, Run

LEMMA RunStep ==
    ASSUME IInv, [Next]_vars
    PROVE  RunInv'
<1> USE DEF IInv
<1>0. /\ DOMAIN Script = 1 .. Len(Script) /\ Len(Script) \in Nat /\ Len(Script) >= 1
      /\ Reporting = Len(Script) + 1
  BY Positions DEF Reporting
<1>1. CASE Call \/ LoseCall
  <2>1. /\ ~failed /\ ~own /\ result = "none" /\ own' = own /\ result' = result
        /\ Ends(Script[pc])
    BY <1>1, Outcomes
  <2>2. pc' = Reporting \/ ~failed'
    BY <2>1 DEF Ends, Again, GivesUp, Done, Found, NotFound, Refused
  <2>3. pc' # 0
    <3>1. pc \in DOMAIN Script
      BY <1>1, Outcomes
    <3> QED
      BY <1>0, <2>1, <3>1 DEF Ends, Again, GivesUp, Done, Found, NotFound, Refused
  <2>4. ~own'
    BY <2>1
  <2>5. result # "none" => pc = 0
    BY DEF RunInv
  <2>6. result' # "none" => pc' = 0
    BY <2>1
  <2> QED
    BY <1>0, <2>2, <2>4, <2>6 DEF RunInv
<1>2. CASE SwapClient
  BY <1>0, <1>2 DEF SwapClient, Advance, RunInv
<1>3. CASE Start
  BY <1>0, <1>3 DEF Start, RunInv
<1>4. CASE writeReport \/ FailReport \/ Kill
  <2>1. pc' = 0
    BY <1>4 DEF writeReport, FailReport, Kill
  <2> QED
    BY <1>0, <2>1 DEF RunInv
<1>5. CASE DatabaseDown \/ DatabaseUp
  BY <1>5 DEF DatabaseDown, DatabaseUp, RunInv
<1>6. ASSUME NEW lease \in Lease, NEW knower \in {"known", "orphan"}, Expire(lease, knower)
      PROVE  RunInv'
  BY <1>6 DEF Expire, RunInv
<1>7. CASE UNCHANGED vars
  BY <1>7 DEF vars, RunInv
<1> QED
  BY <1>1, <1>2, <1>3, <1>4, <1>5, <1>6, <1>7 DEF Next, Run

LEMMA ServerStep ==
    ASSUME IInv, [Next]_vars
    PROVE  ServerInv'
<1> USE DEF IInv
<1>1. CASE Call \/ LoseCall
  <2> DEFINE s == Script[pc]
  <2>1. pc \in DOMAIN Script /\ (NoEffect \/ Effect(s, "known") \/ Effect(s, "orphan"))
    BY <1>1, Outcomes
  <2>2. Proper(s)
    BY <2>1, Positions
  <2> HIDE DEF s
  <2>3. ASSUME NEW k, Effect(s, k) PROVE ServerInv'
    <3>1. <<"root", "database">> \in mounts'
      BY <2>3 DEF Effect, ServerInv
    <3>2. roles'["readonly"] = roles["readonly"]
      BY <2>2, <2>3 DEF Effect, Proper, TypeOK, Role
    <3>3. roles'["ns-readonly"].renewal = "valid"
      <4>1. CASE s.op = "role" /\ s.of = "ns-readonly"
        <5>1. s.statements["renewal"] \in {"valid", "keep"}
          BY <2>2, <4>1 DEF Proper, Field, Value
        <5>2. /\ roles["ns-readonly"] \in [creation : {"valid", "invalid"},
                     revocation : {"valid", "invalid"}, renewal : {"valid", "invalid"}]
              /\ roles["ns-readonly"].renewal = "valid"
          BY DEF TypeOK, Role, ServerInv
        <5>3. Update(roles["ns-readonly"], s.statements).renewal = "valid"
          BY <5>1, <5>2 DEF Update
        <5>4. roles'["ns-readonly"] = Update(roles["ns-readonly"], s.statements)
          BY <2>3, <4>1 DEF Effect, TypeOK, Role
        <5> QED
          BY <5>3, <5>4
      <4>2. CASE ~(s.op = "role" /\ s.of = "ns-readonly")
        BY <2>3, <4>2 DEF Effect, TypeOK, Role, ServerInv
      <4> QED
        BY <4>1, <4>2
    <3> QED
      BY <3>1, <3>2, <3>3 DEF ServerInv
  <2>4. CASE NoEffect
    BY <2>4 DEF NoEffect, ServerInv
  <2> QED
    BY <2>1, <2>3, <2>4
<1>2. CASE SwapClient \/ Start \/ writeReport
  BY <1>2 DEF SwapClient, Start, writeReport, server, ServerInv
<1>3. CASE FailReport \/ Kill \/ DatabaseDown \/ DatabaseUp
  BY <1>3 DEF FailReport, Kill, DatabaseDown, DatabaseUp, server, ServerInv
<1>4. ASSUME NEW lease \in Lease, NEW knower \in {"known", "orphan"}, Expire(lease, knower)
      PROVE  ServerInv'
  BY <1>4 DEF Expire, ServerInv
<1>5. CASE UNCHANGED vars
  BY <1>5 DEF vars, server, ServerInv
<1> QED
  BY <1>1, <1>2, <1>3, <1>4, <1>5 DEF Next, Run

\* What a call changes on the server: one role, more mounts, one lease.
LEMMA Effects ==
    ASSUME IInv, pc \in DOMAIN Script, NEW k \in {"known", "orphan"}, Effect(Script[pc], k)
    PROVE  /\ mounts \subseteq mounts'
           /\ Script[pc].op = "create" => <<client, Script[pc].of>> \in mounts'
           /\ Script[pc].op # "create" => mounts' = mounts
           /\ \A r \in Role : ~(Script[pc].op = "role" /\ Script[pc].of = r) => roles'[r] = roles[r]
           /\ \A r \in Role, f \in Field : Script[pc].op = "role" /\ Script[pc].of = r =>
                 roles'[r][f] = IF Script[pc].statements[f] = "keep" THEN roles[r][f]
                                ELSE Script[pc].statements[f]
           /\ \A l \in Lease : Live(l)' =>
                 Live(l) \/ (k = "known" /\ Script[pc].op = "issue" /\ Script[pc].of = l)
           /\ \A l \in Lease : Live(l)' => ~(Script[pc].op = "revoke" /\ Script[pc].of = l)
           /\ \A l \in Lease : Live(l) =>
                 Live(l)' \/ (Script[pc].op \in {"revoke", "expect-revoke"} /\ Script[pc].of = l)
           /\ \A l \in Lease : k = "known" /\ Script[pc].op = "issue" /\ Script[pc].of = l => Live(l)'
<1> DEFINE s == Script[pc]
<1>1. Proper(s)
  BY Positions
<1>2. Effect(s, k)
  OBVIOUS
<1> HIDE DEF s
<1>3. /\ mounts \subseteq mounts'
      /\ s.op = "create" => <<client, s.of>> \in mounts'
      /\ s.op # "create" => mounts' = mounts
  BY <1>2 DEF Effect
<1>4. ASSUME NEW r \in Role, ~(s.op = "role" /\ s.of = r)
      PROVE  roles'[r] = roles[r]
  BY <1>2, <1>4 DEF Effect, IInv, TypeOK
<1>5. ASSUME NEW r \in Role, NEW f \in Field, s.op = "role" /\ s.of = r
      PROVE  roles'[r][f] = IF s.statements[f] = "keep" THEN roles[r][f] ELSE s.statements[f]
  <2>1. roles' = [roles EXCEPT ![r] = Update(@, s.statements)]
    BY <1>2, <1>5 DEF Effect
  <2>2. roles \in [Role -> [creation : {"valid", "invalid"}, revocation : {"valid", "invalid"},
                            renewal : {"valid", "invalid"}]]
    BY DEF IInv, TypeOK
  <2>3. roles'[r] = Update(roles[r], s.statements) /\ DOMAIN roles[r] = Field
    BY <2>1, <2>2 DEF Field
  <2> QED
    BY <2>3 DEF Update
<1>6. ASSUME NEW l \in Lease
      PROVE  /\ Live(l)' => Live(l) \/ (k = "known" /\ s.op = "issue" /\ s.of = l)
             /\ Live(l)' => ~(s.op = "revoke" /\ s.of = l)
             /\ Live(l) => Live(l)' \/ (s.op \in {"revoke", "expect-revoke"} /\ s.of = l)
             /\ k = "known" /\ s.op = "issue" /\ s.of = l => Live(l)'
  BY <1>2 DEF Effect, Live
<1> QED
  BY <1>3, <1>4, <1>5, <1>6 DEF s

\* The call after the next one follows a probe that finds its mount.
LEMMA SkipsCreation ==
    ASSUME NEW i \in DOMAIN Script, Script[i].op \in Probe
    PROVE  /\ i + 1 \in DOMAIN Script /\ Script[i + 1].op = "create"
           /\ Script[i + 1].name = Script[i].name /\ Script[i + 1].of = Script[i].of
           /\ i + 2 = (i + 1) + 1 /\ i \in Nat
BY Positions DEF WellPlaced

LEMMA WritesStep ==
    ASSUME IInv, Call \/ LoseCall, Active'
    PROVE  WritesLast'
<1> USE DEF IInv
<1> DEFINE s == Script[pc]
<1>1. /\ pc \in DOMAIN Script /\ Ends(s) /\ ~failed /\ pc # 0
      /\ NoEffect \/ Effect(s, "known") \/ Effect(s, "orphan")
  BY Outcomes
<1>2. WritesLast
  BY <1>1 DEF ProgressInv, Active
<1> SUFFICES ASSUME NEW r \in Role, NEW f \in Field, NEW v \in {"valid", "invalid"},
                    Written(Script, pc', r, f, v)
             PROVE  roles'[r][f] = v \/ Rewriting(r, f)'
  BY DEF WritesLast
<1>3. roles[r][f] \in {"valid", "invalid"}
  BY DEF TypeOK, Field
<1>4. ~(s.op = "role" /\ s.of = r) => roles'[r] = roles[r]
  BY <1>1, Effects DEF NoEffect
<1>5. ASSUME s.op = "role", s.of = r
      PROVE  \/ roles'[r][f] = roles[r][f]
             \/ roles'[r][f] = s.statements[f]
  BY <1>1, <1>5, Effects DEF NoEffect
<1>6. ASSUME NEW k \in {"known", "orphan"}, Effect(s, k), s.op = "role", s.of = r
      PROVE  roles'[r][f] = IF s.statements[f] = "keep" THEN roles[r][f] ELSE s.statements[f]
  BY <1>1, <1>6, Effects
<1>7. Written(Script, pc, r, f, v) /\ ~(s.op = "role" /\ s.of = r) => roles'[r][f] = v
  BY <1>2, <1>4 DEF WritesLast, Rewriting
<1>8. CASE Again(s)
  <2>1. pc' = pc /\ (NoEffect \/ Effect(s, "orphan"))
    BY <1>8 DEF Again
  <2>2. roles[r][f] = v \/ Rewriting(r, f)
    BY <1>2, <2>1 DEF WritesLast
  <2>3. CASE s.op = "role" /\ s.of = r
    <3>1. CASE roles'[r][f] = s.statements[f]
      BY <1>1, <2>1, <2>3, <3>1 DEF Rewriting
    <3>2. CASE roles'[r][f] = roles[r][f]
      BY <1>1, <2>1, <2>2, <2>3, <3>2 DEF Rewriting
    <3> QED
      BY <1>5, <2>3, <3>1, <3>2
  <2>4. CASE ~(s.op = "role" /\ s.of = r)
    BY <1>7, <2>1, <2>4
  <2> QED
    BY <2>3, <2>4
<1>9. CASE pc' = pc + 1 /\ (Done(s) \/ NotFound(s) \/ Refused(s))
  <2>1. \/ s.op = "role" /\ s.of = r /\ s.statements[f] = v
        \/ /\ Written(Script, pc, r, f, v)
           /\ s.op = "role" /\ s.of = r => s.statements[f] \in {v, "keep"}
    BY <1>1, <1>9, OneFurther
  <2>2. CASE s.op = "role" /\ s.of = r
    <3>1. Effect(s, "known")
      BY <1>9, <2>2 DEF Done, NotFound, Refused, Probe, Expecting
    <3>2. roles'[r][f] = IF s.statements[f] = "keep" THEN roles[r][f] ELSE s.statements[f]
      BY <1>6, <2>2, <3>1
    <3>3. CASE s.statements[f] = v
      BY <3>2, <3>3
    <3>4. CASE s.statements[f] = "keep"
      <4>1. Written(Script, pc, r, f, v)
        BY <2>1, <2>2, <3>4
      <4>2. roles[r][f] = v
        BY <1>2, <1>3, <2>2, <3>4, <4>1 DEF WritesLast, Rewriting
      <4> QED
        BY <3>2, <3>4, <4>2
    <3> QED
      BY <2>1, <2>2, <3>3, <3>4
  <2>3. CASE ~(s.op = "role" /\ s.of = r)
    BY <1>7, <2>1, <2>3
  <2> QED
    BY <2>2, <2>3
<1>10. CASE Found(s)
  <2>1. s.op \in Probe /\ pc' = pc + 2
    BY <1>10 DEF Found
  <2>2. pc + 1 \in DOMAIN Script /\ Script[pc + 1].op = "create" /\ pc' = (pc + 1) + 1
    BY <1>1, <2>1, SkipsCreation
  <2>3. Written(Script, pc + 1, r, f, v)
    BY <2>2, OneFurther
  <2>4. Written(Script, pc, r, f, v)
    BY <1>1, <2>1, <2>3, OneFurther DEF Probe
  <2> QED
    BY <1>7, <2>1, <2>4 DEF Probe
<1>11. ~GivesUp(s)
  BY DEF GivesUp, Active
<1> QED
  BY <1>1, <1>8, <1>9, <1>10, <1>11 DEF Ends, Done, NotFound, Refused

LEMMA MountsStep ==
    ASSUME IInv, Call \/ LoseCall, Active'
    PROVE  MountsLast'
<1> USE DEF IInv
<1> DEFINE s == Script[pc]
<1>1. /\ pc \in DOMAIN Script /\ Ends(s) /\ ~failed /\ pc # 0 /\ client' = client
      /\ NoEffect \/ Effect(s, "known") \/ Effect(s, "orphan")
  BY Outcomes
<1>2. MountsLast
  BY <1>1 DEF ProgressInv, Active
<1>3. mounts \subseteq mounts'
  BY <1>1, Effects DEF NoEffect
<1> SUFFICES ASSUME Ensured(Script, pc') PROVE <<client, "database">> \in mounts'
  BY <1>1 DEF MountsLast
<1>4. CASE Again(s)
  BY <1>2, <1>3, <1>4 DEF Again, MountsLast
<1>5. CASE pc' = pc + 1 /\ (Done(s) \/ NotFound(s) \/ Refused(s))
  <2>1. (s.op = "create" /\ s.of = "database") \/ Ensured(Script, pc)
    BY <1>1, <1>5, OneFurther
  <2>2. CASE s.op = "create" /\ s.of = "database"
    <3>1. Effect(s, "known")
      BY <1>5, <2>2 DEF Done, NotFound, Refused, Probe, Expecting
    <3> QED
      BY <1>1, <2>2, <3>1, Effects
  <2> QED
    BY <1>2, <1>3, <2>1, <2>2 DEF MountsLast
<1>6. CASE Found(s)
  <2>1. s.op \in Probe /\ pc' = pc + 2 /\ <<client, s.of>> \in mounts
    BY <1>6 DEF Found
  <2>2. /\ pc + 1 \in DOMAIN Script /\ Script[pc + 1].op = "create" /\ pc' = (pc + 1) + 1
        /\ Script[pc + 1].of = s.of
    BY <1>1, <2>1, SkipsCreation
  <2>3. s.of = "database" \/ Ensured(Script, pc + 1)
    BY <2>2, OneFurther
  <2>4. Ensured(Script, pc + 1) => Ensured(Script, pc)
    BY <1>1, <2>1, OneFurther DEF Probe
  <2> QED
    BY <1>2, <1>3, <2>1, <2>3, <2>4 DEF MountsLast
<1>7. ~GivesUp(s)
  BY DEF GivesUp, Active
<1> QED
  BY <1>1, <1>4, <1>5, <1>6, <1>7 DEF Ends, Done, NotFound, Refused

LEMMA ClientStep ==
    ASSUME IInv, Call \/ LoseCall, Active'
    PROVE  ClientReturns'
<1> USE DEF IInv
<1> DEFINE s == Script[pc]
<1>1. /\ pc \in DOMAIN Script /\ Ends(s) /\ ~failed /\ pc # 0 /\ client' = client
      /\ s.op \notin Swap
  BY Outcomes
<1>2. ClientReturns
  BY <1>1 DEF ProgressInv, Active
<1>3. pc \in Nat /\ (pc + 1) - 1 = pc /\ (pc + 2) - 1 = pc + 1
  BY <1>1, Positions
<1>4. AtRoot(Script, pc + 1) => AtRoot(Script, pc)
  BY <1>1, OneFurther DEF Swap
<1>5. CASE Again(s)
  BY <1>1, <1>2, <1>5 DEF Again, ClientReturns
<1>6. CASE pc' = pc + 1
  BY <1>1, <1>2, <1>3, <1>4, <1>6 DEF ClientReturns, Swap
<1>7. CASE Found(s)
  <2>1. s.op \in Probe /\ pc' = pc + 2
    BY <1>7 DEF Found
  <2>2. pc + 1 \in DOMAIN Script /\ Script[pc + 1].op = "create" /\ pc' = (pc + 1) + 1
    BY <1>1, <2>1, SkipsCreation
  <2>3. AtRoot(Script, pc') => AtRoot(Script, pc + 1)
    BY <2>2, OneFurther DEF Swap
  <2> QED
    BY <1>1, <1>2, <1>3, <1>4, <2>1, <2>2, <2>3 DEF ClientReturns
<1>8. ~GivesUp(s)
  BY DEF GivesUp, Active
<1> QED
  BY <1>1, <1>5, <1>6, <1>7, <1>8 DEF Ends, Done, NotFound, Refused

LEMMA LeasesStep ==
    ASSUME IInv, Call \/ LoseCall, Active'
    PROVE  LeasesEnd'
<1> USE DEF IInv
<1> DEFINE s == Script[pc]
<1>1. /\ pc \in DOMAIN Script /\ Ends(s) /\ ~failed /\ pc # 0
      /\ NoEffect \/ Effect(s, "known") \/ Effect(s, "orphan")
  BY Outcomes
<1>2. LeasesEnd
  BY <1>1 DEF ProgressInv, Active
<1>3. pc \in 1 .. Len(Script) /\ Len(Script) \in Nat /\ WellPlaced(Script, pc)
  BY <1>1, Positions
<1> SUFFICES ASSUME NEW l \in Lease, Live(l)'
             PROVE  \E j \in pc' .. Len(Script) : Script[j].op = "revoke" /\ Script[j].of = l
  BY DEF LeasesEnd
<1>4. CASE Live(l)
  <2>1. PICK j \in pc .. Len(Script) : Script[j].op = "revoke" /\ Script[j].of = l
    BY <1>2, <1>4 DEF LeasesEnd
  <2>2. CASE Again(s)
    BY <2>1, <2>2 DEF Again
  <2>3. CASE pc' = pc + 1 /\ (Done(s) \/ NotFound(s) \/ Refused(s))
    <3>1. j # pc
      <4> SUFFICES ASSUME j = pc PROVE FALSE
        OBVIOUS
      <4>1. Effect(s, "known")
        BY <2>1, <2>3 DEF Done, NotFound, Refused, Probe, Expecting
      <4> QED
        BY <1>1, <2>1, <4>1, Effects
    <3> QED
      BY <1>3, <2>1, <2>3, <3>1
  <2>4. CASE Found(s)
    <3>1. s.op \in Probe /\ pc' = pc + 2
      BY <2>4 DEF Found
    <3>2. Script[pc + 1].op = "create"
      BY <1>1, <3>1, SkipsCreation
    <3>3. j # pc /\ j # pc + 1
      BY <2>1, <3>1, <3>2 DEF Probe
    <3> QED
      BY <1>3, <2>1, <3>1, <3>3
  <2>5. ~GivesUp(s)
    BY DEF GivesUp, Active
  <2> QED
    BY <1>1, <2>2, <2>3, <2>4, <2>5 DEF Ends, Done, NotFound, Refused
<1>5. CASE ~Live(l)
  <2>1. Effect(s, "known") /\ s.op = "issue" /\ s.of = l
    <3>1. ~NoEffect
      BY <1>5 DEF NoEffect, Live
    <3>2. ~Effect(s, "orphan")
      BY <1>1, <1>5, Effects
    <3> QED
      BY <1>1, <1>5, <3>1, <3>2, Effects
  <2>2. PICK j \in pc + 1 .. Len(Script) : Script[j].op = "revoke" /\ Script[j].of = l
    BY <1>3, <2>1 DEF WellPlaced
  <2>3. pc' = pc \/ pc' = pc + 1
    <3>1. ~Found(s) /\ ~GivesUp(s)
      BY <2>1 DEF Found, GivesUp, Active, Probe
    <3> QED
      BY <1>1, <3>1 DEF Ends, Again, Done, NotFound, Refused
  <2> QED
    BY <1>3, <2>2, <2>3
<1> QED
  BY <1>4, <1>5

LEMMA ProgressStep ==
    ASSUME IInv, [Next]_vars
    PROVE  ProgressInv'
<1> SUFFICES ASSUME Active' PROVE (WritesLast /\ MountsLast /\ ClientReturns /\ LeasesEnd)'
  BY DEF ProgressInv
<1> USE DEF IInv
<1>1. CASE Call \/ LoseCall
  BY <1>1, WritesStep, MountsStep, ClientStep, LeasesStep
<1>2. CASE SwapClient
  <2> DEFINE s == Script[pc]
  <2>1. /\ pc \in DOMAIN Script /\ s.op \in Swap /\ pc' = pc + 1 /\ pc # 0 /\ failed' = failed
        /\ client' = IF s.op = "enter" THEN s.of ELSE IF client = "payments" THEN "team-a" ELSE "root"
        /\ UNCHANGED <<mounts, roles, leases>>
    BY <1>2, Positions DEF SwapClient, Advance, Swap, server
  <2>2. WritesLast /\ MountsLast /\ ClientReturns /\ LeasesEnd
    BY <2>1 DEF ProgressInv, Active
  <2>3. pc \in 1 .. Len(Script) /\ Len(Script) \in Nat /\ (pc + 1) - 1 = pc
    BY <2>1, Positions
  <2>4. WritesLast'
    <3> SUFFICES ASSUME NEW r \in Role, NEW f \in Field, NEW v \in {"valid", "invalid"},
                        Written(Script, pc + 1, r, f, v)
                 PROVE  roles[r][f] = v
      BY <2>1 DEF WritesLast
    <3>1. Written(Script, pc, r, f, v)
      BY <2>1, OneFurther DEF Swap
    <3> QED
      BY <2>1, <2>2, <3>1 DEF WritesLast, Rewriting, Swap
  <2>5. MountsLast'
    BY <2>1, OneFurther DEF MountsLast, Swap
  <2>6. ClientReturns'
    BY <2>1, <2>2, <2>3, OneFurther DEF ClientReturns, Swap
  <2>7. LeasesEnd'
    <3> SUFFICES ASSUME NEW l \in Lease, Live(l)
                 PROVE  \E j \in pc + 1 .. Len(Script) : Script[j].op = "revoke" /\ Script[j].of = l
      BY <2>1 DEF LeasesEnd, Live
    <3>1. PICK j \in pc .. Len(Script) : Script[j].op = "revoke" /\ Script[j].of = l
      BY <2>2 DEF LeasesEnd
    <3>2. j # pc
      BY <2>1, <3>1 DEF Swap
    <3> QED
      BY <2>3, <3>1, <3>2
  <2> QED
    BY <2>4, <2>5, <2>6, <2>7
<1>3. CASE Start
  <2>1. pc' = 1 /\ client' = "root" /\ leases' = {<<l[1], "orphan">> : l \in leases}
    BY <1>3 DEF Start
  <2>2. WritesLast' /\ MountsLast'
    BY <2>1, AtFirst DEF WritesLast, MountsLast
  <2>3. ClientReturns'
    BY <2>1, Positions DEF ClientReturns
  <2>4. LeasesEnd'
    BY <2>1 DEF LeasesEnd, Live
  <2> QED
    BY <2>2, <2>3, <2>4
<1>4. CASE writeReport \/ FailReport \/ Kill
  BY <1>4 DEF writeReport, FailReport, Kill, Active
<1>5. CASE DatabaseDown \/ DatabaseUp \/ UNCHANGED vars
  <2>1. UNCHANGED <<pc, failed, client, mounts, roles, leases>>
    BY <1>5 DEF DatabaseDown, DatabaseUp, vars, server
  <2> QED
    BY <2>1 DEF ProgressInv, Active, WritesLast, MountsLast, ClientReturns, LeasesEnd, Rewriting, Live
<1>6. ASSUME NEW lease \in Lease, NEW knower \in {"known", "orphan"}, Expire(lease, knower)
      PROVE  (WritesLast /\ MountsLast /\ ClientReturns /\ LeasesEnd)'
  <2>1. UNCHANGED <<pc, failed, client, mounts, roles>> /\ leases' \subseteq leases
    BY <1>6 DEF Expire
  <2> QED
    BY <2>1 DEF ProgressInv, Active, WritesLast, MountsLast, ClientReturns, LeasesEnd, Rewriting, Live
<1> QED
  BY <1>1, <1>2, <1>3, <1>4, <1>5, <1>6 DEF Next, Run

\* Undisturbed, a call that is not meant to fail finds what it needs, and one
\* that is meant to fail fails.
LEMMA Needs ==
    ASSUME IInv, ~faulty, Calling
    PROVE  LET s == Script[pc]
           IN /\ s.op \notin Expecting => ~Broken(s) /\ (Denied(s) => s.op = "lookup-token")
              /\ s.op \in Expecting => Denied(s) \/ Broken(s)
<1> DEFINE s == Script[pc]
<1> USE DEF IInv
<1>1. /\ pc \in DOMAIN Script /\ pc # 0 /\ s.op \notin Swap
      /\ WellPlaced(Script, pc) /\ Proper(s)
  BY Positions DEF Calling, Swap
<1>2. /\ ~failed /\ database
      /\ \A l \in Lease : Issued(Script, pc, l) => Live(l)
      /\ s.op = "create" => <<client, s.of>> \notin mounts
  BY <1>1 DEF UndisturbedInv
<1>3. WritesLast /\ MountsLast /\ ClientReturns
  BY <1>1, <1>2 DEF ProgressInv, Active
<1>4. Mounted(Script, pc) => <<client, "database">> \in mounts
  BY <1>3 DEF Mounted, MountsLast, ClientReturns, ServerInv
<1>5. s.op # "role" =>
         \A r \in Role, f \in Field, v \in {"valid", "invalid"} :
            Written(Script, pc, r, f, v) => roles[r][f] = v
  BY <1>3 DEF WritesLast, Rewriting
<1>6. /\ s.op \in {"lookup", "renew", "expect-revoke"} => Issued(Script, pc, s.of)
      /\ s.op = "role" \/ (s.op = "issue" /\ s.of \in Role) => Mounted(Script, pc)
      /\ s.op = "issue" /\ s.of \in Role /\ s.of # "readonly" =>
            Written(Script, pc, s.of, "creation", "valid")
      /\ s.op = "revoke" /\ s.of \in Role /\ s.of # "readonly" =>
            Written(Script, pc, s.of, "revocation", "valid")
      /\ s.op = "expect-issue" => Written(Script, pc, s.of, "creation", "invalid")
      /\ s.op = "expect-renew" => Written(Script, pc, s.of, "renewal", "invalid")
      /\ s.op = "expect-revoke" => Written(Script, pc, s.of, "revocation", "invalid")
  BY <1>1 DEF WellPlaced
<1>7. /\ s.op \in {"lookup", "renew"} => s.of \in Lease
      /\ s.op \in {"expect-issue", "expect-renew", "expect-revoke"} => s.of \in Role /\ s.of \in Lease
      /\ s.op = "renew" /\ s.of \in Role => s.of \in {"readonly", "ns-readonly"}
  BY <1>1 DEF Proper, Lease
<1>8. /\ roles["readonly"]["creation"] = "valid" /\ roles["readonly"]["revocation"] = "valid"
      /\ roles["readonly"]["renewal"] = "valid" /\ roles["ns-readonly"]["renewal"] = "valid"
  BY DEF ServerInv, Field
<1> HIDE DEF s
<1>9. ASSUME s.op \notin Expecting, Denied(s)
      PROVE  s.op = "lookup-token"
  <2>1. s.op # "expect" /\ s.op # "expect-issue" /\ s.op # "expect-renew"
    BY <1>9 DEF Expecting
  <2>2. s.op \in {"lookup", "renew"} => Live(s.of)
    BY <1>2, <1>6, <1>7
  <2>3. s.op \in {"role", "issue"} /\ s.of \in Role => <<client, "database">> \in mounts
    BY <1>4, <1>6
  <2> QED
    BY <1>2, <1>9, <2>1, <2>2, <2>3 DEF Denied, InDatabase
<1>10. ASSUME s.op \notin Expecting
       PROVE  ~Broken(s)
  <2>1. s.op = "issue" /\ s.of \in Role => roles[s.of]["creation"] = "valid"
    BY <1>5, <1>6, <1>8 DEF Field
  <2>2. s.op = "renew" /\ s.of \in Role => roles[s.of]["renewal"] = "valid"
    BY <1>7, <1>8
  <2>3. s.op = "revoke" /\ s.of \in Role => roles[s.of]["revocation"] = "valid"
    BY <1>5, <1>6, <1>8 DEF Field
  <2> QED
    BY <1>2, <1>10, <2>1, <2>2, <2>3 DEF Broken, InDatabase, Expecting
<1>11. ASSUME s.op \in Expecting
       PROVE  Denied(s) \/ Broken(s)
  <2>1. CASE s.op = "expect"
    BY <2>1 DEF Denied
  <2>2. CASE s.op = "expect-issue"
    <3>1. roles[s.of]["creation"] = "invalid"
      BY <1>5, <1>6, <1>7, <2>2 DEF Field
    <3> QED
      BY <1>7, <2>2, <3>1 DEF Broken, InDatabase
  <2>3. CASE s.op = "expect-renew"
    <3>1. roles[s.of]["renewal"] = "invalid"
      BY <1>5, <1>6, <1>7, <2>3 DEF Field
    <3> QED
      BY <1>7, <2>3, <3>1 DEF Broken, InDatabase
  <2>4. CASE s.op = "expect-revoke"
    <3>1. roles[s.of]["revocation"] = "invalid" /\ Live(s.of)
      BY <1>2, <1>5, <1>6, <1>7, <2>4 DEF Field
    <3> QED
      BY <1>7, <2>4, <3>1 DEF Broken, InDatabase
  <2> QED
    BY <1>11, <2>1, <2>2, <2>3, <2>4 DEF Expecting
<1> QED
  BY <1>9, <1>10, <1>11 DEF s

LEMMA UndisturbedCall ==
    ASSUME IInv, Call, ~faulty'
    PROVE  UndisturbedInv'
<1> USE DEF IInv
<1> DEFINE s == Script[pc]
<1>1. /\ pc \in DOMAIN Script /\ Ends(s) /\ ~failed /\ pc # 0 /\ ~faulty
      /\ client' = client /\ database' = database /\ Calling
  BY Outcomes DEF Call
<1>2. /\ s.op \notin Expecting => ~Broken(s) /\ (Denied(s) => s.op = "lookup-token")
      /\ s.op \in Expecting => Denied(s) \/ Broken(s)
  BY <1>1, Needs
<1>3. /\ database /\ \A l \in Lease : Issued(Script, pc, l) => Live(l)
  BY <1>1 DEF UndisturbedInv
<1>4. /\ pc \in Nat /\ DOMAIN Script = 1 .. Len(Script)
      /\ \A i \in DOMAIN Script : Script[i].op = "create" =>
            i - 1 \in DOMAIN Script /\ Script[i - 1].op \in Probe /\ Script[i - 1].of = Script[i].of
  BY <1>1, Positions DEF WellPlaced
<1> HIDE DEF s
<1>5. ASSUME Failed(s), s.op \in Expecting \/ s.op = "lookup-token"
      PROVE  failed' = failed /\ pc' = pc + 1
  BY <1>5 DEF Failed, Advance, Expecting
<1>6. /\ failed' = failed
      /\ NoEffect \/ (Effect(s, "known") /\ s.op \notin Expecting)
      /\ pc' = pc => NoEffect
  <2>1. CASE Denied(s) /\ NoEffect /\ Failed(s)
    BY <1>2, <1>5, <2>1
  <2>2. CASE ~Denied(s) /\ Broken(s) /\ NoEffect /\ Repeat(s)
    BY <1>2, <1>5, <2>2 DEF Repeat
  <2>3. CASE ~Denied(s) /\ ~Broken(s) /\ Effect(s, "known") /\ Succeeded(s)
    <3>1. s.op \notin Expecting
      BY <1>2, <2>3
    <3>2. failed' = failed /\ (pc' = pc + 1 \/ pc' = pc + 2)
      BY <2>3, <3>1 DEF Succeeded, Advance
    <3> QED
      BY <1>4, <2>3, <3>1, <3>2
  <2> QED
    BY <2>1, <2>2, <2>3 DEF Call, s
<1>7. ~GivesUp(s)
  BY <1>1, <1>6 DEF GivesUp
<1>8. \A l \in Lease : Live(l) => Live(l)' \/ (s.op = "revoke" /\ s.of = l)
  <2>1. CASE NoEffect
    BY <2>1 DEF NoEffect, Live
  <2>2. CASE Effect(s, "known") /\ s.op \notin Expecting
    BY <1>1, <2>2, Effects DEF Expecting, s
  <2> QED
    BY <1>6, <2>1, <2>2
<1>9. ASSUME NEW l \in Lease, Issued(Script, pc', l)
      PROVE  Live(l)'
  <2>1. CASE pc' = pc
    BY <1>3, <1>6, <1>9, <2>1 DEF NoEffect, Live
  <2>2. CASE pc' = pc + 1 /\ (Done(s) \/ NotFound(s) \/ Refused(s))
    <3>1. (s.op = "issue" /\ s.of = l) \/ (Issued(Script, pc, l) /\ ~(s.op = "revoke" /\ s.of = l))
      BY <1>1, <1>9, <2>2, OneFurther DEF s
    <3>2. CASE s.op = "issue" /\ s.of = l
      <4>1. Effect(s, "known")
        BY <2>2, <3>2 DEF Done, NotFound, Refused, Probe, Expecting
      <4> QED
        BY <1>1, <3>2, <4>1, Effects DEF s
    <3> QED
      BY <1>3, <1>8, <3>1, <3>2
  <2>3. CASE Found(s)
    <3>1. s.op \in Probe /\ pc' = pc + 2
      BY <2>3 DEF Found
    <3>2. pc + 1 \in DOMAIN Script /\ Script[pc + 1].op = "create" /\ pc' = (pc + 1) + 1
      BY <1>1, <3>1, SkipsCreation DEF s
    <3>3. Issued(Script, pc + 1, l)
      BY <1>9, <3>2, OneFurther
    <3>4. Issued(Script, pc, l)
      BY <1>1, <3>1, <3>3, OneFurther DEF Probe, s
    <3> QED
      BY <1>3, <1>8, <3>1, <3>4 DEF Probe
  <2> QED
    BY <1>1, <1>7, <2>1, <2>2, <2>3 DEF Ends, Again, Done, NotFound, Refused
<1>10. ASSUME pc' \in DOMAIN Script, Script[pc'].op = "create"
       PROVE  <<client, Script[pc'].of>> \notin mounts'
  <2>1. pc' - 1 \in DOMAIN Script /\ Script[pc' - 1].op \in Probe
        /\ Script[pc' - 1].of = Script[pc'].of
    BY <1>4, <1>10
  <2>2. CASE pc' = pc
    BY <1>1, <1>6, <1>10, <2>2 DEF UndisturbedInv, NoEffect
  <2>3. CASE pc' = pc + 1 /\ (Done(s) \/ NotFound(s) \/ Refused(s))
    <3>1. s.op \in Probe /\ s.of = Script[pc'].of
      BY <1>4, <2>1, <2>3 DEF s
    <3>2. NotFound(s)
      BY <2>3, <3>1 DEF Done, Refused, Probe, Expecting
    <3> QED
      BY <1>1, <3>1, <3>2 DEF NotFound, NoEffect
  <2>4. CASE Found(s)
    <3>1. s.op \in Probe /\ pc' = pc + 2
      BY <2>4 DEF Found
    <3>2. Script[pc + 1].op = "create" /\ pc' - 1 = pc + 1
      BY <1>1, <1>4, <3>1, SkipsCreation DEF s
    <3> QED
      BY <2>1, <3>2 DEF Probe
  <2> QED
    BY <1>1, <1>7, <2>2, <2>3, <2>4 DEF Ends, Again, Done, NotFound, Refused
<1> QED
  BY <1>1, <1>3, <1>6, <1>9, <1>10 DEF UndisturbedInv

LEMMA UndisturbedStep ==
    ASSUME IInv, [Next]_vars
    PROVE  UndisturbedInv' /\ SucceedsUndisturbed'
<1> USE DEF IInv
<1>1. CASE Call
  <2>1. result' # "failed"
    BY <1>1, Outcomes
  <2>2. UndisturbedInv'
    BY <1>1, UndisturbedCall DEF UndisturbedInv
  <2> QED
    BY <2>1, <2>2 DEF SucceedsUndisturbed
<1>2. CASE LoseCall \/ FailReport \/ Kill \/ DatabaseDown
  BY <1>2 DEF LoseCall, FailReport, Kill, DatabaseDown, Fault, UndisturbedInv, SucceedsUndisturbed
<1>3. CASE SwapClient
  <2>1. /\ pc \in DOMAIN Script /\ Script[pc].op \in Swap /\ pc' = pc + 1 /\ pc # 0 /\ failed' = failed
        /\ UNCHANGED <<mounts, roles, leases, database, faulty, result>>
    BY <1>3, Positions DEF SwapClient, Advance, Swap, server
  <2>2. /\ pc \in Nat /\ DOMAIN Script = 1 .. Len(Script)
        /\ \A i \in DOMAIN Script : Script[i].op = "create" => Script[i - 1].op \in Probe
    BY <2>1, Positions DEF WellPlaced
  <2>3. ASSUME pc' \in DOMAIN Script PROVE Script[pc'].op # "create"
    <3>1. pc' - 1 = pc
      BY <2>1, <2>2
    <3> QED
      BY <2>1, <2>2, <2>3, <3>1 DEF Probe, Swap
  <2>4. \A l \in Lease : Issued(Script, pc', l) => Issued(Script, pc, l)
    BY <2>1, OneFurther DEF Swap
  <2> QED
    BY <2>1, <2>3, <2>4 DEF UndisturbedInv, SucceedsUndisturbed, Live
<1>4. CASE Start
  <2>1. pc' = 1 /\ failed' = FALSE /\ result' = "none" /\ faulty' = ~database /\ database' = database
    BY <1>4 DEF Start
  <2>2. Script[1].op # "create"
    BY Positions DEF WellPlaced
  <2> QED
    BY <2>1, <2>2, AtFirst DEF UndisturbedInv, SucceedsUndisturbed
<1>5. CASE writeReport
  <2>1. pc # 0
    BY <1>5, Positions DEF writeReport, Reporting
  <2> QED
    BY <1>5, <2>1 DEF writeReport, UndisturbedInv, SucceedsUndisturbed
<1>6. CASE DatabaseUp
  BY <1>6 DEF DatabaseUp, UndisturbedInv, SucceedsUndisturbed
<1>7. ASSUME NEW lease \in Lease, NEW knower \in {"known", "orphan"}, Expire(lease, knower)
      PROVE  UndisturbedInv' /\ SucceedsUndisturbed'
  <2>1. /\ UNCHANGED <<pc, client, failed, result, mounts, database>>
        /\ leases' = leases \ {<<lease, knower>>}
        /\ ~faulty' => ~faulty /\ (pc # 0 => knower = "orphan")
    BY <1>7 DEF Expire, Fault, TypeOK
  <2>2. ~faulty' /\ pc # 0 => \A l \in Lease : Live(l) => Live(l)'
    BY <2>1 DEF Live
  <2> QED
    BY <2>1, <2>2 DEF UndisturbedInv, SucceedsUndisturbed
<1>8. CASE UNCHANGED vars
  BY <1>8 DEF vars, server, UndisturbedInv, SucceedsUndisturbed, Live
<1> QED
  BY <1>1, <1>2, <1>3, <1>4, <1>5, <1>6, <1>7, <1>8 DEF Next, Run

LEMMA ReportCall ==
    ASSUME IInv, Call \/ LoseCall
    PROVE  ReportInv'
<1> USE DEF IInv
<1> DEFINE s == Script[pc]
<1>1. pc \in DOMAIN Script /\ Ends(s) /\ ~failed /\ pc # 0
  BY Outcomes
<1>2. /\ DOMAIN Script = 1 .. Len(Script) /\ Len(Script) \in Nat /\ pc \in 1 .. Len(Script)
      /\ Reporting = Len(Script) + 1
  BY <1>1, Positions DEF Reporting
<1>3. (\A j \in 1 .. pc - 1 : Told(report, j)) /\ Last \notin DOMAIN report
  BY <1>1 DEF ReportInv, Active
<1>4. Want(s.name) = IF s.op \in Expecting THEN "expected_error" ELSE "success"
  BY <1>1, WantOf
<1>5. s.name = Last => s.op = "expect" /\ pc = Len(Script)
  BY <1>1, <1>2, WholeScript
<1>6. s.name = Last <=> Last = s.name
  OBVIOUS
<1> HIDE DEF s
<1>7. ASSUME NEW st, addStep(s.name, st)
      PROVE  /\ s.name # Last => Last \notin DOMAIN report'
             /\ s.name \in DOMAIN report' /\ report'[s.name] = st
             /\ st = Want(s.name) => \A j \in 1 .. pc - 1 : Told(report', j)
  <2>1. /\ DOMAIN report' = DOMAIN report \cup {s.name}
        /\ \A n \in DOMAIN report' : report'[n] = IF n = s.name THEN st ELSE report[n]
    BY <1>7 DEF addStep
  <2>2. ASSUME st = Want(s.name), NEW j \in 1 .. pc - 1
        PROVE  Told(report', j)
    BY <1>3, <2>1, <2>2 DEF Told
  <2> QED
    BY <1>3, <2>1, <2>2
<1>8. CASE Again(s)
  BY <1>1, <1>3, <1>8 DEF Again, ReportInv
<1>9. CASE GivesUp(s)
  <2>1. Last \notin DOMAIN report'
    BY <1>3, <1>5, <1>7, <1>9 DEF GivesUp, Expecting
  <2> QED
    BY <1>9, <2>1 DEF GivesUp, ReportInv, Active
<1>10. CASE Done(s) \/ Refused(s)
  <2>1. PICK st : addStep(s.name, st) /\ st = Want(s.name)
    BY <1>4, <1>10 DEF Done, Refused
  <2>2. pc' = pc + 1 /\ failed' = failed
    BY <1>10 DEF Done, Refused
  <2>3. \A j \in 1 .. pc : Told(report', j)
    <3>1. Told(report', pc)
      BY <1>7, <2>1 DEF Told, s
    <3>2. \A j \in 1 .. pc - 1 : Told(report', j)
      BY <1>7, <2>1
    <3>3. \A j \in 1 .. pc : j = pc \/ j \in 1 .. pc - 1
      BY <1>2
    <3> QED
      BY <3>1, <3>2, <3>3
  <2>4. pc' \in DOMAIN Script \/ failed' => Last \notin DOMAIN report'
    BY <1>1, <1>2, <1>5, <1>7, <2>1, <2>2
  <2>5. \A j \in 1 .. pc' - 1 : j \in 1 .. pc
    BY <1>2, <2>2
  <2> QED
    BY <2>3, <2>4, <2>5 DEF ReportInv
<1>11. CASE Found(s)
  <2>1. pc' = pc + 2 /\ failed' = failed /\ addStep(s.name, "success") /\ s.op \in Probe
    BY <1>11 DEF Found
  <2>2. "success" = Want(s.name)
    BY <1>4, <2>1 DEF Probe, Expecting
  <2>3. pc + 1 \in DOMAIN Script /\ Script[pc + 1].name = s.name
    BY <1>1, <2>1, SkipsCreation DEF s
  <2>4. \A j \in 1 .. pc + 1 : Told(report', j)
    <3>1. Told(report', pc) /\ Told(report', pc + 1)
      BY <1>7, <2>1, <2>2, <2>3 DEF Told, s
    <3>2. \A j \in 1 .. pc - 1 : Told(report', j)
      BY <1>7, <2>1, <2>2
    <3>3. \A j \in 1 .. pc + 1 : j = pc + 1 \/ j = pc \/ j \in 1 .. pc - 1
      BY <1>2
    <3> QED
      BY <3>1, <3>2, <3>3
  <2>5. Last \notin DOMAIN report'
    BY <1>5, <1>7, <2>1 DEF Probe
  <2>6. \A j \in 1 .. pc' - 1 : j \in 1 .. pc + 1
    BY <1>2, <2>1
  <2> QED
    BY <2>4, <2>5, <2>6 DEF ReportInv
<1>12. CASE NotFound(s)
  <2>1. pc' = pc + 1 /\ failed' = failed /\ report' = report /\ s.op \in Probe
    BY <1>12 DEF NotFound
  <2>2. \A j \in 1 .. pc' - 1 : j = pc \/ j \in 1 .. pc - 1
    BY <1>2, <2>1
  <2>3. \A j \in 1 .. pc - 1 : Told(report', j)
    BY <1>3, <2>1
  <2>4. Told(report', pc)
    BY <2>1 DEF Told, s
  <2> QED
    BY <1>3, <2>1, <2>2, <2>3, <2>4 DEF ReportInv
<1> QED
  BY <1>1, <1>8, <1>9, <1>10, <1>11, <1>12 DEF Ends

LEMMA ReportStep ==
    ASSUME IInv, [Next]_vars
    PROVE  ReportInv'
<1> USE DEF IInv
<1>1. CASE Call \/ LoseCall
  BY <1>1, ReportCall
<1>2. CASE SwapClient
  <2>1. /\ pc \in DOMAIN Script /\ Script[pc].op \in Swap /\ pc' = pc + 1 /\ failed' = failed
        /\ report' = report /\ pc # 0
    BY <1>2, Positions DEF SwapClient, Advance, Swap
  <2>2. ~failed /\ pc \in Nat
    BY <2>1, Positions DEF RunInv
  <2>3. \A j \in 1 .. (pc + 1) - 1 : j = pc \/ j \in 1 .. pc - 1
    BY <2>2
  <2>4. ASSUME NEW j \in 1 .. pc' - 1
        PROVE  Told(report', j)
    <3>1. Told(report, pc)
      BY <2>1 DEF Told
    <3> QED
      BY <2>1, <2>2, <2>3, <3>1 DEF ReportInv, Active
  <2>5. Last \notin DOMAIN report'
    BY <2>1 DEF ReportInv
  <2> QED
    BY <2>4, <2>5 DEF ReportInv
<1>3. CASE Start
  <2>1. pc' = 1 /\ DOMAIN report' = {} /\ \A j \in 1 .. pc' - 1 : FALSE
    BY <1>3 DEF Start, Empty
  <2> QED
    BY <2>1 DEF ReportInv
<1>4. CASE writeReport \/ FailReport \/ Kill
  <2>1. pc' = 0 /\ failed' = failed /\ report' = report
    BY <1>4 DEF writeReport, FailReport, Kill
  <2>2. 0 \notin DOMAIN Script
    BY Positions
  <2> QED
    BY <2>1, <2>2 DEF ReportInv, Active
<1>5. CASE DatabaseDown \/ DatabaseUp \/ UNCHANGED vars
  BY <1>5 DEF DatabaseDown, DatabaseUp, vars, ReportInv, Active
<1>6. ASSUME NEW lease \in Lease, NEW knower \in {"known", "orphan"}, Expire(lease, knower)
      PROVE  ReportInv'
  BY <1>6 DEF Expire, ReportInv, Active
<1> QED
  BY <1>1, <1>2, <1>3, <1>4, <1>5, <1>6 DEF Next, Run

\* The report of a run that has made all its calls is accepted; that of a run
\* that saw an error lacks the last step.
LEMMA ReportAccepted ==
    ASSUME IInv, pc = Reporting
    PROVE  Accepted(report) <=> ~failed
<1> USE DEF IInv
<1>1. /\ DOMAIN Script = 1 .. Len(Script) /\ Len(Script) \in Nat /\ Len(Script) >= 1
      /\ pc = Len(Script) + 1 /\ pc # 0
  BY Positions DEF Reporting
<1>2. ASSUME ~failed PROVE Accepted(report)
  <2> SUFFICES ASSUME NEW name \in Expected PROVE name \in DOMAIN report /\ report[name] = Want(name)
    BY DEF Accepted
  <2>1. PICK i \in DOMAIN Script : Script[i].name = name /\ name # "none"
    BY DEF Expected, StepName
  <2>2. \A j \in DOMAIN Script : Script[j].op \notin Probe \cup Swap =>
           Script[j].name \in DOMAIN report /\ report[Script[j].name] = Want(Script[j].name)
    <3>1. \A j \in DOMAIN Script : j \in 1 .. pc - 1
      BY <1>1
    <3> QED
      BY <1>1, <1>2, <3>1 DEF ReportInv, Active, Told
  <2>3. Script[i].op \notin Swap
    BY <2>1, Positions DEF Proper
  <2>4. CASE Script[i].op \in Probe
    <3>1. i + 1 \in DOMAIN Script /\ Script[i + 1].op = "create" /\ Script[i + 1].name = name
      BY <2>1, <2>4, SkipsCreation
    <3> QED
      BY <2>2, <3>1 DEF Probe, Swap
  <2> QED
    BY <2>1, <2>2, <2>3, <2>4
<1>3. ASSUME failed PROVE ~Accepted(report)
  <2>1. Last \in Expected
    <3>1. Last \in StepName
      <4>1. Len(Script) \in DOMAIN Script
        BY <1>1
      <4> QED
        BY <4>1, WholeScript DEF StepName
    <3> QED
      BY <3>1 DEF Expected, Last
  <2> QED
    BY <1>3, <2>1 DEF Accepted, ReportInv
<1> QED
  BY <1>2, <1>3

LEMMA OutcomeStep ==
    ASSUME IInv, [Next]_vars
    PROVE  OutcomeInv'
<1> USE DEF IInv
<1>1. CASE Call \/ LoseCall
  <2>1. result = "none" /\ ~own /\ result' = result /\ own' = own
    BY <1>1, Outcomes
  <2> QED
    BY <2>1 DEF OutcomeInv
<1>2. CASE writeReport
  <2>1. /\ pc = Reporting /\ disk' = report /\ result' = IF failed THEN "failed" ELSE "ok"
        /\ leases' = leases
    BY <1>2 DEF writeReport, server
  <2>2. Accepted(report) <=> ~failed
    BY <2>1, ReportAccepted
  <2>3. ~failed => \A l \in Lease : ~Live(l)
    <3>1. pc = Len(Script) + 1 /\ Len(Script) \in Nat /\ pc # 0
      BY <2>1, Positions DEF Reporting
    <3>2. \A j \in pc .. Len(Script) : FALSE
      BY <3>1
    <3> QED
      BY <3>1, <3>2 DEF ProgressInv, Active, LeasesEnd
  <2>4. Accepted(disk') <=> Accepted(disk)'
    BY DEF Accepted, Want
  <2> QED
    BY <2>1, <2>2, <2>3, <2>4 DEF OutcomeInv, Live
<1>3. CASE Start \/ FailReport \/ Kill
  <2>1. pc # 0 => ~own
    BY DEF RunInv
  <2>2. ~own' /\ result' # "ok"
    BY <1>3, <2>1, Positions DEF Start, FailReport, Kill, Reporting
  <2> QED
    BY <2>2 DEF OutcomeInv
<1>4. CASE SwapClient \/ DatabaseDown \/ DatabaseUp \/ UNCHANGED vars
  <2>1. UNCHANGED <<own, result, disk, leases>>
    BY <1>4 DEF SwapClient, DatabaseDown, DatabaseUp, vars, server
  <2> QED
    BY <2>1 DEF OutcomeInv, Live, Accepted, Want
<1>5. ASSUME NEW lease \in Lease, NEW knower \in {"known", "orphan"}, Expire(lease, knower)
      PROVE  OutcomeInv'
  <2>1. UNCHANGED <<own, result, disk>> /\ leases' \subseteq leases
    BY <1>5 DEF Expire
  <2> QED
    BY <2>1 DEF OutcomeInv, Live, Accepted, Want
<1> QED
  BY <1>1, <1>2, <1>3, <1>4, <1>5 DEF Next, Run

-----------------------------------------------------------------------------
(***************************************************************************)
(* The theorems.                                                            *)
(***************************************************************************)
LEMMA Inductive == Spec => []IInv
<1>1. IInv /\ [Next]_vars => IInv'
  <2> SUFFICES ASSUME IInv, [Next]_vars PROVE IInv'
    OBVIOUS
  <2>1. TypeOK' /\ RunInv' /\ ServerInv' /\ ProgressInv'
    BY TypeStep, RunStep, ServerStep, ProgressStep
  <2>2. UndisturbedInv' /\ SucceedsUndisturbed' /\ ReportInv' /\ OutcomeInv'
    BY UndisturbedStep, ReportStep, OutcomeStep
  <2> QED
    BY <2>1, <2>2 DEF IInv
<1> QED
  BY <1>1, InitInv, PTL DEF Spec

\* The variables of a run and of the server keep their types.
THEOREM TypeCorrect == Spec => []TypeOK
<1>1. IInv => TypeOK
  BY DEF IInv
<1> QED
  BY <1>1, Inductive, PTL

\* A run that nothing disturbs succeeds, whatever earlier runs left behind
\* (run, withClient and the exercise functions of scenario.go): every call finds
\* the mount, role and lease it needs, and every provoked failure happens.
THEOREM UndisturbedRunsSucceed == Spec => []SucceedsUndisturbed
<1>1. IInv => SucceedsUndisturbed
  BY DEF IInv
<1> QED
  BY <1>1, Inductive, PTL

\* A run that reports success, or whose report fixtures verify accepts, has
\* revoked every lease whose ID it was given.
THEOREM LearnedLeasesAreRevoked == Spec => []LearnedLeasesRevoked
<1>1. IInv => LearnedLeasesRevoked
  BY DEF IInv, OutcomeInv, LearnedLeasesRevoked
<1> QED
  BY <1>1, Inductive, PTL

\* checkRaftScenarioReport accepts the report a run wrote exactly when the run
\* succeeded.
THEOREM ReportsTellOutcomes == Spec => []ReportTellsOutcome
<1>1. IInv => ReportTellsOutcome
  BY DEF IInv, OutcomeInv, ReportTellsOutcome
<1> QED
  BY <1>1, Inductive, PTL
=============================================================================
