--------------------------- MODULE PlatformProofs ---------------------------
(***************************************************************************)
(* What the control panel keeps outside its database, proved for any number *)
(* of people, workers, deployments, apps, tables, objects, parameters and   *)
(* customers: a part of the module for each component that Platform puts    *)
(* together, and last the eight of them.                                    *)
(***************************************************************************)
EXTENDS Platform, FiniteSetTheorems, SequenceTheorems, TLAPS

-----------------------------------------------------------------------------
(***************************************************************************)
(* Deployments of tools: ToolDeploy                                        *)
(***************************************************************************)

Recorded == {d \in Deps : row[d] # "none"}
In(s, d) == \E i \in 1 .. Len(s) : s[i] = d

LEMMA WaitsIn == \A d : Waits(d) <=> \E w \in Workers : In(inbox[w], d)
  BY DEF Waits, In

LEMMA AppendIn ==
  ASSUME NEW s \in Seq(Deps), NEW d \in Deps
  PROVE  /\ Append(s, d) \in Seq(Deps)
         /\ \A e : In(Append(s, d), e) <=> In(s, e) \/ e = d
<1>1. Append(s, d) \in Seq(Deps) /\ Len(Append(s, d)) = Len(s) + 1 /\ Len(s) \in Nat
      /\ (\A i \in 1 .. Len(s) : Append(s, d)[i] = s[i]) /\ Append(s, d)[Len(s) + 1] = d
  OBVIOUS
<1>2. ASSUME NEW e, In(s, e) PROVE In(Append(s, d), e)
  <2>1. PICK i \in 1 .. Len(s) : s[i] = e
    BY <1>2 DEF In
  <2>2. i \in 1 .. Len(Append(s, d)) /\ Append(s, d)[i] = e
    BY <1>1, <2>1
  <2> QED BY <2>2 DEF In
<1>3. In(Append(s, d), d)
  <2>1. Len(s) + 1 \in 1 .. Len(Append(s, d)) /\ Append(s, d)[Len(s) + 1] = d
    BY <1>1
  <2> QED BY <2>1 DEF In
<1>4. ASSUME NEW e, In(Append(s, d), e), e # d PROVE In(s, e)
  <2>1. PICK i \in 1 .. Len(Append(s, d)) : Append(s, d)[i] = e
    BY <1>4 DEF In
  <2>2. i \in 1 .. Len(s) /\ s[i] = e
    BY <1>1, <1>4, <2>1
  <2> QED BY <2>2 DEF In
<1> QED BY <1>1, <1>2, <1>3, <1>4

LEMMA TailIn ==
  ASSUME NEW s \in Seq(Deps), s # <<>>
  PROVE  /\ Tail(s) \in Seq(Deps) /\ Head(s) \in Deps /\ In(s, Head(s))
         /\ \A e : In(Tail(s), e) => In(s, e)
<1>1. /\ Tail(s) \in Seq(Deps) /\ Head(s) = s[1] /\ Len(s) \in Nat /\ Len(s) >= 1
      /\ Len(Tail(s)) = Len(s) - 1 /\ \A i \in 1 .. Len(Tail(s)) : Tail(s)[i] = s[i + 1]
  OBVIOUS
<1>2. Head(s) \in Deps /\ 1 \in 1 .. Len(s)
  BY <1>1
<1>3. In(s, Head(s))
  BY <1>1, <1>2 DEF In
<1>4. ASSUME NEW e, In(Tail(s), e) PROVE In(s, e)
  <2>1. PICK i \in 1 .. Len(Tail(s)) : Tail(s)[i] = e
    BY <1>4 DEF In
  <2>2. i + 1 \in 1 .. Len(s) /\ s[i + 1] = e
    BY <1>1, <2>1
  <2> QED BY <2>2 DEF In
<1> QED BY <1>1, <1>2, <1>3, <1>4

LEMMA EmptyIn == <<>> \in Seq(Deps) /\ \A e : ~ In(<<>>, e)
  BY DEF In

\* The parts of a step, with what it leaves alone.
RequestTyped ==
  /\ req \in [Deps -> {"idle", "read", "done", "failed"}]
  /\ tool \in [Deps -> Tools \cup {NoTool}]
  /\ \A d \in Deps : req[d] # "idle" => tool[d] \in Tools
  /\ prev \in [Deps -> Deps \cup {NoDep}]
RowTyped ==
  /\ row \in [Deps -> {"none", "inactive", "active", "gone"}]
  /\ \A d \in Deps : row[d] # "none" <=> req[d] = "done"
  /\ \A d \in Deps : row[d] \in {"inactive", "active"} => tool[d] \in listed
  /\ created \in [Deps -> Nat]
InboxTyped ==
  /\ inbox \in [Workers -> Seq(Deps)]
  /\ \A d \in Deps : Waits(d) => req[d] = "done"
WorkTyped ==
  /\ pc \in [Workers -> Pcs]
  /\ job \in [Workers -> Deps \cup {NoDep}]
  /\ \A w \in Workers : pc[w] # "idle" => job[w] \in Deps /\ req[job[w]] = "done"
StoreTyped ==
  /\ release \in [Charts -> Tools \cup {NoTool, Broken}]
  /\ listed \subseteq Tools
  /\ sched \in [Tools -> {"no", "due", "done"}]
  /\ queued \in [Charts -> Nat]
HistoryTyped ==
  /\ faults \in 0 .. MaxFaults
  /\ installed \subseteq Deps /\ orphaned \subseteq Deps
  /\ clashes \subseteq SUBSET Deps /\ disturbed \in BOOLEAN

LEMMA TypedParts ==
  TypeOK <=> RequestTyped /\ RowTyped /\ InboxTyped /\ WorkTyped /\ StoreTyped /\ HistoryTyped
  BY DEF TypeOK, RequestTyped, RowTyped, InboxTyped, WorkTyped, StoreTyped, HistoryTyped

WorkHeld ==
  /\ \A w \in Workers : pc[w] = "waiting" => job[w] \in installed
  /\ ActiveWasInstalled

Ranked == IsFiniteSet(Recorded) /\ \A d \in Deps : created[d] <= Cardinality(Recorded)

DepParts ==
  /\ RequestTyped /\ RowTyped /\ InboxTyped /\ WorkTyped /\ StoreTyped /\ HistoryTyped
  /\ Ranked /\ WorkHeld

LEMMA FaultTyped == ASSUME HistoryTyped, Fault PROVE faults' \in 0 .. MaxFaults
  BY ToolDeployAssumption DEF HistoryTyped, Fault

\* A number that is least, and so, ranks being bounded, the latest deployment.
LEMMA LeastNumber == ASSUME NEW T \in SUBSET Nat, T # {} PROVE \E n \in T : \A m \in T : n <= m
<1>1. PICK n \in T : \A m \in T : ~ (<<m, n>> \in OpToRel(<, Nat))
  BY NatLessThanWellFounded, WFMin
<1>2. \A m \in T : ~ (m < n)
  BY <1>1 DEF OpToRel
<1> QED BY <1>2

LEMMA LatestIs ==
  ASSUME DepParts, NEW ds \in SUBSET Deps, ds # {}
  PROVE  Latest(ds) \in ds
<1> DEFINE C == Cardinality(Recorded)
           T == {n \in Nat : \E e \in ds : n = C - created[e]}
<1>1. C \in Nat /\ \A e \in ds : created[e] \in Nat /\ created[e] <= C
  BY FS_CardinalityType DEF DepParts, Ranked, RowTyped
<1> HIDE DEF C
<1>2. T \in SUBSET Nat /\ T # {}
  BY <1>1
<1>3. PICK n \in T : \A m \in T : n <= m
  BY <1>2, LeastNumber
<1>4. PICK d \in ds : n = C - created[d]
  BY <1>3
<1>5. ASSUME NEW e \in ds PROVE created[e] <= created[d]
  <2>1. C - created[e] \in T
    BY <1>1
  <2> QED BY <2>1, <1>1, <1>3, <1>4
<1> QED BY <1>5 DEF Latest

LEMMA DepStart == Init => DepParts
<1> SUFFICES ASSUME Init PROVE DepParts
  OBVIOUS
<1>1. Recorded = {} /\ IsFiniteSet(Recorded) /\ Cardinality(Recorded) = 0
  BY FS_EmptySet DEF Init, Recorded
<1>2. \A d \in Deps : ~ Waits(d)
  BY EmptyIn, WaitsIn DEF Init
<1>3. InboxTyped
  BY <1>2, EmptyIn DEF Init, InboxTyped
<1>4. HistoryTyped
  <2>1. faults \in 0 .. MaxFaults
    BY ToolDeployAssumption DEF Init
  <2>2. disturbed \in BOOLEAN
    BY DEF Init
  <2> QED BY <2>1, <2>2 DEF HistoryTyped, Init
<1>5. StoreTyped
  BY DEF Init, StoreTyped
<1>6. RequestTyped /\ RowTyped
  BY DEF Init, RequestTyped, RowTyped
<1>7. WorkTyped /\ Ranked
  BY <1>1 DEF Init, WorkTyped, Pcs, Ranked
<1>8. WorkHeld
  BY DEF Init, WorkHeld, ActiveWasInstalled, ActiveDeps, Active
<1> QED BY <1>3, <1>4, <1>5, <1>6, <1>7, <1>8 DEF DepParts

-----------------------------------------------------------------------------
(* Requests *)

LEMMA ReadActiveTyped == ASSUME DepParts, NEW d \in Deps, NEW t \in Tools, ReadActive(d, t) PROVE DepParts'
<1>1. /\ req[d] = "idle" /\ t \in listed /\ req' = [req EXCEPT ![d] = "read"]
      /\ tool' = [tool EXCEPT ![d] = t]
      /\ prev' = [prev EXCEPT ![d] = IF ActiveDeps = {} THEN NoDep ELSE Latest(ActiveDeps)]
      /\ clashes' = clashes \cup {{d, e} : e \in {e \in Deps \ {d} : Pending(e)}}
      /\ UNCHANGED <<row, created, inbox, pc, job, release, listed, sched, queued, faults,
                     installed, orphaned, disturbed>>
  BY DEF ReadActive, rowVars, workerVars, jobVars
<1>2. prev' \in [Deps -> Deps \cup {NoDep}]
  <2> DEFINE n == IF ActiveDeps = {} THEN NoDep ELSE Latest(ActiveDeps)
  <2>1. n \in Deps \cup {NoDep}
    BY LatestIs DEF ActiveDeps
  <2> QED BY <1>1, <2>1 DEF DepParts, RequestTyped
<1>3. RequestTyped'
  BY <1>1, <1>2 DEF DepParts, RequestTyped
<1>4. RowTyped'
  BY <1>1 DEF DepParts, RowTyped
<1>5. InboxTyped'
  BY <1>1 DEF DepParts, InboxTyped, Waits
<1>6. WorkTyped'
  BY <1>1 DEF DepParts, WorkTyped
<1>7. StoreTyped' /\ HistoryTyped'
  BY <1>1 DEF DepParts, StoreTyped, HistoryTyped
<1>8. Ranked' /\ WorkHeld'
  BY <1>1 DEF DepParts, Ranked, WorkHeld, Recorded, ActiveWasInstalled, ActiveDeps, Active, WorkedOn
<1> QED BY <1>3, <1>4, <1>5, <1>6, <1>7, <1>8 DEF DepParts

\* A row is inserted, the others becoming inactive.
LEMMA InsertRowTyped ==
  ASSUME DepParts, NEW d \in Deps, InsertRow(d, AllInactive), UNCHANGED <<tool, prev, listed, job, pc>>
  PROVE  RequestTyped' /\ RowTyped' /\ WorkTyped' /\ Ranked' /\ ActiveDeps' = {}
<1>1. /\ req[d] = "read" /\ tool[d] \in listed /\ req' = [req EXCEPT ![d] = "done"]
      /\ row' = [e \in Deps |-> IF e = d THEN "inactive" ELSE AllInactive[e]]
      /\ created' = [created EXCEPT ![d] = 1 + Cardinality(Recorded)]
  BY DEF InsertRow, Recorded
<1>2. row[d] = "none" /\ d \notin Recorded /\ Cardinality(Recorded) \in Nat /\ IsFiniteSet(Recorded)
  BY <1>1, FS_CardinalityType DEF DepParts, RowTyped, Ranked, Recorded
<1>3. \A e \in Deps : row'[e] = IF e = d \/ row[e] = "active" THEN "inactive" ELSE row[e]
  BY <1>1 DEF AllInactive, Active
<1>4. RequestTyped' /\ WorkTyped'
  BY <1>1 DEF DepParts, RequestTyped, WorkTyped
<1>5. RowTyped'
  <2>1. row' \in [Deps -> {"none", "inactive", "active", "gone"}]
    BY <1>1, <1>3 DEF DepParts, RowTyped
  <2>2. created' \in [Deps -> Nat]
    BY <1>1, <1>2 DEF DepParts, RowTyped
  <2>3. \A e \in Deps : row'[e] # "none" <=> req'[e] = "done"
    BY <1>1, <1>3 DEF DepParts, RowTyped, RequestTyped
  <2>4. \A e \in Deps : row'[e] \in {"inactive", "active"} => tool'[e] \in listed'
    BY <1>1, <1>3 DEF DepParts, RowTyped
  <2> QED BY <2>1, <2>2, <2>3, <2>4 DEF RowTyped
<1>6. Ranked'
  <2>1. Recorded' = Recorded \cup {d}
    BY <1>3 DEF Recorded
  <2>2. IsFiniteSet(Recorded') /\ Cardinality(Recorded') = Cardinality(Recorded) + 1
    BY <1>2, <2>1, FS_AddElement
  <2>3. \A e \in Deps : created'[e] <= Cardinality(Recorded) + 1
    BY <1>1, <1>2 DEF DepParts, Ranked, RowTyped
  <2> QED BY <2>2, <2>3 DEF Ranked
<1>7. ActiveDeps' = {}
  BY <1>3 DEF ActiveDeps, Active
<1> QED BY <1>4, <1>5, <1>6, <1>7

LEMMA CommitTyped ==
  ASSUME DepParts, NEW d \in Deps, CommitDeploy(d) \/ CommitUnheard(d) \/ CommitFails(d)
  PROVE  DepParts'
<1>1. CASE CommitDeploy(d)
  <2>1. /\ InsertRow(d, AllInactive) /\ inbox' = [w \in Workers |-> Append(inbox[w], d)]
        /\ UNCHANGED <<tool, prev, pc, job, release, listed, sched, queued, faults,
                       installed, orphaned, clashes, disturbed>>
    BY <1>1 DEF CommitDeploy, Broadcast, workerVars, jobVars, history
  <2>2. RequestTyped' /\ RowTyped' /\ WorkTyped' /\ Ranked' /\ ActiveDeps' = {}
    BY <2>1, InsertRowTyped
  <2>3. /\ inbox' \in [Workers -> Seq(Deps)]
        /\ \A w \in Workers, e \in Deps : In(inbox'[w], e) => In(inbox[w], e) \/ e = d
    BY <2>1, AppendIn DEF DepParts, InboxTyped
  <2>4. \A e \in Deps : req[e] = "done" \/ e = d => req'[e] = "done"
    BY <2>1 DEF InsertRow, DepParts, RequestTyped
  <2>5. InboxTyped'
    BY <2>3, <2>4, WaitsIn DEF DepParts, InboxTyped, Waits, In
  <2>6. StoreTyped' /\ HistoryTyped' /\ WorkHeld'
    BY <2>1, <2>2 DEF DepParts, StoreTyped, HistoryTyped, WorkHeld, ActiveWasInstalled
  <2> QED BY <2>2, <2>5, <2>6 DEF DepParts
<1>2. CASE CommitUnheard(d)
  <2>1. /\ InsertRow(d, AllInactive) /\ Fault /\ disturbed' = TRUE
        /\ UNCHANGED <<tool, prev, inbox, pc, job, release, listed, sched, queued,
                       installed, orphaned, clashes>>
    BY <1>2 DEF CommitUnheard, workerVars, jobVars
  <2>2. RequestTyped' /\ RowTyped' /\ WorkTyped' /\ Ranked' /\ ActiveDeps' = {}
    BY <2>1, InsertRowTyped
  <2>3. \A e \in Deps : req[e] = "done" => req'[e] = "done"
    BY <2>1 DEF InsertRow, DepParts, RequestTyped
  <2>4. InboxTyped'
    BY <2>1, <2>3 DEF DepParts, InboxTyped, Waits
  <2>5. faults' \in 0 .. MaxFaults
    BY <2>1, FaultTyped DEF DepParts
  <2>6. StoreTyped' /\ HistoryTyped' /\ WorkHeld'
    BY <2>1, <2>2, <2>5 DEF DepParts, StoreTyped, HistoryTyped, WorkHeld, ActiveWasInstalled
  <2> QED BY <2>2, <2>4, <2>6 DEF DepParts
<1>3. CASE CommitFails(d)
  <2>1. /\ req[d] = "read" /\ tool[d] \notin listed /\ req' = [req EXCEPT ![d] = "failed"]
        /\ UNCHANGED <<tool, prev, row, created, inbox, pc, job, release, listed, sched, queued, faults,
                       installed, orphaned, clashes, disturbed>>
    BY <1>3 DEF CommitFails, rowVars, workerVars, jobVars, history
  <2>2. RequestTyped' /\ RowTyped' /\ WorkTyped'
    BY <2>1 DEF DepParts, RequestTyped, RowTyped, WorkTyped
  <2>3. InboxTyped'
    BY <2>1 DEF DepParts, InboxTyped, Waits, RequestTyped
  <2>4. StoreTyped' /\ HistoryTyped' /\ Ranked'
    BY <2>1 DEF DepParts, StoreTyped, HistoryTyped, Ranked, Recorded
  <2>5. WorkHeld'
    BY <2>1 DEF DepParts, WorkHeld, ActiveWasInstalled, ActiveDeps, Active, WorkedOn
  <2> QED BY <2>2, <2>3, <2>4, <2>5 DEF DepParts
<1> QED BY <1>1, <1>2, <1>3

-----------------------------------------------------------------------------
(* Workers *)

\* A worker moves; what it leaves active it is at, has installed or died on.
LEMMA WorkMoves ==
  ASSUME DepParts, NEW w \in Workers, NEW p \in Pcs, NEW j \in Deps \cup {NoDep},
         pc' = [pc EXCEPT ![w] = p], job' = [job EXCEPT ![w] = j], req' = req,
         p # "idle" => j \in Deps /\ req[j] = "done", p = "waiting" => j \in installed',
         installed \subseteq installed', orphaned \subseteq orphaned',
         \A d \in Deps : row'[d] = "active" => row[d] = "active" \/ (p # "idle" /\ d = j),
         pc[w] # "idle" /\ row'[job[w]] = "active" =>
           (p # "idle" /\ j = job[w]) \/ job[w] \in installed' \cup orphaned'
  PROVE  WorkTyped' /\ WorkHeld'
<1>1. /\ pc' \in [Workers -> Pcs] /\ pc'[w] = p /\ \A v \in Workers \ {w} : pc'[v] = pc[v]
      /\ job' \in [Workers -> Deps \cup {NoDep}] /\ job'[w] = j
      /\ \A v \in Workers \ {w} : job'[v] = job[v]
  BY DEF DepParts, WorkTyped
<1>2. WorkTyped'
  BY <1>1 DEF DepParts, WorkTyped
<1>3. \A v \in Workers : pc'[v] = "waiting" => job'[v] \in installed'
  BY <1>1 DEF DepParts, WorkHeld
<1>4. ASSUME NEW d \in Deps, row'[d] = "active" PROVE WorkedOn(d)' \/ d \in installed' \cup orphaned'
  <2>1. CASE p # "idle" /\ d = j
    BY <1>1, <2>1 DEF WorkedOn
  <2>2. CASE ~ (p # "idle" /\ d = j)
    <3>1. WorkedOn(d) \/ d \in installed \cup orphaned
      BY <1>4, <2>2 DEF DepParts, WorkHeld, ActiveWasInstalled, ActiveDeps, Active
    <3>2. CASE d \in installed \cup orphaned
      BY <3>2
    <3>3. CASE WorkedOn(d)
      <4>1. PICK v \in Workers : pc[v] # "idle" /\ job[v] = d
        BY <3>3 DEF WorkedOn
      <4>2. CASE v = w
        BY <1>4, <2>2, <4>1, <4>2
      <4>3. CASE v # w
        BY <1>1, <4>1, <4>3 DEF WorkedOn
      <4> QED BY <4>2, <4>3
    <3> QED BY <3>1, <3>2, <3>3
  <2> QED BY <2>1, <2>2
<1>5. ActiveWasInstalled'
  BY <1>4 DEF ActiveWasInstalled, ActiveDeps, Active
<1> QED BY <1>2, <1>3, <1>5 DEF WorkHeld

\* The work at hand, and moving on with it.
LEMMA AtHand ==
  ASSUME DepParts, NEW w \in Workers
  PROVE  /\ pc[w] \in Pcs /\ job[w] \in Deps \cup {NoDep}
         /\ pc[w] # "idle" => job[w] \in Deps /\ req[job[w]] = "done" /\ tool[job[w]] \in Tools
                              /\ row[job[w]] \in {"inactive", "active", "gone"}
         /\ job = [job EXCEPT ![w] = job[w]]
  BY DEF DepParts, WorkTyped, RequestTyped, RowTyped

LEMMA RowsStay ==
  ASSUME DepParts, UNCHANGED <<reqVars, rowVars, listed>>
  PROVE  RequestTyped' /\ RowTyped' /\ Ranked'
  BY DEF DepParts, reqVars, rowVars, RequestTyped, RowTyped, Ranked, Recorded

\* One row becomes active or inactive.
LEMMA RowTurns ==
  ASSUME DepParts, NEW d \in Deps, NEW x \in {"active", "inactive"}, row[d] \in {"active", "inactive"},
         row' = [row EXCEPT ![d] = x], UNCHANGED <<reqVars, created, listed>>
  PROVE  /\ RequestTyped' /\ RowTyped' /\ Ranked' /\ row'[d] = x
         /\ \A e \in Deps \ {d} : row'[e] = row[e]
<1>1. row'[d] = x /\ \A e \in Deps \ {d} : row'[e] = row[e]
  BY DEF DepParts, RowTyped
<1>2. Recorded' = Recorded
  BY <1>1 DEF Recorded
<1>3. RequestTyped' /\ Ranked'
  BY <1>2 DEF DepParts, reqVars, RequestTyped, Ranked
<1>4. RowTyped'
  <2>1. row' \in [Deps -> {"none", "inactive", "active", "gone"}]
    BY DEF DepParts, RowTyped
  <2> QED BY <1>1, <2>1 DEF DepParts, reqVars, RowTyped
<1> QED BY <1>1, <1>3, <1>4

LEMMA InboxStays == ASSUME DepParts, UNCHANGED <<req, inbox>> PROVE InboxTyped'
  BY DEF DepParts, InboxTyped, Waits

\* What taking a message knows.
LEMMA Taken ==
  ASSUME DepParts, NEW w \in Workers, inbox[w] # <<>>, inbox' = [inbox EXCEPT ![w] = Tail(@)], req' = req
  PROVE  /\ Head(inbox[w]) \in Deps /\ Waits(Head(inbox[w])) /\ req[Head(inbox[w])] = "done"
         /\ InboxTyped' /\ \A d \in Deps : Waits(d)' => Waits(d)
<1>1. inbox \in [Workers -> Seq(Deps)]
  BY DEF DepParts, InboxTyped
<1>2. /\ Tail(inbox[w]) \in Seq(Deps) /\ Head(inbox[w]) \in Deps /\ In(inbox[w], Head(inbox[w]))
      /\ \A e : In(Tail(inbox[w]), e) => In(inbox[w], e)
  BY <1>1, TailIn
<1>3. Waits(Head(inbox[w]))
  BY <1>2, WaitsIn
<1>4. inbox' \in [Workers -> Seq(Deps)] /\ inbox'[w] = Tail(inbox[w])
      /\ \A v \in Workers \ {w} : inbox'[v] = inbox[v]
  BY <1>1, <1>2
<1>5. \A d \in Deps : (\E v \in Workers : In(inbox'[v], d)) => \E v \in Workers : In(inbox[v], d)
  BY <1>2, <1>4
<1>6. \A d \in Deps : Waits(d)' => Waits(d)
  BY <1>5, WaitsIn DEF Waits, In
<1> QED BY <1>2, <1>3, <1>4, <1>6 DEF DepParts, InboxTyped

LEMMA TakeTyped == ASSUME DepParts, NEW w \in Workers, Take(w) PROVE DepParts'
<1> DEFINE d == Head(inbox[w])
<1>1. /\ pc[w] = "idle" /\ inbox[w] # <<>> /\ inbox' = [inbox EXCEPT ![w] = Tail(@)]
      /\ UNCHANGED <<req, tool, prev, created, release, listed, sched, queued, faults,
                     installed, orphaned, clashes, disturbed>>
      /\ IF row[d] = "inactive"
         THEN row' = [row EXCEPT ![d] = "active"] /\ pc' = [pc EXCEPT ![w] = "uninstall"]
              /\ job' = [job EXCEPT ![w] = d]
         ELSE UNCHANGED <<row, pc, job>>
  BY DEF Take, GoTo, reqVars, workerVars, jobVars, history
<1>2. d \in Deps /\ req[d] = "done" /\ InboxTyped'
  BY <1>1, Taken
<1> HIDE DEF d
<1>3. StoreTyped' /\ HistoryTyped'
  BY <1>1 DEF DepParts, StoreTyped, HistoryTyped
<1>4. CASE row[d] = "inactive"
  <2>1. /\ RequestTyped' /\ RowTyped' /\ Ranked' /\ row'[d] = "active"
        /\ \A e \in Deps \ {d} : row'[e] = row[e]
    BY <1>1, <1>2, <1>4, RowTurns DEF reqVars
  <2>2. "uninstall" \in Pcs
    BY DEF Pcs
  <2>3. WorkTyped' /\ WorkHeld'
    BY <1>1, <1>2, <1>4, <2>1, <2>2, WorkMoves
  <2> QED BY <1>2, <1>3, <2>1, <2>3 DEF DepParts
<1>5. CASE row[d] # "inactive"
  <2>1. RequestTyped' /\ RowTyped' /\ Ranked'
    BY <1>1, <1>5, RowsStay DEF reqVars, rowVars
  <2>2. WorkTyped' /\ WorkHeld'
    BY <1>1, <1>5 DEF DepParts, WorkTyped, WorkHeld, ActiveWasInstalled, ActiveDeps, Active, WorkedOn
  <2> QED BY <1>2, <1>3, <2>1, <2>2 DEF DepParts
<1> QED BY <1>4, <1>5

\* A worker goes on with the same deployment, the rows as they are.
LEMMA GoesOn ==
  ASSUME DepParts, NEW w \in Workers, NEW p \in Pcs \ {"idle"}, pc[w] # "idle", GoTo(w, p), job' = job,
         UNCHANGED <<reqVars, rowVars, listed, inbox, orphaned>>,
         installed \subseteq installed', p = "waiting" => job[w] \in installed',
         StoreTyped', HistoryTyped'
  PROVE  DepParts'
<1>1. RequestTyped' /\ RowTyped' /\ Ranked'
  BY RowsStay
<1>2. InboxTyped'
  BY InboxStays DEF reqVars
<1>3. job' = [job EXCEPT ![w] = job[w]] /\ job[w] \in Deps /\ req[job[w]] = "done"
  BY AtHand
<1>4. pc' = [pc EXCEPT ![w] = p] /\ req' = req /\ row' = row /\ orphaned' = orphaned
  BY DEF GoTo, reqVars, rowVars
<1>5. WorkTyped' /\ WorkHeld'
  BY <1>3, <1>4, WorkMoves
<1> QED BY <1>1, <1>2, <1>5 DEF DepParts

LEMMA UninstallTyped == ASSUME DepParts, NEW w \in Workers, UninstallPrev(w) \/ UninstallPrevFails(w) PROVE DepParts'
<1>1. CASE UninstallPrev(w)
  <2>1. /\ pc[w] = "uninstall" /\ GoTo(w, "start")
        /\ release' = IF HasPrev(w) THEN [release EXCEPT ![PrevChart(w)] = NoTool] ELSE release
        /\ UNCHANGED <<reqVars, rowVars, inbox, job, listed, sched, queued, faults,
                       installed, orphaned, clashes, disturbed>>
    BY <1>1 DEF UninstallPrev, jobVars, history
  <2>2. StoreTyped' /\ HistoryTyped'
    BY <2>1 DEF DepParts, StoreTyped, HistoryTyped
  <2> QED BY <2>1, <2>2, GoesOn DEF Pcs
<1>2. CASE UninstallPrevFails(w)
  <2>1. /\ pc[w] = "uninstall" /\ GoTo(w, "start") /\ Fault /\ disturbed' = TRUE
        /\ UNCHANGED <<reqVars, rowVars, inbox, job, release, listed, sched, queued,
                       installed, orphaned, clashes>>
    BY <1>2 DEF UninstallPrevFails, jobVars
  <2>2. StoreTyped' /\ HistoryTyped'
    BY <2>1, FaultTyped DEF DepParts, StoreTyped, HistoryTyped
  <2> QED BY <2>1, <2>2, GoesOn DEF Pcs
<1> QED BY <1>1, <1>2

LEMMA InstallTyped == ASSUME DepParts, NEW w \in Workers, StartInstall(w) \/ EndInstall(w) PROVE DepParts'
<1>1. CASE StartInstall(w)
  <2>1. /\ pc[w] = "start" /\ GoTo(w, "installing")
        /\ UNCHANGED <<reqVars, rowVars, inbox, job, release, listed, sched, queued, faults,
                       installed, orphaned, clashes, disturbed>>
    BY <1>1 DEF StartInstall, jobVars, history
  <2>2. StoreTyped' /\ HistoryTyped'
    BY <2>1 DEF DepParts, StoreTyped, HistoryTyped
  <2> QED BY <2>1, <2>2, GoesOn DEF Pcs
<1>2. CASE EndInstall(w)
  <2>1. /\ pc[w] = "installing" /\ GoTo(w, "waiting")
        /\ release' = [release EXCEPT ![Chart(w)] = tool[job[w]]]
        /\ installed' = installed \cup {job[w]}
        /\ UNCHANGED <<reqVars, rowVars, inbox, job, listed, sched, queued, faults,
                       orphaned, clashes, disturbed>>
    BY <1>2 DEF EndInstall, jobVars
  <2>2. job[w] \in Deps /\ tool[job[w]] \in Tools
    BY <2>1, AtHand
  <2>3. StoreTyped' /\ HistoryTyped'
    BY <2>1, <2>2 DEF DepParts, StoreTyped, HistoryTyped
  <2> QED BY <2>1, <2>3, GoesOn DEF Pcs
<1> QED BY <1>1, <1>2

\* A worker gives its deployment up: the row is inactive again, unless it went.
LEMMA GivesUp ==
  ASSUME DepParts, NEW w \in Workers, pc[w] # "idle", GiveUp(w),
         UNCHANGED <<reqVars, listed, inbox, installed, orphaned>>, StoreTyped', HistoryTyped'
  PROVE  DepParts'
<1> DEFINE d == job[w]
<1>1. /\ pc' = [pc EXCEPT ![w] = "idle"] /\ job' = [job EXCEPT ![w] = NoDep] /\ created' = created
      /\ row' = IF row[d] = "gone" THEN row ELSE [row EXCEPT ![d] = "inactive"]
      /\ UNCHANGED req
  BY DEF GiveUp, Idle, GoTo, reqVars
<1>2. d \in Deps /\ row[d] \in {"inactive", "active", "gone"}
  BY AtHand
<1> HIDE DEF d
<1>3. /\ RequestTyped' /\ RowTyped' /\ Ranked' /\ row'[d] # "active"
      /\ \A e \in Deps \ {d} : row'[e] = row[e]
  <2>1. CASE row[d] = "gone"
    BY <1>1, <2>1, RowsStay DEF rowVars
  <2>2. CASE row[d] # "gone"
    BY <1>1, <1>2, <2>2, RowTurns
  <2> QED BY <2>1, <2>2
<1>4. WorkTyped' /\ WorkHeld'
  BY <1>1, <1>2, <1>3, WorkMoves DEF Pcs, d
<1>5. InboxTyped'
  BY <1>1, InboxStays
<1> QED BY <1>3, <1>4, <1>5 DEF DepParts

LEMMA ConflictsTyped == ASSUME DepParts, NEW w \in Workers, InstallConflicts(w) PROVE DepParts'
<1>1. /\ pc[w] = "start" /\ GiveUp(w)
      /\ UNCHANGED <<reqVars, inbox, release, listed, sched, queued, faults,
                     installed, orphaned, clashes, disturbed>>
  BY DEF InstallConflicts, jobVars, history
<1>2. StoreTyped' /\ HistoryTyped'
  BY <1>1 DEF DepParts, StoreTyped, HistoryTyped
<1> QED BY <1>1, <1>2, GivesUp

LEMMA InstallFailsTyped == ASSUME DepParts, NEW w \in Workers, InstallFails(w) PROVE DepParts'
<1>1. /\ pc[w] = "installing" /\ Fault
      /\ UNCHANGED <<reqVars, inbox, listed, sched, queued, orphaned, clashes>>
  BY DEF InstallFails, jobVars
<1>2. PICK left \in {release[Chart(w)], Broken} : release' = [release EXCEPT ![Chart(w)] = left]
  BY DEF InstallFails
<1>3. StoreTyped'
  BY <1>1, <1>2 DEF DepParts, StoreTyped
<1>4. \/ GoTo(w, "waiting") /\ installed' = installed \cup {job[w]} /\ disturbed' = TRUE
         /\ UNCHANGED <<rowVars, job>>
      \/ GiveUp(w) /\ UNCHANGED <<installed, disturbed>>
  BY DEF InstallFails
<1>5. job[w] \in Deps
  BY <1>1, AtHand
<1>6. HistoryTyped'
  BY <1>1, <1>4, <1>5, FaultTyped DEF DepParts, HistoryTyped
<1>7. CASE GoTo(w, "waiting") /\ installed' = installed \cup {job[w]} /\ UNCHANGED <<rowVars, job>>
  BY <1>1, <1>3, <1>6, <1>7, GoesOn DEF Pcs
<1>8. CASE GiveUp(w) /\ UNCHANGED <<installed, disturbed>>
  BY <1>1, <1>3, <1>6, <1>8, GivesUp
<1> QED BY <1>4, <1>7, <1>8

LEMMA SettledTyped == ASSUME DepParts, NEW w \in Workers, Settled(w) PROVE DepParts'
<1>1. /\ pc[w] = "waiting" /\ pc' = [pc EXCEPT ![w] = "idle"] /\ job' = [job EXCEPT ![w] = NoDep]
      /\ UNCHANGED <<reqVars, rowVars, inbox, release, listed, sched, queued, faults,
                     installed, orphaned, clashes, disturbed>>
  BY DEF Settled, Idle, GoTo, jobVars, history
<1>2. RequestTyped' /\ RowTyped' /\ Ranked' /\ InboxTyped'
  BY <1>1, RowsStay, InboxStays DEF reqVars
<1>3. StoreTyped' /\ HistoryTyped'
  BY <1>1 DEF DepParts, StoreTyped, HistoryTyped
<1>4. job[w] \in installed
  BY <1>1 DEF DepParts, WorkHeld
<1>5. WorkTyped' /\ WorkHeld'
  BY <1>1, <1>4, WorkMoves DEF Pcs, reqVars, rowVars
<1> QED BY <1>2, <1>3, <1>5 DEF DepParts

LEMMA DiesTyped == ASSUME DepParts, NEW w \in Workers, WorkerDies(w) PROVE DepParts'
<1>1. /\ pc' = [pc EXCEPT ![w] = "idle"] /\ job' = [job EXCEPT ![w] = NoDep] /\ Fault
      /\ inbox' = [inbox EXCEPT ![w] = <<>>] /\ disturbed' = TRUE
      /\ orphaned' = orphaned \cup (IF pc[w] = "idle" THEN {} ELSE {job[w]})
      /\ UNCHANGED <<reqVars, rowVars, release, listed, sched, queued, installed, clashes>>
  BY DEF WorkerDies, Idle, GoTo, jobVars
<1>2. RequestTyped' /\ RowTyped' /\ Ranked'
  BY <1>1, RowsStay
<1>3. InboxTyped'
  <2>1. /\ inbox' \in [Workers -> Seq(Deps)] /\ inbox'[w] = <<>>
        /\ \A v \in Workers \ {w} : inbox'[v] = inbox[v]
    BY <1>1, EmptyIn DEF DepParts, InboxTyped
  <2>2. \A v \in Workers, d \in Deps : In(inbox'[v], d) => In(inbox[v], d)
    BY <2>1, EmptyIn
  <2>3. \A d \in Deps : Waits(d)' => Waits(d)
    BY <2>2 DEF Waits, In
  <2> QED BY <1>1, <2>1, <2>3 DEF DepParts, InboxTyped, reqVars
<1>4. pc[w] # "idle" => job[w] \in Deps
  BY AtHand
<1>5. StoreTyped' /\ HistoryTyped'
  BY <1>1, <1>4, FaultTyped DEF DepParts, StoreTyped, HistoryTyped
<1>6. WorkTyped' /\ WorkHeld'
  BY <1>1, WorkMoves DEF Pcs, reqVars, rowVars
<1> QED BY <1>2, <1>3, <1>5, <1>6 DEF DepParts

-----------------------------------------------------------------------------
(* Tools go *)

LEMMA RowsOfFinite ==
  ASSUME DepParts, NEW t, NEW S \in SUBSET {"active", "inactive"}
  PROVE  Cardinality(RowsOf(t, S)) \in Nat
<1>1. RowsOf(t, S) \subseteq Recorded
  BY DEF RowsOf, Recorded
<1> QED BY <1>1, FS_Subset, FS_CardinalityType DEF DepParts, Ranked

LEMMA WorkStays ==
  ASSUME DepParts, UNCHANGED <<req, workerVars, installed, orphaned>>,
         \A d \in Deps : row'[d] = "active" => row[d] = "active"
  PROVE  WorkTyped' /\ WorkHeld'
  BY DEF DepParts, workerVars, WorkTyped, WorkHeld, ActiveWasInstalled, ActiveDeps, Active, WorkedOn

LEMMA ToolsTyped ==
  ASSUME DepParts, NEW t \in Tools, RetireTool(t) \/ RunUninstallTool(t) \/ DeleteTool(t)
  PROVE  DepParts'
<1>1. ChartOf[t] \in Charts
  BY ToolDeployAssumption
<1>2. CASE RetireTool(t)
  <2>1. /\ sched' = [sched EXCEPT ![t] = "due"]
        /\ UNCHANGED <<req, tool, prev, row, created, inbox, workerVars, release, listed, queued, faults,
                       installed, orphaned, clashes, disturbed>>
    BY <1>2 DEF RetireTool, reqVars, rowVars, history
  <2>2. RequestTyped' /\ RowTyped' /\ Ranked' /\ InboxTyped' /\ WorkTyped' /\ WorkHeld'
    BY <2>1, RowsStay, InboxStays, WorkStays DEF reqVars, rowVars
  <2>3. StoreTyped' /\ HistoryTyped'
    BY <2>1 DEF DepParts, StoreTyped, HistoryTyped
  <2> QED BY <2>2, <2>3 DEF DepParts
<1>3. CASE RunUninstallTool(t)
  <2>1. /\ sched' = [sched EXCEPT ![t] = "done"] /\ disturbed' = TRUE
        /\ queued' = IF t \in listed
                     THEN [queued EXCEPT ![ChartOf[t]] = @ + Cardinality(RowsOf(t, {"active"}))]
                     ELSE queued
        /\ UNCHANGED <<req, tool, prev, row, created, inbox, workerVars, release, listed, faults,
                       installed, orphaned, clashes>>
    BY <1>3 DEF RunUninstallTool, reqVars, rowVars
  <2>2. RequestTyped' /\ RowTyped' /\ Ranked' /\ InboxTyped' /\ WorkTyped' /\ WorkHeld'
    BY <2>1, RowsStay, InboxStays, WorkStays DEF reqVars, rowVars
  <2>3. queued' \in [Charts -> Nat]
    BY <1>1, <2>1, RowsOfFinite DEF DepParts, StoreTyped
  <2>4. StoreTyped' /\ HistoryTyped'
    BY <2>1, <2>3 DEF DepParts, StoreTyped, HistoryTyped
  <2> QED BY <2>2, <2>4 DEF DepParts
<1>4. CASE DeleteTool(t)
  <2>1. /\ listed' = listed \ {t} /\ disturbed' = TRUE
        /\ row' = [d \in Deps |-> IF d \in RowsOf(t, {"active", "inactive"}) THEN "gone" ELSE row[d]]
        /\ queued' = [queued EXCEPT ![ChartOf[t]] = @ + Cardinality(RowsOf(t, {"active", "inactive"}))]
        /\ UNCHANGED <<req, tool, prev, created, inbox, workerVars, release, sched, faults,
                       installed, orphaned, clashes>>
    BY <1>4 DEF DeleteTool, reqVars
  <2>2. \A d \in Deps : row'[d] = IF row[d] \in {"active", "inactive"} /\ tool[d] = t THEN "gone" ELSE row[d]
    BY <2>1 DEF RowsOf
  <2>3. RowTyped'
    <3>1. row' \in [Deps -> {"none", "inactive", "active", "gone"}]
      BY <2>1 DEF DepParts, RowTyped
    <3> QED BY <2>1, <2>2, <3>1 DEF DepParts, RowTyped
  <2>4. Recorded' = Recorded
    BY <2>2 DEF Recorded
  <2>5. RequestTyped' /\ Ranked' /\ InboxTyped' /\ WorkTyped' /\ WorkHeld'
    BY <2>1, <2>2, <2>4, InboxStays, WorkStays DEF DepParts, RequestTyped, Ranked
  <2>6. queued' \in [Charts -> Nat]
    BY <1>1, <2>1, RowsOfFinite DEF DepParts, StoreTyped
  <2>7. StoreTyped' /\ HistoryTyped'
    BY <2>1, <2>6 DEF DepParts, StoreTyped, HistoryTyped
  <2> QED BY <2>3, <2>5, <2>7 DEF DepParts
<1> QED BY <1>2, <1>3, <1>4

LEMMA RunUninstallTyped == ASSUME DepParts, NEW c \in Charts, RunUninstall(c) PROVE DepParts'
<1>1. /\ queued[c] > 0 /\ queued' = [queued EXCEPT ![c] = @ - 1]
      /\ \/ release' = [release EXCEPT ![c] = NoTool] /\ UNCHANGED faults
         \/ Fault /\ UNCHANGED release
      /\ UNCHANGED <<req, tool, prev, row, created, inbox, workerVars, listed, sched,
                     installed, orphaned, clashes, disturbed>>
  BY DEF RunUninstall, reqVars, rowVars, history
<1>2. RequestTyped' /\ RowTyped' /\ Ranked' /\ InboxTyped' /\ WorkTyped' /\ WorkHeld'
  BY <1>1, RowsStay, InboxStays, WorkStays DEF reqVars, rowVars
<1>3. queued' \in [Charts -> Nat]
  BY <1>1 DEF DepParts, StoreTyped
<1>4. release' \in [Charts -> Tools \cup {NoTool, Broken}]
  BY <1>1 DEF DepParts, StoreTyped
<1>5. faults' \in 0 .. MaxFaults
  BY <1>1, FaultTyped DEF DepParts, HistoryTyped
<1>6. StoreTyped' /\ HistoryTyped'
  BY <1>1, <1>3, <1>4, <1>5 DEF DepParts, StoreTyped, HistoryTyped
<1> QED BY <1>2, <1>6 DEF DepParts

LEMMA DepStep == DepParts /\ [Next]_vars => DepParts'
<1> SUFFICES ASSUME DepParts, [Next]_vars PROVE DepParts'
  OBVIOUS
<1>1. CASE UNCHANGED vars
  <2>1. RequestTyped' /\ RowTyped' /\ Ranked' /\ InboxTyped' /\ WorkTyped' /\ WorkHeld'
    BY <1>1, RowsStay, InboxStays, WorkStays DEF vars, reqVars, rowVars, workerVars, jobVars, history
  <2>2. StoreTyped' /\ HistoryTyped'
    BY <1>1 DEF DepParts, StoreTyped, HistoryTyped, vars, jobVars, history
  <2> QED BY <2>1, <2>2 DEF DepParts
<1>2. CASE RequestNext
  BY <1>2, ReadActiveTyped, CommitTyped DEF RequestNext
<1>3. CASE WorkerNext
  BY <1>3, TakeTyped, UninstallTyped, InstallTyped, ConflictsTyped, InstallFailsTyped, SettledTyped,
     DiesTyped DEF WorkerNext, WorkerStep
<1>4. CASE JobNext
  BY <1>4, ToolsTyped, RunUninstallTyped DEF JobNext
<1> QED BY <1>1, <1>2, <1>3, <1>4 DEF Next

-----------------------------------------------------------------------------
(* Requests that came one after the other, nothing having disturbed them *)

Lone == clashes = {} /\ ~ disturbed

\* Of the catalogue's releases only that of e may be installed.
Tells(e) ==
  \A c \in Charts : release[c] \in Tools =>
    e \in Deps /\ row[e] # "none" /\ c = ChartOf[tool[e]] /\ release[c] = tool[e]
NoneIn == \A c \in Charts : release[c] \notin Tools
Only(e) == ActiveDeps = IF e = NoDep THEN {} ELSE {e}
Settling == \E e \in Deps \cup {NoDep} : Only(e) /\ Tells(e)
AllIdle == \A w \in Workers : pc[w] = "idle"

Untouched == listed = Tools /\ (\A c \in Charts : queued[c] = 0) /\ \A d \in Deps : row[d] # "gone"
OneAtATime ==
  /\ \A d, e \in Deps : Pending(d) /\ Pending(e) => d = e
  /\ \A v, w \in Workers : pc[v] # "idle" /\ pc[w] # "idle" => v = w
  /\ \A w \in Workers : pc[w] # "idle" => row[job[w]] = "active"
Reading == \A d \in Deps : req[d] = "read" => Only(prev[d]) /\ Tells(prev[d])
Delivering ==
  \A d \in Deps : Waits(d) \/ WorkedOn(d) =>
    /\ ActiveDeps \subseteq {d}
    /\ row[d] = "inactive" => Tells(prev[d])
    /\ row[d] = "active" /\ AllIdle => Tells(d)
Installing ==
  \A w \in Workers :
    /\ pc[w] = "uninstall" => Tells(prev[job[w]])
    /\ pc[w] \in {"start", "installing"} => NoneIn
    /\ pc[w] = "waiting" => Tells(job[w])

LoneInv ==
  Lone => /\ Untouched /\ OneAtATime /\ Reading /\ Delivering /\ Installing
          /\ (Quiet => Settling) /\ (Workers = {} => NoneIn)

DepInv == DepParts /\ LoneInv

LEMMA NoneTells == \A e : NoneIn => Tells(e)
  BY DEF NoneIn, Tells

LEMMA LoneStart == Init => LoneInv
<1> SUFFICES ASSUME Init PROVE LoneInv
  OBVIOUS
<1>1. \A d \in Deps : ~ Pending(d)
  BY EmptyIn, WaitsIn DEF Init, Pending, WorkedOn
<1>2. NoneIn /\ ActiveDeps = {}
  BY ToolDeployAssumption DEF Init, NoneIn, ActiveDeps, Active
<1>3. Settling
  BY <1>2, NoneTells DEF Settling, Only
<1>4. Untouched
  BY DEF Init, Untouched
<1>5. OneAtATime
  BY <1>1 DEF Init, OneAtATime
<1>6. Reading /\ Delivering /\ Installing
  BY <1>1 DEF Init, Reading, Delivering, Installing, Pending
<1> QED BY <1>2, <1>3, <1>4, <1>5, <1>6 DEF LoneInv

\* The message and the work are of the one deployment that is pending.
LEMMA PendingAlone ==
  ASSUME DepParts, LoneInv, Lone, NEW d \in Deps, Waits(d) \/ WorkedOn(d)
  PROVE  /\ req[d] = "done" /\ row[d] \in {"inactive", "active"}
         /\ \A e \in Deps : Pending(e) => e = d
         /\ \A e \in Deps : req[e] # "read"
         /\ \A w \in Workers : pc[w] # "idle" => job[w] = d
<1>1. req[d] = "done"
  BY DEF DepParts, InboxTyped, WorkTyped, WorkedOn
<1>2. row[d] \in {"inactive", "active"}
  BY <1>1 DEF DepParts, RowTyped, LoneInv, Untouched
<1>3. Pending(d)
  BY DEF Pending
<1>4. \A e \in Deps : Pending(e) => e = d
  BY <1>3 DEF LoneInv, OneAtATime
<1>5. \A e \in Deps : req[e] # "read"
  BY <1>1, <1>4 DEF Pending
<1>6. ASSUME NEW w \in Workers, pc[w] # "idle" PROVE job[w] = d
  <2>1. job[w] \in Deps /\ WorkedOn(job[w])
    BY <1>6 DEF DepParts, WorkTyped, WorkedOn
  <2> QED BY <2>1, <1>4 DEF Pending
<1> QED BY <1>1, <1>2, <1>4, <1>5, <1>6

LEMMA WorkAlone ==
  ASSUME DepParts, LoneInv, Lone, NEW w \in Workers, pc[w] # "idle"
  PROVE  /\ job[w] \in Deps /\ tool[job[w]] \in Tools /\ row[job[w]] = "active" /\ ActiveDeps = {job[w]}
         /\ \A v \in Workers \ {w} : pc[v] = "idle"
         /\ \A e \in Deps : Pending(e) => e = job[w]
         /\ \A e \in Deps : req[e] # "read"
<1>1. job[w] \in Deps /\ tool[job[w]] \in Tools /\ WorkedOn(job[w])
  BY AtHand DEF WorkedOn
<1>2. row[job[w]] = "active" /\ \A v \in Workers \ {w} : pc[v] = "idle"
  BY DEF LoneInv, OneAtATime
<1>3. ActiveDeps \subseteq {job[w]}
  BY <1>1 DEF LoneInv, Delivering
<1>4. ActiveDeps = {job[w]}
  BY <1>1, <1>2, <1>3 DEF ActiveDeps, Active
<1> QED BY <1>1, <1>2, <1>4, PendingAlone

\* The worker goes on, the rows and messages as they are.
LEMMA LoneGoesOn ==
  ASSUME DepParts, LoneInv, Lone, NEW w \in Workers, pc[w] # "idle",
         NEW p \in {"start", "installing", "waiting"}, GoTo(w, p), job' = job,
         UNCHANGED <<reqVars, rowVars, inbox, listed, queued>>,
         p = "waiting" => Tells(job[w])', p # "waiting" => NoneIn'
  PROVE  LoneInv'
<1> DEFINE d == job[w]
<1>1. /\ pc'[w] = p /\ \A v \in Workers \ {w} : pc'[v] = pc[v]
      /\ UNCHANGED <<req, prev, tool, row, created>>
  BY DEF GoTo, DepParts, WorkTyped, reqVars, rowVars
<1>2. /\ d \in Deps /\ row[d] = "active" /\ ActiveDeps = {d}
      /\ \A v \in Workers \ {w} : pc[v] = "idle"
      /\ \A e \in Deps : Pending(e) => e = d
      /\ \A e \in Deps : req[e] # "read"
  BY WorkAlone
<1>3. /\ ActiveDeps' = ActiveDeps /\ \A e \in Deps : Waits(e)' <=> Waits(e)
  BY <1>1 DEF ActiveDeps, Active, Waits
<1>4. \A e \in Deps : WorkedOn(e)' <=> WorkedOn(e)
  BY <1>1, <1>2 DEF WorkedOn
<1>5. \A e \in Deps : Pending(e)' <=> Pending(e)
  BY <1>1, <1>3, <1>4 DEF Pending
<1>6. Pending(d)
  BY <1>2 DEF Pending, WorkedOn
<1>7. ~ Quiet' /\ ~ AllIdle'
  BY <1>1, <1>2, <1>5, <1>6 DEF Quiet, AllIdle
<1>8. Untouched' /\ OneAtATime' /\ Reading'
  BY <1>1, <1>2, <1>5 DEF LoneInv, Untouched, OneAtATime, Reading
<1>9. Delivering'
  BY <1>1, <1>2, <1>3, <1>4, <1>7 DEF Delivering, Pending
<1>10. Installing'
  BY <1>1, <1>2 DEF Installing
<1> QED BY <1>7, <1>8, <1>9, <1>10 DEF LoneInv

\* The worker is done: the release it installed is told by the active row, or
\* there is none and the row is inactive again.
LEMMA LoneEnds ==
  ASSUME DepParts, LoneInv, Lone, NEW w \in Workers, pc[w] # "idle", Idle(w),
         UNCHANGED <<reqVars, created, inbox, listed, queued>>,
         NEW d, d = job[w],
         \/ row' = row /\ Tells(d)'
         \/ row' = [row EXCEPT ![d] = "inactive"] /\ NoneIn'
  PROVE  LoneInv'
<1>1. /\ pc'[w] = "idle" /\ \A v \in Workers \ {w} : pc'[v] = pc[v]
      /\ UNCHANGED <<req, prev, tool>>
  BY DEF Idle, GoTo, DepParts, WorkTyped, reqVars
<1>2. /\ d \in Deps /\ row[d] = "active" /\ ActiveDeps = {d}
      /\ \A v \in Workers \ {w} : pc[v] = "idle"
      /\ \A e \in Deps : Pending(e) => e = d
      /\ \A e \in Deps : req[e] # "read"
  BY WorkAlone
<1>3. AllIdle'
  BY <1>1, <1>2 DEF AllIdle
<1>4. \A e \in Deps : Waits(e)' <=> Waits(e)
  BY DEF Waits
<1>5. \A e \in Deps : ~ WorkedOn(e)' /\ (Pending(e)' => Pending(e) /\ e = d)
  BY <1>1, <1>2, <1>3, <1>4 DEF WorkedOn, AllIdle, Pending
<1>6. \/ row' = row /\ ActiveDeps' = {d} /\ Tells(d)'
      \/ row'[d] = "inactive" /\ (\A e \in Deps \ {d} : row'[e] = row[e]) /\ ActiveDeps' = {} /\ NoneIn'
  <2>1. CASE row' = row /\ Tells(d)'
    BY <1>2, <2>1 DEF ActiveDeps, Active
  <2>2. CASE row' = [row EXCEPT ![d] = "inactive"] /\ NoneIn'
    <3>1. row'[d] = "inactive" /\ \A e \in Deps \ {d} : row'[e] = row[e]
      BY <1>2, <2>2 DEF DepParts, RowTyped
    <3> QED BY <1>2, <2>2, <3>1 DEF ActiveDeps, Active
  <2> QED BY <2>1, <2>2
<1>7. Settling'
  <2>1. CASE row' = row /\ ActiveDeps' = {d} /\ Tells(d)'
    <3>1. Only(d)'
      BY <1>2, <2>1, ToolDeployAssumption DEF Only
    <3> QED BY <1>2, <2>1, <3>1 DEF Settling
  <2>2. CASE ActiveDeps' = {} /\ NoneIn'
    <3>1. Only(NoDep)' /\ Tells(NoDep)'
      BY <2>2 DEF Only, NoneIn, Tells
    <3> QED BY <3>1 DEF Settling
  <2> QED BY <1>6, <2>1, <2>2
<1>8. Untouched'
  BY <1>2, <1>6 DEF LoneInv, Untouched
<1>9. OneAtATime' /\ Reading' /\ Installing'
  BY <1>1, <1>2, <1>3, <1>5 DEF OneAtATime, AllIdle, Reading, Installing
<1>10. Delivering'
  <2> SUFFICES ASSUME NEW e \in Deps, Waits(e)' \/ WorkedOn(e)'
               PROVE  /\ ActiveDeps' \subseteq {e}
                      /\ row'[e] = "inactive" => Tells(prev[e])'
                      /\ row'[e] = "active" => Tells(e)'
    BY <1>1 DEF Delivering
  <2>1. e = d
    BY <1>5 DEF Pending
  <2> QED BY <1>2, <1>6, <2>1 DEF NoneIn, Tells
<1> QED BY <1>7, <1>8, <1>9, <1>10, <1>2 DEF LoneInv

-----------------------------------------------------------------------------
(* The steps, while nothing has disturbed the deployments *)

\* What disturbs them leaves nothing to show.
LEMMA NotLone == disturbed' = TRUE => LoneInv'
  BY DEF LoneInv, Lone

LEMMA LoneRead ==
  ASSUME DepParts, LoneInv, NEW d \in Deps, NEW t \in Tools, ReadActive(d, t), Lone'
  PROVE  LoneInv'
<1>1. /\ req[d] = "idle" /\ req' = [req EXCEPT ![d] = "read"]
      /\ tool' = [tool EXCEPT ![d] = t]
      /\ prev' = [prev EXCEPT ![d] = IF ActiveDeps = {} THEN NoDep ELSE Latest(ActiveDeps)]
      /\ clashes' = clashes \cup {{d, e} : e \in {e \in Deps \ {d} : Pending(e)}}
      /\ UNCHANGED <<row, created, inbox, pc, job, release, listed, sched, queued, disturbed>>
  BY DEF ReadActive, rowVars, workerVars, jobVars
<1>2. clashes' = {}
  BY DEF Lone
<1>3. Lone /\ \A e \in Deps \ {d} : ~ Pending(e)
  BY <1>1, <1>2 DEF Lone
<1>4. ~ Waits(d) /\ ~ WorkedOn(d) /\ row[d] = "none"
  BY <1>1 DEF DepParts, InboxTyped, WorkTyped, WorkedOn, RowTyped
<1>5. Quiet
  BY <1>1, <1>3, <1>4 DEF Quiet, Pending
<1>6. PICK e \in Deps \cup {NoDep} : Only(e) /\ Tells(e)
  BY <1>3, <1>5 DEF LoneInv, Settling
<1>7. prev'[d] = e
  <2>1. prev'[d] = IF ActiveDeps = {} THEN NoDep ELSE Latest(ActiveDeps)
    BY <1>1 DEF DepParts, RequestTyped
  <2>2. CASE e = NoDep
    BY <1>6, <2>1, <2>2 DEF Only
  <2>3. CASE e # NoDep
    <3>1. ActiveDeps = {e} /\ ActiveDeps \in SUBSET Deps
      BY <1>6, <2>3 DEF Only, ActiveDeps
    <3>2. Latest(ActiveDeps) \in ActiveDeps
      BY <3>1, LatestIs
    <3> QED BY <2>1, <3>1, <3>2
  <2> QED BY <2>2, <2>3
<1>8. \A f \in Deps \ {d} : req'[f] = req[f] /\ tool'[f] = tool[f]
  BY <1>1 DEF DepParts, RequestTyped
<1>9. /\ ActiveDeps' = ActiveDeps
      /\ \A f \in Deps : ~ Waits(f)' /\ ~ WorkedOn(f)'
  BY <1>1, <1>3, <1>4 DEF ActiveDeps, Active, Waits, WorkedOn, Pending
<1>10. \A f \in Deps : (Pending(f)' <=> f = d) /\ (req'[f] = "read" <=> f = d)
  <2>1. req'[d] = "read" /\ \A f \in Deps \ {d} : req'[f] # "read"
    BY <1>1, <1>3, <1>8 DEF DepParts, RequestTyped, Pending
  <2> QED BY <2>1, <1>9 DEF Pending
<1>11. Only(e)' /\ Tells(e)'
  BY <1>1, <1>4, <1>6, <1>8, <1>9 DEF Only, Tells
<1>12. Untouched'
  BY <1>1, <1>3 DEF LoneInv, Untouched
<1>13. OneAtATime'
  BY <1>1, <1>3, <1>10 DEF LoneInv, OneAtATime
<1>14. Reading'
  BY <1>7, <1>10, <1>11 DEF Reading, Only, Tells
<1>15. Delivering' /\ ~ Quiet'
  BY <1>9, <1>10 DEF Delivering, Quiet
<1>16. Installing'
  <2>1. \A w \in Workers : pc[w] = "idle"
    BY <1>5 DEF Quiet, Pending, WorkedOn, DepParts, WorkTyped
  <2> QED BY <1>1, <2>1 DEF Installing
<1>17. Workers = {} => NoneIn'
  BY <1>1, <1>3 DEF LoneInv, NoneIn
<1> QED BY <1>12, <1>13, <1>14, <1>15, <1>16, <1>17 DEF LoneInv

LEMMA LoneCommit ==
  ASSUME DepParts, LoneInv, NEW d \in Deps, CommitDeploy(d), Lone'
  PROVE  LoneInv'
<1>1. /\ req[d] = "read" /\ req' = [req EXCEPT ![d] = "done"]
      /\ row' = [e \in Deps |-> IF e = d THEN "inactive" ELSE AllInactive[e]]
      /\ inbox' = [w \in Workers |-> Append(inbox[w], d)]
      /\ UNCHANGED <<tool, prev, pc, job, release, listed, sched, queued, clashes, disturbed>>
  BY DEF CommitDeploy, InsertRow, Broadcast, workerVars, jobVars, history
<1>2. Lone
  BY <1>1 DEF Lone
<1>3. /\ Pending(d) /\ row[d] = "none" /\ \A e \in Deps : Pending(e) => e = d
      /\ Only(prev[d]) /\ Tells(prev[d]) /\ ~ Waits(d) /\ ~ WorkedOn(d)
  BY <1>1, <1>2 DEF Pending, LoneInv, OneAtATime, Reading, DepParts, RowTyped, InboxTyped, WorkTyped, WorkedOn
<1>4. \A e \in Deps : ~ Waits(e) /\ ~ WorkedOn(e) /\ (req[e] = "read" => e = d)
  BY <1>3 DEF Pending
<1>5. \A w \in Workers : pc[w] = "idle"
  BY <1>4 DEF WorkedOn, DepParts, WorkTyped
<1>6. ActiveDeps' = {} /\ \A e \in Deps : row'[e] = IF e = d \/ row[e] = "active" THEN "inactive" ELSE row[e]
  BY <1>1 DEF AllInactive, Active, ActiveDeps
<1>7. \A e \in Deps : req'[e] # "read"
  BY <1>1, <1>4 DEF DepParts, RequestTyped
<1>8. \A e \in Deps : (Waits(e)' => e = d) /\ ~ WorkedOn(e)'
  <2>1. ASSUME NEW e \in Deps, Waits(e)' PROVE e = d
    <3>1. PICK w \in Workers : In(inbox'[w], e)
      BY <2>1 DEF Waits, In
    <3>2. inbox'[w] = Append(inbox[w], d) /\ inbox[w] \in Seq(Deps)
      BY <1>1 DEF DepParts, InboxTyped
    <3>3. In(inbox[w], e) \/ e = d
      BY <3>1, <3>2, AppendIn
    <3> QED BY <1>4, <3>3, WaitsIn
  <2> QED BY <1>1, <1>5, <2>1 DEF WorkedOn
<1>9. \A e \in Deps : Pending(e)' => e = d
  BY <1>7, <1>8 DEF Pending
<1>10. Tells(prev[d])' /\ prev'[d] = prev[d]
  <2>1. \A e \in Deps : row[e] # "none" => row'[e] # "none"
    BY <1>6
  <2>2. ASSUME NEW e, Tells(e) PROVE Tells(e)'
    BY <1>1, <2>1, <2>2 DEF Tells
  <2> QED BY <1>1, <1>3, <2>2 DEF Tells
<1>11. Untouched'
  BY <1>1, <1>2, <1>6 DEF LoneInv, Untouched
<1>12. OneAtATime' /\ Reading' /\ Installing'
  BY <1>1, <1>5, <1>7, <1>9 DEF OneAtATime, Reading, Installing
<1>13. Delivering'
  BY <1>1, <1>6, <1>8, <1>10 DEF Delivering, Tells
<1>14. Workers = {} => NoneIn'
  BY <1>1, <1>2 DEF LoneInv, NoneIn
<1>15. Quiet' => Settling'
  <2>1. CASE Workers = {}
    <3>1. Only(NoDep)' /\ Tells(NoDep)'
      BY <1>6, <1>14, <2>1 DEF Only, NoneIn, Tells
    <3> QED BY <3>1 DEF Settling
  <2>2. ASSUME NEW w \in Workers PROVE ~ Quiet'
    <3>1. inbox'[w] = Append(inbox[w], d) /\ inbox[w] \in Seq(Deps)
      BY <1>1 DEF DepParts, InboxTyped
    <3>2. In(inbox'[w], d)
      BY <3>1, AppendIn
    <3>3. Waits(d)'
      BY <3>2 DEF Waits, In
    <3> QED BY <3>3 DEF Quiet, Pending
  <2> QED BY <2>1, <2>2
<1> QED BY <1>11, <1>12, <1>13, <1>14, <1>15 DEF LoneInv

LEMMA LoneTake ==
  ASSUME DepParts, LoneInv, NEW w \in Workers, Take(w), Lone'
  PROVE  LoneInv'
<1>0. PICK d : d = Head(inbox[w])
  OBVIOUS
<1>1. /\ pc[w] = "idle" /\ inbox[w] # <<>> /\ inbox' = [inbox EXCEPT ![w] = Tail(@)]
      /\ UNCHANGED <<req, tool, prev, release, listed, sched, queued, clashes, disturbed>>
      /\ \/ /\ row[d] = "inactive" /\ row' = [row EXCEPT ![d] = "active"]
            /\ pc' = [pc EXCEPT ![w] = "uninstall"] /\ job' = [job EXCEPT ![w] = d]
         \/ row[d] # "inactive" /\ row' = row /\ pc' = pc /\ job' = job
  BY <1>0 DEF Take, GoTo, reqVars, workerVars, jobVars, history
<1>2. Lone
  BY <1>1 DEF Lone
<1>3. /\ d \in Deps /\ Waits(d)
      /\ inbox' \in [Workers -> Seq(Deps)]
      /\ \A v \in Workers, e \in Deps : In(inbox'[v], e) => In(inbox[v], e)
  BY <1>0, <1>1, TailIn, WaitsIn DEF DepParts, InboxTyped
<1>4. /\ req[d] = "done" /\ row[d] \in {"inactive", "active"}
      /\ \A e \in Deps : Pending(e) => e = d
      /\ \A e \in Deps : req[e] # "read"
      /\ \A v \in Workers : pc[v] # "idle" => job[v] = d
  BY <1>2, <1>3, PendingAlone
<1>5. ActiveDeps \subseteq {d}
  BY <1>2, <1>3 DEF LoneInv, Delivering
<1>6. \A e \in Deps : Waits(e)' => Waits(e)
  BY <1>3, WaitsIn DEF Waits, In
<1>7. CASE row[d] = "inactive"
  <2>1. /\ pc'[w] = "uninstall" /\ \A v \in Workers \ {w} : pc'[v] = pc[v]
        /\ job'[w] = d /\ \A v \in Workers \ {w} : job'[v] = job[v]
        /\ row'[d] = "active" /\ \A e \in Deps \ {d} : row'[e] = row[e]
    BY <1>1, <1>3, <1>7 DEF DepParts, WorkTyped, RowTyped
  <2>2. \A v \in Workers : pc[v] = "idle"
    <3>1. ASSUME NEW v \in Workers, pc[v] # "idle" PROVE FALSE
      <4>1. row[job[v]] = "active" /\ job[v] = d
        BY <1>2, <1>4, <3>1 DEF LoneInv, OneAtATime
      <4> QED BY <1>7, <4>1
    <3> QED BY <3>1
  <2>3. Tells(prev[d])
    BY <1>2, <1>3, <1>7 DEF LoneInv, Delivering
  <2>4. Tells(prev[d])'
    BY <1>1, <1>3, <1>7, <2>1, <2>3 DEF Tells
  <2>5. \A e \in Deps : Pending(e)' => e = d
    BY <1>1, <1>4, <1>6, <2>1, <2>2 DEF Pending, WorkedOn
  <2>6. WorkedOn(d)' /\ ~ Quiet' /\ ~ AllIdle'
    BY <1>3, <2>1 DEF WorkedOn, Quiet, Pending, AllIdle
  <2>7. ActiveDeps' \subseteq {d}
    BY <1>5, <2>1 DEF ActiveDeps, Active
  <2>8. Untouched' /\ OneAtATime'
    BY <1>1, <1>2, <2>1, <2>2, <2>5 DEF LoneInv, Untouched, OneAtATime
  <2>9. Reading'
    BY <1>1, <1>4 DEF Reading
  <2>10. Delivering'
    BY <2>1, <2>5, <2>6, <2>7 DEF Delivering, Pending
  <2>11. Installing'
    BY <2>1, <2>2, <2>4 DEF Installing, Tells
  <2> QED BY <2>6, <2>8, <2>9, <2>10, <2>11 DEF LoneInv
<1>8. CASE row[d] # "inactive"
  <2>1. row' = row /\ pc' = pc /\ job' = job /\ row[d] = "active"
    BY <1>1, <1>4, <1>8
  <2>2. \A e \in Deps : (WorkedOn(e)' <=> WorkedOn(e)) /\ (Pending(e)' => Pending(e))
    BY <1>1, <1>6, <2>1 DEF WorkedOn, Pending
  <2>3. ActiveDeps' = {d}
    BY <1>3, <1>5, <2>1 DEF ActiveDeps, Active
  <2>4. \A e : Tells(e)' <=> Tells(e)
    BY <1>1, <2>1 DEF Tells
  <2>5. Untouched' /\ OneAtATime' /\ Reading' /\ Installing'
    BY <1>1, <1>2, <1>4, <2>1, <2>2 DEF LoneInv, Untouched, OneAtATime, Reading, Installing, NoneIn, Tells
  <2>6. AllIdle => Tells(d)
    BY <1>2, <1>3, <2>1 DEF LoneInv, Delivering
  <2>7. Delivering'
    <3>1. ASSUME NEW e \in Deps, Waits(e)' \/ WorkedOn(e)' PROVE e = d
      BY <1>4, <2>2, <3>1 DEF Pending
    <3> QED BY <1>1, <2>1, <2>3, <2>4, <2>6, <3>1 DEF Delivering, AllIdle, Tells
  <2>8. Quiet' => Settling'
    <3> SUFFICES ASSUME Quiet' PROVE Settling'
      OBVIOUS
    <3>1. \A v \in Workers : pc[v] = "idle"
      BY <2>2, <1>3 DEF Quiet, Pending, WorkedOn, DepParts, WorkTyped
    <3>2. Tells(d)' /\ Only(d)'
      BY <1>3, <2>3, <2>4, <2>6, <3>1, ToolDeployAssumption DEF AllIdle, Only
    <3> QED BY <1>3, <3>2 DEF Settling
  <2> QED BY <2>5, <2>7, <2>8 DEF LoneInv
<1> QED BY <1>7, <1>8

LEMMA LoneUninstall ==
  ASSUME DepParts, LoneInv, NEW w \in Workers, UninstallPrev(w), Lone'
  PROVE  LoneInv'
<1> DEFINE d == job[w]
           e == prev[d]
<1>1. /\ pc[w] = "uninstall" /\ GoTo(w, "start") /\ job' = job
      /\ UNCHANGED <<reqVars, rowVars, inbox, listed, queued, clashes, disturbed>>
      /\ release' = IF e # NoDep /\ row[e] # "gone"
                    THEN [release EXCEPT ![ChartOf[tool[e]]] = NoTool] ELSE release
  BY DEF UninstallPrev, jobVars, history, HasPrev, PrevChart
<1>2. Lone
  BY <1>1 DEF Lone
<1>3. Tells(e) /\ d \in Deps /\ e \in Deps \cup {NoDep}
  BY <1>1, <1>2, WorkAlone DEF LoneInv, Installing, DepParts, RequestTyped
<1>4. NoneIn'
  <2>1. CASE e = NoDep
    BY <1>1, <1>3, <2>1, ToolDeployAssumption DEF Tells, NoneIn
  <2>2. CASE e # NoDep
    <3>1. e \in Deps /\ row[e] # "gone"
      BY <1>2, <1>3, <2>2 DEF LoneInv, Untouched
    <3>2. release' = [release EXCEPT ![ChartOf[tool[e]]] = NoTool]
      BY <1>1, <2>2, <3>1
    <3>3. \A c \in Charts : release'[c] = IF c = ChartOf[tool[e]] THEN NoTool ELSE release[c]
      BY <3>2 DEF DepParts, StoreTyped
    <3> QED BY <1>3, <3>3, ToolDeployAssumption DEF Tells, NoneIn
  <2> QED BY <2>1, <2>2
<1> QED BY <1>1, <1>2, <1>4, LoneGoesOn

LEMMA LoneInstall ==
  ASSUME DepParts, LoneInv, NEW w \in Workers, StartInstall(w) \/ EndInstall(w), Lone'
  PROVE  LoneInv'
<1>1. CASE StartInstall(w)
  <2>1. /\ pc[w] = "start" /\ GoTo(w, "installing") /\ job' = job
        /\ UNCHANGED <<reqVars, rowVars, inbox, release, listed, queued, clashes, disturbed>>
    BY <1>1 DEF StartInstall, jobVars, history
  <2>2. Lone
    BY <2>1 DEF Lone
  <2>3. NoneIn'
    BY <2>1, <2>2 DEF LoneInv, Installing, NoneIn
  <2> QED BY <2>1, <2>2, <2>3, LoneGoesOn
<1>2. CASE EndInstall(w)
  <2>1. /\ pc[w] = "installing" /\ GoTo(w, "waiting") /\ job' = job
        /\ release' = [release EXCEPT ![ChartOf[tool[job[w]]]] = tool[job[w]]]
        /\ UNCHANGED <<reqVars, rowVars, inbox, listed, queued, clashes, disturbed>>
    BY <1>2 DEF EndInstall, jobVars, Chart
  <2>2. Lone
    BY <2>1 DEF Lone
  <2>3. NoneIn /\ job[w] \in Deps /\ row[job[w]] = "active"
    BY <2>1, <2>2, WorkAlone DEF LoneInv, Installing
  <2>4. \A c \in Charts : release'[c] = IF c = ChartOf[tool[job[w]]] THEN tool[job[w]] ELSE release[c]
    BY <2>1 DEF DepParts, StoreTyped
  <2>5. Tells(job[w])'
    BY <2>1, <2>3, <2>4 DEF Tells, NoneIn, reqVars, rowVars
  <2> QED BY <2>1, <2>2, <2>5, LoneGoesOn
<1> QED BY <1>1, <1>2

\* No other worker is at the release: the messages of a deployment reach them
\* all, but the first makes its row active.
LEMMA LoneConflicts ==
  ASSUME DepParts, LoneInv, NEW w \in Workers, InstallConflicts(w), Lone'
  PROVE  LoneInv'
<1>1. /\ pc[w] = "start" /\ Busy(Chart(w)) /\ UNCHANGED <<clashes, disturbed>>
  BY DEF InstallConflicts, history
<1>2. Lone
  BY <1>1 DEF Lone
<1>3. PICK v \in Workers : pc[v] = "installing"
  BY <1>1 DEF Busy
<1>4. v = w
  BY <1>1, <1>2, <1>3, WorkAlone
<1> QED BY <1>1, <1>3, <1>4

LEMMA LoneGivesUp ==
  ASSUME DepParts, LoneInv, NEW w \in Workers, InstallFails(w), Lone'
  PROVE  LoneInv'
<1>1. /\ pc[w] = "installing" /\ GiveUp(w)
      /\ \E left \in {release[Chart(w)], Broken} : release' = [release EXCEPT ![Chart(w)] = left]
      /\ UNCHANGED <<reqVars, inbox, listed, queued, clashes, disturbed>>
  BY DEF InstallFails, jobVars, Lone
<1>2. Lone
  BY <1>1 DEF Lone
<1>3. PICK d : d = job[w]
  OBVIOUS
<1>4. row[d] = "active" /\ NoneIn /\ d \in Deps /\ tool[d] \in Tools
  BY <1>1, <1>2, <1>3, WorkAlone DEF LoneInv, Installing
<1>5. Idle(w) /\ row' = [row EXCEPT ![d] = "inactive"] /\ created' = created
  BY <1>1, <1>3, <1>4 DEF GiveUp
<1>6. NoneIn'
  <2>1. PICK left \in {release[Chart(w)], Broken} : release' = [release EXCEPT ![Chart(w)] = left]
    BY <1>1
  <2>2. Chart(w) \in Charts
    BY <1>3, <1>4, ToolDeployAssumption DEF Chart
  <2>3. left \notin Tools
    BY <1>4, <2>2, ToolDeployAssumption DEF NoneIn
  <2>4. \A c \in Charts : release'[c] = IF c = Chart(w) THEN left ELSE release[c]
    BY <2>1 DEF DepParts, StoreTyped
  <2> QED BY <1>4, <2>3, <2>4 DEF NoneIn
<1> QED BY <1>1, <1>2, <1>3, <1>5, <1>6, LoneEnds

LEMMA LoneSettled ==
  ASSUME DepParts, LoneInv, NEW w \in Workers, Settled(w), Lone'
  PROVE  LoneInv'
<1>1. /\ pc[w] = "waiting" /\ Idle(w)
      /\ UNCHANGED <<reqVars, row, created, inbox, release, listed, queued, clashes, disturbed>>
  BY DEF Settled, jobVars, history, rowVars
<1>2. Lone
  BY <1>1 DEF Lone
<1>3. PICK d : d = job[w]
  OBVIOUS
<1>4. Tells(d)
  BY <1>1, <1>2, <1>3 DEF LoneInv, Installing
<1>5. Tells(d)'
  BY <1>1, <1>4 DEF Tells, reqVars
<1> QED BY <1>1, <1>2, <1>3, <1>5, LoneEnds

\* Nothing of this changes: a retired tool is only due, or it is a stutter.
LEMMA LoneStays ==
  ASSUME LoneInv, UNCHANGED <<reqVars, rowVars, inbox, workerVars, release, listed, queued, clashes, disturbed>>
  PROVE  LoneInv'
<1> USE DEF reqVars, rowVars, workerVars
<1>1. (Lone' => Lone) /\ (Quiet' => Quiet)
  BY DEF Lone, Quiet, Pending, Waits, WorkedOn
<1>2. /\ Untouched => Untouched'
      /\ OneAtATime => OneAtATime'
  BY DEF Untouched, OneAtATime, Pending, Waits, WorkedOn
<1>3. /\ ActiveDeps' = ActiveDeps
      /\ \A e : (Tells(e)' <=> Tells(e)) /\ (Waits(e)' <=> Waits(e)) /\ (WorkedOn(e)' <=> WorkedOn(e))
      /\ NoneIn => NoneIn'
      /\ AllIdle' <=> AllIdle
  BY DEF ActiveDeps, Active, Tells, Waits, WorkedOn, NoneIn, AllIdle
<1>4. Reading => Reading'
  BY <1>3 DEF Reading, Only, Tells
<1>5. Delivering => Delivering'
  BY <1>3 DEF Delivering, Tells
<1>6. Installing => Installing'
  BY <1>3 DEF Installing, Tells
<1>7. Settling => Settling'
  BY <1>3 DEF Settling, Only
<1> QED BY <1>1, <1>2, <1>3, <1>4, <1>5, <1>6, <1>7 DEF LoneInv

LEMMA LoneStep == DepParts /\ LoneInv /\ [Next]_vars => LoneInv'
<1> SUFFICES ASSUME DepParts, LoneInv, [Next]_vars, Lone' PROVE LoneInv'
  BY DEF LoneInv
<1>1. CASE UNCHANGED vars
  BY <1>1, LoneStays DEF vars, jobVars, history
<1>2. CASE RequestNext
  <2>1. ASSUME NEW d \in Deps, CommitFails(d) PROVE LoneInv'
    <3>1. req[d] = "read" /\ tool[d] \notin listed /\ UNCHANGED <<clashes, disturbed>>
      BY <2>1 DEF CommitFails, history
    <3>2. Lone
      BY <3>1 DEF Lone
    <3> QED BY <3>1, <3>2 DEF LoneInv, Untouched, DepParts, RequestTyped
  <2>2. ASSUME NEW d \in Deps, CommitUnheard(d) PROVE LoneInv'
    BY <2>2, NotLone DEF CommitUnheard
  <2> QED BY <1>2, <2>1, <2>2, LoneRead, LoneCommit DEF RequestNext
<1>3. CASE WorkerNext
  <2>1. ASSUME NEW w \in Workers, UninstallPrevFails(w) \/ WorkerDies(w) PROVE LoneInv'
    BY <2>1, NotLone DEF UninstallPrevFails, WorkerDies
  <2> QED BY <1>3, <2>1, LoneTake, LoneUninstall, LoneInstall, LoneConflicts, LoneGivesUp, LoneSettled
      DEF WorkerNext, WorkerStep
<1>4. CASE JobNext
  <2>1. ASSUME NEW t \in Tools, RetireTool(t) PROVE LoneInv'
    BY <2>1, LoneStays DEF RetireTool, history
  <2>2. ASSUME NEW t \in Tools, RunUninstallTool(t) \/ DeleteTool(t) PROVE LoneInv'
    BY <2>2, NotLone DEF RunUninstallTool, DeleteTool
  <2>3. ASSUME NEW c \in Charts, RunUninstall(c) PROVE LoneInv'
    <3>1. queued[c] > 0 /\ UNCHANGED <<clashes, disturbed>>
      BY <2>3 DEF RunUninstall, history
    <3>2. Lone
      BY <3>1 DEF Lone
    <3> QED BY <3>1, <3>2 DEF LoneInv, Untouched
  <2> QED BY <1>4, <2>1, <2>2, <2>3 DEF JobNext
<1> QED BY <1>1, <1>2, <1>3, <1>4 DEF Next

LEMMA LoneExact == DepParts /\ LoneInv => AloneIsExact
<1> SUFFICES ASSUME DepParts, LoneInv, Quiet, Lone, NEW c \in Charts
             PROVE  /\ Cardinality({d \in ActiveDeps : ChartOf[tool[d]] = c}) <= 1
                    /\ release[c] \in Tools <=>
                         \E d \in {d \in ActiveDeps : ChartOf[tool[d]] = c} : release[c] = tool[d]
  BY DEF AloneIsExact, Lone
<1> DEFINE here == {d \in ActiveDeps : ChartOf[tool[d]] = c}
<1>1. PICK e \in Deps \cup {NoDep} : Only(e) /\ Tells(e)
  BY DEF LoneInv, Settling
<1>2. here = {} \/ here = {e}
  BY <1>1 DEF Only
<1>3. Cardinality(here) <= 1
  <2>1. Cardinality({}) = 0 /\ Cardinality({e}) = 1
    BY FS_EmptySet, FS_Singleton
  <2> QED BY <1>2, <2>1
<1>4. ASSUME release[c] \in Tools PROVE \E d \in here : release[c] = tool[d]
  <2>1. e \in Deps /\ c = ChartOf[tool[e]] /\ release[c] = tool[e]
    BY <1>1, <1>4 DEF Tells
  <2>2. e \in ActiveDeps
    BY <1>1, <2>1, ToolDeployAssumption DEF Only
  <2> QED BY <2>1, <2>2
<1>5. ASSUME NEW d \in here, release[c] = tool[d] PROVE release[c] \in Tools
  BY <1>5 DEF ActiveDeps, Active, DepParts, RequestTyped, RowTyped
<1> QED BY <1>3, <1>4, <1>5

\* Whatever fails, an active row is of a deployment that was installed, is
\* being installed, or was cut off by a crash; and while requests come one after
\* the other, the active row and the releases in the cluster tell the same,
\* however many workers receive each message (BackgroundTaskConsumer).
THEOREM DeploymentsTold == Spec => []RowsTellReleases
<1>1. DepParts /\ LoneInv => RowsTellReleases
  BY LoneExact DEF RowsTellReleases, DepParts, WorkHeld
<1> QED BY <1>1, DepStart, DepStep, LoneStart, LoneStep, PTL DEF Spec

\* Rows, queues, workers and releases keep their types.
THEOREM DeploymentsTyped == Spec => []TypeOK
<1>1. DepParts => TypeOK
  BY TypedParts DEF DepParts
<1> QED BY <1>1, DepStart, DepStep, PTL DEF Spec

-----------------------------------------------------------------------------
(***************************************************************************)
(* The tools page: ToolStatus                                              *)
(***************************************************************************)

Labels == {"Not deployed", "Deploying", "Ready", "Idled", "Failed", "Unknown", "Restarting"}
Conditions == {"absent", "progressing", "available", "scaled", "stuck", "several"}

LEMMA SaysIs ==
  /\ DOMAIN Says = Conditions /\ Statuses = Labels
  /\ \A k \in Conditions : Says[k] \in Labels \ {"Restarting"}
  /\ Says["absent"] = "Not deployed" /\ Says["available"] = "Ready"
<1>1. DOMAIN Says = Conditions
  BY DEF Says, Conditions
<1>2. \A k \in Conditions : Says[k] \in Labels \ {"Restarting"}
  <2>1. /\ Says["absent"] = "Not deployed" /\ Says["progressing"] = "Deploying" /\ Says["available"] = "Ready"
        /\ Says["scaled"] = "Idled" /\ Says["stuck"] = "Failed" /\ Says["several"] = "Unknown"
    BY DEF Says
  <2> QED BY <2>1 DEF Conditions, Labels
<1>3. Says["absent"] = "Not deployed" /\ Says["available"] = "Ready"
  BY DEF Says
<1>4. ASSUME NEW s \in Labels PROVE s \in Statuses
  <2>1. \/ s = "Restarting" \/ s = Says["absent"] \/ s = Says["progressing"] \/ s = Says["available"]
        \/ s = Says["scaled"] \/ s = Says["stuck"] \/ s = Says["several"]
    BY DEF Says, Labels
  <2> QED BY <1>1, <2>1 DEF Statuses, Conditions
<1>5. ASSUME NEW s \in Statuses PROVE s \in Labels
  BY <1>1, <1>2, <1>5 DEF Statuses, Labels
<1> QED BY <1>1, <1>2, <1>3, <1>4, <1>5

TabStates == [pc : {"shown", "joined"}, dep : Releases \cup {Nothing}, label : Statuses,
              wire : Seq(Statuses), heard : BOOLEAN]
RunnerStates == [pc : {"idle", "deploy", "restart", "read", "tell"}, dep : Releases \cup {Nothing},
                 helm : {"none", "ok"}, saw : Statuses, inbox : Seq(Orders)]

\* What a page shows, once all on its way has arrived.
Arrives(tab) == IF tab.wire = <<>> THEN tab.label ELSE tab.wire[Len(tab.wire)]

\* A page that heard anything hears of the last status in the end.
TabHears(tab, s) ==
  /\ tab.pc # "joined" => tab.wire = <<>> /\ ~ tab.heard
  /\ tab.heard => Arrives(tab) = s

\* What a worker at work read, or is about to read, agrees with Kubernetes.
RunnerAgrees(r, k) ==
  /\ r.pc = "read" /\ r.helm = "ok" => k = "available"
  /\ r.pc = "tell" => r.saw = Says[k]

RunnerSane(r) ==
  /\ r.pc \in {"idle", "restart", "tell"} => r.helm = "none"
  /\ r.saw # "Restarting"

SomeAtWork == \E w \in Runners : AtWork(w)

TabsPart == tabs \in [Tabs -> TabStates] /\ \A t \in Tabs : TabHears(tabs[t], told)
RunnersPart == runners \in [Runners -> RunnerStates] /\ \A w \in Runners : RunnerSane(runners[w])
PlainPart ==
  /\ actives \subseteq deployed /\ deployed \subseteq Releases
  /\ kube \in Conditions
  /\ told \in Statuses /\ stale \in BOOLEAN /\ mixed \in BOOLEAN /\ cutOff \in BOOLEAN
OneAtWork == ~ mixed => \A v, w \in Runners : AtWork(v) /\ AtWork(w) => v = w
InstalledOrBusy == told \in Unsettled => SomeAtWork \/ cutOff
Agreeing ==
  ~ mixed /\ ~ stale /\ ~ cutOff =>
    /\ \A w \in Runners : RunnerAgrees(runners[w], kube)
    /\ ~ SomeAtWork => told = Says[kube]

\* What is asked for was asked of a deployment.
KnownOrders == [kind : {"deploy", "restart"}, dep : deployed]
Known == \A w \in Runners : runners[w].inbox \in Seq(KnownOrders)

StatusInv ==
  /\ TabsPart /\ RunnersPart /\ Known /\ PlainPart /\ OneAtWork /\ InstalledOrBusy /\ Agreeing

LEMMA NoMessages == ASSUME NEW S PROVE <<>> \in Seq(S)
  OBVIOUS

LEMMA StatusStart == StatusInit => StatusInv
<1> SUFFICES ASSUME StatusInit PROVE StatusInv
  OBVIOUS
<1>0. "Not deployed" \in Statuses /\ <<>> \in Seq(Statuses) /\ <<>> \in Seq(Orders)
  <2>1. "Not deployed" \in Statuses
    BY SaysIs DEF Labels
  <2> QED BY <2>1, NoMessages
<1>1. NewTab \in TabStates /\ TabHears(NewTab, told)
  BY <1>0 DEF NewTab, TabStates, TabHears
<1>2. IdleRunner \in RunnerStates /\ RunnerSane(IdleRunner)
  BY <1>0 DEF IdleRunner, RunnerStates, RunnerSane
<1>3. TabsPart /\ RunnersPart
  BY <1>1, <1>2 DEF StatusInit, TabsPart, RunnersPart
<1>7. Known
  BY NoMessages DEF StatusInit, Known, IdleRunner
<1>4. ~ SomeAtWork
  BY DEF StatusInit, SomeAtWork, AtWork, IdleRunner
<1>5. PlainPart /\ OneAtWork /\ InstalledOrBusy
  BY <1>4, SaysIs DEF StatusInit, PlainPart, Conditions, Labels, OneAtWork, SomeAtWork, InstalledOrBusy, Unsettled
<1>6. Agreeing
  BY <1>4, SaysIs DEF StatusInit, Agreeing, RunnerAgrees, IdleRunner
<1> QED BY <1>3, <1>5, <1>6, <1>7 DEF StatusInv

-----------------------------------------------------------------------------
(* Pages *)

LEMMA EmptyLen == ASSUME NEW s, s = <<>> PROVE Len(s) = 0
  OBVIOUS

LEMMA LastOf ==
  ASSUME NEW S, NEW s \in Seq(S), NEW x \in S
  PROVE  /\ Append(s, x) \in Seq(S) /\ Append(s, x) # <<>> /\ Append(s, x)[Len(Append(s, x))] = x
         /\ s # <<>> => /\ Head(s) \in S /\ Tail(s) \in Seq(S)
                        /\ (Tail(s) = <<>> => Head(s) = s[Len(s)])
                        /\ (Tail(s) # <<>> => Tail(s)[Len(Tail(s))] = s[Len(s)])
<1>1. /\ Append(s, x) \in Seq(S) /\ Len(Append(s, x)) = Len(s) + 1 /\ Len(s) \in Nat
      /\ Append(s, x)[Len(s) + 1] = x
  OBVIOUS
<1>2. ASSUME s # <<>> PROVE Head(s) \in S /\ Tail(s) \in Seq(S) /\ Len(Tail(s)) = Len(s) - 1 /\ Head(s) = s[1]
  BY <1>2
<1>3. ASSUME s # <<>>, Tail(s) = <<>> PROVE Head(s) = s[Len(s)]
  <2>1. Len(Tail(s)) = 0
    BY <1>3, EmptyLen
  <2>2. Len(s) = 1
    BY <1>1, <1>2, <1>3, <2>1
  <2> QED BY <1>2, <1>3, <2>2
<1>4. ASSUME s # <<>>, Tail(s) # <<>> PROVE Tail(s)[Len(Tail(s))] = s[Len(s)]
  <2>1. Len(Tail(s)) \in 1 .. Len(Tail(s)) /\ \A i \in 1 .. Len(Tail(s)) : Tail(s)[i] = s[i + 1]
    BY <1>2, <1>4
  <2> QED BY <1>1, <1>2, <1>4, <2>1
<1> QED BY <1>1, <1>2, <1>3, <1>4

\* One page changes and hears what it must.
LEMMA OneTab ==
  ASSUME TabsPart, NEW t \in Tabs, NEW tab \in TabStates, TabHears(tab, told),
         tabs' = [tabs EXCEPT ![t] = tab], told' = told
  PROVE  TabsPart'
BY DEF TabsPart

LEMMA SendTabs ==
  ASSUME TabsPart, PlainPart, NEW s \in Statuses, SendStatus(s)
  PROVE  TabsPart' /\ told' = s
<1>1. /\ told' = s
      /\ tabs' = [t \in Tabs |-> IF tabs[t].pc = "joined"
                                 THEN [tabs[t] EXCEPT !.wire = Append(@, s), !.heard = TRUE] ELSE tabs[t]]
  BY DEF SendStatus
<1>2. ASSUME NEW t \in Tabs PROVE tabs'[t] \in TabStates /\ TabHears(tabs'[t], s)
  <2>1. tabs[t] \in TabStates /\ TabHears(tabs[t], told)
    BY DEF TabsPart
  <2>2. CASE tabs[t].pc = "joined"
    <3>1. tabs'[t] = [pc |-> "joined", dep |-> tabs[t].dep, label |-> tabs[t].label,
                      wire |-> Append(tabs[t].wire, s), heard |-> TRUE]
      BY <1>1, <2>1, <2>2 DEF TabStates
    <3>2. /\ Append(tabs[t].wire, s) \in Seq(Statuses) /\ Append(tabs[t].wire, s) # <<>>
          /\ Append(tabs[t].wire, s)[Len(Append(tabs[t].wire, s))] = s
      BY <2>1, LastOf DEF TabStates
    <3> QED BY <2>1, <3>1, <3>2 DEF TabStates, TabHears, Arrives
  <2>3. CASE tabs[t].pc # "joined"
    <3>1. tabs'[t] = tabs[t]
      BY <1>1, <2>3
    <3> QED BY <2>1, <2>3, <3>1 DEF TabHears
  <2> QED BY <2>2, <2>3
<1>3. tabs' \in [Tabs -> TabStates]
  BY <1>1, <1>2
<1> QED BY <1>1, <1>2, <1>3 DEF TabsPart

\* What a page does by itself changes nothing of the workers.
WorkerVars == <<runners, actives, deployed, kube, told, stale, mixed, cutOff>>

LEMMA WorkersStay ==
  ASSUME RunnersPart, Known, PlainPart, OneAtWork, InstalledOrBusy, Agreeing, UNCHANGED WorkerVars
  PROVE  RunnersPart' /\ Known' /\ PlainPart' /\ OneAtWork' /\ InstalledOrBusy' /\ Agreeing'
BY DEF RunnersPart, Known, KnownOrders, PlainPart, OneAtWork, InstalledOrBusy, Agreeing, WorkerVars,
       SomeAtWork, AtWork

LEMMA PageKeeps ==
  ASSUME StatusInv, NEW t \in Tabs, OpenPage(t) \/ JoinStream(t) \/ ShowEvent(t) \/ StreamBreaks(t)
  PROVE  StatusInv'
<1>1. UNCHANGED WorkerVars
  BY DEF OpenPage, JoinStream, ShowEvent, StreamBreaks, WorkerVars
<1>2. told' = told /\ tabs \in [Tabs -> TabStates] /\ tabs[t] \in TabStates /\ TabHears(tabs[t], told)
  BY <1>1 DEF StatusInv, TabsPart, WorkerVars
<1>3. ASSUME OpenPage(t) PROVE TabsPart'
  <2>1. PICK d \in IF actives = {} THEN {Nothing} ELSE actives :
          tabs' = [tabs EXCEPT ![t] = [NewTab EXCEPT !.dep = d, !.label = IF d = Nothing THEN @ ELSE Says[kube]]]
    BY <1>3 DEF OpenPage
  <2> DEFINE l == IF d = Nothing THEN NewTab.label ELSE Says[kube]
             tab == [NewTab EXCEPT !.dep = d, !.label = l]
  <2>2. tabs' = [tabs EXCEPT ![t] = tab]
    BY <2>1
  <2>3. NewTab.label = "Not deployed" /\ l \in Statuses
    BY SaysIs DEF StatusInv, PlainPart, Labels, NewTab
  <2>4. d \in Releases \cup {Nothing}
    BY <2>1 DEF StatusInv, PlainPart
  <2> HIDE DEF l
  <2>5. tab \in TabStates
    <3>1. <<>> \in Seq(Statuses)
      BY NoMessages
    <3> QED BY <2>3, <2>4, <3>1 DEF TabStates, NewTab
  <2>6. TabHears(tab, told)
    <3>1. tab.wire = <<>> /\ ~ tab.heard
      BY DEF NewTab
    <3> QED BY <3>1 DEF TabHears
  <2> HIDE DEF tab
  <2> QED BY <1>2, <2>2, <2>5, <2>6, OneTab DEF StatusInv
<1>4. ASSUME JoinStream(t) PROVE TabsPart'
  <2> DEFINE tab == [tabs[t] EXCEPT !.pc = "joined"]
  <2>1. tabs[t].pc = "shown" /\ tabs' = [tabs EXCEPT ![t] = tab]
    BY <1>4 DEF JoinStream
  <2>2. tab \in TabStates /\ TabHears(tab, told)
    BY <1>2, <2>1 DEF TabStates, TabHears
  <2> QED BY <1>2, <2>1, <2>2, OneTab DEF StatusInv
<1>5. ASSUME ShowEvent(t) PROVE TabsPart'
  <2> DEFINE first == Head(tabs[t].wire)
             rest == Tail(tabs[t].wire)
             tab == [tabs[t] EXCEPT !.label = first, !.wire = rest]
  <2>1. tabs[t].wire # <<>> /\ tabs' = [tabs EXCEPT ![t] = tab]
    BY <1>2, <1>5 DEF ShowEvent, TabStates
  <2>2. "Failed" \in Statuses
    BY SaysIs DEF Labels
  <2>3. /\ first \in Statuses /\ rest \in Seq(Statuses)
        /\ (rest = <<>> => first = tabs[t].wire[Len(tabs[t].wire)])
        /\ (rest # <<>> => rest[Len(rest)] = tabs[t].wire[Len(tabs[t].wire)])
    BY <1>2, <2>1, <2>2, LastOf DEF TabStates
  <2> HIDE DEF first, rest
  <2>4. tab \in TabStates
    BY <1>2, <2>3 DEF TabStates
  <2>5. tab.pc = tabs[t].pc /\ tab.label = first /\ tab.wire = rest /\ tab.heard = tabs[t].heard
    BY <1>2 DEF TabStates
  <2>6. TabHears(tab, told)
    BY <1>2, <2>1, <2>3, <2>5 DEF TabHears, Arrives
  <2> HIDE DEF tab
  <2> QED BY <1>2, <2>1, <2>4, <2>6, OneTab DEF StatusInv
<1>6. ASSUME StreamBreaks(t) PROVE TabsPart'
  <2> DEFINE tab == [tabs[t] EXCEPT !.pc = "shown", !.wire = <<>>, !.heard = FALSE]
  <2>1. tabs' = [tabs EXCEPT ![t] = tab]
    BY <1>2, <1>6 DEF StreamBreaks, TabStates
  <2>2. tab \in TabStates
    <3>1. <<>> \in Seq(Statuses)
      BY NoMessages
    <3> QED BY <1>2, <3>1 DEF TabStates
  <2>3. tab.wire = <<>> /\ ~ tab.heard
    BY <1>2 DEF TabStates
  <2>4. TabHears(tab, told)
    BY <2>3 DEF TabHears
  <2> HIDE DEF tab
  <2> QED BY <1>2, <2>1, <2>2, <2>4, OneTab DEF StatusInv
<1>7. TabsPart'
  BY <1>3, <1>4, <1>5, <1>6 DEF StatusInv
<1> QED BY <1>1, <1>7, WorkersStay DEF StatusInv
-----------------------------------------------------------------------------
(* Workers *)

\* One worker moves: ending its work it has told how it ended, or was cut off.
LEMMA RunnerMoves ==
  ASSUME StatusInv, TabsPart', PlainPart', NEW w \in Runners, NEW r \in RunnerStates, RunnerSane(r),
         runners' = [runners EXCEPT ![w] = r], r.inbox \in Seq(KnownOrders), deployed' = deployed,
         mixed => mixed', cutOff => cutOff',
         ~ AtWork(w) => kube' = kube /\ (stale => stale') /\ (r.pc = "idle" => told' = told),
         AtWork(w) /\ r.pc = "idle" =>
           cutOff' \/ (told' \notin Unsettled /\ (~ mixed' /\ ~ stale' => told' = Says[kube'])),
         ~ mixed' /\ ~ stale' /\ ~ cutOff' => RunnerAgrees(r, kube'),
         r.pc # "idle" => AtWork(w) \/ mixed' \/ \A v \in Runners \ {w} : ~ AtWork(v)
  PROVE  StatusInv'
<1>1. /\ runners' \in [Runners -> RunnerStates] /\ runners'[w] = r
      /\ \A v \in Runners \ {w} : runners'[v] = runners[v]
  BY DEF StatusInv, RunnersPart
<1>2. RunnersPart' /\ Known'
  BY <1>1 DEF StatusInv, RunnersPart, Known, KnownOrders
<1>3. (AtWork(w)' <=> r.pc # "idle") /\ \A v \in Runners \ {w} : AtWork(v)' <=> AtWork(v)
  BY <1>1 DEF AtWork
<1>4. OneAtWork'
  BY <1>3 DEF StatusInv, OneAtWork
<1>5. InstalledOrBusy'
  <2>1. CASE r.pc # "idle"
    BY <1>3, <2>1 DEF InstalledOrBusy, SomeAtWork
  <2>2. CASE r.pc = "idle" /\ AtWork(w)
    BY <2>2 DEF InstalledOrBusy
  <2>3. CASE r.pc = "idle" /\ ~ AtWork(w)
    BY <1>3, <2>3 DEF StatusInv, InstalledOrBusy, SomeAtWork
  <2> QED BY <2>1, <2>2, <2>3
<1>6. ASSUME ~ mixed', ~ stale', ~ cutOff' PROVE (\A v \in Runners : RunnerAgrees(runners'[v], kube'))
                                                 /\ (~ SomeAtWork' => told' = Says[kube'])
  <2>1. ~ mixed /\ ~ cutOff
    BY <1>6
  <2>2. ASSUME NEW v \in Runners \ {w} PROVE RunnerAgrees(runners[v], kube')
    <3>1. CASE AtWork(v)
      <4>1. ~ AtWork(w)
        BY <2>1, <3>1 DEF StatusInv, OneAtWork
      <4>2. ~ stale /\ kube' = kube
        BY <1>6, <4>1
      <4> QED BY <2>1, <4>2 DEF StatusInv, Agreeing
    <3>2. CASE ~ AtWork(v)
      BY <3>2 DEF AtWork, RunnerAgrees
    <3> QED BY <3>1, <3>2
  <2>3. RunnerAgrees(r, kube')
    BY <1>6
  <2>4. ASSUME ~ SomeAtWork' PROVE told' = Says[kube']
    <3>1. r.pc = "idle" /\ \A v \in Runners \ {w} : ~ AtWork(v)
      BY <1>3, <2>4 DEF SomeAtWork
    <3>2. CASE AtWork(w)
      BY <1>6, <3>1, <3>2
    <3>3. CASE ~ AtWork(w)
      <4>1. ~ SomeAtWork /\ ~ stale /\ kube' = kube /\ told' = told
        BY <1>6, <3>1, <3>3 DEF SomeAtWork
      <4> QED BY <2>1, <4>1 DEF StatusInv, Agreeing
    <3> QED BY <3>2, <3>3
  <2> QED BY <1>1, <2>2, <2>3, <2>4
<1>7. Agreeing'
  BY <1>6 DEF Agreeing
<1> QED BY <1>2, <1>4, <1>5, <1>7 DEF StatusInv

\* The first request waiting, and what is left then.
LEMMA FirstOrder ==
  ASSUME StatusInv, NEW w \in Runners
  PROVE  /\ runners[w] \in RunnerStates /\ RunnerSane(runners[w])
         /\ runners[w].inbox \in Seq(KnownOrders)
         /\ \A i \in Seq(KnownOrders) : i \in Seq(Orders)
         /\ runners[w].inbox # <<>> => /\ Head(runners[w].inbox) \in KnownOrders
                                       /\ Tail(runners[w].inbox) \in Seq(KnownOrders)
<1>1. runners[w] \in RunnerStates /\ RunnerSane(runners[w])
  BY DEF StatusInv, RunnersPart
<1>2. runners[w].inbox \in Seq(KnownOrders)
  BY DEF StatusInv, Known
<1>3. KnownOrders \subseteq Orders
  BY DEF StatusInv, PlainPart, KnownOrders, Orders
<1> HIDE DEF KnownOrders
<1> QED BY <1>1, <1>2, <1>3

LEMMA StartKeeps ==
  ASSUME StatusInv, NEW w \in Runners, NEW to \in {"deploy", "restart"}, NEW s \in Unsettled,
         runners[w].pc = "idle", runners[w].inbox # <<>>, Starts(w, to), SendStatus(s),
         actives' \subseteq deployed', UNCHANGED <<deployed, kube, stale, cutOff>>
  PROVE  StatusInv'
<1> DEFINE o == Head(runners[w].inbox).dep
           rest == Tail(runners[w].inbox)
           r == [runners[w] EXCEPT !.pc = to, !.dep = o, !.helm = "none", !.inbox = rest]
<1>1. runners[w] \in RunnerStates /\ RunnerSane(runners[w]) /\ o \in Releases
      /\ rest \in Seq(KnownOrders) /\ rest \in Seq(Orders)
  BY FirstOrder DEF StatusInv, PlainPart, KnownOrders
<1>2. runners' = [runners EXCEPT ![w] = r]
  BY DEF Starts, StatusInv, RunnersPart, RunnerStates
<1>3. mixed' = (mixed \/ \E v \in Runners \ {w} : AtWork(v))
  BY DEF Starts
<1> HIDE DEF o, rest
<1>4. r \in RunnerStates
  BY <1>1 DEF RunnerStates
<1>5. r.pc = to /\ r.helm = "none" /\ r.saw = runners[w].saw /\ r.inbox = rest
  BY <1>1 DEF RunnerStates
<1>6. RunnerSane(r) /\ RunnerAgrees(r, kube')
  BY <1>1, <1>5 DEF RunnerSane, RunnerAgrees
<1> HIDE DEF r
<1>7. s \in Statuses
  BY SaysIs DEF Unsettled, Labels
<1>8. TabsPart' /\ told' = s
  BY <1>7, SendTabs DEF StatusInv
<1>9. mixed' \in BOOLEAN /\ (mixed => mixed') /\ (mixed' \/ \A v \in Runners \ {w} : ~ AtWork(v))
  BY <1>3
<1>10. PlainPart'
  BY <1>7, <1>8, <1>9 DEF StatusInv, PlainPart
<1>11. ~ AtWork(w)
  BY DEF AtWork
<1> QED BY <1>1, <1>2, <1>4, <1>5, <1>6, <1>8, <1>9, <1>10, <1>11, RunnerMoves

LEMMA DropOrders ==
  ASSUME StatusInv, NEW w \in Runners, runners[w].pc = "idle", NEW i \in Seq(KnownOrders),
         runners' = [runners EXCEPT ![w].inbox = i],
         UNCHANGED <<tabs, actives, deployed, kube, told, stale, mixed, cutOff>>
  PROVE  StatusInv'
<1> DEFINE r == [runners[w] EXCEPT !.inbox = i]
<1>1. runners[w] \in RunnerStates /\ RunnerSane(runners[w]) /\ i \in Seq(Orders)
  BY FirstOrder
<1>2. runners' = [runners EXCEPT ![w] = r]
  BY DEF StatusInv, RunnersPart, RunnerStates
<1>3. r \in RunnerStates
  BY <1>1 DEF RunnerStates
<1>4. r.pc = "idle" /\ r.helm = runners[w].helm /\ r.saw = runners[w].saw /\ r.inbox = i
  BY <1>1 DEF RunnerStates
<1>5. RunnerSane(r) /\ RunnerAgrees(r, kube') /\ ~ AtWork(w)
  BY <1>1, <1>4 DEF RunnerSane, RunnerAgrees, AtWork
<1> HIDE DEF r
<1>6. TabsPart' /\ PlainPart'
  BY DEF StatusInv, TabsPart, PlainPart
<1> QED BY <1>2, <1>3, <1>4, <1>5, <1>6, RunnerMoves

LEMMA TakeKeeps ==
  ASSUME StatusInv, NEW w \in Runners, TakeDeploy(w) \/ TakeRestart(w)
  PROVE  StatusInv'
<1>1. CASE TakeDeploy(w)
  <2> DEFINE d == Head(runners[w].inbox).dep
  <2>1. /\ runners[w].pc = "idle" /\ runners[w].inbox # <<>>
        /\ UNCHANGED <<deployed, kube, stale, cutOff>>
    BY <1>1 DEF TakeDeploy, Waiting
  <2>2. CASE d \in actives
    <3>1. runners' = [runners EXCEPT ![w].inbox = Tail(@)] /\ UNCHANGED <<tabs, actives, told, mixed>>
      BY <1>1, <2>2 DEF TakeDeploy
    <3>2. runners' = [runners EXCEPT ![w].inbox = Tail(runners[w].inbox)]
      BY <3>1 DEF StatusInv, RunnersPart, RunnerStates
    <3>3. Tail(runners[w].inbox) \in Seq(KnownOrders)
      BY <2>1, FirstOrder
    <3> QED BY <2>1, <3>1, <3>2, <3>3, DropOrders
  <2>3. CASE d \notin actives
    <3>1. Starts(w, "deploy") /\ actives' = actives \cup {d} /\ SendStatus("Deploying")
      BY <1>1, <2>3 DEF TakeDeploy
    <3>2. actives' \subseteq deployed'
      BY <2>1, <3>1, FirstOrder DEF StatusInv, PlainPart, KnownOrders
    <3> QED BY <2>1, <3>1, <3>2, StartKeeps DEF Unsettled
  <2> QED BY <2>2, <2>3
<1>2. CASE TakeRestart(w)
  <2>1. /\ runners[w].pc = "idle" /\ runners[w].inbox # <<>>
        /\ UNCHANGED <<actives, deployed, kube, stale>>
    BY <1>2 DEF TakeRestart, Waiting
  <2>2. CASE Head(runners[w].inbox).dep \in actives
    <3>1. Starts(w, "restart") /\ SendStatus("Restarting") /\ cutOff' = cutOff
      BY <1>2, <2>2 DEF TakeRestart
    <3>2. actives' \subseteq deployed'
      BY <2>1 DEF StatusInv, PlainPart
    <3> QED BY <2>1, <3>1, <3>2, StartKeeps DEF Unsettled
  <2>3. CASE Head(runners[w].inbox).dep \notin actives
    <3>1. runners' = [runners EXCEPT ![w].inbox = <<>>] /\ UNCHANGED <<tabs, told, mixed, cutOff>>
      BY <1>2, <2>3 DEF TakeRestart
    <3>2. <<>> \in Seq(KnownOrders)
      BY NoMessages
    <3> QED BY <2>1, <3>1, <3>2, DropOrders
  <2> QED BY <2>2, <2>3
<1> QED BY <1>1, <1>2
\* The worker goes on with its work, the pages hearing nothing.
LEMMA WorkGoesOn ==
  ASSUME StatusInv, NEW w \in Runners, AtWork(w), NEW r \in RunnerStates, RunnerSane(r), r.pc # "idle",
         r.inbox = runners[w].inbox, runners' = [runners EXCEPT ![w] = r],
         ~ mixed /\ ~ stale' /\ ~ cutOff => RunnerAgrees(r, kube'), kube' \in Conditions, stale' \in BOOLEAN,
         UNCHANGED <<tabs, actives, deployed, told, mixed, cutOff>>
  PROVE  StatusInv'
<1>1. TabsPart' /\ PlainPart'
  BY DEF StatusInv, TabsPart, PlainPart
<1>2. r.inbox \in Seq(KnownOrders)
  BY FirstOrder
<1> QED BY <1>1, <1>2, RunnerMoves

LEMMA HelmEndsKeeps == ASSUME StatusInv, NEW w \in Runners, HelmEnds(w) PROVE StatusInv'
<1> DEFINE r(h) == [runners[w] EXCEPT !.pc = "read", !.helm = h, !.dep = Nothing]
<1>1. AtWork(w) /\ UNCHANGED <<tabs, actives, deployed, told, mixed, cutOff>>
  BY DEF HelmEnds, AtWork
<1>2. runners[w] \in RunnerStates /\ RunnerSane(runners[w])
  BY FirstOrder
<1>3. ASSUME NEW h \in {"ok", "none"}
      PROVE  /\ r(h) \in RunnerStates
             /\ r(h).pc = "read" /\ r(h).helm = h /\ r(h).saw = runners[w].saw /\ r(h).inbox = runners[w].inbox
  BY <1>2 DEF RunnerStates
<1>4. \/ kube' = "available" /\ stale' = FALSE /\ runners' = [runners EXCEPT ![w] = r("ok")]
      \/ /\ kube' \in {kube, "progressing", "available", "stuck"} /\ stale' = (stale \/ kube' # kube)
         /\ runners' = [runners EXCEPT ![w] = r("none")]
  BY DEF HelmEnds, StatusInv, RunnersPart, RunnerStates
<1> HIDE DEF r
<1>5. kube' \in Conditions /\ stale' \in BOOLEAN
  BY <1>4 DEF StatusInv, PlainPart, Conditions
<1>6. \A h \in {"ok", "none"} : RunnerSane(r(h))
  BY <1>2, <1>3 DEF RunnerSane
<1>7. CASE kube' = "available" /\ stale' = FALSE /\ runners' = [runners EXCEPT ![w] = r("ok")]
  <2>1. RunnerAgrees(r("ok"), kube')
    BY <1>3, <1>7 DEF RunnerAgrees
  <2> QED BY <1>1, <1>3, <1>5, <1>6, <1>7, <2>1, WorkGoesOn
<1>8. CASE runners' = [runners EXCEPT ![w] = r("none")]
  <2>1. RunnerAgrees(r("none"), kube')
    BY <1>3 DEF RunnerAgrees
  <2> QED BY <1>1, <1>3, <1>5, <1>6, <1>8, <2>1, WorkGoesOn
<1> QED BY <1>4, <1>7, <1>8

\* The worker is free again.
LEMMA FreeIs ==
  ASSUME StatusInv, NEW w \in Runners
  PROVE  /\ Free(w) \in RunnerStates /\ RunnerSane(Free(w)) /\ \A k : RunnerAgrees(Free(w), k)
         /\ Free(w).pc = "idle" /\ Free(w).helm = "none" /\ Free(w).saw = "Not deployed"
         /\ Free(w).inbox = runners[w].inbox /\ Free(w).inbox \in Seq(KnownOrders)
<1>1. /\ runners[w] \in RunnerStates /\ runners[w].inbox \in Seq(KnownOrders)
  BY FirstOrder
<1>2. "Not deployed" \in Statuses
  BY SaysIs DEF Labels
<1>3. Free(w) \in RunnerStates
  BY <1>1, <1>2 DEF Free, IdleRunner, RunnerStates
<1>4. /\ Free(w).pc = "idle" /\ Free(w).helm = "none" /\ Free(w).saw = "Not deployed"
      /\ Free(w).inbox = runners[w].inbox
  BY DEF Free, IdleRunner
<1>5. RunnerSane(Free(w)) /\ \A k : RunnerAgrees(Free(w), k)
  BY <1>4 DEF RunnerSane, RunnerAgrees
<1> QED BY <1>1, <1>3, <1>4, <1>5

LEMMA HelmRaisesKeeps == ASSUME StatusInv, NEW w \in Runners, HelmRaises(w) PROVE StatusInv'
<1>1. /\ AtWork(w) /\ kube' \in {"absent", "progressing", "stuck"} /\ stale' = TRUE
      /\ actives' = actives \ {runners[w].dep} /\ runners' = [runners EXCEPT ![w] = Free(w)]
      /\ SendStatus("Failed") /\ UNCHANGED <<deployed, mixed, cutOff>>
  BY DEF HelmRaises, AtWork
<1>2. "Failed" \in Statuses
  BY SaysIs DEF Labels
<1>3. TabsPart' /\ told' = "Failed"
  BY <1>1, <1>2, SendTabs DEF StatusInv
<1>4. PlainPart'
  BY <1>1, <1>2, <1>3 DEF StatusInv, PlainPart, Conditions
<1>5. told' \notin Unsettled
  BY <1>3 DEF Unsettled
<1> QED BY <1>1, <1>3, <1>4, <1>5, FreeIs, RunnerMoves

LEMMA DeleteReplicasKeeps == ASSUME StatusInv, NEW w \in Runners, DeleteReplicas(w) PROVE StatusInv'
<1> DEFINE r == [runners[w] EXCEPT !.pc = "read", !.dep = Nothing]
<1>1. /\ runners[w].pc = "restart" /\ AtWork(w) /\ UNCHANGED <<tabs, actives, deployed, told, mixed, cutOff>>
      /\ kube' \in (IF kube = "absent" THEN {kube} ELSE {kube, "progressing"})
      /\ stale' = (stale \/ kube' # kube)
  BY DEF DeleteReplicas, AtWork
<1>2. runners' = [runners EXCEPT ![w] = r]
  BY DEF DeleteReplicas, StatusInv, RunnersPart, RunnerStates
<1>3. runners[w] \in RunnerStates /\ RunnerSane(runners[w])
  BY FirstOrder
<1>4. r \in RunnerStates
  BY <1>3 DEF RunnerStates
<1>5. r.pc = "read" /\ r.helm = runners[w].helm /\ r.saw = runners[w].saw /\ r.inbox = runners[w].inbox
  BY <1>3 DEF RunnerStates
<1> HIDE DEF r
<1>6. RunnerSane(r) /\ \A k : RunnerAgrees(r, k)
  BY <1>1, <1>3, <1>5 DEF RunnerSane, RunnerAgrees
<1>7. kube' \in Conditions
  BY <1>1 DEF StatusInv, PlainPart, Conditions
<1>8. stale' \in BOOLEAN
  BY <1>1
<1> QED BY <1>1, <1>2, <1>4, <1>5, <1>6, <1>7, <1>8, WorkGoesOn

LEMMA ReadStatusKeeps == ASSUME StatusInv, NEW w \in Runners, ReadStatus(w) PROVE StatusInv'
<1> DEFINE saw == StatusRead(w)
           r == [runners[w] EXCEPT !.pc = "tell", !.saw = saw, !.helm = "none"]
<1>1. /\ runners[w].pc = "read" /\ AtWork(w) /\ UNCHANGED <<tabs, actives, deployed, kube, told, mixed, cutOff>>
      /\ stale' = (runners[w].helm # "none" /\ stale)
  BY DEF ReadStatus, AtWork
<1>2. runners' = [runners EXCEPT ![w] = r]
  BY DEF ReadStatus, StatusInv, RunnersPart, RunnerStates
<1>3. /\ runners[w] \in RunnerStates /\ RunnerSane(runners[w]) /\ runners[w].helm \in {"none", "ok"}
      /\ kube \in Conditions
  BY FirstOrder DEF RunnerStates, StatusInv, PlainPart
<1>4. /\ runners[w].helm = "ok" => saw = "Ready"
      /\ runners[w].helm = "none" => saw = Says[kube]
  BY DEF StatusRead
<1> HIDE DEF saw
<1>5. saw \in Statuses /\ saw # "Restarting"
  BY <1>3, <1>4, SaysIs DEF Labels
<1>6. r \in RunnerStates
  BY <1>3, <1>5 DEF RunnerStates
<1>7. r.pc = "tell" /\ r.helm = "none" /\ r.saw = saw /\ r.inbox = runners[w].inbox
  BY <1>3 DEF RunnerStates
<1> HIDE DEF r
<1>8. RunnerSane(r)
  BY <1>5, <1>7 DEF RunnerSane
<1>9. ASSUME ~ mixed, ~ stale', ~ cutOff PROVE RunnerAgrees(r, kube')
  <2>1. saw = Says[kube]
    <3>1. CASE runners[w].helm = "none"
      BY <1>4, <3>1
    <3>2. CASE runners[w].helm # "none"
      <4>1. RunnerAgrees(runners[w], kube)
        BY <1>1, <1>9, <3>2 DEF StatusInv, Agreeing
      <4>2. runners[w].helm = "ok" /\ kube = "available"
        BY <1>1, <1>3, <3>2, <4>1 DEF RunnerAgrees
      <4> QED BY <1>4, <4>2, SaysIs
    <3> QED BY <3>1, <3>2
  <2> QED BY <1>1, <1>7, <2>1 DEF RunnerAgrees
<1>10. stale' \in BOOLEAN /\ kube' \in Conditions
  BY <1>1, <1>3
<1> QED BY <1>1, <1>2, <1>6, <1>7, <1>8, <1>9, <1>10, WorkGoesOn

LEMMA TellStatusKeeps == ASSUME StatusInv, NEW w \in Runners, TellStatus(w) PROVE StatusInv'
<1>1. /\ runners[w].pc = "tell" /\ AtWork(w) /\ SendStatus(runners[w].saw)
      /\ runners' = [runners EXCEPT ![w] = IF runners[w].saw = "Deploying"
                                             THEN [Free(w) EXCEPT !.pc = "read"] ELSE Free(w)]
      /\ UNCHANGED <<actives, deployed, kube, stale, mixed, cutOff>>
  BY DEF TellStatus, AtWork
<1>2. runners[w].saw \in Statuses /\ runners[w].saw # "Restarting"
  BY FirstOrder DEF RunnerStates, RunnerSane
<1>3. TabsPart' /\ told' = runners[w].saw
  BY <1>1, <1>2, SendTabs DEF StatusInv
<1>4. PlainPart'
  BY <1>1, <1>2, <1>3 DEF StatusInv, PlainPart
<1>5. CASE runners[w].saw = "Deploying"
  <2> DEFINE r == [Free(w) EXCEPT !.pc = "read"]
  <2>1. r \in RunnerStates
    BY FreeIs DEF RunnerStates
  <2>2. r.pc = "read" /\ r.helm = "none" /\ r.saw = "Not deployed" /\ r.inbox = Free(w).inbox
    BY FreeIs DEF RunnerStates
  <2>3. runners' = [runners EXCEPT ![w] = r]
    BY <1>1, <1>5
  <2> HIDE DEF r
  <2>4. RunnerSane(r) /\ RunnerAgrees(r, kube')
    BY <2>2 DEF RunnerSane, RunnerAgrees
  <2>5. r.inbox \in Seq(KnownOrders)
    BY <2>2, FreeIs
  <2> QED BY <1>1, <1>3, <1>4, <2>1, <2>2, <2>3, <2>4, <2>5, RunnerMoves
<1>6. CASE runners[w].saw # "Deploying"
  <2>1. runners' = [runners EXCEPT ![w] = Free(w)]
    BY <1>1, <1>6
  <2>2. told' \notin Unsettled
    BY <1>2, <1>3, <1>6 DEF Unsettled
  <2>3. ASSUME ~ mixed', ~ stale', ~ cutOff' PROVE told' = Says[kube']
    <3>1. RunnerAgrees(runners[w], kube)
      BY <1>1, <2>3 DEF StatusInv, Agreeing
    <3> QED BY <1>1, <1>3, <3>1 DEF RunnerAgrees
  <2> QED BY <1>1, <1>3, <1>4, <2>1, <2>2, <2>3, FreeIs, RunnerMoves
<1> QED BY <1>5, <1>6

LEMMA TabStreamBreaks == ASSUME StatusInv, NEW w \in Runners, RunnerBreaks(w) PROVE StatusInv'
<1>1. /\ runners' = [runners EXCEPT ![w] = IdleRunner] /\ cutOff' = (cutOff \/ AtWork(w))
      /\ UNCHANGED <<tabs, actives, deployed, kube, told, stale, mixed>>
  BY DEF RunnerBreaks
<1>2. "Not deployed" \in Statuses /\ <<>> \in Seq(Orders) /\ <<>> \in Seq(KnownOrders)
  <2>1. "Not deployed" \in Statuses
    BY SaysIs DEF Labels
  <2> QED BY <2>1, NoMessages
<1>3. IdleRunner \in RunnerStates
  BY <1>2 DEF IdleRunner, RunnerStates
<1>4. IdleRunner.pc = "idle" /\ IdleRunner.helm = "none" /\ IdleRunner.saw = "Not deployed" /\ IdleRunner.inbox = <<>>
  BY DEF IdleRunner
<1>5. RunnerSane(IdleRunner) /\ RunnerAgrees(IdleRunner, kube') /\ IdleRunner.inbox \in Seq(KnownOrders)
  BY <1>2, <1>4 DEF RunnerSane, RunnerAgrees
<1>6. TabsPart'
  BY <1>1 DEF StatusInv, TabsPart
<1>7. cutOff' \in BOOLEAN /\ (cutOff => cutOff') /\ (AtWork(w) => cutOff')
  BY <1>1
<1>8. PlainPart'
  BY <1>1, <1>7 DEF StatusInv, PlainPart
<1> QED BY <1>1, <1>3, <1>4, <1>5, <1>6, <1>7, <1>8, RunnerMoves

-----------------------------------------------------------------------------
(* Requests, and Kubernetes by itself *)

LEMMA PublishKeeps ==
  ASSUME StatusInv, NEW o \in Orders, Publish(o), o.dep \in deployed', deployed \subseteq deployed',
         deployed' \subseteq Releases, actives' \subseteq deployed',
         UNCHANGED <<tabs, kube, told, stale, mixed, cutOff>>
  PROVE  StatusInv'
<1>1. ASSUME NEW w \in Runners
      PROVE  /\ runners'[w] \in RunnerStates /\ RunnerSane(runners'[w])
             /\ runners'[w].pc = runners[w].pc /\ runners'[w].helm = runners[w].helm
             /\ runners'[w].saw = runners[w].saw /\ runners'[w].inbox \in Seq(KnownOrders')
  <2> DEFINE i == Append(runners[w].inbox, o)
  <2>1. runners'[w] = [runners[w] EXCEPT !.inbox = i]
    BY DEF Publish
  <2>2. runners[w] \in RunnerStates /\ RunnerSane(runners[w]) /\ runners[w].inbox \in Seq(KnownOrders)
    BY FirstOrder
  <2>3. KnownOrders \subseteq KnownOrders' /\ o \in KnownOrders' /\ KnownOrders' \subseteq Orders
    BY DEF KnownOrders, Orders
  <2>4. i \in Seq(KnownOrders')
    <3> HIDE DEF KnownOrders
    <3>1. runners[w].inbox \in Seq(KnownOrders')
      BY <2>2, <2>3
    <3> QED BY <2>3, <3>1
  <2>5. i \in Seq(Orders)
    BY <2>3, <2>4
  <2> HIDE DEF i
  <2>6. runners'[w] \in RunnerStates
    BY <2>1, <2>2, <2>5 DEF RunnerStates
  <2>7. /\ runners'[w].pc = runners[w].pc /\ runners'[w].helm = runners[w].helm
        /\ runners'[w].saw = runners[w].saw /\ runners'[w].inbox = i
    BY <2>1, <2>2 DEF RunnerStates
  <2> QED BY <2>2, <2>4, <2>6, <2>7 DEF RunnerSane
<1>2. runners' \in [Runners -> RunnerStates]
  BY <1>1 DEF Publish
<1>3. RunnersPart' /\ Known'
  BY <1>1, <1>2 DEF RunnersPart, Known
<1>4. (\A w \in Runners : AtWork(w)' <=> AtWork(w)) /\ (SomeAtWork' <=> SomeAtWork)
  BY <1>1 DEF AtWork, SomeAtWork
<1>5. \A w \in Runners : RunnerAgrees(runners[w], kube) => RunnerAgrees(runners'[w], kube')
  BY <1>1 DEF RunnerAgrees
<1>6. TabsPart' /\ PlainPart' /\ OneAtWork' /\ InstalledOrBusy'
  BY <1>4 DEF StatusInv, TabsPart, PlainPart, OneAtWork, InstalledOrBusy
<1>7. Agreeing'
  BY <1>4, <1>5 DEF StatusInv, Agreeing
<1> QED BY <1>3, <1>6, <1>7 DEF StatusInv

LEMMA TabAsks ==
  ASSUME StatusInv, (\E d \in Releases : AskDeploy(d)) \/ (\E t \in Tabs : AskRestart(t))
  PROVE  StatusInv'
<1>1. ASSUME NEW d \in Releases, AskDeploy(d) PROVE StatusInv'
  <2> DEFINE o == Order("deploy", d)
  <2>1. /\ deployed' = deployed \cup {d} /\ actives' = {} /\ Publish(o)
        /\ UNCHANGED <<tabs, kube, told, stale, mixed, cutOff>>
    BY <1>1 DEF AskDeploy
  <2>2. o \in Orders /\ o.dep = d
    BY DEF Order, Orders
  <2> HIDE DEF o
  <2>3. deployed' \subseteq Releases /\ d \in deployed' /\ actives' \subseteq deployed' /\ deployed \subseteq deployed'
    BY <2>1 DEF StatusInv, PlainPart
  <2> QED BY <2>1, <2>2, <2>3, PublishKeeps
<1>2. ASSUME NEW t \in Tabs, AskRestart(t) PROVE StatusInv'
  <2> DEFINE d == tabs[t].dep
             o == Order("restart", d)
  <2>1. /\ d \in actives /\ Publish(o) /\ UNCHANGED <<tabs, actives, deployed, kube, told, stale, mixed, cutOff>>
    BY <1>2 DEF AskRestart, Restartable
  <2>2. d \in deployed /\ d \in Releases /\ actives \subseteq deployed /\ deployed \subseteq Releases
    BY <2>1 DEF StatusInv, PlainPart
  <2> HIDE DEF d
  <2>3. o \in Orders /\ o.dep = d
    BY <2>2 DEF Order, Orders
  <2> HIDE DEF o
  <2> QED BY <2>1, <2>2, <2>3, PublishKeeps
<1> QED BY <1>1, <1>2

LEMMA KubeKeeps == ASSUME StatusInv, KubeMoves PROVE StatusInv'
<1>1. stale' = TRUE /\ UNCHANGED <<tabs, runners, actives, deployed, told, mixed, cutOff>>
  BY DEF KubeMoves
<1>2. kube' \in Conditions
  BY DEF KubeMoves, Shifts, Conditions
<1>3. TabsPart' /\ RunnersPart' /\ Known' /\ PlainPart' /\ OneAtWork'
  BY <1>1, <1>2 DEF StatusInv, TabsPart, RunnersPart, Known, KnownOrders, PlainPart, OneAtWork, AtWork
<1>4. InstalledOrBusy'
  BY <1>1 DEF StatusInv, InstalledOrBusy, SomeAtWork, AtWork
<1>5. Agreeing'
  BY <1>1 DEF Agreeing
<1> QED BY <1>3, <1>4, <1>5 DEF StatusInv

LEMMA StatusStep == StatusInv /\ [StatusNext]_statusVars => StatusInv'
<1> SUFFICES ASSUME StatusInv, [StatusNext]_statusVars PROVE StatusInv'
  OBVIOUS
<1>1. CASE UNCHANGED statusVars
  <2>1. TabsPart' /\ UNCHANGED WorkerVars
    BY <1>1 DEF statusVars, StatusInv, TabsPart, WorkerVars
  <2> QED BY <2>1, WorkersStay DEF StatusInv
<1>2. CASE StatusNext
  BY <1>2, PageKeeps, TakeKeeps, HelmEndsKeeps, HelmRaisesKeeps, DeleteReplicasKeeps, ReadStatusKeeps,
     TellStatusKeeps, TabStreamBreaks, TabAsks, KubeKeeps DEF StatusNext
<1> QED BY <1>1, <1>2

\* However many pages, workers and tools, streams that break and workers that
\* die: once the workers are done, a page that heard of any of their work shows
\* how it ended (wait_for_deployment, tool-status.js).
THEOREM PagesSettle == StatusInit /\ [][StatusNext]_statusVars => []StatusesSettle
<1>1. ASSUME StatusInv PROVE StatusesSettle
  <2> SUFFICES ASSUME AtRest, ~ cutOff, NEW t \in Tabs, Follows(t)
               PROVE  /\ tabs[t].label = told /\ told \notin Unsettled
                      /\ ~ mixed /\ ~ stale => tabs[t].label = Says[kube]
    BY DEF StatusesSettle
  <2>1. ~ SomeAtWork
    BY DEF AtRest, SomeAtWork
  <2>2. tabs[t].label = told
    BY <1>1 DEF Follows, StatusInv, TabsPart, TabHears, Arrives
  <2> QED BY <1>1, <2>1, <2>2 DEF StatusInv, InstalledOrBusy, Agreeing
<1> QED BY <1>1, StatusStart, StatusStep, PTL

\* A label on a page is one that the code sends.
THEOREM StatusTyped == StatusInit /\ [][StatusNext]_statusVars => []StatusTypeOK
<1>1. ASSUME StatusInv PROVE StatusTypeOK
  <2>1. tabs \in [Tabs -> TabStates] /\ \A t \in Tabs : tabs[t].pc # "joined" => tabs[t].wire = <<>>
    BY <1>1 DEF StatusInv, TabsPart, TabHears
  <2> QED BY <1>1, <2>1, SaysIs DEF StatusTypeOK, StatusInv, RunnersPart, PlainPart, TabStates, RunnerStates
<1> QED BY <1>1, StatusStart, StatusStep, PTL

-----------------------------------------------------------------------------
(***************************************************************************)
(* Grants of tables: TableGrants                                           *)
(***************************************************************************)

\* What a request may be: with a table once it has begun.
Stewarding == {At0} \cup [pc : GrantPcs \cup RevokePcs, table : Tables]

\* Permissions and opt-ins agree.
Even(g, ts, db) == g = ts /\ (db <=> ts # {})

\* How far they are apart, by the call the only request makes next.
Midway(c, g, ts, db) ==
  /\ c.pc \in {"none", "grant", "revoke"} => Even(g, ts, db)
  /\ c.pc \in {"look", "optDatabase", "optTable"} => g = ts \cup {c.table}
  /\ c.pc = "look" => (db <=> ts # {})
  /\ c.pc = "optDatabase" => ~ db /\ ts = {}
  /\ c.pc = "optTable" => db
  /\ c.pc \in {"count", "dropDatabase", "dropTable"} => c.table \in ts /\ g = ts \ {c.table}
  /\ c.pc = "count" => db
  /\ c.pc = "dropDatabase" => db /\ ts = {c.table}
  /\ c.pc = "dropTable" => (db <=> ts # {c.table})

AloneChanges(s) == \A r \in Stewards \ {s} : change[r] = At0

GrantsInv ==
  /\ change \in [Stewards -> Stewarding]
  /\ granted \subseteq Tables /\ optTables \subseteq Tables /\ optDatabase \in BOOLEAN
  /\ changes \in 0 .. MaxChanges /\ callFails \in 0 .. MaxCallFails /\ tangled \in BOOLEAN
  /\ IsFiniteSet(optTables)
  /\ ~ tangled => \A s \in Stewards : change[s] # At0 => AloneChanges(s)
  /\ ~ tangled => \A s \in Stewards :
       change[s] # At0 => Midway(change[s], granted, optTables, optDatabase)
  /\ ~ tangled /\ (\A s \in Stewards : change[s] = At0) => Even(granted, optTables, optDatabase)

LEMMA NoneYet == At0 \in Stewarding /\ At0.pc = "none"
  BY DEF At0, Stewarding

LEMMA BegunPc == \A c \in Stewarding : c # At0 =>
                   /\ c.pc \in GrantPcs \cup RevokePcs /\ c.table \in Tables
                   /\ c.pc # "none"
                   /\ \A to \in GrantPcs \cup RevokePcs :
                        /\ [c EXCEPT !.pc = to] \in Stewarding
                        /\ [c EXCEPT !.pc = to].pc = to
                        /\ [c EXCEPT !.pc = to].table = c.table
                        /\ [c EXCEPT !.pc = to] # At0
  BY DEF Stewarding, At0, GrantPcs, RevokePcs

\* A request that is alone moves on, and says how far things are apart.
LEMMA ChangeMoves ==
  ASSUME GrantsInv, NEW s \in Stewards, NEW c \in Stewarding,
         change' = [change EXCEPT ![s] = c],
         granted' \subseteq Tables, optTables' \subseteq Tables, optDatabase' \in BOOLEAN,
         changes' \in 0 .. MaxChanges, callFails' \in 0 .. MaxCallFails, tangled' \in BOOLEAN,
         IsFiniteSet(optTables'),
         ~ tangled' => AloneChanges(s) /\ Midway(c, granted', optTables', optDatabase')
  PROVE  GrantsInv'
<1>1. change' \in [Stewards -> Stewarding] /\ change'[s] = c
      /\ \A r \in Stewards \ {s} : change'[r] = change[r]
  BY DEF GrantsInv
<1>2. ASSUME ~ tangled' PROVE \A r \in Stewards : change'[r] # At0 => AloneChanges(r)'
  <2>1. \A r \in Stewards \ {s} : change'[r] = At0
    BY <1>1, <1>2 DEF AloneChanges
  <2> QED BY <2>1, <1>1 DEF AloneChanges
<1>3. ASSUME ~ tangled' PROVE \A r \in Stewards : change'[r] # At0
        => Midway(change'[r], granted', optTables', optDatabase')
  BY <1>1, <1>3 DEF AloneChanges
<1>4. ASSUME ~ tangled', \A r \in Stewards : change'[r] = At0
      PROVE  Even(granted', optTables', optDatabase')
  BY <1>1, <1>4, NoneYet DEF Midway
<1> QED BY <1>1, <1>2, <1>3, <1>4 DEF GrantsInv

LEMMA GrantsStart == GrantsInit => GrantsInv
<1> SUFFICES ASSUME GrantsInit PROVE GrantsInv
  OBVIOUS
<1>1. change \in [Stewards -> Stewarding] /\ \A s \in Stewards : change[s] = At0
  BY NoneYet DEF GrantsInit
<1>2. IsFiniteSet(optTables) /\ optTables = {} /\ granted = {} /\ optDatabase = FALSE
  BY FS_EmptySet DEF GrantsInit
<1>3. changes \in 0 .. MaxChanges /\ callFails \in 0 .. MaxCallFails /\ tangled \in BOOLEAN
  <2>1. MaxChanges \in Nat /\ MaxCallFails \in Nat
    BY TableGrantsAssumption
  <2>2. changes = 0 /\ callFails = 0 /\ tangled = FALSE
    BY DEF GrantsInit
  <2>3. changes \in 0 .. MaxChanges
    BY <2>1, <2>2
  <2>4. callFails \in 0 .. MaxCallFails
    BY <2>1, <2>2
  <2>5. tangled \in BOOLEAN
    BY <2>2
  <2> QED BY <2>3, <2>4, <2>5
<1> QED BY <1>1, <1>2, <1>3 DEF GrantsInv, Even

LEMMA StewardAsks ==
  ASSUME GrantsInv, NEW s \in Stewards, NEW to \in {"grant", "revoke"}, NEW n \in Tables \cup Links,
         Ask0(s, to, n)
  PROVE  GrantsInv'
<1> DEFINE c == [pc |-> to, table |-> GetTableData(n)]
<1>1. c \in Stewarding /\ c.pc \in {"grant", "revoke"}
  BY TableGrantsAssumption DEF Stewarding, GetTableData, GrantPcs, RevokePcs
<1>2. change' = [change EXCEPT ![s] = c] /\ change[s] = At0
  BY DEF Ask0
<1>3. changes' \in 0 .. MaxChanges
  BY TableGrantsAssumption DEF Ask0, GrantsInv
<1>4. granted' = granted /\ optTables' = optTables /\ optDatabase' = optDatabase
      /\ callFails' = callFails /\ tangled' \in BOOLEAN
  BY DEF Ask0, optIns, GrantsInv
<1>5. ASSUME ~ tangled' PROVE AloneChanges(s) /\ Midway(c, granted, optTables, optDatabase)
  <2>1. ~ tangled /\ \A r \in Stewards : change[r] = At0
    BY <1>5 DEF Ask0
  <2> QED BY <2>1, <1>1 DEF GrantsInv, AloneChanges, Midway
<1> HIDE DEF c
<1>6. IsFiniteSet(optTables') /\ granted' \subseteq Tables /\ optTables' \subseteq Tables
      /\ optDatabase' \in BOOLEAN /\ callFails' \in 0 .. MaxCallFails
  BY <1>4 DEF GrantsInv
<1> QED BY <1>1, <1>2, <1>3, <1>4, <1>5, <1>6, ChangeMoves

\* What a step of a request that has begun knows.
LEMMA Begun ==
  ASSUME GrantsInv, NEW s \in Stewards, NEW from, NEW to, from # "none", Step(s, from, to)
  PROVE  /\ change[s] \in Stewarding /\ change[s] # At0 /\ change[s].pc = from
         /\ change[s].table \in Tables
         /\ ~ tangled => /\ AloneChanges(s)
                         /\ Midway(change[s], granted, optTables, optDatabase)
         /\ to = "none" => change' = [change EXCEPT ![s] = At0]
         /\ to \in GrantPcs \cup RevokePcs =>
              change' = [change EXCEPT ![s] = [change[s] EXCEPT !.pc = to]]
<1>1. change[s] \in Stewarding /\ change[s] # At0 /\ change[s].pc = from
  BY NoneYet DEF GrantsInv, Step
<1>2. "none" \notin GrantPcs \cup RevokePcs
  BY DEF GrantPcs, RevokePcs
<1>3. /\ to = "none" => change' = [change EXCEPT ![s] = At0]
      /\ to \in GrantPcs \cup RevokePcs =>
              change' = [change EXCEPT ![s] = [change[s] EXCEPT !.pc = to]]
  BY <1>2 DEF Step
<1> QED BY <1>1, <1>3, BegunPc DEF GrantsInv

LEMMA StepKeeps ==
  ASSUME GrantsInv, NEW s \in Stewards, NEW from, NEW to \in GrantPcs \cup RevokePcs \cup {"none"},
         from # "none", Step(s, from, to),
         granted' \subseteq Tables, optTables' \subseteq Tables, optDatabase' \in BOOLEAN,
         UNCHANGED <<changes, callFails, tangled>>, IsFiniteSet(optTables'),
         \A c \in Stewarding :
           ~ tangled /\ c.pc = to /\ (to # "none" => c.table = change[s].table) =>
             Midway(c, granted', optTables', optDatabase')
  PROVE  GrantsInv'
<1> DEFINE c == IF to = "none" THEN At0 ELSE [change[s] EXCEPT !.pc = to]
<1>1. change[s] \in Stewarding /\ change[s] # At0 /\ (~ tangled => AloneChanges(s))
      /\ change' = [change EXCEPT ![s] = c]
  BY Begun
<1>2. c \in Stewarding /\ c.pc = to /\ (to # "none" => c.table = change[s].table)
  BY <1>1, NoneYet, BegunPc
<1> HIDE DEF c
<1>3. changes' \in 0 .. MaxChanges /\ callFails' \in 0 .. MaxCallFails /\ tangled' = tangled
      /\ tangled' \in BOOLEAN
  BY DEF GrantsInv
<1>4. ~ tangled' => AloneChanges(s) /\ Midway(c, granted', optTables', optDatabase')
  BY <1>1, <1>2, <1>3
<1> QED BY <1>1, <1>2, <1>3, <1>4, ChangeMoves

LEMMA GrantKeeps ==
  ASSUME GrantsInv, NEW s \in Stewards,
         GrantTable(s) \/ LookOptIns(s) \/ OptDatabase(s) \/ OptTable(s)
  PROVE  GrantsInv'
<1> DEFINE t == change[s].table
<1>1. CASE GrantTable(s)
  <2>1. Step(s, "grant", "look") /\ granted' = granted \cup {t} /\ optTables' = optTables
        /\ optDatabase' = optDatabase /\ UNCHANGED <<changes, callFails, tangled>>
    BY <1>1 DEF GrantTable, optIns
  <2>2. t \in Tables /\ change[s].pc = "grant"
        /\ (~ tangled => Midway(change[s], granted, optTables, optDatabase))
    BY <2>1, Begun
  <2>3. ~ tangled => Even(granted, optTables, optDatabase)
    BY <2>2 DEF Midway
  <2>4. \A c \in Stewarding : ~ tangled /\ c.pc = "look" /\ c.table = t =>
          Midway(c, granted', optTables', optDatabase')
    BY <2>1, <2>3 DEF Midway, Even
  <2>5. granted' \subseteq Tables /\ optTables' \subseteq Tables /\ optDatabase' \in BOOLEAN
        /\ IsFiniteSet(optTables')
    BY <2>1, <2>2 DEF GrantsInv
  <2> QED BY <2>1, <2>4, <2>5, StepKeeps DEF GrantPcs
<1>2. CASE LookOptIns(s)
  <2> DEFINE to == IF optDatabase THEN "optTable" ELSE "optDatabase"
  <2>1. Step(s, "look", to) /\ granted' = granted /\ optTables' = optTables
        /\ optDatabase' = optDatabase /\ UNCHANGED <<changes, callFails, tangled>>
        /\ to \in GrantPcs
    BY <1>2 DEF LookOptIns, optIns, GrantPcs
  <2>2. t \in Tables /\ change[s].pc = "look"
        /\ (~ tangled => Midway(change[s], granted, optTables, optDatabase))
    BY <2>1, Begun
  <2>3. ~ tangled => granted = optTables \cup {t} /\ (optDatabase <=> optTables # {})
    BY <2>2 DEF Midway
  <2>4. \A c \in Stewarding : ~ tangled /\ c.pc = to /\ c.table = t =>
          Midway(c, granted', optTables', optDatabase')
    BY <2>1, <2>3 DEF Midway, Even
  <2>5. granted' \subseteq Tables /\ optTables' \subseteq Tables /\ optDatabase' \in BOOLEAN
        /\ IsFiniteSet(optTables')
    BY <2>1, <2>2 DEF GrantsInv
  <2>6. to # "none"
    OBVIOUS
  <2> HIDE DEF to
  <2> QED BY <2>1, <2>4, <2>5, <2>6, StepKeeps
<1>3. CASE OptDatabase(s)
  <2>1. /\ granted' = granted /\ optTables' = optTables /\ optDatabase' = TRUE
        /\ UNCHANGED <<changes, callFails, tangled>>
    BY <1>3 DEF OptDatabase
  <2>0. Step(s, "optDatabase", "optTable") \/ (optDatabase /\ Step(s, "optDatabase", "none"))
    BY <1>3, Zenon DEF OptDatabase
  <2>2. t \in Tables /\ change[s].pc = "optDatabase"
        /\ (~ tangled => Midway(change[s], granted, optTables, optDatabase))
    BY <2>0, Begun
  <2>3. ~ tangled => granted = optTables \cup {t} /\ ~ optDatabase
    BY <2>2 DEF Midway
  <2>4. \A c \in Stewarding : ~ tangled /\ c.pc = "optTable" /\ c.table = t =>
          Midway(c, granted', optTables', optDatabase')
    BY <2>1, <2>3 DEF Midway, Even
  <2>5. granted' \subseteq Tables /\ optTables' \subseteq Tables /\ optDatabase' \in BOOLEAN
        /\ IsFiniteSet(optTables')
    BY <2>1, <2>2 DEF GrantsInv
  <2>6. CASE Step(s, "optDatabase", "optTable")
    BY <2>1, <2>4, <2>5, <2>6, StepKeeps DEF GrantPcs
  <2>7. CASE optDatabase /\ Step(s, "optDatabase", "none")
    BY <2>1, <2>3, <2>5, <2>7, StepKeeps
  <2> QED BY <2>0, <2>6, <2>7
<1>4. CASE OptTable(s)
  <2>1. Step(s, "optTable", "none") /\ granted' = granted /\ optTables' = optTables \cup {t}
        /\ optDatabase' = optDatabase /\ UNCHANGED <<changes, callFails, tangled>>
    BY <1>4 DEF OptTable
  <2>2. t \in Tables /\ change[s].pc = "optTable"
        /\ (~ tangled => Midway(change[s], granted, optTables, optDatabase))
    BY <2>1, Begun
  <2>3. ~ tangled => granted = optTables \cup {t} /\ optDatabase
    BY <2>2 DEF Midway
  <2>4. \A c \in Stewarding : ~ tangled /\ c.pc = "none" =>
          Midway(c, granted', optTables', optDatabase')
    BY <2>1, <2>3 DEF Midway, Even
  <2>5. granted' \subseteq Tables /\ optTables' \subseteq Tables /\ optDatabase' \in BOOLEAN
        /\ IsFiniteSet(optTables')
    BY <2>1, <2>2, FS_AddElement DEF GrantsInv
  <2> QED BY <2>1, <2>4, <2>5, StepKeeps
<1> QED BY <1>1, <1>2, <1>3, <1>4

LEMMA RevokeKeeps ==
  ASSUME GrantsInv, NEW s \in Stewards,
         RevokeTable(s) \/ CountOptIns(s) \/ DropDatabase(s) \/ DropTable(s)
  PROVE  GrantsInv'
<1> DEFINE t == change[s].table
<1>1. CASE RevokeTable(s)
  <2> DEFINE to == IF t \in granted THEN "count" ELSE "none"
  <2>1. Step(s, "revoke", to) /\ granted' = granted \ {t} /\ optTables' = optTables
        /\ optDatabase' = optDatabase /\ UNCHANGED <<changes, callFails, tangled>>
        /\ to \in RevokePcs \cup {"none"}
    BY <1>1 DEF RevokeTable, optIns, RevokePcs
  <2>2. t \in Tables /\ change[s].pc = "revoke"
        /\ (~ tangled => Midway(change[s], granted, optTables, optDatabase))
    BY <2>1, Begun
  <2>3. ~ tangled => Even(granted, optTables, optDatabase)
    BY <2>2 DEF Midway
  <2>4. \A c \in Stewarding : ~ tangled /\ c.pc = to /\ (to # "none" => c.table = t) =>
          Midway(c, granted', optTables', optDatabase')
    BY <2>1, <2>3 DEF Midway, Even
  <2>5. granted' \subseteq Tables /\ optTables' \subseteq Tables /\ optDatabase' \in BOOLEAN
        /\ IsFiniteSet(optTables')
    BY <2>1, <2>2 DEF GrantsInv
  <2> HIDE DEF to
  <2> QED BY <2>1, <2>4, <2>5, StepKeeps
<1>2. CASE CountOptIns(s)
  <2> DEFINE to == IF Cardinality(optTables) = 1 THEN "dropDatabase" ELSE "dropTable"
  <2>1. Step(s, "count", to) /\ granted' = granted /\ optTables' = optTables
        /\ optDatabase' = optDatabase /\ UNCHANGED <<changes, callFails, tangled>>
        /\ to \in RevokePcs
    BY <1>2 DEF CountOptIns, optIns, RevokePcs
  <2>2. t \in Tables /\ change[s].pc = "count"
        /\ (~ tangled => Midway(change[s], granted, optTables, optDatabase))
    BY <2>1, Begun
  <2>3. ~ tangled => t \in optTables /\ granted = optTables \ {t} /\ optDatabase
    BY <2>2 DEF Midway
  <2>4. t \in optTables => (Cardinality(optTables) = 1 <=> optTables = {t})
    <3>1. IsFiniteSet(optTables)
      BY DEF GrantsInv
    <3>2. Cardinality(optTables) = 1 <=> \E x : optTables = {x}
      BY <3>1, FS_Singleton, Zenon
    <3> QED BY <3>2, Zenon
  <2>5. \A c \in Stewarding : ~ tangled /\ c.pc = to /\ c.table = t =>
          Midway(c, granted', optTables', optDatabase')
    BY <2>1, <2>3, <2>4 DEF Midway, Even
  <2>6. granted' \subseteq Tables /\ optTables' \subseteq Tables /\ optDatabase' \in BOOLEAN
        /\ IsFiniteSet(optTables') /\ to # "none"
    BY <2>1, <2>2 DEF GrantsInv
  <2> HIDE DEF to
  <2> QED BY <2>1, <2>5, <2>6, StepKeeps
<1>3. CASE DropDatabase(s)
  <2>1. /\ granted' = granted /\ optTables' = optTables /\ optDatabase' = FALSE
        /\ UNCHANGED <<changes, callFails, tangled>>
    BY <1>3 DEF DropDatabase
  <2>0. Step(s, "dropDatabase", "dropTable") \/ (~ optDatabase /\ Step(s, "dropDatabase", "none"))
    BY <1>3, Zenon DEF DropDatabase
  <2>2. t \in Tables /\ change[s].pc = "dropDatabase"
        /\ (~ tangled => Midway(change[s], granted, optTables, optDatabase))
    BY <2>0, Begun
  <2>3. ~ tangled => t \in optTables /\ granted = optTables \ {t} /\ optDatabase /\ optTables = {t}
    BY <2>2 DEF Midway
  <2>4. \A c \in Stewarding : ~ tangled /\ c.pc = "dropTable" /\ c.table = t =>
          Midway(c, granted', optTables', optDatabase')
    BY <2>1, <2>3 DEF Midway, Even
  <2>5. granted' \subseteq Tables /\ optTables' \subseteq Tables /\ optDatabase' \in BOOLEAN
        /\ IsFiniteSet(optTables')
    BY <2>1, <2>2 DEF GrantsInv
  <2>6. CASE Step(s, "dropDatabase", "dropTable")
    BY <2>1, <2>4, <2>5, <2>6, StepKeeps DEF RevokePcs
  <2>7. CASE ~ optDatabase /\ Step(s, "dropDatabase", "none")
    BY <2>1, <2>3, <2>5, <2>7, StepKeeps
  <2> QED BY <2>0, <2>6, <2>7
<1>4. CASE DropTable(s)
  <2>1. Step(s, "dropTable", "none") /\ granted' = granted /\ optTables' = optTables \ {t}
        /\ optDatabase' = optDatabase /\ UNCHANGED <<changes, callFails, tangled>>
    BY <1>4 DEF DropTable
  <2>2. t \in Tables /\ change[s].pc = "dropTable"
        /\ (~ tangled => Midway(change[s], granted, optTables, optDatabase))
    BY <2>1, Begun
  <2>3. ~ tangled => t \in optTables /\ granted = optTables \ {t} /\ (optDatabase <=> optTables # {t})
    BY <2>2 DEF Midway
  <2>4. ~ tangled => Even(granted', optTables', optDatabase')
    BY <2>1, <2>3 DEF Even
  <2>5. \A c \in Stewarding : ~ tangled /\ c.pc = "none" =>
          Midway(c, granted', optTables', optDatabase')
    BY <2>4 DEF Midway
  <2>6. granted' \subseteq Tables /\ optTables' \subseteq Tables /\ optDatabase' \in BOOLEAN
        /\ IsFiniteSet(optTables')
    BY <2>1, <2>2, FS_RemoveElement DEF GrantsInv
  <2> QED BY <2>1, <2>5, <2>6, StepKeeps
<1> QED BY <1>1, <1>2, <1>3, <1>4

LEMMA CallFailsKeeps == ASSUME GrantsInv, NEW s \in Stewards, CallFails(s) PROVE GrantsInv'
<1>1. change' = [change EXCEPT ![s] = At0] /\ change[s] # At0
      /\ granted' = granted /\ optTables' = optTables /\ optDatabase' = optDatabase
      /\ changes' = changes
  BY DEF CallFails, optIns
<1>2. callFails' \in 0 .. MaxCallFails /\ tangled' \in BOOLEAN
  BY TableGrantsAssumption DEF CallFails, GrantsInv
<1>3. ASSUME ~ tangled' PROVE AloneChanges(s) /\ Midway(At0, granted', optTables', optDatabase')
  <2>1. ~ tangled /\ change[s].pc \in {"grant", "revoke"}
    BY <1>3 DEF CallFails
  <2>2. AloneChanges(s) /\ Even(granted, optTables, optDatabase)
    BY <2>1, <1>1 DEF GrantsInv, Midway
  <2> QED BY <2>2, <1>1, NoneYet DEF Midway
<1>4. IsFiniteSet(optTables') /\ granted' \subseteq Tables /\ optTables' \subseteq Tables
      /\ optDatabase' \in BOOLEAN /\ changes' \in 0 .. MaxChanges
  BY <1>1 DEF GrantsInv
<1> QED BY <1>1, <1>2, <1>3, <1>4, NoneYet, ChangeMoves

LEMMA GrantsStep == GrantsInv /\ [GrantsNext]_grantVars => GrantsInv'
<1> SUFFICES ASSUME GrantsInv, [GrantsNext]_grantVars PROVE GrantsInv'
  OBVIOUS
<1>1. CASE UNCHANGED grantVars
  BY <1>1 DEF GrantsInv, grantVars, AloneChanges
<1>2. ASSUME NEW s \in Stewards, NEW n \in Tables \cup Links, AskGrant(s, n) \/ AskRevoke(s, n)
      PROVE  GrantsInv'
  BY <1>2, StewardAsks DEF AskGrant, AskRevoke
<1>3. ASSUME NEW s \in Stewards,
             \/ GrantTable(s) \/ LookOptIns(s) \/ OptDatabase(s) \/ OptTable(s)
             \/ RevokeTable(s) \/ CountOptIns(s) \/ DropDatabase(s) \/ DropTable(s)
             \/ CallFails(s)
      PROVE  GrantsInv'
  BY <1>3, GrantKeeps, RevokeKeeps, CallFailsKeeps
<1> QED BY <1>1, <1>2, <1>3 DEF GrantsNext

\* For any tables, links and requests: once none is under way, the permissions
\* and the opt-ins of a user are on the same tables, unless requests overlapped
\* or one failed half done (aws.py create_lf_opt_in, delete_lf_opt_in).
THEOREM GrantsEven == GrantsSpec => []GrantsUsable
<1>1. GrantsInv => GrantsUsable
  BY DEF GrantsInv, GrantsUsable, Even
<1> QED BY <1>1, GrantsStart, GrantsStep, PTL DEF GrantsSpec

\* A request at a call has the table it is about.
THEOREM GrantsTyped == GrantsSpec => []GrantsTypeOK
<1>1. GrantsInv => GrantsTypeOK
  BY BegunPc DEF GrantsInv, GrantsTypeOK
<1> QED BY <1>1, GrantsStart, GrantsStep, PTL DEF GrantsSpec

-----------------------------------------------------------------------------
(***************************************************************************)
(* The archive of a folder: FolderArchive.  What makes LatestKept inductive: an*)
(* object in the folder is always the latest version, and whoever has copied*)
(* an object nobody wrote since has that version in the archive.           *)
(***************************************************************************)

ObjectIsLatest == \A k \in Keys : object[k] \in {0, latest[k]}
CopyIsLatest == \A k \in Keys \ written : Copied(k) => archive[k] = latest[k]

FolderInv == FolderTypeOK /\ ObjectIsLatest /\ CopyIsLatest /\ LatestKept

LEMMA FolderStarts == FolderInit => FolderInv
<1> SUFFICES ASSUME FolderInit PROVE FolderInv OBVIOUS
<1>1. /\ folder = "live" /\ access = TRUE
      /\ object = [k \in Keys |-> 0] /\ archive = object /\ latest = object
      /\ listing = [pc |-> "none", left |-> {}, round |-> 0]
      /\ moves = [m \in Moves |-> "none"]
      /\ deaths = 0 /\ written = {}
  BY DEF FolderInit
<1>2. 0 \in Versions /\ 0 \in 0 .. MaxRounds /\ 0 \in 0 .. MaxDeaths
  BY FolderArchiveAssumption DEF Versions
<1>3. FolderTypeOK BY <1>1, <1>2 DEF FolderTypeOK
<1>4. ObjectIsLatest /\ LatestKept BY <1>1 DEF ObjectIsLatest, LatestKept
<1>5. CopyIsLatest BY <1>1 DEF CopyIsLatest
<1> QED BY <1>3, <1>4, <1>5 DEF FolderInv

LEMMA DeathsBounded ==
  ASSUME FolderTypeOK, UNCHANGED deaths \/ Dies PROVE deaths' \in 0 .. MaxDeaths
<1>1. deaths \in 0 .. MaxDeaths /\ MaxDeaths \in Nat BY FolderArchiveAssumption DEF FolderTypeOK
<1>2. CASE UNCHANGED deaths BY <1>1, <1>2
<1>3. CASE Dies BY <1>1, <1>3 DEF Dies
<1> QED BY <1>2, <1>3

\* Steps that leave the stores alone and copy nothing more.
LEMMA StoresAlone ==
  ASSUME FolderInv, FolderTypeOK', UNCHANGED <<stores, written>>,
         \A k \in Keys : Copied(k)' => Copied(k)
  PROVE  FolderInv'
BY DEF FolderInv, ObjectIsLatest, CopyIsLatest, LatestKept, stores

LEMMA WriteKeeps ==
  ASSUME FolderInv, NEW k \in Keys, Write(k) PROVE FolderInv'
<1> USE DEF FolderInv
<1>1. /\ latest' = [latest EXCEPT ![k] = @ + 1]
      /\ object' = [object EXCEPT ![k] = latest[k] + 1]
      /\ written' = IF Copied(k) THEN written \cup {k} ELSE written
      /\ latest[k] < MaxVersions
      /\ UNCHANGED <<folder, access, archive, listing, moves, deaths>>
  BY DEF Write
<1>2. object \in [Keys -> Versions] /\ latest \in [Keys -> Versions] BY DEF FolderTypeOK
<1>3. latest[k] + 1 \in Versions BY <1>1, <1>2, FolderArchiveAssumption DEF Versions
<1>4. FolderTypeOK' BY <1>1, <1>2, <1>3 DEF FolderTypeOK
<1>5. /\ \A j \in Keys \ {k} : object'[j] = object[j] /\ latest'[j] = latest[j]
      /\ object'[k] = latest'[k]
  BY <1>1, <1>2
<1>6. ObjectIsLatest' BY <1>5 DEF ObjectIsLatest
<1>7. \A j \in Keys : Copied(j)' <=> Copied(j) BY <1>1 DEF Copied
<1>8. CopyIsLatest' BY <1>1, <1>5, <1>7 DEF CopyIsLatest
<1>9. LatestKept' BY <1>1, <1>5 DEF LatestKept
<1> QED BY <1>4, <1>6, <1>8, <1>9

LEMMA CopyKeeps ==
  ASSUME FolderInv, NEW m \in Moves, Copy(m) PROVE FolderInv'
<1> USE DEF FolderInv
<1> DEFINE k == m[1]
<1>1. /\ object[k] # 0 /\ archive' = [archive EXCEPT ![k] = object[k]]
      /\ moves' = [moves EXCEPT ![m] = "copied"]
      /\ UNCHANGED <<folder, access, object, latest, listing, deaths, written>>
  BY DEF Copy, Move
<1>2. k \in Keys BY DEF Moves
<1>3. archive \in [Keys -> Versions] /\ object[k] \in Versions BY <1>2 DEF FolderTypeOK
<1>4. FolderTypeOK' BY <1>1, <1>3 DEF FolderTypeOK
<1>5. object[k] = latest[k] BY <1>1, <1>2 DEF ObjectIsLatest
<1>6. archive'[k] = latest[k] /\ \A j \in Keys \ {k} : archive'[j] = archive[j]
  BY <1>1, <1>2, <1>3, <1>5
<1>7. \A j \in Keys \ {k} : Copied(j)' => Copied(j)
  <2> SUFFICES ASSUME NEW j \in Keys \ {k}, NEW r \in Rounds, moves'[<<j, r>>] = "copied"
               PROVE  moves[<<j, r>>] = "copied" BY DEF Copied
  <2>1. <<j, r>> # m /\ <<j, r>> \in Moves BY DEF Moves
  <2> QED BY <1>1, <2>1 DEF FolderTypeOK
<1>8. ObjectIsLatest' BY <1>1 DEF ObjectIsLatest
<1>9. CopyIsLatest' BY <1>1, <1>6, <1>7 DEF CopyIsLatest
<1>10. LatestKept' BY <1>1, <1>6 DEF LatestKept
<1> QED BY <1>4, <1>8, <1>9, <1>10

\* A task on its way after the copy: it does not copy, and the folder loses at
\* most an object that its worker had copied.
LEMMA MoveOnKeeps ==
  ASSUME FolderInv, NEW m \in Moves, NEW to \in {"queued", "deleted", "done"},
         moves' = [moves EXCEPT ![m] = to],
         \/ UNCHANGED object
         \/ moves[m] = "copied" /\ object' = [object EXCEPT ![m[1]] = 0],
         deaths' \in 0 .. MaxDeaths,
         UNCHANGED <<folder, access, archive, latest, listing, written>>
  PROVE  FolderInv'
<1> USE DEF FolderInv
<1>1. m[1] \in Keys /\ m[2] \in Rounds /\ m = <<m[1], m[2]>> BY DEF Moves
<1>2. object \in [Keys -> Versions] BY DEF FolderTypeOK
<1>3. FolderTypeOK'
  <2>1. 0 \in Versions BY FolderArchiveAssumption DEF Versions
  <2>2. object' \in [Keys -> Versions] BY <1>1, <1>2, <2>1
  <2>3. moves' \in [Moves -> {"none", "queued", "copied", "deleted", "done"}] BY DEF FolderTypeOK
  <2> QED BY <2>2, <2>3 DEF FolderTypeOK
<1>4. \A k \in Keys : Copied(k)' => Copied(k)
  <2> SUFFICES ASSUME NEW k \in Keys, NEW r \in Rounds, moves'[<<k, r>>] = "copied"
               PROVE  moves[<<k, r>>] = "copied" BY DEF Copied
  <2>1. <<k, r>> \in Moves BY DEF Moves
  <2> QED BY <2>1 DEF FolderTypeOK
<1>5. CopyIsLatest' BY <1>4 DEF CopyIsLatest
<1>6. CASE UNCHANGED object
  BY <1>3, <1>5, <1>6 DEF ObjectIsLatest, LatestKept
<1>7. CASE moves[m] = "copied" /\ object' = [object EXCEPT ![m[1]] = 0]
  <2>1. Copied(m[1]) BY <1>1, <1>7 DEF Copied
  <2>2. m[1] \notin written => archive[m[1]] = latest[m[1]] BY <1>1, <2>1 DEF CopyIsLatest
  <2>3. object'[m[1]] = 0 /\ \A j \in Keys \ {m[1]} : object'[j] = object[j] BY <1>1, <1>2, <1>7
  <2>4. ObjectIsLatest' BY <2>3 DEF ObjectIsLatest
  <2>5. LatestKept' BY <2>2, <2>3 DEF LatestKept
  <2> QED BY <1>3, <1>5, <2>4, <2>5
<1> QED BY <1>6, <1>7

\* The request, the revocation and the listing.
LEMMA OthersKeep ==
  ASSUME FolderInv,
         \/ SaveDeleted \/ SendArchive \/ SendRevoke \/ RequestCut \/ RevokeAll
         \/ TakeListing \/ EndListing \/ ListingDies
  PROVE  FolderInv'
<1> USE DEF FolderInv
<1>1. UNCHANGED <<stores, written, moves>>
  BY DEF SaveDeleted, SendArchive, SendRevoke, RequestCut, RevokeAll, TakeListing, EndListing, ListingDies
<1>2. FolderTypeOK'
  <2>1. UNCHANGED <<object, archive, latest, written, moves>> BY <1>1 DEF stores
  <2>2. /\ folder' \in {"live", "saved", "archiving", "told", "cut short"} /\ access' \in BOOLEAN
    BY DEF SaveDeleted, SendArchive, SendRevoke, RequestCut, RevokeAll, TakeListing, EndListing, ListingDies,
           FolderTypeOK
  <2>3. listing' \in [pc : {"none", "queued", "sending", "done"}, left : SUBSET Keys, round : 0 .. MaxRounds]
    <3>1. listing \in [pc : {"none", "queued", "sending", "done"}, left : SUBSET Keys, round : 0 .. MaxRounds]
      BY DEF FolderTypeOK
    <3>2. CASE UNCHANGED listing BY <3>1, <3>2
    <3>3. CASE SendArchive BY <3>1, <3>3 DEF SendArchive
    <3>4. CASE TakeListing
      <4>1. listing.round + 1 \in 0 .. MaxRounds BY <3>1, <3>4, FolderArchiveAssumption DEF TakeListing, Rounds
      <4> QED BY <3>4, <4>1 DEF TakeListing
    <3>5. CASE EndListing BY <3>1, <3>5 DEF EndListing
    <3>6. CASE ListingDies BY <3>1, <3>6 DEF ListingDies
    <3> QED BY <3>2, <3>3, <3>4, <3>5, <3>6 DEF SaveDeleted, SendRevoke, RequestCut, RevokeAll
  <2>4. UNCHANGED deaths \/ Dies
    BY DEF SaveDeleted, SendArchive, SendRevoke, RequestCut, RevokeAll, TakeListing, EndListing, ListingDies
  <2> QED BY <2>1, <2>2, <2>3, <2>4, DeathsBounded DEF FolderTypeOK
<1>3. \A k \in Keys : Copied(k)' => Copied(k) BY <1>1 DEF Copied
<1> QED BY <1>1, <1>2, <1>3, StoresAlone

LEMMA SendMoveKeeps ==
  ASSUME FolderInv, NEW k \in Keys, SendMove(k) PROVE FolderInv'
<1> USE DEF FolderInv
<1>1. /\ moves' = [moves EXCEPT ![<<k, listing.round>>] = "queued"]
      /\ listing' = [listing EXCEPT !.left = @ \ {k}]
      /\ UNCHANGED <<folder, access, stores, deaths, written>>
  BY DEF SendMove
<1>2. FolderTypeOK' BY <1>1 DEF FolderTypeOK, stores
<1>3. \A j \in Keys : Copied(j)' => Copied(j)
  <2> SUFFICES ASSUME NEW j \in Keys, NEW r \in Rounds, moves'[<<j, r>>] = "copied"
               PROVE  moves[<<j, r>>] = "copied" BY DEF Copied
  <2>1. <<j, r>> \in Moves BY DEF Moves
  <2> QED BY <1>1, <2>1 DEF FolderTypeOK
<1> QED BY <1>1, <1>2, <1>3, StoresAlone
-----------------------------------------------------------------------------
LEMMA FolderStep == FolderInv /\ [FolderNext]_folderVars => FolderInv'
<1> SUFFICES ASSUME FolderInv, [FolderNext]_folderVars PROVE FolderInv' OBVIOUS
<1>1. CASE UNCHANGED folderVars
  BY <1>1 DEF folderVars, stores, FolderInv, FolderTypeOK, ObjectIsLatest, CopyIsLatest, LatestKept, Copied
<1>2. ASSUME NEW m \in Moves, DeleteOriginal(m) \/ CompleteMove(m) \/ MoveDies(m) PROVE FolderInv'
  <2>1. deaths' \in 0 .. MaxDeaths
    BY <1>2, DeathsBounded DEF DeleteOriginal, CompleteMove, MoveDies, FolderInv
  <2>2. CASE DeleteOriginal(m) BY <2>1, <2>2, MoveOnKeeps DEF DeleteOriginal, Move
  <2>3. CASE CompleteMove(m) BY <2>1, <2>3, MoveOnKeeps DEF CompleteMove, Move, stores
  <2>4. CASE MoveDies(m) BY <2>1, <2>4, MoveOnKeeps DEF MoveDies, Move, stores
  <2> QED BY <1>2, <2>2, <2>3, <2>4
<1>3. CASE FolderNext
  BY <1>2, <1>3, WriteKeeps, CopyKeeps, SendMoveKeeps, OthersKeep DEF FolderNext
<1> QED BY <1>1, <1>3

\* However the request is cut off, tasks are repeated and workers die, for any
\* objects and versions: the last version of an object is in the folder or in
\* the archive, unless it was written between a worker's copy and deletion.
THEOREM LatestIsKept == FolderSpec => []LatestKept
<1>1. FolderInv => LatestKept BY DEF FolderInv
<1> QED BY <1>1, FolderStarts, FolderStep, PTL DEF FolderSpec

-----------------------------------------------------------------------------
(***************************************************************************)
(* Stored parameters: Parameters.  The inductive part says what a request  *)
(* under way has left of its name: how many rows, and whose string.        *)
(***************************************************************************)

WriterTyped == writer = [w \in Writers |-> writer[w]]
NamedRows(n) == {p \in saved : NameOf[p] = n}
Under(w, n) == writer[w] # Free0 /\ NameAt(w) = n

\* A name's only request has not yet put, or has already deleted, its string
\* while the one row is there; before deleting, the string is the row's.
OneRequest ==
  \A w \in Writers, n \in Names \ mingled : Under(w, n) =>
    /\ \A v \in Writers : Under(v, n) => v = w
    /\ NamedRows(n) = {writer[w].param}
    /\ store[n] = IF writer[w].pc = "unput" THEN writer[w].param ELSE NoParam

ParametersInv == ParametersTypeOK /\ WriterTyped /\ OneRequest /\ StringsFollowRows

LEMMA ParametersStart == ParametersInit => ParametersInv
<1> SUFFICES ASSUME ParametersInit PROVE ParametersInv OBVIOUS
<1>1. \A w \in Writers : writer[w] = Free0 BY DEF ParametersInit
<1>2. ParametersTypeOK
  BY <1>1, ParametersAssumption DEF ParametersInit, ParametersTypeOK
<1>3. WriterTyped BY DEF ParametersInit, WriterTyped
<1>4. OneRequest BY <1>1 DEF OneRequest, Under
<1>5. StringsFollowRows BY DEF ParametersInit, StringsFollowRows
<1> QED BY <1>2, <1>3, <1>4, <1>5 DEF ParametersInv

\* What a step of one request says of all the requests.
LEMMA OneBecomes ==
  ASSUME ParametersTypeOK, WriterTyped, NEW w \in Writers, NEW from, NEW to \in {"free", "put", "unput", "drop"},
         NEW p, Becomes(w, from, to, p)
  PROVE  /\ WriterTyped'
         /\ \A v \in Writers \ {w} : writer'[v] = writer[v]
         /\ to = "free" => writer'[w] = Free0
         /\ to # "free" => writer'[w] = [pc |-> to, param |-> p] /\ writer'[w] # Free0
                           /\ writer'[w].pc = to /\ writer'[w].param = p
         /\ writer[w].pc = from
         /\ from = "free" => writer[w] = Free0
<1>1. writer' = [writer EXCEPT ![w] = IF to = "free" THEN Free0 ELSE [pc |-> to, param |-> p]]
      /\ writer[w].pc = from
  BY DEF Becomes
<1>2. writer'[w] = (IF to = "free" THEN Free0 ELSE [pc |-> to, param |-> p])
      /\ \A v \in Writers \ {w} : writer'[v] = writer[v]
  BY <1>1 DEF WriterTyped
<1>3. WriterTyped' BY <1>1 DEF WriterTyped
<1>4. to # "free" => writer'[w].pc = to /\ writer'[w].param = p BY <1>2
<1>5. Free0.pc = "free" BY DEF Free0
<1>6. to # "free" => writer'[w] # Free0 BY <1>4, <1>5
<1>7. from = "free" => writer[w] = Free0 BY <1>1 DEF ParametersTypeOK
<1> QED BY <1>1, <1>2, <1>3, <1>4, <1>6, <1>7

\* A name that a step leaves alone stays in order.
NameInOrder(n) ==
  /\ \A w \in Writers : Under(w, n) =>
       /\ \A v \in Writers : Under(v, n) => v = w
       /\ NamedRows(n) = {writer[w].param}
       /\ store[n] = IF writer[w].pc = "unput" THEN writer[w].param ELSE NoParam
  /\ ~ Busy0(n) => NamedRows(n) = {store[n]} \ {NoParam}

LEMMA NamesInOrder ==
  /\ OneRequest /\ StringsFollowRows <=> \A n \in Names \ mingled : NameInOrder(n)
  /\ (OneRequest /\ StringsFollowRows)' <=> \A n \in Names \ mingled' : NameInOrder(n)'
BY DEF OneRequest, StringsFollowRows, NameInOrder, NamedRows

LEMMA NameLeftAlone ==
  ASSUME NEW n \in Names, NameInOrder(n), NEW w \in Writers, ~ Under(w, n), ~ Under(w, n)',
         \A v \in Writers \ {w} : writer'[v] = writer[v],
         store'[n] = store[n], NamedRows(n)' = NamedRows(n)
  PROVE  NameInOrder(n)'
<1>1. \A v \in Writers : Under(v, n)' <=> Under(v, n) BY DEF Under, NameAt
<1>2. Busy0(n)' <=> Busy0(n) BY <1>1 DEF Busy0, Under
<1>3. \A v \in Writers : Under(v, n) => writer'[v] = writer[v] OBVIOUS
<1> QED BY <1>1, <1>2, <1>3 DEF NameInOrder

\* A name none of whose rows and requests a step touches.
LEMMA OtherNames ==
  ASSUME NEW w \in Writers, NEW p \in Params, NEW n \in Names, n # NameOf[p], NameInOrder(n),
         writer[w] = Free0 \/ writer[w].param = p,
         writer'[w] = Free0 \/ writer'[w].param = p,
         \A v \in Writers \ {w} : writer'[v] = writer[v],
         saved' \in {saved, saved \cup {p}, saved \ {p}}, store'[n] = store[n]
  PROVE  NameInOrder(n)'
<1>1. ~ Under(w, n) /\ ~ Under(w, n)' BY DEF Under, NameAt
<1>2. NamedRows(n)' = NamedRows(n) BY DEF NamedRows
<1> QED BY <1>1, <1>2, NameLeftAlone

LEMMA RowCreated ==
  ASSUME ParametersInv, NEW w \in Writers, NEW p \in Params, Create(w, p) PROVE ParametersInv'
<1> USE DEF ParametersInv
<1> DEFINE n == NameOf[p]
<1>1. /\ p \notin made /\ made' = made \cup {p} /\ Becomes(w, "free", "put", p) /\ saved' = saved \cup {p}
      /\ mingled' = IF Busy0(n) \/ \E q \in saved : NameOf[q] = n THEN mingled \cup {n} ELSE mingled
      /\ UNCHANGED <<store, undone, storeFails>>
  BY DEF Create
<1>2. n \in Names BY ParametersAssumption
<1>3. /\ WriterTyped' /\ writer[w] = Free0 /\ \A v \in Writers \ {w} : writer'[v] = writer[v]
      /\ writer'[w].pc = "put" /\ writer'[w].param = p /\ writer'[w] # Free0
  BY <1>1, OneBecomes
<1>4. ParametersTypeOK' BY <1>1, <1>2, <1>3 DEF ParametersTypeOK
<1>5. ASSUME NEW m \in Names \ mingled' PROVE NameInOrder(m)'
  <2>1. m \in Names \ mingled BY <1>1
  <2>2. NameInOrder(m) BY <2>1, NamesInOrder
  <2>3. CASE m # n BY <1>1, <1>3, <2>2, <2>3, OtherNames
  <2>4. CASE m = n
    <3>1. ~ Busy0(n) /\ \A q \in saved : NameOf[q] # n BY <1>1, <1>5, <2>4
    <3>2. NamedRows(n) = {} BY <3>1 DEF NamedRows
    <3>3. store[n] = NoParam BY <2>2, <2>4, <3>1, <3>2 DEF NameInOrder
    <3>4. NamedRows(n)' = {p} BY <1>1, <3>1 DEF NamedRows
    <3>5. \A v \in Writers : Under(v, n)' <=> v = w
      BY <1>3, <3>1 DEF Under, NameAt, Busy0
    <3>6. Busy0(n)' BY <3>5 DEF Busy0, Under
    <3> QED BY <1>1, <1>3, <2>4, <3>3, <3>4, <3>5, <3>6 DEF NameInOrder
  <2> QED BY <2>3, <2>4
<1> QED BY <1>3, <1>4, <1>5, NamesInOrder

LEMMA AskDropKeeps ==
  ASSUME ParametersInv, NEW w \in Writers, NEW p \in Params, AskDrop(w, p) PROVE ParametersInv'
<1> USE DEF ParametersInv
<1> DEFINE n == NameOf[p]
<1>1. /\ p \in saved /\ Becomes(w, "free", "unput", p)
      /\ mingled' = IF Busy0(n) THEN mingled \cup {n} ELSE mingled
      /\ UNCHANGED <<saved, store, made, undone, storeFails>>
  BY DEF AskDrop
<1>2. n \in Names /\ p # NoParam BY ParametersAssumption
<1>3. /\ WriterTyped' /\ writer[w] = Free0 /\ \A v \in Writers \ {w} : writer'[v] = writer[v]
      /\ writer'[w].pc = "unput" /\ writer'[w].param = p /\ writer'[w] # Free0
  BY <1>1, OneBecomes
<1>4. ParametersTypeOK' BY <1>1, <1>2, <1>3 DEF ParametersTypeOK
<1>5. ASSUME NEW m \in Names \ mingled' PROVE NameInOrder(m)'
  <2>1. m \in Names \ mingled BY <1>1
  <2>2. NameInOrder(m) BY <2>1, NamesInOrder
  <2>3. CASE m # n BY <1>1, <1>3, <2>2, <2>3, OtherNames
  <2>4. CASE m = n
    <3>1. ~ Busy0(n) BY <1>1, <1>5, <2>4
    <3>2. p \in NamedRows(n) BY <1>1 DEF NamedRows
    <3>3. store[n] = p /\ NamedRows(n) = {p} BY <2>2, <2>4, <3>1, <3>2 DEF NameInOrder
    <3>4. NamedRows(n)' = {p} BY <1>1, <3>3 DEF NamedRows
    <3>5. \A v \in Writers : Under(v, n)' <=> v = w
      BY <1>3, <3>1 DEF Under, NameAt, Busy0
    <3>6. Busy0(n)' BY <3>5 DEF Busy0, Under
    <3> QED BY <1>1, <1>3, <2>4, <3>3, <3>4, <3>5, <3>6 DEF NameInOrder
  <2> QED BY <2>3, <2>4
<1> QED BY <1>3, <1>4, <1>5, NamesInOrder

\* The last step of a request lets go of its name.
LEMMA LetsGo ==
  ASSUME NEW w \in Writers, NEW n \in Names, NameInOrder(n), Under(w, n), writer'[w] = Free0,
         \A v \in Writers \ {w} : writer'[v] = writer[v]
  PROVE  ~ Busy0(n)' /\ \A v \in Writers : ~ Under(v, n)'
BY DEF NameInOrder, Under, NameAt, Busy0

\* Put only where there is no string: for a name in order, there is none.
LEMMA PutStringKeeps ==
  ASSUME ParametersInv, NEW w \in Writers, PutString(w) PROVE ParametersInv'
<1> USE DEF ParametersInv
<1>0. writer[w] # Free0 BY DEF PutString, Becomes, Free0
<1> PICK p \in Params, n \in Names : p = writer[w].param /\ n = NameAt(w) /\ n = NameOf[p] /\ p \in made
  BY <1>0, ParametersAssumption DEF ParametersTypeOK, NameAt
<1>1. /\ Becomes(w, "put", "free", NoParam)
      /\ store' = [store EXCEPT ![n] = IF @ = NoParam THEN p ELSE @]
      /\ UNCHANGED <<saved, made, undone, storeFails, mingled>>
  BY DEF PutString
<1>2. /\ WriterTyped' /\ writer'[w] = Free0 /\ \A v \in Writers \ {w} : writer'[v] = writer[v]
      /\ writer[w].pc = "put"
  BY <1>1, OneBecomes
<1>3. store \in [Names -> Params \cup {NoParam}] BY DEF ParametersTypeOK
<1>4. ParametersTypeOK' BY <1>1, <1>2, <1>3 DEF ParametersTypeOK
<1>5. ASSUME NEW m \in Names \ mingled' PROVE NameInOrder(m)'
  <2>1. NameInOrder(m) BY <1>1, <1>5, NamesInOrder
  <2>2. CASE m # n
    <3>1. store'[m] = store[m] BY <1>1, <1>3, <2>2
    <3> QED BY <1>1, <1>2, <2>1, <2>2, <3>1, OtherNames
  <2>3. CASE m = n
    <3>1. Under(w, n) BY <1>0 DEF Under
    <3>2. store[n] = NoParam /\ NamedRows(n) = {p} BY <1>2, <2>1, <2>3, <3>1 DEF NameInOrder
    <3>3. store'[n] = p BY <1>1, <1>3, <3>2
    <3>4. NamedRows(n)' = {p} BY <1>1, <3>2 DEF NamedRows
    <3>5. p # NoParam BY ParametersAssumption
    <3>6. ~ Busy0(n)' /\ \A v \in Writers : ~ Under(v, n)' BY <1>2, <2>1, <2>3, <3>1, LetsGo
    <3> QED BY <2>3, <3>3, <3>4, <3>5, <3>6 DEF NameInOrder
  <2> QED BY <2>2, <2>3
<1> QED BY <1>2, <1>4, <1>5, NamesInOrder

LEMMA DeleteStringKeeps ==
  ASSUME ParametersInv, NEW w \in Writers, DeleteString(w) PROVE ParametersInv'
<1> USE DEF ParametersInv
<1>0. writer[w] # Free0 BY DEF DeleteString, Becomes, Free0
<1> PICK p \in Params, n \in Names : p = writer[w].param /\ n = NameAt(w) /\ n = NameOf[p] /\ p \in made
  BY <1>0, ParametersAssumption DEF ParametersTypeOK, NameAt
<1>1. /\ Becomes(w, "unput", "drop", p) /\ store' = [store EXCEPT ![n] = NoParam]
      /\ UNCHANGED <<saved, made, undone, storeFails, mingled>>
  BY DEF DeleteString
<1>2. /\ WriterTyped' /\ \A v \in Writers \ {w} : writer'[v] = writer[v]
      /\ writer[w].pc = "unput" /\ writer'[w].pc = "drop" /\ writer'[w].param = p /\ writer'[w] # Free0
  <2>1. writer' = [writer EXCEPT ![w] = [pc |-> "drop", param |-> p]] /\ writer[w].pc = "unput"
    BY <1>1 DEF Becomes
  <2>2. writer'[w] = [pc |-> "drop", param |-> p] /\ \A v \in Writers \ {w} : writer'[v] = writer[v]
    BY <2>1 DEF WriterTyped
  <2>3. writer'[w].pc = "drop" /\ writer'[w].param = p /\ writer'[w] # Free0 BY <2>2 DEF Free0
  <2>4. WriterTyped' BY <2>1 DEF WriterTyped
  <2> QED BY <2>1, <2>2, <2>3, <2>4
<1>3. store \in [Names -> Params \cup {NoParam}] BY DEF ParametersTypeOK
<1>4. ParametersTypeOK' BY <1>1, <1>2, <1>3 DEF ParametersTypeOK
<1>5. ASSUME NEW m \in Names \ mingled' PROVE NameInOrder(m)'
  <2>1. NameInOrder(m) BY <1>1, <1>5, NamesInOrder
  <2>2. CASE m # n
    <3>1. store'[m] = store[m] BY <1>1, <1>3, <2>2
    <3> QED BY <1>1, <1>2, <2>1, <2>2, <3>1, OtherNames
  <2>3. CASE m = n
    <3>1. Under(w, n) BY <1>0 DEF Under
    <3>2. NamedRows(n) = {p} /\ \A v \in Writers : Under(v, n) => v = w BY <2>1, <2>3, <3>1 DEF NameInOrder
    <3>3. store'[n] = NoParam BY <1>1, <1>3
    <3>4. NamedRows(n)' = {p} BY <1>1, <3>2 DEF NamedRows
    <3>5. NameAt(w)' = n BY <1>2 DEF NameAt
    <3>6. \A v \in Writers : Under(v, n)' <=> v = w BY <1>2, <3>2, <3>5 DEF Under, NameAt
    <3>7. Busy0(n)' BY <3>6 DEF Busy0, Under
    <3> QED BY <1>2, <2>3, <3>3, <3>4, <3>6, <3>7 DEF NameInOrder
  <2> QED BY <2>2, <2>3
<1> QED BY <1>2, <1>4, <1>5, NamesInOrder

LEMMA DropRowKeeps ==
  ASSUME ParametersInv, NEW w \in Writers, DropRow(w) PROVE ParametersInv'
<1> USE DEF ParametersInv
<1>0. writer[w] # Free0 BY DEF DropRow, Becomes, Free0
<1> PICK p \in Params, n \in Names : p = writer[w].param /\ n = NameAt(w) /\ n = NameOf[p] /\ p \in made
  BY <1>0, ParametersAssumption DEF ParametersTypeOK, NameAt
<1>1. /\ Becomes(w, "drop", "free", NoParam) /\ saved' = saved \ {p}
      /\ UNCHANGED <<store, made, undone, storeFails, mingled>>
  BY DEF DropRow
<1>2. /\ WriterTyped' /\ writer'[w] = Free0 /\ \A v \in Writers \ {w} : writer'[v] = writer[v]
      /\ writer[w].pc = "drop"
  BY <1>1, OneBecomes
<1>3. ParametersTypeOK' BY <1>1, <1>2 DEF ParametersTypeOK
<1>4. ASSUME NEW m \in Names \ mingled' PROVE NameInOrder(m)'
  <2>1. NameInOrder(m) BY <1>1, <1>4, NamesInOrder
  <2>2. CASE m # n BY <1>1, <1>2, <2>1, <2>2, OtherNames
  <2>3. CASE m = n
    <3>1. Under(w, n) BY <1>0 DEF Under
    <3>2. store[n] = NoParam /\ NamedRows(n) = {p} BY <1>2, <2>1, <2>3, <3>1 DEF NameInOrder
    <3>3. NamedRows(n)' = {} BY <1>1, <3>2 DEF NamedRows
    <3>4. ~ Busy0(n)' /\ \A v \in Writers : ~ Under(v, n)' BY <1>2, <2>1, <2>3, <3>1, LetsGo
    <3> QED BY <1>1, <2>3, <3>2, <3>3, <3>4 DEF NameInOrder
  <2> QED BY <2>2, <2>3
<1> QED BY <1>2, <1>3, <1>4, NamesInOrder

LEMMA StoreFailsKeeps ==
  ASSUME ParametersInv, NEW w \in Writers, StoreFails(w) PROVE ParametersInv'
<1> USE DEF ParametersInv
<1>0. writer[w] # Free0 BY DEF StoreFails
<1> PICK p \in Params, n \in Names : p = writer[w].param /\ n = NameAt(w) /\ n = NameOf[p] /\ p \in made
  BY <1>0, ParametersAssumption DEF ParametersTypeOK, NameAt
<1>1. /\ writer[w] # Free0 /\ Becomes(w, writer[w].pc, "free", NoParam)
      /\ undone' = IF writer[w].pc = "put" THEN undone \cup {p} ELSE undone
      /\ mingled' = mingled \cup {n} /\ UNCHANGED <<saved, store, made>>
  BY DEF StoreFails
<1>2. WriterTyped' /\ writer'[w] = Free0 /\ \A v \in Writers \ {w} : writer'[v] = writer[v]
  BY <1>1, OneBecomes
<1>3. storeFails' \in 0 .. MaxStoreFails
  BY ParametersAssumption DEF StoreFails, ParametersTypeOK
<1>4. ParametersTypeOK' BY <1>1, <1>2, <1>3 DEF ParametersTypeOK
<1>5. ASSUME NEW m \in Names \ mingled' PROVE NameInOrder(m)'
  <2>1. NameInOrder(m) /\ m # n BY <1>1, <1>5, NamesInOrder
  <2> QED BY <1>1, <1>2, <2>1, OtherNames
<1> QED BY <1>2, <1>4, <1>5, NamesInOrder
-----------------------------------------------------------------------------
LEMMA ParametersStep == ParametersInv /\ [ParametersNext]_paramVars => ParametersInv'
<1> SUFFICES ASSUME ParametersInv, [ParametersNext]_paramVars PROVE ParametersInv' OBVIOUS
<1>1. CASE UNCHANGED paramVars
  BY <1>1 DEF paramVars, ParametersInv, ParametersTypeOK, WriterTyped, OneRequest, StringsFollowRows,
              Under, NameAt, NamedRows, Busy0
<1>2. CASE ParametersNext
  BY <1>2, RowCreated, AskDropKeeps, PutStringKeeps, DeleteStringKeeps, DropRowKeeps, StoreFailsKeeps
  DEF ParametersNext
<1> QED BY <1>1, <1>2

\* However requests interleave and fail, for any parameters and names: a name
\* whose requests never overlapped or failed and which no two rows shared has
\* a string just when it has a row, with the row's value.
THEOREM StringsFollow == ParametersSpec => []StringsFollowRows
<1>1. ParametersInv => StringsFollowRows BY DEF ParametersInv
<1> QED BY <1>1, ParametersStart, ParametersStep, PTL DEF ParametersSpec

-----------------------------------------------------------------------------
(***************************************************************************)
(* Customers: Customers                                                    *)
(***************************************************************************)

SearchOrders == [pc : {"search", "patch"}, left : SUBSET Addresses, ids : SUBSET Addresses]
CreateOrders == [pc : {"create"}, left : SUBSET Addresses, ids : SUBSET Addresses, new : Addresses]
RemoveOrders == [pc : {"find", "groups", "drop"}, id : Addresses]
PageOrders ==
  [pc : {"page", "listed"}, number : Nat \ {0}, items : Seq(Addresses), total : Nat \cup {-1},
   began : Seq(Addresses), grew : BOOLEAN, shrank : BOOLEAN]

\* The pages of a listing so far are the beginning of the list it began with;
\* by the list's length it can tell that members came, or that members went.
ListingSays(o, list, there) ==
  /\ o.pc = "page" /\ o.number = 1 =>
       o.items = <<>> /\ o.total = -1 /\ o.began = <<>> /\ ~ o.grew /\ ~ o.shrank
  /\ o.pc = "page" /\ o.number # 1 /\ there /\ ~ (o.grew /\ o.shrank) =>
       /\ o.total = Len(o.began) /\ (o.number - 1) * PerPage < Len(o.began)
       /\ o.items = SubSeq(o.began, 1, (o.number - 1) * PerPage)
       /\ ~ o.grew /\ ~ o.shrank => list = o.began
       /\ o.grew => Len(list) > Len(o.began)
       /\ o.shrank => Len(list) < Len(o.began)
  /\ o.pc = "listed" /\ ~ (o.grew /\ o.shrank) => o.items = o.began

Orderly(o, known, list, there) ==
  \/ o = NoOrder
  \/ o \in SearchOrders \cup CreateOrders /\ o.ids \subseteq known
  \/ o \in RemoveOrders
  \/ o \in PageOrders /\ ListingSays(o, list, there)

NoDup(s) == \A i, j \in 1 .. Len(s) : s[i] = s[j] => i = j
Members ==
  /\ members \in Seq(Addresses) /\ NoDup(members) /\ Listed(members) \subseteq accounts
  /\ ~ group => members = <<>>

Accounts == accounts \subseteq Addresses /\ found \subseteq accounts /\ group \in BOOLEAN
InOrder == order = [c \in Clerks |-> order[c]] /\ \A c \in Clerks : Orderly(order[c], accounts, members, group)
Bounds == orders \in 0 .. MaxOrders /\ upsets \in 0 .. MaxUpsets

CustomersInv == Accounts /\ Members /\ InOrder /\ Bounds

-----------------------------------------------------------------------------
(* Lists *)

LEMMA ListedIn ==
  ASSUME NEW S, NEW s \in Seq(S)
  PROVE  Listed(s) \subseteq S /\ \A a : a \in Listed(s) <=> \E i \in 1 .. Len(s) : s[i] = a
BY DEF Listed

LEMMA ListGrows ==
  ASSUME NEW s \in Seq(Addresses), NoDup(s), NEW S \in SUBSET (Addresses \ Listed(s)), NEW new \in Ordered(S)
  PROVE  /\ s \o new \in Seq(Addresses) /\ NoDup(s \o new) /\ Listed(s \o new) \subseteq Listed(s) \cup S
         /\ Len(s \o new) >= Len(s) /\ (Len(s \o new) = Len(s) => s \o new = s)
<1> DEFINE n == Cardinality(S)
<1>1. IsFiniteSet(S) /\ n \in Nat
  BY CustomersAssumption, FS_Subset, FS_CardinalityType
<1>2. new \in [1 .. n -> S] /\ Listed(new) = S
  BY DEF Ordered
<1>3. IsFiniteSet(1 .. n) /\ Cardinality(1 .. n) = n
  BY <1>1, FS_Interval
<1>4. new \in Surjection(1 .. n, S)
  <2>1. \A a \in S : \E i \in 1 .. n : new[i] = a
    BY <1>2 DEF Listed
  <2> QED BY <1>2, <2>1 DEF Surjection
<1>5. new \in Injection(1 .. n, S)
  BY <1>3, <1>4, FS_SurjSameCardinalityImpliesInj
<1>6. \A i, j \in 1 .. n : new[i] = new[j] => i = j
  BY <1>5 DEF Injection, IsInjective
<1> HIDE DEF n
<1>7. new \in Seq(Addresses) /\ Len(new) = n
  BY <1>1, <1>2
<1>8. /\ s \o new \in Seq(Addresses) /\ Len(s \o new) = Len(s) + n /\ Len(s) \in Nat
      /\ \A i \in 1 .. Len(s) + n : (s \o new)[i] = IF i <= Len(s) THEN s[i] ELSE new[i - Len(s)]
  <2>1. /\ s \o new \in Seq(Addresses) /\ Len(s \o new) = Len(s) + Len(new)
        /\ \A i \in 1 .. Len(s) + Len(new) : (s \o new)[i] = IF i <= Len(s) THEN s[i] ELSE new[i - Len(s)]
    BY <1>7, ConcatProperties
  <2> QED BY <1>7, <2>1
<1>9. \A a : a \in Listed(s) <=> \E i \in 1 .. Len(s) : s[i] = a
  BY ListedIn
<1>10. NoDup(s \o new)
  <2> SUFFICES ASSUME NEW i \in 1 .. Len(s) + n, NEW j \in 1 .. Len(s) + n, (s \o new)[i] = (s \o new)[j] PROVE i = j
    BY <1>8 DEF NoDup
  <2>1. CASE i <= Len(s) /\ j <= Len(s)
    BY <1>8, <2>1 DEF NoDup
  <2>2. CASE i > Len(s) /\ j > Len(s)
    <3>1. new[i - Len(s)] = new[j - Len(s)] /\ i - Len(s) \in 1 .. n /\ j - Len(s) \in 1 .. n
      BY <1>1, <1>8, <2>2
    <3>2. i - Len(s) = j - Len(s)
      BY <1>6, <3>1
    <3> QED BY <1>1, <1>8, <3>2
  <2>3. \A k \in 1 .. n : new[k] \notin Listed(s)
    BY <1>2
  <2>4. CASE i <= Len(s) /\ j > Len(s)
    <3>1. (s \o new)[i] \in Listed(s)
      BY <1>1, <1>8, <1>9, <2>4
    <3>2. (s \o new)[j] = new[j - Len(s)] /\ j - Len(s) \in 1 .. n
      BY <1>1, <1>8, <2>4
    <3> QED BY <2>3, <3>1, <3>2
  <2>5. CASE i > Len(s) /\ j <= Len(s)
    <3>1. (s \o new)[j] \in Listed(s)
      BY <1>1, <1>8, <1>9, <2>5
    <3>2. (s \o new)[i] = new[i - Len(s)] /\ i - Len(s) \in 1 .. n
      BY <1>1, <1>8, <2>5
    <3> QED BY <2>3, <3>1, <3>2
  <2> QED BY <1>1, <1>8, <2>1, <2>2, <2>4, <2>5
<1>11. Listed(s \o new) \subseteq Listed(s) \cup S
  <2>0. \A a : a \in Listed(s \o new) => \E i \in 1 .. Len(s \o new) : (s \o new)[i] = a
    BY <1>8, ListedIn
  <2> SUFFICES ASSUME NEW i \in 1 .. Len(s) + n PROVE (s \o new)[i] \in Listed(s) \cup S
    BY <1>8, <2>0
  <2>1. CASE i <= Len(s)
    BY <1>8, <1>9, <2>1
  <2>2. CASE i > Len(s)
    <3>1. i - Len(s) \in 1 .. n
      BY <1>1, <1>8, <2>2
    <3> QED BY <1>2, <1>8, <2>2, <3>1
  <2> QED BY <1>8, <2>1, <2>2
<1>12. ASSUME Len(s \o new) = Len(s) PROVE s \o new = s
  <2>1. Len(new) = 0
    BY <1>1, <1>7, <1>8, <1>12
  <2>2. new = <<>>
    BY <1>7, <2>1
  <2> QED BY <2>2, ConcatEmptySeq
<1> QED BY <1>1, <1>8, <1>10, <1>11, <1>12

LEMMA ListShrinks ==
  ASSUME NEW s \in Seq(Addresses), NoDup(s), NEW a
  PROVE  /\ Without(s, a) \in Seq(Addresses) /\ NoDup(Without(s, a)) /\ Listed(Without(s, a)) \subseteq Listed(s)
         /\ Len(Without(s, a)) <= Len(s) /\ (Len(Without(s, a)) = Len(s) => Without(s, a) = s)
<1>1. CASE a \notin Listed(s)
  <2>1. Without(s, a) = s
    BY <1>1 DEF Without
  <2> QED BY <2>1
<1>2. CASE a \in Listed(s)
  <2> DEFINE p == Place(s, a)
             b == SubSeq(s, 1, p - 1)
             e == SubSeq(s, p + 1, Len(s))
  <2>1. p \in 1 .. Len(s) /\ Len(s) \in Nat
    <3>1. \E i \in DOMAIN s : s[i] = a
      BY <1>2 DEF Listed
    <3>2. p \in DOMAIN s
      BY <3>1 DEF Place
    <3> QED BY <3>2
  <2>2. Without(s, a) = b \o e
    BY <1>2 DEF Without
  <2> HIDE DEF p
  <2>3. /\ b \in Seq(Addresses) /\ Len(b) = p - 1 /\ \A i \in 1 .. p - 1 : b[i] = s[i]
    <3>1. p - 1 \in Int /\ \A i \in 1 .. p - 1 : s[i] \in Addresses
      BY <2>1
    <3>2. /\ b \in Seq(Addresses) /\ Len(b) = (IF 1 <= p - 1 THEN p - 1 - 1 + 1 ELSE 0)
          /\ \A i \in 1 .. p - 1 - 1 + 1 : b[i] = s[1 + i - 1]
      BY <3>1, SubSeqProperties
    <3> QED BY <2>1, <3>2
  <2>4. /\ e \in Seq(Addresses) /\ Len(e) = Len(s) - p /\ \A i \in 1 .. Len(s) - p : e[i] = s[p + i]
    <3>1. p + 1 \in Int /\ Len(s) \in Int /\ \A i \in p + 1 .. Len(s) : s[i] \in Addresses
      BY <2>1
    <3>2. /\ e \in Seq(Addresses) /\ Len(e) = (IF p + 1 <= Len(s) THEN Len(s) - (p + 1) + 1 ELSE 0)
          /\ \A i \in 1 .. Len(s) - (p + 1) + 1 : e[i] = s[p + 1 + i - 1]
      BY <3>1, SubSeqProperties
    <3> QED BY <2>1, <3>2
  <2> HIDE DEF b, e
  <2>5. /\ b \o e \in Seq(Addresses) /\ Len(b \o e) = Len(s) - 1
        /\ \A i \in 1 .. Len(s) - 1 : (b \o e)[i] = IF i < p THEN s[i] ELSE s[i + 1]
    <3>1. /\ b \o e \in Seq(Addresses) /\ Len(b \o e) = Len(b) + Len(e)
          /\ \A i \in 1 .. Len(b) + Len(e) : (b \o e)[i] = IF i <= Len(b) THEN b[i] ELSE e[i - Len(b)]
      BY <2>3, <2>4, ConcatProperties
    <3>2. Len(b) + Len(e) = Len(s) - 1
      BY <2>1, <2>3, <2>4
    <3>3. ASSUME NEW i \in 1 .. Len(s) - 1
          PROVE  (i < p => (b \o e)[i] = s[i]) /\ (~ (i < p) => (b \o e)[i] = s[i + 1])
      <4>1. ASSUME i < p PROVE (b \o e)[i] = s[i]
        BY <2>1, <2>3, <3>1, <3>2, <4>1
      <4>2. ASSUME ~ (i < p) PROVE (b \o e)[i] = s[i + 1]
        <5>1. i - Len(b) \in 1 .. Len(s) - p /\ p + (i - Len(b)) = i + 1 /\ ~ (i <= Len(b))
          BY <2>1, <2>3, <4>2
        <5>2. e[i - Len(b)] = s[i + 1]
          BY <2>4, <5>1
        <5> QED BY <2>1, <3>1, <3>2, <4>2, <5>1, <5>2
      <4> QED BY <4>1, <4>2
    <3> QED BY <3>1, <3>2, <3>3
  <2>6. NoDup(b \o e)
    <3> SUFFICES ASSUME NEW i \in 1 .. Len(s) - 1, NEW j \in 1 .. Len(s) - 1, (b \o e)[i] = (b \o e)[j] PROVE i = j
      BY <2>5 DEF NoDup
    <3> DEFINE moved(k) == IF k < p THEN k ELSE k + 1
    <3>1. \A k \in 1 .. Len(s) - 1 : moved(k) \in 1 .. Len(s) /\ (b \o e)[k] = s[moved(k)]
      BY <2>1, <2>5
    <3>2. moved(i) = moved(j)
      BY <3>1 DEF NoDup
    <3> QED BY <2>1, <3>2
  <2>7. Listed(b \o e) \subseteq Listed(s)
    <3>1. \A x : x \in Listed(b \o e) => \E i \in 1 .. Len(b \o e) : (b \o e)[i] = x
      BY <2>5, ListedIn
    <3>2. \A x : x \in Listed(s) <=> \E i \in 1 .. Len(s) : s[i] = x
      BY ListedIn
    <3>3. ASSUME NEW i \in 1 .. Len(s) - 1 PROVE (b \o e)[i] \in Listed(s)
      <4>1. i \in 1 .. Len(s) /\ i + 1 \in 1 .. Len(s)
        BY <2>1
      <4> QED BY <2>5, <3>2, <4>1
    <3> QED BY <2>5, <3>1, <3>3
  <2> QED BY <2>1, <2>2, <2>5, <2>6, <2>7
<1> QED BY <1>1, <1>2

LEMMA InLists == ASSUME NEW s \in Seq(Addresses), NoDup(s) PROVE s \in Lists
<1> DEFINE S == Listed(s)
           n == Len(s)
<1>1. n \in Nat /\ S \in SUBSET Addresses /\ s \in [1 .. n -> S]
  BY ListedIn DEF Listed
<1>2. IsFiniteSet(1 .. n) /\ Cardinality(1 .. n) = n
  BY <1>1, FS_Interval
<1>3. s \in Surjection(1 .. n, S)
  BY <1>1, ListedIn DEF Surjection
<1>4. s \in Injection(1 .. n, S)
  BY <1>1 DEF Injection, IsInjective, NoDup
<1>5. Cardinality(S) = n
  BY <1>2, <1>3, <1>4, FS_Surjection
<1> QED BY <1>1, <1>5 DEF Lists, Ordered
-----------------------------------------------------------------------------
(* Orders *)

LEMMA Kinds ==
  ASSUME CustomersInv, NEW c \in Clerks
  PROVE  LET o == order[c] IN
         /\ o.pc \in {"search", "patch"} => o \in SearchOrders /\ o.ids \subseteq accounts
         /\ o.pc = "create" => o \in CreateOrders /\ o.ids \subseteq accounts
         /\ o.pc \in {"find", "groups", "drop"} => o \in RemoveOrders
         /\ o.pc \in {"page", "listed"} => o \in PageOrders /\ ListingSays(o, members, group)
         /\ o.pc \in {"idle", "search", "create", "patch", "find", "groups", "drop", "page", "listed"}
<1> DEFINE o == order[c]
<1>1. Orderly(o, accounts, members, group)
  BY DEF CustomersInv, InOrder
<1> HIDE DEF o
<1>2. CASE o = NoOrder
  BY <1>2 DEF NoOrder, o
<1>3. CASE o \in SearchOrders /\ o.ids \subseteq accounts
  BY <1>3 DEF SearchOrders, o
<1>4. CASE o \in CreateOrders /\ o.ids \subseteq accounts
  BY <1>4 DEF CreateOrders, o
<1>5. CASE o \in RemoveOrders
  BY <1>5 DEF RemoveOrders, o
<1>6. CASE o \in PageOrders /\ ListingSays(o, members, group)
  BY <1>6 DEF PageOrders, o
<1> QED BY <1>1, <1>2, <1>3, <1>4, <1>5, <1>6 DEF Orderly

\* One order changes, the group as it is.
LEMMA OneOrder ==
  ASSUME CustomersInv, NEW c \in Clerks, NEW o, order' = [order EXCEPT ![c] = o],
         members' = members, group' = group, accounts \subseteq accounts', Accounts',
         Orderly(o, accounts', members, group), Bounds'
  PROVE  CustomersInv'
<1>1. /\ order' = [d \in Clerks |-> order'[d]] /\ order'[c] = o
      /\ \A d \in Clerks \ {c} : order'[d] = order[d]
  BY DEF CustomersInv, InOrder
<1>2. \A d \in Clerks : Orderly(order'[d], accounts', members', group')
  BY <1>1 DEF CustomersInv, InOrder, Orderly
<1>3. Members'
  BY DEF CustomersInv, Members
<1> QED BY <1>1, <1>2, <1>3 DEF CustomersInv, InOrder

LEMMA AskKeeps ==
  ASSUME CustomersInv, NEW c \in Clerks,
         \/ \E S \in Entered : AskAdd(c, S)
         \/ \E a \in Addresses : AskRemove(c, a) \/ AskRemoveAddress(c, a)
         \/ AskList(c)
  PROVE  CustomersInv'
<1>1. ASSUME NEW o, Ordering(c, o), Orderly(o, accounts, members, group) PROVE CustomersInv'
  <2>1. /\ order' = [order EXCEPT ![c] = o] /\ orders < MaxOrders /\ orders' = orders + 1
        /\ UNCHANGED <<accounts, found, members, group, upsets>>
    BY <1>1 DEF Ordering
  <2>2. Bounds' /\ Accounts'
    BY <2>1, CustomersAssumption DEF CustomersInv, Bounds, Accounts
  <2> QED BY <1>1, <2>1, <2>2, OneOrder
<1>2. ASSUME NEW S \in Entered, AskAdd(c, S) PROVE CustomersInv'
  <2> DEFINE o == [pc |-> "search", left |-> S, ids |-> {}]
  <2>1. o \in SearchOrders /\ o.ids \subseteq accounts
    BY <1>2 DEF SearchOrders, Entered
  <2>2. Orderly(o, accounts, members, group)
    BY <2>1 DEF Orderly
  <2> QED BY <1>1, <1>2, <2>2 DEF AskAdd
<1>3. ASSUME NEW a \in Addresses, AskRemove(c, a) \/ AskRemoveAddress(c, a) PROVE CustomersInv'
  <2>1. \A p \in {"drop", "find"} : Orderly([pc |-> p, id |-> a], accounts, members, group)
    BY DEF Orderly, RemoveOrders
  <2> QED BY <1>1, <1>3, <2>1 DEF AskRemove, AskRemoveAddress
<1>4. ASSUME AskList(c) PROVE CustomersInv'
  <2> DEFINE o == [pc |-> "page", number |-> 1, items |-> <<>>, total |-> -1,
                   began |-> <<>>, grew |-> FALSE, shrank |-> FALSE]
  <2>1. o \in PageOrders
    <3>1. <<>> \in Seq(Addresses) /\ 1 \in Nat \ {0} /\ -1 \in Nat \cup {-1}
      OBVIOUS
    <3> QED BY <3>1 DEF PageOrders
  <2>2. ListingSays(o, members, group)
    BY DEF ListingSays
  <2>3. Orderly(o, accounts, members, group)
    BY <2>1, <2>2 DEF Orderly
  <2> QED BY <1>1, <1>4, <2>3 DEF AskList
<1> QED BY <1>2, <1>3, <1>4

LEMMA SearchKeeps ==
  ASSUME CustomersInv, NEW c \in Clerks, NEW a \in Addresses, Search(c, a)
  PROVE  CustomersInv'
<1> DEFINE p == IF order[c].left = {a} THEN "patch" ELSE "search"
           got == [order[c] EXCEPT !.left = @ \ {a}, !.ids = @ \cup {a}, !.pc = p]
           fresh == [pc |-> "create", left |-> order[c].left, ids |-> order[c].ids, new |-> a]
           o == IF a \in found THEN got ELSE fresh
<1>1. /\ order[c].pc = "search" /\ order' = [order EXCEPT ![c] = o]
      /\ UNCHANGED <<accounts, found, members, group, orders, upsets>>
  BY DEF Search, Goes, Collect
<1>2. order[c] \in SearchOrders /\ order[c].ids \subseteq accounts
  BY <1>1, Kinds
<1>3. ASSUME a \in found PROVE got \in SearchOrders /\ got.ids \subseteq accounts
  <2>1. p \in {"search", "patch"}
    OBVIOUS
  <2> HIDE DEF p
  <2>2. got \in SearchOrders
    BY <1>2, <2>1 DEF SearchOrders
  <2>3. got.ids = order[c].ids \cup {a}
    BY <1>2 DEF SearchOrders
  <2> QED BY <1>2, <1>3, <2>2, <2>3 DEF CustomersInv, Accounts
<1>4. fresh \in CreateOrders /\ fresh.ids \subseteq accounts
  BY <1>2 DEF SearchOrders, CreateOrders
<1> HIDE DEF got, fresh
<1>5. Orderly(o, accounts, members, group)
  BY <1>3, <1>4 DEF Orderly
<1> HIDE DEF o
<1>6. Accounts' /\ Bounds'
  BY <1>1 DEF CustomersInv, Accounts, Bounds
<1> QED BY <1>1, <1>5, <1>6, OneOrder

LEMMA CreateKeeps ==
  ASSUME CustomersInv, NEW c \in Clerks, CreateAccount(c)
  PROVE  CustomersInv'
<1> DEFINE a == order[c].new
           next == [pc |-> IF order[c].left = {a} THEN "patch" ELSE "search",
                    left |-> order[c].left \ {a}, ids |-> order[c].ids \cup {a}]
           o == IF a \in accounts THEN NoOrder ELSE next
<1>1. /\ order[c].pc = "create" /\ order' = [order EXCEPT ![c] = o] /\ accounts' = accounts \cup {a}
      /\ UNCHANGED <<found, members, group, orders, upsets>>
  BY DEF CreateAccount, Goes
<1>2. order[c] \in CreateOrders /\ order[c].ids \subseteq accounts
  BY <1>1, Kinds
<1>3. next \in SearchOrders /\ next.ids \subseteq accounts'
  BY <1>1, <1>2 DEF CreateOrders, SearchOrders
<1> HIDE DEF next
<1>4. Orderly(o, accounts', members, group)
  BY <1>3 DEF Orderly
<1> HIDE DEF o
<1>5. Accounts' /\ Bounds' /\ accounts \subseteq accounts'
  BY <1>1, <1>2 DEF CustomersInv, Accounts, Bounds, CreateOrders
<1> QED BY <1>1, <1>4, <1>5, OneOrder

LEMMA RemovesKeep ==
  ASSUME CustomersInv, NEW c \in Clerks, FindAccount(c) \/ LookAtGroups(c) \/ Deliver(c) \/ OrderFails(c)
  PROVE  CustomersInv'
<1>1. ASSUME NEW p \in {"groups", "drop"}, order[c].pc \in {"find", "groups", "drop"}
      PROVE Orderly(Resumes(c, p), accounts, members, group)
  <2>1. order[c] \in RemoveOrders
    BY <1>1, Kinds
  <2>2. Resumes(c, p) \in RemoveOrders
    BY <2>1 DEF Resumes, RemoveOrders
  <2> QED BY <2>2 DEF Orderly
<1>2. Orderly(NoOrder, accounts, members, group)
  BY DEF Orderly
<1>3. UNCHANGED <<accounts, found, members, group, orders>>
  BY DEF FindAccount, LookAtGroups, Deliver, OrderFails
<1>4. Accounts' /\ Bounds'
  BY <1>3, CustomersAssumption DEF CustomersInv, Accounts, Bounds, FindAccount, LookAtGroups, Deliver, OrderFails
<1>5. PICK o : order' = [order EXCEPT ![c] = o] /\ Orderly(o, accounts, members, group)
  <2>1. CASE FindAccount(c)
    BY <1>1, <1>2, <2>1 DEF FindAccount, Goes
  <2>2. CASE LookAtGroups(c)
    BY <1>1, <1>2, <2>2 DEF LookAtGroups, Goes
  <2>3. CASE Deliver(c) \/ OrderFails(c)
    BY <1>2, <2>3 DEF Deliver, OrderFails, Goes
  <2> QED BY <2>1, <2>2, <2>3
<1> QED BY <1>3, <1>4, <1>5, OneOrder
-----------------------------------------------------------------------------
(* The group changes *)

Noted(o, list) ==
  [o EXCEPT !.grew = @ \/ Len(list) > Len(members), !.shrank = @ \/ Len(list) < Len(members)]

LEMMA NotedPages ==
  ASSUME NEW o \in PageOrders, o.pc = "page", o.number # 1, ListingSays(o, members, group),
         NEW list, Len(list) \in Nat, Len(members) \in Nat, Len(list) = Len(members) => list = members
  PROVE  Noted(o, list) \in PageOrders /\ ListingSays(Noted(o, list), list, group)
<1> DEFINE g == o.grew \/ Len(list) > Len(members)
           s == o.shrank \/ Len(list) < Len(members)
           n == [o EXCEPT !.grew = g, !.shrank = s]
<1>1. Noted(o, list) = n
  BY DEF Noted, PageOrders
<1>2. g \in BOOLEAN /\ s \in BOOLEAN /\ o.grew \in BOOLEAN /\ o.shrank \in BOOLEAN /\ Len(o.began) \in Nat
  BY DEF PageOrders
<1>3. /\ o.grew => g
      /\ o.shrank => s
      /\ Len(list) > Len(members) => g
      /\ Len(list) < Len(members) => s
      /\ ~ g => ~ o.grew /\ ~ (Len(list) > Len(members))
      /\ ~ s => ~ o.shrank /\ ~ (Len(list) < Len(members))
      /\ g /\ ~ o.grew => Len(list) > Len(members)
      /\ s /\ ~ o.shrank => Len(list) < Len(members)
  OBVIOUS
<1> HIDE DEF g, s
<1>4. n \in PageOrders
  BY <1>2 DEF PageOrders
<1>5. /\ n.pc = "page" /\ n.number = o.number /\ n.items = o.items /\ n.total = o.total /\ n.began = o.began
      /\ n.grew = g /\ n.shrank = s
  BY DEF PageOrders
<1> HIDE DEF n
<1>6. ASSUME group, ~ (g /\ s)
      PROVE  /\ o.total = Len(o.began) /\ (o.number - 1) * PerPage < Len(o.began)
             /\ o.items = SubSeq(o.began, 1, (o.number - 1) * PerPage)
             /\ ~ g /\ ~ s => list = o.began
             /\ g => Len(list) > Len(o.began)
             /\ s => Len(list) < Len(o.began)
  <2>1. /\ o.total = Len(o.began) /\ (o.number - 1) * PerPage < Len(o.began)
        /\ o.items = SubSeq(o.began, 1, (o.number - 1) * PerPage)
        /\ ~ o.grew /\ ~ o.shrank => members = o.began
        /\ o.grew => Len(members) > Len(o.began)
        /\ o.shrank => Len(members) < Len(o.began)
    BY <1>3, <1>6 DEF ListingSays
  <2>2. ~ g /\ ~ s => list = o.began
    BY <1>3, <2>1
  <2>3. g => Len(list) > Len(o.began)
    BY <1>2, <1>3, <1>6, <2>1
  <2>4. s => Len(list) < Len(o.began)
    BY <1>2, <1>3, <1>6, <2>1
  <2> QED BY <2>1, <2>2, <2>3, <2>4
<1>7. ListingSays(n, list, group)
  BY <1>5, <1>6 DEF ListingSays
<1> QED BY <1>1, <1>4, <1>7

LEMMA ChangesKeep ==
  ASSUME CustomersInv, NEW c \in Clerks, NEW from, NEW list \in Seq(Addresses), Changes(c, from, list),
         NoDup(list), Listed(list) \subseteq accounts, ~ group => list = <<>>,
         Len(list) = Len(members) => list = members,
         UNCHANGED <<accounts, found, group, orders, upsets>>
  PROVE  CustomersInv'
<1>1. /\ members' = list
      /\ order' = [d \in Clerks |->
           IF d = c THEN NoOrder
           ELSE IF order[d].pc # "page" \/ order[d].number = 1 THEN order[d] ELSE Noted(order[d], list)]
  BY DEF Changes, Noted
<1>2. Len(list) \in Nat /\ Len(members) \in Nat
  BY DEF CustomersInv, Members
<1>3. ASSUME NEW d \in Clerks PROVE Orderly(order'[d], accounts, list, group)
  <2>1. Orderly(order[d], accounts, members, group)
    BY DEF CustomersInv, InOrder
  <2>2. CASE d = c
    BY <1>1, <2>2 DEF Orderly
  <2>3. CASE d # c /\ (order[d].pc # "page" \/ order[d].number = 1)
    <3>1. order'[d] = order[d]
      BY <1>1, <2>3
    <3>2. order[d] \in PageOrders /\ ListingSays(order[d], members, group) => ListingSays(order[d], list, group)
      BY <2>3 DEF ListingSays
    <3> QED BY <2>1, <3>1, <3>2 DEF Orderly
  <2>4. CASE d # c /\ order[d].pc = "page" /\ order[d].number # 1
    <3>1. order'[d] = Noted(order[d], list)
      BY <1>1, <2>4
    <3>2. order[d] \in PageOrders /\ ListingSays(order[d], members, group)
      BY <2>4, Kinds
    <3> QED BY <1>2, <2>4, <3>1, <3>2, NotedPages DEF Orderly
  <2> QED BY <2>2, <2>3, <2>4
<1>4. InOrder'
  BY <1>1, <1>3 DEF InOrder
<1>5. Accounts' /\ Members' /\ Bounds'
  BY <1>1 DEF CustomersInv, Accounts, Members, Bounds
<1> QED BY <1>4, <1>5 DEF CustomersInv

LEMMA MembersKeep ==
  ASSUME CustomersInv, NEW c \in Clerks, AddMembers(c) \/ DropMember(c)
  PROVE  CustomersInv'
<1>1. members \in Seq(Addresses) /\ NoDup(members) /\ Listed(members) \subseteq accounts
  BY DEF CustomersInv, Members
<1>2. CASE AddMembers(c)
  <2>1. PICK new \in Ordered(order[c].ids \ Listed(members)) :
          Changes(c, "patch", IF group THEN members \o new ELSE members)
    BY <1>2 DEF AddMembers
  <2>2. UNCHANGED <<accounts, found, group, orders, upsets>> /\ order[c].pc = "patch"
    BY <1>2 DEF AddMembers
  <2>3. order[c] \in SearchOrders /\ order[c].ids \subseteq accounts
    BY <2>2, Kinds
  <2>4. order[c].ids \ Listed(members) \in SUBSET (Addresses \ Listed(members))
    BY <2>3 DEF SearchOrders
  <2>5. /\ members \o new \in Seq(Addresses) /\ NoDup(members \o new)
        /\ Listed(members \o new) \subseteq Listed(members) \cup (order[c].ids \ Listed(members))
        /\ Len(members \o new) = Len(members) => members \o new = members
    BY <1>1, <2>1, <2>4, ListGrows
  <2>6. Listed(members \o new) \subseteq accounts
    BY <1>1, <2>3, <2>5
  <2>7. CASE group
    BY <2>1, <2>2, <2>5, <2>6, <2>7, ChangesKeep
  <2>8. CASE ~ group
    BY <1>1, <2>1, <2>2, <2>8, ChangesKeep DEF CustomersInv, Members
  <2> QED BY <2>7, <2>8
<1>3. CASE DropMember(c)
  <2> DEFINE list == Without(members, order[c].id)
  <2>1. Changes(c, "drop", list) /\ UNCHANGED <<accounts, found, group, orders, upsets>>
    BY <1>3 DEF DropMember
  <2>2. /\ list \in Seq(Addresses) /\ NoDup(list) /\ Listed(list) \subseteq Listed(members)
        /\ Len(list) = Len(members) => list = members
    BY <1>1, ListShrinks
  <2>3. ~ group => list = <<>>
    <3>1. members = <<>> => Listed(members) = {}
      BY DEF Listed
    <3> QED BY <3>1 DEF CustomersInv, Members, Without
  <2> HIDE DEF list
  <2> QED BY <1>1, <2>1, <2>2, <2>3, ChangesKeep
<1> QED BY <1>2, <1>3

-----------------------------------------------------------------------------
(* The pages of a listing *)

\* The page that follows the first k members ends at the k + PerPage th, or with
\* the list.
PageEnd(s, k) == IF k + PerPage < Len(s) THEN k + PerPage ELSE Len(s)

LEMMA PageAfter ==
  ASSUME NEW s \in Seq(Addresses), NEW k \in Nat, NEW m \in Nat,
         k <= Len(s), m = PageEnd(s, k)
  PROVE  /\ SubSeq(s, k + 1, m) \in Seq(Addresses)
         /\ SubSeq(s, 1, k) \o SubSeq(s, k + 1, m) = SubSeq(s, 1, m)
         /\ Len(SubSeq(s, 1, m)) = m
         /\ m = Len(s) => SubSeq(s, 1, m) = s
         /\ SubSeq(s, k + 1, m) = <<>> => m = Len(s)
<1>1. PerPage \in Nat \ {0} /\ Len(s) \in Nat
  BY CustomersAssumption
<1>2. k <= m /\ m <= Len(s)
  BY <1>1 DEF PageEnd
<1>3. SubSeq(s, 1, k) \o SubSeq(s, k + 1, m) = SubSeq(s, 1, m)
  <2>1. 1 \in 1 .. Len(s) + 1 /\ k \in 1 - 1 .. Len(s) /\ m \in k .. Len(s)
    BY <1>1, <1>2
  <2> QED BY <2>1, ConcatAdjacentSubSeq
<1>4. SubSeq(s, k + 1, m) \in Seq(Addresses) /\ Len(SubSeq(s, k + 1, m)) = m - k
  <2>1. k + 1 \in Int /\ m \in Int /\ \A i \in k + 1 .. m : s[i] \in Addresses
    BY <1>1, <1>2
  <2>2. /\ SubSeq(s, k + 1, m) \in Seq(Addresses)
        /\ Len(SubSeq(s, k + 1, m)) = IF k + 1 <= m THEN m - (k + 1) + 1 ELSE 0
    BY <2>1, SubSeqProperties
  <2> QED BY <1>2, <2>2
<1>5. Len(SubSeq(s, 1, m)) = m
  <2>1. 1 \in Int /\ m \in Int /\ \A i \in 1 .. m : s[i] \in Addresses
    BY <1>1, <1>2
  <2>2. Len(SubSeq(s, 1, m)) = IF 1 <= m THEN m - 1 + 1 ELSE 0
    BY <2>1, SubSeqProperties
  <2> QED BY <2>2
<1>6. SubSeq(s, k + 1, m) = <<>> => m = Len(s)
  <2> SUFFICES ASSUME SubSeq(s, k + 1, m) = <<>> PROVE m = Len(s)
    OBVIOUS
  <2>1. Len(SubSeq(s, k + 1, m)) = 0
    OBVIOUS
  <2> QED BY <1>1, <1>4, <2>1 DEF PageEnd
<1> QED BY <1>3, <1>4, <1>5, <1>6, SubSeqFull
LEMMA PagesBefore ==
  ASSUME NEW n \in Nat \ {0}
  PROVE  (n - 1) * PerPage \in Nat /\ (n - 1) * PerPage + PerPage = n * PerPage /\ n * PerPage \in Nat
         /\ n + 1 \in Nat \ {0} /\ (n + 1) - 1 = n /\ n + 1 # 1
<1>1. PerPage \in Nat /\ n - 1 \in Nat
  BY CustomersAssumption
<1>2. (n - 1) * PerPage \in Nat /\ n * PerPage \in Nat
  BY <1>1
<1>3. (n - 1) * PerPage + PerPage = n * PerPage
  BY <1>1
<1> QED BY <1>2, <1>3

LEMMA TakesPage ==
  ASSUME CustomersInv, NEW o \in PageOrders, o.pc = "page", ListingSays(o, members, group), group,
         o.total \in {-1, Len(members)}
  PROVE  TakePage(o) \in PageOrders /\ ListingSays(TakePage(o), members, group)
<1> DEFINE n == o.number
           k == (n - 1) * PerPage
           m == IF n * PerPage < Len(members) THEN n * PerPage ELSE Len(members)
           got == PageOf(n)
           items == o.items \o got
           p == IF Len(items) >= Len(members) \/ got = <<>> THEN "listed" ELSE "page"
           began == IF n = 1 THEN members ELSE o.began
           next == [o EXCEPT !.pc = p, !.items = items, !.total = Len(members), !.number = n + 1, !.began = began]
<1>1. TakePage(o) = next
  BY DEF TakePage
<1>2. /\ n \in Nat \ {0} /\ o.items \in Seq(Addresses) /\ o.began \in Seq(Addresses)
      /\ o.grew \in BOOLEAN /\ o.shrank \in BOOLEAN
      /\ members \in Seq(Addresses) /\ Len(members) \in Nat
  BY DEF PageOrders, CustomersInv, Members
<1>3. k \in Nat /\ n * PerPage \in Nat /\ k + PerPage = n * PerPage /\ n + 1 \in Nat \ {0} /\ (n + 1) - 1 = n /\ n + 1 # 1
  BY <1>2, PagesBefore
<1>4. got = SubSeq(members, k + 1, m)
  BY DEF PageOf
<1> HIDE DEF got, n
<1>5. m \in Nat /\ m <= Len(members) /\ m = IF k + PerPage < Len(members) THEN k + PerPage ELSE Len(members)
  BY <1>2, <1>3
<1> HIDE DEF k, m
<1>6. got \in Seq(Addresses)
  <2>1. k + 1 \in Int /\ m \in Int /\ \A i \in k + 1 .. m : members[i] \in Addresses
    BY <1>2, <1>3, <1>5
  <2> QED BY <1>4, <2>1, SubSeqProperties
<1>7. items \in Seq(Addresses) /\ Len(items) \in Nat /\ began \in Seq(Addresses)
  BY <1>2, <1>6, ConcatProperties
<1>8. p \in {"page", "listed"} /\ Len(members) \in Nat \cup {-1}
  BY <1>2
<1>9. (p = "listed" <=> Len(items) >= Len(members) \/ got = <<>>)
  OBVIOUS
<1> HIDE DEF items, p, began
<1>10. next \in PageOrders
  BY <1>3, <1>7, <1>8 DEF PageOrders
<1>11. /\ next.pc = p /\ next.items = items /\ next.total = Len(members) /\ next.number = n + 1
       /\ next.began = began /\ next.grew = o.grew /\ next.shrank = o.shrank
  BY DEF PageOrders
<1> HIDE DEF next
<1>12. CASE o.grew /\ o.shrank
  <2>1. ListingSays(next, members, group)
    BY <1>3, <1>11, <1>12 DEF ListingSays
  <2> QED BY <1>1, <1>10, <2>1
<1>13. CASE ~ (o.grew /\ o.shrank)
  <2>1. /\ ~ o.grew /\ ~ o.shrank /\ began = members /\ o.items = SubSeq(members, 1, k) /\ k <= Len(members)
    <3>1. CASE n = 1
      <4>1. k = 0 /\ SubSeq(members, 1, 0) = <<>>
        <5>1. PerPage \in Nat
          BY CustomersAssumption
        <5>2. SubSeq(members, 1, 0) = <<>>
          BY SubSeqEmpty
        <5> QED BY <3>1, <5>1, <5>2 DEF k
      <4>2. o.items = <<>> /\ ~ o.grew /\ ~ o.shrank
        BY <3>1 DEF ListingSays, n
      <4> QED BY <1>2, <3>1, <4>1, <4>2 DEF began
    <3>2. CASE n # 1
      <4>1. /\ o.total = Len(o.began) /\ k < Len(o.began) /\ o.items = SubSeq(o.began, 1, k)
            /\ ~ o.grew /\ ~ o.shrank => members = o.began
            /\ o.grew => Len(members) > Len(o.began)
            /\ o.shrank => Len(members) < Len(o.began)
        BY <1>13, <3>2 DEF ListingSays, n, k
      <4>2. Len(o.began) \in Nat
        BY <1>2
      <4>3. Len(o.began) = Len(members)
        BY <1>2, <4>1, <4>2
      <4>4. ~ o.grew /\ ~ o.shrank
        BY <1>2, <4>1, <4>3
      <4> QED BY <1>2, <1>3, <3>2, <4>1, <4>3, <4>4 DEF began
    <3> QED BY <3>1, <3>2
  <2>2. /\ items = SubSeq(members, 1, m) /\ Len(items) = m
        /\ m = Len(members) => SubSeq(members, 1, m) = members
        /\ got = <<>> => m = Len(members)
    <3>1. /\ SubSeq(members, 1, k) \o SubSeq(members, k + 1, m) = SubSeq(members, 1, m)
          /\ Len(SubSeq(members, 1, m)) = m
          /\ m = Len(members) => SubSeq(members, 1, m) = members
          /\ SubSeq(members, k + 1, m) = <<>> => m = Len(members)
      <4>1. PICK from \in Nat : from = k
        BY <1>3
      <4>2. PICK to \in Nat : to = m
        BY <1>5
      <4>3. PICK list \in Seq(Addresses) : list = members
        BY <1>2
      <4>4. from <= Len(list) /\ to = PageEnd(list, from)
        BY <1>5, <2>1, <4>1, <4>2, <4>3 DEF PageEnd
      <4>5. /\ SubSeq(list, 1, from) \o SubSeq(list, from + 1, to) = SubSeq(list, 1, to)
            /\ Len(SubSeq(list, 1, to)) = to
            /\ to = Len(list) => SubSeq(list, 1, to) = list
            /\ SubSeq(list, from + 1, to) = <<>> => to = Len(list)
        BY ONLY <4>4, PageAfter, from \in Nat, to \in Nat, list \in Seq(Addresses), ZenonT(30)
      <4> QED BY <4>1, <4>2, <4>3, <4>5
    <3> QED BY <1>4, <2>1, <3>1 DEF items
  <2>3. CASE p = "listed"
    <3>1. m = Len(members)
      BY <1>2, <1>5, <1>9, <2>2, <2>3
    <3>2. items = began
      BY <2>1, <2>2, <3>1
    <3>3. ListingSays(next, members, group)
      BY <1>11, <2>3, <3>2 DEF ListingSays
    <3> QED BY <1>1, <1>10, <3>3
  <2>4. CASE p = "page"
    <3>1. m < Len(members)
      BY <1>2, <1>5, <1>9, <2>2, <2>4
    <3>2. m = n * PerPage
      BY <1>3, <1>5, <3>1
    <3>3. ((n + 1) - 1) * PerPage = m
      BY <1>3, <3>2
    <3>4. /\ next.pc = "page" /\ next.number # 1 /\ ~ next.grew /\ ~ next.shrank
          /\ next.total = Len(next.began) /\ next.began = members
          /\ (next.number - 1) * PerPage = m
          /\ next.items = SubSeq(next.began, 1, m)
      BY <1>3, <1>11, <2>1, <2>2, <2>4, <3>3
    <3>5. ListingSays(next, members, group)
      BY <3>1, <3>4 DEF ListingSays
    <3> QED BY <1>1, <1>10, <3>5
  <2> QED BY <1>8, <2>3, <2>4
<1> QED BY <1>12, <1>13

LEMMA ReadPageKeeps ==
  ASSUME CustomersInv, NEW c \in Clerks, ReadPage(c)
  PROVE  CustomersInv'
<1> DEFINE o == IF group THEN NextPage(order[c]) ELSE NoOrder
<1>1. /\ order[c].pc = "page" /\ order' = [order EXCEPT ![c] = o]
      /\ UNCHANGED <<accounts, found, members, group, orders, upsets>>
  BY DEF ReadPage, Goes
<1>2. order[c] \in PageOrders /\ ListingSays(order[c], members, group)
  BY <1>1, Kinds
<1>3. Orderly(o, accounts, members, group)
  <2>1. CASE group /\ order[c].total \in {-1, Len(members)}
    <3>1. o = TakePage(order[c])
      BY <2>1 DEF NextPage
    <3>2. TakePage(order[c]) \in PageOrders /\ ListingSays(TakePage(order[c]), members, group)
      BY <1>1, <1>2, <2>1, TakesPage
    <3> QED BY <3>1, <3>2 DEF Orderly
  <2>2. CASE ~ (group /\ order[c].total \in {-1, Len(members)})
    <3>1. o = NoOrder
      BY <2>2 DEF NextPage
    <3> QED BY <3>1 DEF Orderly
  <2> QED BY <2>1, <2>2
<1> HIDE DEF o
<1>4. Accounts' /\ Bounds'
  BY <1>1 DEF CustomersInv, Accounts, Bounds
<1> QED BY <1>1, <1>3, <1>4, OneOrder

LEMMA Auth0Keeps ==
  ASSUME CustomersInv, (\E a \in Addresses : IndexAccount(a)) \/ RemoveGroup
  PROVE  CustomersInv'
<1>1. CASE \E a \in Addresses : IndexAccount(a)
  <2>1. PICK a \in accounts : found' = found \cup {a} /\ UNCHANGED <<accounts, members, group, order, orders, upsets>>
    BY <1>1 DEF IndexAccount
  <2> QED BY <2>1 DEF CustomersInv, Accounts, Members, InOrder, Bounds
<1>2. CASE RemoveGroup
  <2>1. /\ group' = FALSE /\ members' = <<>> /\ upsets < MaxUpsets /\ upsets' = upsets + 1
        /\ UNCHANGED <<accounts, found, order, orders>>
    BY <1>2 DEF RemoveGroup
  <2>2. Members'
    <3>1. <<>> \in Seq(Addresses) /\ Listed(<<>>) = {} /\ NoDup(<<>>)
      BY DEF Listed, NoDup
    <3> QED BY <2>1, <3>1 DEF Members
  <2>3. \A o \in PageOrders : ListingSays(o, members, group) => ListingSays(o, members', group')
    BY <2>1 DEF ListingSays
  <2>4. InOrder'
    BY <2>1, <2>3 DEF CustomersInv, InOrder, Orderly
  <2>5. Accounts'
    BY <2>1 DEF CustomersInv, Accounts
  <2>6. Bounds'
    BY <2>1, CustomersAssumption DEF CustomersInv, Bounds
  <2> QED BY <2>2, <2>4, <2>5, <2>6 DEF CustomersInv
<1> QED BY <1>1, <1>2

LEMMA CustomersStart == CustomersInit => CustomersInv
<1> SUFFICES ASSUME CustomersInit PROVE CustomersInv
  OBVIOUS
<1>1. Members
  <2>1. <<>> \in Seq(Addresses) /\ Listed(<<>>) = {} /\ NoDup(<<>>)
    BY DEF Listed, NoDup
  <2> QED BY <2>1 DEF CustomersInit, Members
<1>2. InOrder
  BY DEF CustomersInit, InOrder, Orderly
<1>3. Accounts /\ Bounds
  BY CustomersAssumption DEF CustomersInit, Accounts, Bounds
<1> QED BY <1>1, <1>2, <1>3 DEF CustomersInv

LEMMA CustomersStep == CustomersInv /\ [CustomersNext]_customerVars => CustomersInv'
<1> SUFFICES ASSUME CustomersInv, [CustomersNext]_customerVars PROVE CustomersInv'
  OBVIOUS
<1>1. CASE UNCHANGED customerVars
  BY <1>1 DEF customerVars, CustomersInv, Accounts, Members, InOrder, Bounds
<1>2. CASE CustomersNext
  BY <1>2, AskKeeps, SearchKeeps, CreateKeeps, RemovesKeep, MembersKeep, ReadPageKeeps, Auth0Keeps
     DEF CustomersNext
<1> QED BY <1>1, <1>2

\* Whatever requests add or remove between the pages of a listing: one that ends
\* without an error has the members of its first page's time, each once, unless
\* both happened (ExtendedAPIMethods.get_all compares the totals).
THEOREM ListingsAreExact == CustomersSpec => []PagesAreExact
<1>1. ASSUME CustomersInv PROVE PagesAreExact
  BY <1>1, Kinds DEF PagesAreExact, ListingSays
<1> QED BY <1>1, CustomersStart, CustomersStep, PTL DEF CustomersSpec

\* The group's list has each account once, and only accounts.
THEOREM CustomersTyped == CustomersSpec => []CustomersTypeOK
<1>1. ASSUME CustomersInv PROVE CustomersTypeOK
  <2>1. members \in Lists
    BY <1>1, InLists DEF CustomersInv, Members
  <2>2. \A c \in Clerks : order[c].pc \in {"idle", "search", "create", "patch", "find",
                                           "groups", "drop", "page", "listed"}
    BY <1>1, Kinds
  <2> QED BY <1>1, <2>1, <2>2 DEF CustomersTypeOK, CustomersInv, Accounts, Members, Bounds
<1> QED BY <1>1, CustomersStart, CustomersStep, PTL DEF CustomersSpec

-----------------------------------------------------------------------------
(***************************************************************************)
(* Unused apps in Auth0: ClearUp                                           *)
(***************************************************************************)

\* What a role or a group that the command has seen tells of its identity: a
\* role was made after its client, and a group has the roles it was seen with,
\* apart from those linked since.
ClearInv ==
  /\ ClearUpTypeOK
  /\ \A c \in Clients : at[c] \in {"new", "client"} => stands[c] = {}
  /\ \A c \in sweep.roles : at[c] \notin {"new", "client"}
  /\ sweep.next > 2 => \A c \in sweep.roles \ sweep.clients : "client" \notin stands[c]
  /\ Listed0 => \A l \in links \ late :
       l[1] \notin sweep.bare /\ \A r \in Clients : <<l[1], r>> \in sweep.groups => r = l[2]

Spares ==
  sweep' # sweep =>
    \A c \in With("client") :
      /\ "role" \in stands[c] => "role" \in stands'[c]
      /\ \A g \in With("group") : <<g, c>> \in links \ late => "group" \in stands'[g]

AtSteps == Setting \cup Removing \cup {"new", "set", "over"}
StandsSets == SUBSET {"client", "role", "group"}
Sweeps == [next : 1 .. 4, roles : SUBSET Clients, clients : SUBSET Clients,
           groups : SUBSET (Clients \X Clients), bare : SUBSET Clients]

LEMMA ClearStart == ClearUpInit => ClearInv
<1> SUFFICES ASSUME ClearUpInit PROVE ClearInv
  OBVIOUS
<1>1. stands \in [Clients -> StandsSets]
  BY DEF ClearUpInit, StandsSets
<1>2. /\ at \in [Clients -> {"new", "over"}]
      /\ \A c \in Clients : at[c] = "new" => stands[c] = {}
  BY DEF ClearUpInit
<1>3. /\ sweep = [next |-> 1, roles |-> {}, clients |-> {}, groups |-> {}, bare |-> {}]
      /\ broken \in 0 .. MaxBroken /\ late = {}
      /\ links \subseteq Clients \X Clients
      /\ uses \in [Clients -> Clients \cup {NoGroup}]
      /\ doomed \in [Clients -> SUBSET Clients]
  BY ClearUpAssumption DEF ClearUpInit, With
<1>4. ClearUpTypeOK
  BY <1>1, <1>2, <1>3 DEF ClearUpTypeOK, StandsSets
<1>5. ~ Listed0
  BY <1>3 DEF Listed0, Reads
<1> QED BY <1>2, <1>3, <1>4, <1>5 DEF ClearInv

\* A step of a request: nothing is made a client but at its call, and no link
\* that the command may have seen is new.
LEMMA RequestKeeps ==
  ASSUME ClearInv, UNCHANGED sweep,
         at' \in [Clients -> AtSteps], stands' \in [Clients -> StandsSets],
         links' \subseteq Clients \X Clients, late' \subseteq Clients \X Clients,
         uses' \in [Clients -> Clients \cup {NoGroup}], doomed' \in [Clients -> SUBSET Clients],
         broken' \in 0 .. MaxBroken,
         \A d \in Clients : at'[d] \in {"new", "client"} => at[d] \in {"new", "client"} /\ stands'[d] = {},
         \A d \in Clients : "client" \in stands'[d] => "client" \in stands[d] \/ at[d] = "client",
         Listed0 => links' \ late' \subseteq links \ late
  PROVE  ClearInv' /\ Spares
<1>1. ClearUpTypeOK'
  BY DEF ClearInv, ClearUpTypeOK, AtSteps, StandsSets
<1>2. sweep.roles \subseteq Clients
  BY DEF ClearInv, ClearUpTypeOK
<1>3. \A c \in sweep'.roles : at'[c] \notin {"new", "client"}
  BY <1>2 DEF ClearInv
<1>4. sweep'.next > 2 => \A c \in sweep'.roles \ sweep'.clients : "client" \notin stands'[c]
  BY <1>2 DEF ClearInv
<1>5. Listed0' => \A l \in links' \ late' :
        l[1] \notin sweep'.bare /\ \A r \in Clients : <<l[1], r>> \in sweep'.groups => r = l[2]
  BY DEF ClearInv, Listed0, Reads
<1> QED BY <1>1, <1>3, <1>4, <1>5 DEF ClearInv, Spares

LEMMA ClearFacts ==
  ASSUME ClearInv
  PROVE  /\ at \in [Clients -> AtSteps] /\ stands \in [Clients -> StandsSets]
         /\ links \subseteq Clients \X Clients /\ late \subseteq Clients \X Clients
         /\ uses \in [Clients -> Clients \cup {NoGroup}] /\ doomed \in [Clients -> SUBSET Clients]
         /\ broken \in 0 .. MaxBroken /\ sweep \in Sweeps
         /\ \A c \in Clients : at[c] \in {"new", "client"} => stands[c] = {}
BY DEF ClearInv, ClearUpTypeOK, AtSteps, StandsSets, Sweeps

\* What Deletes leaves.
LEMMA DeletesLess ==
  ASSUME stands \in [Clients -> StandsSets], links \subseteq Clients \X Clients, NEW d, NEW p, Deletes(d, p)
  PROVE  /\ stands' \in [Clients -> StandsSets] /\ \A c \in Clients : stands'[c] \subseteq stands[c]
         /\ \A c \in Clients \ {d} : stands'[c] = stands[c]
         /\ \A c \in Clients : stands[c] \ {p} \subseteq stands'[c]
         /\ links' \subseteq links
BY DEF Deletes, StandsSets

LEMMA SetUpKeeps ==
  ASSUME ClearInv, NEW c \in Clients,
         \/ Start(c) \/ MakePart(c) \/ MakeGroup(c) \/ GroupExists(c) \/ FindGroup(c)
         \/ LinkRole(c) \/ SaveSettings(c)
  PROVE  ClearInv' /\ Spares
<1> USE ClearFacts
<1>1. CASE Start(c)
  BY <1>1, RequestKeeps DEF Start, sweepVars, AtSteps, Setting, Removing
<1>2. CASE MakePart(c)
  <2>1. stands' \in [Clients -> StandsSets]
    BY <1>2 DEF MakePart, StandsSets
  <2>2. at' \in [Clients -> AtSteps]
    BY <1>2 DEF MakePart, AtSteps, Setting, Removing
  <2>3. \A d \in Clients : at'[d] \in {"new", "client"} => at[d] \in {"new", "client"} /\ stands'[d] = {}
    BY <1>2 DEF MakePart
  <2>4. \A d \in Clients : "client" \in stands'[d] => "client" \in stands[d] \/ at[d] = "client"
    BY <1>2 DEF MakePart, StandsSets
  <2> QED BY <1>2, <2>1, <2>2, <2>3, <2>4, RequestKeeps DEF MakePart, sweepVars
<1>3. CASE MakeGroup(c)
  <2>1. stands' \in [Clients -> StandsSets] /\ uses' \in [Clients -> Clients \cup {NoGroup}]
    BY <1>3 DEF MakeGroup, StandsSets
  <2>2. at' \in [Clients -> AtSteps]
    BY <1>3 DEF MakeGroup, AtSteps, Setting, Removing
  <2>3. \A d \in Clients : at'[d] \in {"new", "client"} => at[d] \in {"new", "client"} /\ stands'[d] = {}
    BY <1>3 DEF MakeGroup
  <2>4. \A d \in Clients : "client" \in stands'[d] => "client" \in stands[d] \/ at[d] = "client"
    BY <1>3 DEF MakeGroup, StandsSets
  <2> QED BY <1>3, <2>1, <2>2, <2>3, <2>4, RequestKeeps DEF MakeGroup, sweepVars
<1>4. CASE GroupExists(c)
  <2>1. at' \in [Clients -> AtSteps]
    BY <1>4 DEF GroupExists, AtSteps, Setting, Removing
  <2>2. broken' \in 0 .. MaxBroken
    BY <1>4, ClearUpAssumption DEF GroupExists
  <2>3. \A d \in Clients : at'[d] \in {"new", "client"} => at[d] \in {"new", "client"} /\ stands'[d] = {}
    BY <1>4 DEF GroupExists
  <2> QED BY <1>4, <2>1, <2>2, <2>3, RequestKeeps DEF GroupExists, sweepVars
<1>5. CASE FindGroup(c)
  <2>1. at' \in [Clients -> AtSteps]
    BY <1>5 DEF FindGroup, AtSteps, Setting, Removing
  <2>2. uses' \in [Clients -> Clients \cup {NoGroup}]
    BY <1>5 DEF FindGroup, GroupsOf, With
  <2>3. \A d \in Clients : at'[d] \in {"new", "client"} => at[d] \in {"new", "client"} /\ stands'[d] = {}
    BY <1>5 DEF FindGroup
  <2> QED BY <1>5, <2>1, <2>2, <2>3, RequestKeeps DEF FindGroup, sweepVars
<1>6. CASE LinkRole(c)
  <2>1. at' \in [Clients -> AtSteps]
    BY <1>6 DEF LinkRole, AtSteps, Setting, Removing
  <2>2. /\ links' \subseteq Clients \X Clients /\ late' \subseteq Clients \X Clients
        /\ Listed0 => links' \ late' \subseteq links \ late
    BY <1>6 DEF LinkRole, With
  <2>3. \A d \in Clients : at'[d] \in {"new", "client"} => at[d] \in {"new", "client"} /\ stands'[d] = {}
    BY <1>6 DEF LinkRole
  <2> QED BY <1>6, <2>1, <2>2, <2>3, RequestKeeps DEF LinkRole
<1>7. CASE SaveSettings(c)
  <2>1. /\ at' \in [Clients -> AtSteps]
        /\ \A d \in Clients : at'[d] \in {"new", "client"} => at[d] = at'[d]
    BY <1>7 DEF SaveSettings, Records, AtSteps
  <2> QED BY <1>7, <2>1, RequestKeeps DEF SaveSettings, sweepVars
<1> QED BY <1>1, <1>2, <1>3, <1>4, <1>5, <1>6, <1>7

LEMMA RemovalKeeps ==
  ASSUME ClearInv, NEW c \in Clients,
         \/ Remove(c) \/ LookForRoles(c) \/ UnmakeGroup(c) \/ UnmakeRole(c) \/ UnmakeClient(c)
         \/ ClearSettings(c) \/ RequestBreaks(c)
  PROVE  ClearInv' /\ Spares
<1> USE ClearFacts
<1>1. /\ at' \in [Clients -> AtSteps]
      /\ \A d \in Clients : at'[d] \in {"new", "client"} => at[d] = at'[d]
  <2>1. CASE Remove(c) \/ LookForRoles(c) \/ UnmakeClient(c) \/ RequestBreaks(c)
    BY <2>1 DEF Remove, LookForRoles, UnmakeClient, RequestBreaks, AtSteps, Setting, Removing
  <2>2. CASE UnmakeGroup(c) \/ UnmakeRole(c)
    BY <2>2 DEF UnmakeGroup, UnmakeRole, Continues, AtSteps, Setting, Removing
  <2>3. CASE ClearSettings(c)
    BY <2>3 DEF ClearSettings, Records, AtSteps
  <2> QED BY <2>1, <2>2, <2>3
<1>2. /\ stands' \in [Clients -> StandsSets] /\ \A d \in Clients : stands'[d] \subseteq stands[d]
      /\ links' \subseteq links
  <2>1. CASE \E d, p : Deletes(d, p)
    BY <2>1, DeletesLess
  <2>2. CASE UNCHANGED <<stands, links>>
    BY <2>2
  <2> QED BY <2>1, <2>2
          DEF Remove, LookForRoles, UnmakeGroup, UnmakeRole, UnmakeClient, ClearSettings, RequestBreaks
<1>3. doomed' \in [Clients -> SUBSET Clients]
  <2>1. CASE LookForRoles(c)
    <3>1. RolesOf(uses[c]) \in SUBSET Clients
      BY DEF RolesOf
    <3> QED BY <2>1, <3>1 DEF LookForRoles
  <2>2. CASE UnmakeRole(c)
    BY <2>2 DEF UnmakeRole
  <2>3. CASE doomed' = doomed
    BY <2>3
  <2> QED BY <2>1, <2>2, <2>3 DEF Remove, UnmakeGroup, UnmakeClient, ClearSettings, RequestBreaks
<1>4. UNCHANGED <<uses, sweep, late>> /\ broken' \in 0 .. MaxBroken
  BY ClearUpAssumption
     DEF Remove, LookForRoles, UnmakeGroup, UnmakeRole, UnmakeClient, ClearSettings, RequestBreaks, sweepVars
<1>5. \A d \in Clients : at'[d] \in {"new", "client"} => stands'[d] = {}
  BY <1>1, <1>2
<1>6. links' \ late' \subseteq links \ late /\ links' \subseteq Clients \X Clients
  BY <1>2, <1>4
<1>7. \A d \in Clients : "client" \in stands'[d] => "client" \in stands[d] \/ at[d] = "client"
  BY <1>2
<1>8. \A d \in Clients : at'[d] \in {"new", "client"} => at[d] \in {"new", "client"} /\ stands'[d] = {}
  BY <1>1, <1>5
<1>9. uses' \in [Clients -> Clients \cup {NoGroup}] /\ late' \subseteq Clients \X Clients
  BY <1>4
<1> HIDE ClearFacts
<1> QED BY <1>1, <1>2, <1>3, <1>4, <1>6, <1>7, <1>8, <1>9, RequestKeeps

LEMMA ListKeeps == ASSUME ClearInv, List PROVE ClearInv' /\ Spares
<1>0. /\ sweep \in Sweeps /\ sweep.next \in 1 .. 4
      /\ sweep.roles \subseteq Clients /\ sweep.clients \subseteq Clients /\ sweep.bare \subseteq Clients
      /\ sweep.groups \subseteq Clients \X Clients
  BY ClearFacts DEF Sweeps
<1>1. UNCHANGED <<stands, links, at, uses, doomed, broken>>
  BY DEF List
<1>2. sweep.next \in {1, 2, 3} /\ Len(Reads) = 3
      /\ Reads[1] = "roles" /\ Reads[2] = "clients" /\ Reads[3] = "groups"
  BY <1>0 DEF List, Reads
<1>3. Spares
  BY <1>1 DEF Spares, With
<1>4. \A x : With(x) \subseteq Clients
  BY DEF With
<1>5. CASE sweep.next = 1
  <2>1. sweep' = [sweep EXCEPT !.next = @ + 1, !["roles"] = With("role"), !.bare = @] /\ late' = late
    BY <1>2, <1>5 DEF List
  <2>2. sweep' = [next |-> 2, roles |-> With("role"), clients |-> sweep.clients,
                  groups |-> sweep.groups, bare |-> sweep.bare]
    <3>1. sweep' = [sweep EXCEPT !.next = sweep.next + 1, !.roles = With("role"), !.bare = sweep.bare]
      BY <2>1, <1>0 DEF Sweeps
    <3>2. sweep.next + 1 = 2
      BY <1>5
    <3> QED BY <3>1, <3>2, <1>0 DEF Sweeps
  <2>3. sweep' \in Sweeps
    BY <2>2, <1>0, <1>4 DEF Sweeps
  <2>4. ClearUpTypeOK'
    BY <2>3, <2>1, <1>1, ClearFacts DEF ClearUpTypeOK, Sweeps, AtSteps, StandsSets
  <2>5. \A c \in With("role") : at[c] \notin {"new", "client"}
    BY DEF With, ClearInv
  <2>6. ~ Listed0'
    BY <2>2, <1>2 DEF Listed0, Reads
  <2> QED BY <2>2, <2>4, <2>5, <2>6, <1>1, <1>3 DEF ClearInv
<1>6. CASE sweep.next = 2
  <2>1. sweep' = [sweep EXCEPT !.next = @ + 1, !["clients"] = With("client"), !.bare = @] /\ late' = late
    BY <1>2, <1>6 DEF List
  <2>2. sweep' = [next |-> 3, roles |-> sweep.roles, clients |-> With("client"),
                  groups |-> sweep.groups, bare |-> sweep.bare]
    <3>1. sweep' = [sweep EXCEPT !.next = sweep.next + 1, !.clients = With("client"), !.bare = sweep.bare]
      BY <2>1, <1>0 DEF Sweeps
    <3>2. sweep.next + 1 = 3
      BY <1>6
    <3> QED BY <3>1, <3>2, <1>0 DEF Sweeps
  <2>3. sweep' \in Sweeps
    BY <2>2, <1>0, <1>4 DEF Sweeps
  <2>4. ClearUpTypeOK'
    BY <2>3, <2>1, <1>1, ClearFacts DEF ClearUpTypeOK, Sweeps, AtSteps, StandsSets
  <2>5. \A c \in sweep.roles \ With("client") : "client" \notin stands[c]
    BY <1>0 DEF With
  <2>6. ~ Listed0'
    BY <2>2, <1>2 DEF Listed0, Reads
  <2> QED BY <2>2, <2>4, <2>5, <2>6, <1>1, <1>3 DEF ClearInv
<1>7. CASE sweep.next = 3
  <2> DEFINE only == {l \in links : RolesOf(l[1]) = {l[2]}}
             bare == {g \in With("group") : RolesOf(g) = {}}
  <2>1. sweep' = [sweep EXCEPT !.next = @ + 1, !["groups"] = only, !.bare = bare] /\ late' = {}
    BY <1>2, <1>7 DEF List
  <2>2. only \subseteq Clients \X Clients /\ bare \subseteq Clients
    BY <1>4, ClearFacts
  <2>3. \A l \in links : l[2] \in RolesOf(l[1]) /\ l = <<l[1], l[2]>>
    BY ClearFacts DEF RolesOf
  <2>4. \A l \in links : l[1] \notin bare /\ \A r \in Clients : <<l[1], r>> \in only => r = l[2]
    BY <2>3
  <2> HIDE DEF only, bare
  <2>5. sweep' = [next |-> 4, roles |-> sweep.roles, clients |-> sweep.clients,
                  groups |-> only, bare |-> bare]
    <3>1. sweep' = [sweep EXCEPT !.next = sweep.next + 1, !.groups = only, !.bare = bare]
      BY <2>1, <1>0 DEF Sweeps
    <3>2. sweep.next + 1 = 4
      BY <1>7
    <3> QED BY <3>1, <3>2, <1>0 DEF Sweeps
  <2>6. sweep' \in Sweeps
    BY <2>5, <2>2, <1>0 DEF Sweeps
  <2>7. ClearUpTypeOK'
    BY <2>6, <2>1, <1>1, ClearFacts DEF ClearUpTypeOK, Sweeps, AtSteps, StandsSets
  <2> QED BY <2>1, <2>4, <2>5, <2>7, <1>1, <1>3, <1>7 DEF ClearInv
<1> QED BY <1>2, <1>5, <1>6, <1>7

\* A deletion of the command: less stands of one identity, the lists shrink.
LEMMA TakesKeeps ==
  ASSUME ClearInv, NEW d \in Clients, NEW p, NEW rest \in Sweeps,
         rest.next = sweep.next, rest.clients = sweep.clients,
         rest.roles \subseteq sweep.roles, rest.bare \subseteq sweep.bare, rest.groups \subseteq sweep.groups,
         Takes(d, p, rest)
  PROVE  /\ ClearInv'
         /\ \A c \in Clients \ {d} : stands'[c] = stands[c]
         /\ \A c \in Clients : stands[c] \ {p} \subseteq stands'[c]
<1> USE ClearFacts
<1>1. /\ stands' \in [Clients -> StandsSets] /\ links' \subseteq links
      /\ \A c \in Clients : stands'[c] \subseteq stands[c]
      /\ \A c \in Clients \ {d} : stands'[c] = stands[c]
      /\ \A c \in Clients : stands[c] \ {p} \subseteq stands'[c]
  <2>1. CASE Deletes(d, p)
    BY <2>1, DeletesLess
  <2>2. CASE UNCHANGED <<stands, links>>
    BY <2>2
  <2> QED BY <2>1, <2>2 DEF Takes
<1>2. UNCHANGED <<at, uses, doomed, broken, late>>
  BY DEF Takes
<1>3. /\ sweep' \in Sweeps /\ sweep'.next = sweep.next /\ sweep'.clients = sweep.clients
      /\ sweep'.roles \subseteq sweep.roles /\ sweep'.bare \subseteq sweep.bare
      /\ sweep'.groups \subseteq sweep.groups
  <2>1. sweep' = rest \/ sweep' = Ends
    BY DEF Takes
  <2>2. /\ Ends \in Sweeps /\ Ends.next = sweep.next /\ Ends.clients = sweep.clients
        /\ Ends.roles = {} /\ Ends.bare = {} /\ Ends.groups = sweep.groups
    BY DEF Ends, Sweeps
  <2> QED BY <2>1, <2>2
<1>4. ClearUpTypeOK'
  BY <1>1, <1>2, <1>3 DEF ClearUpTypeOK, Sweeps, AtSteps, StandsSets
<1>5. sweep.roles \subseteq Clients
  BY DEF Sweeps
<1>6. Listed0' <=> Listed0
  BY <1>3 DEF Listed0, Reads
<1>7. /\ \A c \in Clients : at'[c] \in {"new", "client"} => stands'[c] = {}
      /\ \A c \in sweep'.roles : at'[c] \notin {"new", "client"}
      /\ sweep'.next > 2 => \A c \in sweep'.roles \ sweep'.clients : "client" \notin stands'[c]
  BY <1>1, <1>2, <1>3, <1>5 DEF ClearInv
<1>8. Listed0' => \A l \in links' \ late' :
        l[1] \notin sweep'.bare /\ \A r \in Clients : <<l[1], r>> \in sweep'.groups => r = l[2]
  BY <1>1, <1>2, <1>3, <1>6 DEF ClearInv
<1> QED BY <1>1, <1>4, <1>7, <1>8 DEF ClearInv

LEMMA DropsKeep ==
  ASSUME ClearInv, NEW c \in Clients,
         DropUnusedGroup(c) \/ DropUnusedRole(c) \/ DropBareGroup(c)
  PROVE  ClearInv' /\ Spares
<1>0. /\ sweep \in Sweeps /\ sweep.next \in Nat
      /\ Listed0 => sweep.next > 2
      /\ sweep.groups \subseteq Clients \X Clients /\ sweep.roles \subseteq Clients /\ sweep.bare \subseteq Clients
  BY ClearFacts DEF Listed0, Reads, Sweeps
<1>1. ASSUME Listed0, c \in Unused PROVE "client" \notin stands[c]
  BY <1>0, <1>1 DEF ClearInv, Unused
<1>2. CASE DropUnusedGroup(c)
  <2>1. PICK g \in Clients :
          <<g, c>> \in sweep.groups /\ Takes(g, "group", [sweep EXCEPT !.groups = @ \ {<<g, c>>}])
    BY <1>2 DEF DropUnusedGroup
  <2> DEFINE rest == [sweep EXCEPT !.groups = @ \ {<<g, c>>}]
  <2>2. rest \in Sweeps /\ rest.next = sweep.next /\ rest.clients = sweep.clients
        /\ rest.roles = sweep.roles /\ rest.bare = sweep.bare /\ rest.groups \subseteq sweep.groups
    BY <1>0 DEF Sweeps
  <2>3. Takes(g, "group", rest)
    BY <2>1
  <2> HIDE DEF rest
  <2>4. /\ ClearInv' /\ \A d \in Clients \ {g} : stands'[d] = stands[d]
        /\ \A d \in Clients : stands[d] \ {"group"} \subseteq stands'[d]
    BY <2>2, <2>3, TakesKeeps
  <2>5. ASSUME NEW d \in Clients, <<g, d>> \in links \ late PROVE "client" \notin stands[d]
    <3>1. <<g, d>>[1] = g /\ <<g, d>>[2] = d
      OBVIOUS
    <3>2. d = c
      BY <1>2, <2>1, <2>5, <3>1 DEF ClearInv, DropUnusedGroup
    <3> QED BY <1>1, <1>2, <3>2 DEF DropUnusedGroup
  <2> QED BY <2>4, <2>5 DEF Spares, With
<1>3. CASE DropUnusedRole(c)
  <2> DEFINE rest == [sweep EXCEPT !.roles = @ \ {c}]
  <2>1. Takes(c, "role", rest) /\ "client" \notin stands[c]
    BY <1>1, <1>3 DEF DropUnusedRole
  <2>2. rest \in Sweeps /\ rest.next = sweep.next /\ rest.clients = sweep.clients
        /\ rest.roles \subseteq sweep.roles /\ rest.bare = sweep.bare /\ rest.groups = sweep.groups
    BY <1>0 DEF Sweeps
  <2> HIDE DEF rest
  <2>3. /\ ClearInv' /\ \A d \in Clients \ {c} : stands'[d] = stands[d]
        /\ \A d \in Clients : stands[d] \ {"role"} \subseteq stands'[d]
    BY <2>1, <2>2, TakesKeeps
  <2> QED BY <2>1, <2>3 DEF Spares, With
<1>4. CASE DropBareGroup(c)
  <2> DEFINE rest == [sweep EXCEPT !.bare = @ \ {c}]
  <2>1. Takes(c, "group", rest) /\ c \in sweep.bare /\ Listed0
    BY <1>4 DEF DropBareGroup
  <2>2. rest \in Sweeps /\ rest.next = sweep.next /\ rest.clients = sweep.clients
        /\ rest.roles = sweep.roles /\ rest.bare \subseteq sweep.bare /\ rest.groups = sweep.groups
    BY <1>0 DEF Sweeps
  <2> HIDE DEF rest
  <2>3. /\ ClearInv' /\ \A d \in Clients \ {c} : stands'[d] = stands[d]
        /\ \A d \in Clients : stands[d] \ {"group"} \subseteq stands'[d]
    BY <2>1, <2>2, TakesKeeps
  <2>4. \A d \in Clients : <<c, d>> \notin links \ late
    <3> SUFFICES ASSUME NEW d \in Clients, <<c, d>> \in links \ late PROVE FALSE
      OBVIOUS
    <3>1. <<c, d>>[1] = c
      OBVIOUS
    <3> QED BY <2>1, <3>1 DEF ClearInv
  <2> QED BY <2>3, <2>4 DEF Spares, With
<1> QED BY <1>2, <1>3, <1>4

LEMMA ClearStep == ClearInv /\ [ClearUpNext]_clearVars => ClearInv' /\ (Spares \/ UNCHANGED clearVars)
<1> SUFFICES ASSUME ClearInv, [ClearUpNext]_clearVars
             PROVE  ClearInv' /\ (Spares \/ UNCHANGED clearVars)
  OBVIOUS
<1>1. CASE UNCHANGED clearVars
  BY <1>1 DEF ClearInv, ClearUpTypeOK, clearVars, Listed0, Reads
<1>2. CASE ClearUpNext
  BY <1>2, SetUpKeeps, RemovalKeeps, ListKeeps, DropsKeep DEF ClearUpNext
<1> QED BY <1>1, <1>2

\* However many set-ups and removals of whatever environments go on while the
\* command lists and drops, those that use a left-over group again too: it takes
\* no role whose client stands, and no group with such a role unless the role was
\* linked to it since the groups were listed (clear_up_auth0_resources.py
\* load_auth0_resources, auth0.py setup_auth0_client).
THEOREM ClearedUpUnused == ClearUpSpec => ClearUpSpares
<1> DEFINE Body == sweep' # sweep =>
             \A c \in With("client") :
               /\ "role" \in stands[c] => "role" \in stands'[c]
               /\ \A g \in With("group") : <<g, c>> \in links \ late => "group" \in stands'[g]
<1>1. ClearInv /\ [ClearUpNext]_clearVars => [Body]_clearVars
  BY ClearStep DEF Spares
<1>2. ClearInv /\ [ClearUpNext]_clearVars => ClearInv'
  BY ClearStep
<1> QED BY <1>1, <1>2, ClearStart, PTL DEF ClearUpSpec, ClearUpSpares

-----------------------------------------------------------------------------
(***************************************************************************)
(* The role of an app: AppRole                                             *)
(***************************************************************************)

Owners == Pages \cup {"registration"}
ArnRowSet == Arns \X Owners
ArnPages == [pc : ArnPcs, want : SUBSET Arns, seen : SUBSET ArnRowSet,
             del : SUBSET ArnRowSet, ins : SUBSET ArnRowSet]
FlagPages == [pc : FlagPcs, service : Services, copy : [Services -> BOOLEAN]]
PageStates == [pc : {"unused", "over"}] \cup ArnPages \cup FlagPages \cup [pc : DropPcs]
Roles == [exists : BOOLEAN, trust : SUBSET Arns, inline : SUBSET Arns, attached : SUBSET Services]

RoleTyped ==
  /\ RoleTypeOK
  /\ page \in [Pages -> PageStates]
  /\ make \in [pc : MakePcs \cup {"none", "queued", "done"}, doc : SUBSET Arns]

\* Nothing is there before the app is; the pages wait for its registration.
RoleFresh ==
  /\ app = "none" => /\ arnRows = {} /\ todo = {} /\ role = NoRole /\ make.pc = "none"
                     /\ \A s \in Services : ~ flags[s]
                     /\ \A p \in Pages : page[p].pc = "unused"
  /\ todo # {} => /\ app = "live" /\ \A p \in Pages : page[p].pc = "unused"
                  /\ \A r \in arnRows : r[2] = "registration"

\* What open transactions have inserted is in no other, and not among the rows
\* that will be left.
Inserted(p) == page[p].ins
Apart ==
  /\ \A p \in Pages : page[p].pc \in ArnPcs =>
       /\ page[p].pc \in {"wipe", "insert"} => page[p].ins = {}
       /\ page[p].pc = "wipe" => page[p].del = {}
       /\ \A r \in page[p].ins : r[2] = p
       /\ \A x \in page[p].ins, y \in arnRows \ page[p].del : x[1] # y[1]
  /\ \A p, q \in Pages : p # q /\ page[p].pc \in ArnPcs /\ page[q].pc \in ArnPcs =>
       \A x \in page[p].ins, y \in page[q].ins : x[1] # y[1]

\* The rest is of behaviours in which nothing overlapped.
None(pcs) == \A p \in Pages : page[p].pc \notin pcs

Exclusive ==
  /\ \A p, q \in Pages : p # q =>
       /\ ~ (page[p].pc \in ArnPcs \cup DropPcs /\ page[q].pc \in ArnPcs \cup DropPcs)
       /\ ~ (page[p].pc \in FlagPcs \cup DropPcs /\ page[q].pc \in FlagPcs \cup DropPcs)
  /\ Making => None(ArnPcs \cup DropPcs)

Lifeless ==
  /\ app # "live" => None(ArnPcs \cup FlagPcs \cup DropPcs) /\ ~ Making /\ role = NoRole
  /\ ~ None({"drop"}) => role = NoRole
  /\ todo # {} => role = NoRole /\ make.pc = "queued" /\ \A s \in Services : ~ flags[s]

Trusts ==
  /\ role.exists /\ None({"inline", "commit"}) => role.trust = ArnsOf(arnRows)
  /\ \A p \in Pages : page[p].pc \in {"inline", "commit"} =>
       role.exists /\ role.trust = ArnsOf(Sees(p))

Attaches ==
  /\ ~ role.exists /\ app = "live" /\ None({"drop"}) => \A s \in Services : ~ flags[s]
  /\ role.exists /\ None({"save"}) => role.attached = {s \in Services : flags[s]}
  /\ \A p \in Pages : page[p].pc = "save" =>
       role.exists /\ role.attached = {s \in Services : page[p].copy[s]}
  /\ \A p \in Pages : page[p].pc = "attach" =>
       \A s \in Services \ {page[p].service} : page[p].copy[s] = flags[s]

Inlines ==
  make.pc = "done" /\ app = "live" =>
    /\ None({"drop"}) => role.exists
    /\ None({"commit", "drop"}) => (role.inline = {} <=> arnRows = {})
    /\ \A p \in Pages : page[p].pc = "commit" => (role.inline = {} <=> Sees(p) = {})

Makes ==
  /\ make.pc \in {"create", "put"} => make.doc = ArnsOf(arnRows)
  /\ make.pc \in {"policy", "put"} => role.exists

Unspoiled == Exclusive /\ Lifeless /\ Trusts /\ Attaches /\ Inlines /\ Makes

RoleInv == RoleTyped /\ RoleFresh /\ Apart /\ (~ spoiled => Unspoiled)

USE DEF ArnPcs, FlagPcs, DropPcs, MakePcs

LEMMA RoleStart == RoleInit => RoleInv
<1> SUFFICES ASSUME RoleInit PROVE RoleInv
  OBVIOUS
<1>1. page \in [Pages -> PageStates] /\ \A p \in Pages : page[p].pc = "unused"
  BY DEF RoleInit, PageStates
<1>2. RoleTypeOK
  <2>1. failures \in 0 .. MaxRoleFaults
    BY AppRoleAssumption DEF RoleInit
  <2>2. role \in Roles /\ (~ role.exists => role = NoRole)
    BY DEF RoleInit, NoRole, Roles
  <2>3. make.pc = "none" /\ make.doc = {} /\ flags \in [Services -> BOOLEAN]
    BY DEF RoleInit
  <2>4. spoiled \in BOOLEAN /\ DOMAIN page = Pages
    BY DEF RoleInit
  <2> QED BY <2>1, <2>2, <2>3, <2>4 DEF RoleInit, RoleTypeOK, Roles
<1>3. RoleTyped
  BY <1>1, <1>2 DEF RoleTyped, RoleInit
<1>4. RoleFresh /\ Apart
  BY <1>1 DEF RoleFresh, Apart, RoleInit
<1>5. Unspoiled
  BY <1>1 DEF RoleInit, Unspoiled, Exclusive, Lifeless, Trusts, Attaches, Inlines, Makes, Making,
              None, NoRole
<1> QED BY <1>3, <1>4, <1>5 DEF RoleInv

LEMMA Turned ==
  ASSUME RoleTyped, NEW p \in Pages, NEW from, NEW next \in PageStates, Turn(p, from, next)
  PROVE  /\ page' \in [Pages -> PageStates] /\ page'[p] = next
         /\ \A q \in Pages \ {p} : page'[q] = page[q]
         /\ page[p].pc = from
  BY DEF Turn, RoleTyped

LEMMA PageKinds ==
  ASSUME RoleTyped, NEW p \in Pages
  PROVE  /\ page[p] \in PageStates
         /\ page[p].pc \in ArnPcs => page[p] \in ArnPages
         /\ page[p].pc \in FlagPcs => page[p] \in FlagPages
  BY DEF RoleTyped, PageStates, ArnPages, FlagPages

LEMMA SeenRows ==
  ASSUME RoleTyped, NEW p \in Pages
  PROVE  /\ page[p].pc \in ArnPcs => Sees(p) = (arnRows \ page[p].del) \cup page[p].ins
         /\ page[p].pc \in ArnPcs => Deleted(p) = page[p].del /\ Added(p) = page[p].ins
         /\ Sees(p) \subseteq ArnRowSet /\ ArnsOf(Sees(p)) \subseteq Arns
         /\ arnRows \subseteq ArnRowSet /\ ArnsOf(arnRows) \subseteq Arns
         /\ ArnsOf(Sees(p)) = {} <=> Sees(p) = {}
         /\ ArnsOf(arnRows) = {} <=> arnRows = {}
<1>1. page[p].pc \in ArnPcs => page[p].del \subseteq ArnRowSet /\ page[p].ins \subseteq ArnRowSet
  BY PageKinds DEF ArnPages
<1>2. arnRows \subseteq ArnRowSet
  BY DEF RoleTyped, RoleTypeOK, ArnRowSet, Owners
<1>3. Sees(p) \subseteq ArnRowSet
  BY <1>1, <1>2 DEF Sees, Added, Deleted, Open
<1> QED BY <1>2, <1>3 DEF Sees, Added, Deleted, Open, ArnsOf, ArnRowSet

-----------------------------------------------------------------------------
(* Registration and the task: no page moves *)

LEMMA RegisterKeeps == ASSUME RoleInv, NEW arns \in SUBSET Arns, Register(arns) PROVE RoleInv'
<1>1. RoleTyped'
  BY DEF Register, RoleInv, RoleTyped, RoleTypeOK
<1>2. RoleFresh'
  BY DEF Register, RoleInv, RoleFresh
<1>3. Apart'
  BY DEF Register, RoleInv, Apart
<1>4. ASSUME ~ spoiled' PROVE Unspoiled'
  BY DEF Register, RoleInv, RoleFresh, Unspoiled, Exclusive, Lifeless, Trusts, Attaches, Inlines,
         Makes, Making, None, NoRole, RoleTyped
<1> QED BY <1>1, <1>2, <1>3, <1>4 DEF RoleInv

LEMMA InsertArnKeeps == ASSUME RoleInv, NEW a \in Arns, InsertArn(a) PROVE RoleInv'
<1>1. RoleTyped'
  BY DEF InsertArn, RoleInv, RoleFresh, RoleTyped, RoleTypeOK
<1>2. RoleFresh'
  BY DEF InsertArn, RoleInv, RoleFresh
<1>3. Apart'
  BY DEF InsertArn, RoleInv, Apart, RoleFresh
<1>4. ASSUME ~ spoiled' PROVE Unspoiled'
  <2>1. Unspoiled /\ role = NoRole /\ make.pc = "queued" /\ None(ArnPcs)
    BY <1>4 DEF InsertArn, RoleInv, RoleFresh, Unspoiled, Lifeless, None
  <2> QED BY <2>1 DEF InsertArn, Unspoiled, Exclusive, Lifeless, Trusts, Attaches, Inlines,
         Makes, Making, None, NoRole
<1> QED BY <1>1, <1>2, <1>3, <1>4 DEF RoleInv

LEMMA RegistrationFailsKeeps == ASSUME RoleInv, RegistrationFails PROVE RoleInv'
<1>1. RoleTyped'
  BY AppRoleAssumption DEF RegistrationFails, RoleInv, RoleTyped, RoleTypeOK
<1>2. RoleFresh' /\ Apart'
  BY DEF RegistrationFails, RoleInv, RoleFresh, Apart
<1>3. ASSUME ~ spoiled' PROVE Unspoiled'
  BY <1>3 DEF RegistrationFails, RoleInv, Unspoiled, Exclusive, Lifeless, Trusts, Attaches, Inlines,
         Makes, Making, None, Sees, Added, Deleted, Open
<1> QED BY <1>1, <1>2, <1>3 DEF RoleInv

\* A step of the task: neither pages nor rows change.
LEMMA TaskMoves ==
  ASSUME RoleInv, UNCHANGED <<app, todo, arnRows, flags, page>>, app # "none",
         make' \in [pc : MakePcs \cup {"queued", "done"}, doc : SUBSET Arns], role' \in Roles,
         ~ role'.exists => role' = NoRole, failures' \in 0 .. MaxRoleFaults, spoiled' \in BOOLEAN,
         ~ spoiled' => ~ spoiled /\ Exclusive' /\ Lifeless' /\ Trusts' /\ Attaches' /\ Inlines' /\ Makes'
  PROVE  RoleInv'
<1>1. RoleTyped'
  BY DEF RoleInv, RoleTyped, RoleTypeOK, Roles
<1>2. RoleFresh' /\ Apart'
  BY DEF RoleInv, RoleFresh, Apart
<1> QED BY <1>1, <1>2 DEF RoleInv, Unspoiled

LEMMA TakeMakeKeeps == ASSUME RoleInv, TakeMake PROVE RoleInv'
<1>1. /\ UNCHANGED <<app, todo, arnRows, flags, page, role>> /\ app # "none"
      /\ failures' \in 0 .. MaxRoleFaults /\ role' \in Roles /\ (~ role'.exists => role' = NoRole)
  BY DEF TakeMake, RoleInv, RoleTyped, RoleTypeOK, Roles
<1>2. make' = [pc |-> "create", doc |-> ArnsOf(arnRows)] /\ ArnsOf(arnRows) \subseteq Arns
  BY DEF TakeMake, RoleInv, RoleTyped, RoleTypeOK, ArnsOf
<1>3. spoiled' \in BOOLEAN
  BY DEF TakeMake, Overlaps, RoleInv, RoleTyped, RoleTypeOK
<1>4. ASSUME ~ spoiled' PROVE ~ spoiled /\ Exclusive' /\ Lifeless' /\ Trusts' /\ Attaches' /\ Inlines' /\ Makes'
  <2>1. ~ spoiled /\ todo = {} /\ None(ArnPcs \cup DropPcs)
    BY <1>4 DEF TakeMake, Overlaps, None
  <2>2. Unspoiled
    BY <2>1 DEF RoleInv
  <2>3. Exclusive' /\ Lifeless'
    BY <1>1, <1>2, <2>1, <2>2 DEF TakeMake, Unspoiled, Exclusive, Lifeless, Making, None
  <2>4. Trusts' /\ Attaches'
    BY <1>1, <1>2, <2>1, <2>2 DEF Unspoiled, Trusts, Attaches, None, Sees, Added, Deleted, Open
  <2>5. Inlines' /\ Makes'
    BY <1>1, <1>2 DEF Inlines, Makes
  <2> QED BY <2>1, <2>3, <2>4, <2>5
<1> QED BY <1>1, <1>2, <1>3, <1>4, TaskMoves

\* The task is on, so that the app is live, and no page but of flags.
LEMMA Alone ==
  ASSUME RoleInv, ~ spoiled, Making
  PROVE  Unspoiled /\ app = "live" /\ todo = {} /\ None(ArnPcs \cup DropPcs)
  BY DEF RoleInv, Unspoiled, Exclusive, Lifeless, Making

\* Requests come back only once the row of the app is there, spoiled or not.
LEMMA MakingApp == ASSUME RoleInv, Making PROVE app # "none"
  BY DEF RoleInv, RoleFresh, Making

LEMMA CreateRoleKeeps == ASSUME RoleInv, CreateRole PROVE RoleInv'
<1> DEFINE fresh == [NoRole EXCEPT !.exists = TRUE, !.trust = make.doc]
<1>1. /\ UNCHANGED <<app, todo, arnRows, flags, page, failures, spoiled>>
      /\ make.pc = "create" /\ make' = [make EXCEPT !.pc = "policy"] /\ Making
      /\ role' = IF role.exists THEN role ELSE fresh
  BY DEF CreateRole, Making
<1>2. /\ app # "none" /\ role \in Roles /\ failures \in 0 .. MaxRoleFaults /\ spoiled \in BOOLEAN
      /\ make.doc \subseteq Arns /\ make' \in [pc : MakePcs \cup {"queued", "done"}, doc : SUBSET Arns]
      /\ make'.pc = "policy"
  BY <1>1, MakingApp DEF RoleInv, RoleTyped, RoleTypeOK, Roles
<1>3. /\ fresh \in Roles /\ fresh.exists /\ fresh.trust = make.doc /\ fresh.attached = {} /\ fresh.inline = {}
  BY <1>2 DEF NoRole, Roles
<1> HIDE DEF fresh
<1>4. role' \in Roles /\ role'.exists
  BY <1>1, <1>2, <1>3
<1>5. ASSUME ~ spoiled PROVE Exclusive' /\ Lifeless' /\ Trusts' /\ Attaches' /\ Inlines' /\ Makes'
  <2>1. Unspoiled /\ app = "live" /\ todo = {} /\ None(ArnPcs \cup DropPcs)
    BY <1>1, <1>5, Alone
  <2>2. Exclusive'
    BY <1>1, <2>1 DEF Unspoiled, Exclusive, Making, None
  <2>3. Lifeless'
    BY <1>1, <2>1 DEF Lifeless, None
  <2>4. Trusts'
    BY <1>1, <1>3, <2>1 DEF Unspoiled, Trusts, Makes, None, Sees, Added, Deleted, Open
  <2>5. Attaches'
    BY <1>1, <1>3, <2>1 DEF Unspoiled, Attaches, None
  <2>6. Inlines' /\ Makes'
    BY <1>2, <1>4 DEF Inlines, Makes
  <2> QED BY <2>2, <2>3, <2>4, <2>5, <2>6
<1> QED BY <1>1, <1>2, <1>4, <1>5, TaskMoves

LEMMA ReadArnsKeeps == ASSUME RoleInv, ReadArns PROVE RoleInv'
<1>1. /\ UNCHANGED <<app, todo, arnRows, flags, page, role, failures, spoiled>>
      /\ make.pc = "policy" /\ make' = [pc |-> "put", doc |-> ArnsOf(arnRows)] /\ Making
  BY DEF ReadArns, Making
<1>2. /\ app # "none" /\ role \in Roles /\ failures \in 0 .. MaxRoleFaults /\ spoiled \in BOOLEAN
      /\ (~ role.exists => role = NoRole)
      /\ ArnsOf(arnRows) \subseteq Arns
  BY <1>1, MakingApp DEF RoleInv, RoleTyped, RoleTypeOK, Roles, ArnsOf
<1>3. ASSUME ~ spoiled PROVE Exclusive' /\ Lifeless' /\ Trusts' /\ Attaches' /\ Inlines' /\ Makes'
  <2>1. Unspoiled /\ app = "live" /\ todo = {} /\ None(ArnPcs \cup DropPcs)
    BY <1>1, <1>3, Alone
  <2>2. Exclusive' /\ Lifeless'
    BY <1>1, <2>1 DEF Unspoiled, Exclusive, Lifeless, Making, None
  <2>3. Trusts' /\ Attaches'
    BY <1>1, <2>1 DEF Unspoiled, Trusts, Attaches, None, Sees, Added, Deleted, Open
  <2>4. Inlines' /\ Makes'
    BY <1>1, <2>1 DEF Unspoiled, Inlines, Makes
  <2> QED BY <2>2, <2>3, <2>4
<1> QED BY <1>1, <1>2, <1>3, TaskMoves

LEMMA PutPolicyKeeps == ASSUME RoleInv, PutPolicy PROVE RoleInv'
<1>1. /\ UNCHANGED <<app, todo, arnRows, flags, page, failures, spoiled>>
      /\ make.pc = "put" /\ Making
  BY DEF PutPolicy, Making
<1>2. /\ app # "none" /\ role \in Roles /\ failures \in 0 .. MaxRoleFaults /\ spoiled \in BOOLEAN
      /\ (~ role.exists => role = NoRole)
      /\ make \in [pc : MakePcs \cup {"none", "queued", "done"}, doc : SUBSET Arns]
  BY <1>1, MakingApp DEF RoleInv, RoleTyped, RoleTypeOK, Roles
<1>3. CASE PutRaises(make.doc)
  <2>1. make' = [make EXCEPT !.pc = "queued"] /\ role' = role /\ ~ role.exists
    BY <1>3 DEF PutPolicy, PutRaises
  <2>2. ASSUME ~ spoiled PROVE FALSE
    BY <1>1, <2>1, <2>2, Alone DEF Unspoiled, Makes
  <2>3. make' \in [pc : MakePcs \cup {"queued", "done"}, doc : SUBSET Arns]
    BY <2>1, <1>2
  <2> QED BY <1>1, <1>2, <2>1, <2>2, <2>3, TaskMoves
<1>4. CASE ~ PutRaises(make.doc)
  <2>1. /\ make' = [make EXCEPT !.pc = "done"]
        /\ role' = [role EXCEPT !.inline = IF make.doc = {} \/ role.inline = {} THEN make.doc ELSE @]
    BY <1>4 DEF PutPolicy, PutInline
  <2>2. /\ make' \in [pc : MakePcs \cup {"queued", "done"}, doc : SUBSET Arns] /\ make'.pc = "done"
    BY <2>1, <1>2
  <2>3. /\ role' \in Roles /\ role'.exists = role.exists /\ role'.trust = role.trust
        /\ role'.attached = role.attached /\ (role'.inline = {} <=> make.doc = {})
    BY <2>1, <1>2 DEF Roles
  <2>4. ~ role'.exists => role' = NoRole
    <3> SUFFICES ASSUME ~ role.exists PROVE role' = NoRole
      BY <2>3
    <3>1. role = NoRole /\ make.doc = {}
      BY <1>2, <1>4 DEF PutRaises
    <3> QED BY <3>1, <2>1 DEF NoRole
  <2>5. ASSUME ~ spoiled PROVE Exclusive' /\ Lifeless' /\ Trusts' /\ Attaches' /\ Inlines' /\ Makes'
    <3>1. Unspoiled /\ app = "live" /\ todo = {} /\ None(ArnPcs \cup DropPcs)
          /\ role.exists /\ make.doc = ArnsOf(arnRows)
      BY <1>1, <2>5, Alone DEF Unspoiled, Makes
    <3>2. Exclusive' /\ Lifeless'
      BY <1>1, <2>2, <3>1 DEF Unspoiled, Exclusive, Lifeless, Making, None
    <3>3. Trusts' /\ Attaches'
      BY <1>1, <2>3, <3>1 DEF Unspoiled, Trusts, Attaches, None, Sees, Added, Deleted, Open
    <3>4. ArnsOf(arnRows) = {} <=> arnRows = {}
      BY DEF ArnsOf
    <3>5. Inlines'
      BY <1>1, <2>3, <3>1, <3>4 DEF Inlines, None
    <3>6. Makes'
      BY <2>2 DEF Makes
    <3> QED BY <3>2, <3>3, <3>5, <3>6
  <2> QED BY <1>1, <1>2, <2>2, <2>3, <2>4, <2>5, TaskMoves
<1> QED BY <1>3, <1>4

LEMMA MakeFailsKeeps == ASSUME RoleInv, MakeFails PROVE RoleInv'
<1>1. /\ UNCHANGED <<app, todo, arnRows, flags, page, role, spoiled>>
      /\ make' = [make EXCEPT !.pc = "queued"] /\ Making
  BY DEF MakeFails
<1>2. /\ app # "none" /\ role \in Roles /\ spoiled \in BOOLEAN
      /\ (~ role.exists => role = NoRole)
      /\ make' \in [pc : MakePcs \cup {"queued", "done"}, doc : SUBSET Arns] /\ make'.pc = "queued"
  BY <1>1, MakingApp DEF RoleInv, RoleTyped, RoleTypeOK, Roles
<1>3. failures' \in 0 .. MaxRoleFaults
  BY AppRoleAssumption DEF MakeFails, RoleInv, RoleTyped, RoleTypeOK
<1>4. ASSUME ~ spoiled PROVE Exclusive' /\ Lifeless' /\ Trusts' /\ Attaches' /\ Inlines' /\ Makes'
  <2>1. Unspoiled /\ app = "live" /\ todo = {} /\ None(ArnPcs \cup DropPcs)
    BY <1>1, <1>4, Alone
  <2>2. Exclusive' /\ Lifeless'
    BY <1>1, <1>2, <2>1 DEF Unspoiled, Exclusive, Lifeless, Making, None
  <2>3. Trusts' /\ Attaches'
    BY <1>1, <2>1 DEF Unspoiled, Trusts, Attaches, None, Sees, Added, Deleted, Open
  <2>4. Inlines' /\ Makes'
    BY <1>2 DEF Inlines, Makes
  <2> QED BY <2>2, <2>3, <2>4
<1> QED BY <1>1, <1>2, <1>3, <1>4, TaskMoves

-----------------------------------------------------------------------------
(* The pages *)

LEMMA BusyPage == ASSUME RoleInv, NEW p \in Pages, page[p].pc # "unused" PROVE todo = {} /\ app # "none"
  BY DEF RoleInv, RoleFresh

\* One page moves on.
LEMMA PageMoves ==
  ASSUME RoleInv, NEW p \in Pages, NEW next \in PageStates, page' = [page EXCEPT ![p] = next],
         todo = {}, todo' = {}, app' \in {"live", "gone"}, arnRows' \subseteq arnRows \cup Added(p),
         \A x, y \in arnRows' : x[1] = y[1] => x = y,
         next.pc \in ArnPcs =>
           /\ next.pc \in {"wipe", "insert"} => next.ins = {}
           /\ next.pc = "wipe" => next.del = {}
           /\ \A r \in next.ins : r[2] = p
           /\ \A x \in next.ins, y \in arnRows' \ next.del : x[1] # y[1]
           /\ \A q \in Pages \ {p} : page[q].pc \in ArnPcs =>
                \A x \in next.ins, y \in page[q].ins : x[1] # y[1],
         flags' \in [Services -> BOOLEAN], role' \in Roles, ~ role'.exists => role' = NoRole,
         make' \in [pc : MakePcs \cup {"none", "queued", "done"}, doc : SUBSET Arns],
         failures' \in 0 .. MaxRoleFaults, spoiled' \in BOOLEAN,
         ~ spoiled' => Unspoiled'
  PROVE  RoleInv'
<1>1. page' \in [Pages -> PageStates] /\ page'[p] = next /\ \A q \in Pages \ {p} : page'[q] = page[q]
  BY DEF RoleInv, RoleTyped
<1>2. arnRows' \subseteq ArnRowSet
  <2>1. Added(p) \subseteq ArnRowSet
    BY PageKinds DEF Added, Open, RoleInv, ArnPages
  <2> QED BY <2>1 DEF RoleInv, RoleTyped, RoleTypeOK, ArnRowSet, Owners
<1>3. RoleTyped'
  BY <1>1, <1>2 DEF RoleTyped, RoleTypeOK, ArnRowSet, Owners, Roles
<1>4. RoleFresh'
  BY DEF RoleFresh
<1>5. Apart'
  <2>1. \A q \in Pages \ {p} : page[q].pc \in ArnPcs =>
          \A x \in page[q].ins, y \in arnRows' \ page[q].del : x[1] # y[1]
    BY DEF RoleInv, Apart, Added, Open
  <2>2. \A q, r \in Pages : q # r /\ page'[q].pc \in ArnPcs /\ page'[r].pc \in ArnPcs =>
          \A x \in page'[q].ins, y \in page'[r].ins : x[1] # y[1]
    BY <1>1 DEF RoleInv, Apart
  <2>3. ASSUME NEW q \in Pages, page'[q].pc \in ArnPcs
        PROVE  /\ page'[q].pc \in {"wipe", "insert"} => page'[q].ins = {}
               /\ page'[q].pc = "wipe" => page'[q].del = {}
               /\ \A r \in page'[q].ins : r[2] = q
               /\ \A x \in page'[q].ins, y \in arnRows' \ page'[q].del : x[1] # y[1]
    <3>1. CASE q = p
      BY <1>1, <2>3, <3>1
    <3>2. CASE q # p
      BY <1>1, <2>1, <2>3, <3>2 DEF RoleInv, Apart
    <3> QED BY <3>1, <3>2
  <2> QED BY <2>2, <2>3 DEF Apart
<1> QED BY <1>3, <1>4, <1>5 DEF RoleInv

\* What every step of a page has to hand.
LEMMA PageFacts ==
  ASSUME RoleInv
  PROVE  /\ flags \in [Services -> BOOLEAN] /\ role \in Roles /\ (~ role.exists => role = NoRole)
         /\ make \in [pc : MakePcs \cup {"none", "queued", "done"}, doc : SUBSET Arns]
         /\ failures \in 0 .. MaxRoleFaults /\ spoiled \in BOOLEAN /\ app \in {"none", "live", "gone"}
         /\ \A x, y \in arnRows : x[1] = y[1] => x = y
         /\ arnRows \subseteq ArnRowSet
         /\ RoleTyped /\ page \in [Pages -> PageStates]
  BY DEF RoleInv, RoleTyped, RoleTypeOK, Roles, ArnRowSet, Owners

\* The transaction that is alone: what a step of it keeps.
LEMMA AloneArns ==
  ASSUME RoleInv, ~ spoiled, NEW p \in Pages, page[p].pc \in ArnPcs
  PROVE  /\ Unspoiled /\ app = "live" /\ ~ Making
         /\ \A q \in Pages \ {p} : page[q].pc \notin ArnPcs \cup DropPcs
  BY DEF RoleInv, Unspoiled, Exclusive, Lifeless, Making, None

LEMMA AskArnsKeeps == ASSUME RoleInv, NEW p \in Pages, NEW arns \in SUBSET Arns, AskArns(p, arns) PROVE RoleInv'
<1> DEFINE next == [pc |-> "wipe", want |-> arns, seen |-> arnRows, del |-> {}, ins |-> {}]
<1>1. /\ app = "live" /\ todo = {} /\ page[p].pc = "unused" /\ page' = [page EXCEPT ![p] = next]
      /\ UNCHANGED <<app, todo, arnRows, flags, role, make, failures>>
      /\ spoiled' = (spoiled \/ (Making \/ At(ArnPcs \cup DropPcs, p)))
  BY DEF AskArns, Turn, Overlaps
<1>2. next \in PageStates /\ next.pc = "wipe" /\ next.ins = {} /\ next.del = {}
  BY PageFacts DEF PageStates, ArnPages
<1> HIDE DEF next
<1>3. page'[p] = next /\ \A q \in Pages \ {p} : page'[q] = page[q]
  BY <1>1, PageFacts
<1>4. ASSUME ~ spoiled' PROVE Unspoiled'
  <2>1. Unspoiled /\ ~ Making /\ (\A q \in Pages \ {p} : page[q].pc \notin ArnPcs \cup DropPcs)
    BY <1>1, <1>4 DEF RoleInv, At
  <2>2. Exclusive' /\ Lifeless'
    BY <1>1, <1>2, <1>3, <2>1 DEF Unspoiled, Exclusive, Lifeless, Making, None
  <2>3. Trusts'
    BY <1>1, <1>2, <1>3, <2>1 DEF Unspoiled, Trusts, None
  <2>4. Attaches'
    BY <1>1, <1>2, <1>3, <2>1 DEF Unspoiled, Attaches, None
  <2>5. Inlines' /\ Makes'
    BY <1>1, <1>2, <1>3, <2>1 DEF Unspoiled, Inlines, Makes, None
  <2> QED BY <2>2, <2>3, <2>4, <2>5 DEF Unspoiled
<1>5. spoiled' \in BOOLEAN
  BY <1>1, PageFacts
<1> QED BY <1>1, <1>2, <1>4, <1>5, PageFacts, PageMoves

\* What a step of a transaction keeps, nothing having overlapped; the trust and
\* the inline policy are for the step to show.
LEMMA ArnSteps ==
  ASSUME RoleInv, ~ spoiled, NEW p \in Pages, page[p].pc \in ArnPcs,
         NEW next \in PageStates, page' = [page EXCEPT ![p] = next], next.pc \in ArnPcs \cup {"over"},
         UNCHANGED <<app, todo, flags, make>>, role'.exists = role.exists,
         role'.attached = role.attached, ~ role'.exists => role' = NoRole,
         Trusts', Inlines'
  PROVE  Unspoiled'
<1>1. page'[p] = next /\ \A q \in Pages \ {p} : page'[q] = page[q]
  BY PageFacts
<1>2. /\ Unspoiled /\ app = "live" /\ ~ Making
      /\ \A q \in Pages \ {p} : page[q].pc \notin ArnPcs \cup DropPcs
  BY AloneArns
<1>3. todo = {}
  BY BusyPage
<1>4. Exclusive' /\ Lifeless'
  BY <1>1, <1>2, <1>3 DEF Unspoiled, Exclusive, Lifeless, Making, None
<1>5. Attaches'
  BY <1>1, <1>2 DEF Unspoiled, Attaches, None
<1>6. Makes'
  BY <1>2 DEF Makes, Making
<1> QED BY <1>4, <1>5, <1>6 DEF Unspoiled

LEMMA WipeKeeps == ASSUME RoleInv, NEW p \in Pages, Wipe(p) PROVE RoleInv'
<1> DEFINE next == [page[p] EXCEPT !.pc = "insert", !.del = page[p].seen \cap arnRows]
<1>1. /\ page[p].pc = "wipe" /\ page' = [page EXCEPT ![p] = next]
      /\ UNCHANGED <<app, todo, arnRows, flags, role, make, failures, spoiled>>
  BY DEF Wipe, Turn
<1>2. page[p] \in ArnPages /\ page[p].ins = {} /\ todo = {} /\ app # "none"
  BY <1>1, PageFacts, PageKinds, BusyPage DEF RoleInv, Apart
<1>3. next \in PageStates /\ next.pc = "insert" /\ next.ins = {}
  BY <1>2 DEF PageStates, ArnPages
<1> HIDE DEF next
<1>4. page'[p] = next /\ \A q \in Pages \ {p} : page'[q] = page[q]
  BY <1>1, <1>3, PageFacts
<1>5. ASSUME ~ spoiled' PROVE Unspoiled'
  <2>1. Unspoiled /\ (\A q \in Pages \ {p} : page[q].pc \notin ArnPcs \cup DropPcs)
    BY <1>1, <1>5, AloneArns
  <2>2. Trusts' /\ Inlines'
    BY <1>1, <1>3, <1>4, <2>1 DEF Unspoiled, Trusts, Inlines, None
  <2> QED BY <1>1, <1>3, <1>5, <2>2, PageFacts, ArnSteps
<1> QED BY <1>1, <1>2, <1>3, <1>5, PageFacts, PageMoves

LEMMA InsertKeeps == ASSUME RoleInv, NEW p \in Pages, Insert(p) PROVE RoleInv'
<1> DEFINE next == IF ArnsOf(Sees(p)) \cap page[p].want # {} THEN Over
                   ELSE [page[p] EXCEPT !.pc = "trust", !.ins = page[p].want \X {p}]
<1>1. /\ page[p].pc = "insert" /\ page' = [page EXCEPT ![p] = next]
      /\ UNCHANGED <<app, todo, arnRows, flags, role, make, failures, spoiled>>
      /\ \A q \in Pages \ {p} : ArnsOf(Deleted(q) \cup Added(q)) \cap page[p].want = {}
  BY DEF Insert, Turn
<1>2. page[p] \in ArnPages /\ page[p].ins = {} /\ todo = {} /\ app # "none"
  BY <1>1, PageFacts, PageKinds, BusyPage DEF RoleInv, Apart
<1>3. next \in PageStates /\ next.pc \in {"trust", "over"}
      /\ (next.pc = "trust" => /\ next.ins = page[p].want \X {p} /\ next.del = page[p].del
                               /\ ArnsOf(Sees(p)) \cap page[p].want = {})
  <2>1. page[p].want \X {p} \subseteq ArnRowSet
    BY <1>2 DEF ArnPages, ArnRowSet, Owners
  <2>2. Over \in PageStates /\ Over.pc = "over"
    BY DEF Over, PageStates
  <2> QED BY <1>2, <2>1, <2>2 DEF PageStates, ArnPages
<1> HIDE DEF next
<1>4. page'[p] = next /\ \A q \in Pages \ {p} : page'[q] = page[q]
  BY <1>1, <1>3, PageFacts
<1>5. ASSUME next.pc = "trust"
      PROVE  /\ \A r \in next.ins : r[2] = p
             /\ \A x \in next.ins, y \in arnRows \ next.del : x[1] # y[1]
             /\ \A q \in Pages \ {p} : page[q].pc \in ArnPcs =>
                  \A x \in next.ins, y \in page[q].ins : x[1] # y[1]
  <2>1. \A x \in next.ins : x[1] \in page[p].want /\ x[2] = p
    BY <1>3, <1>5
  <2>2. \A y \in arnRows \ next.del : y[1] \in ArnsOf(Sees(p))
    BY <1>1, <1>3, <1>5, PageFacts, SeenRows DEF ArnsOf
  <2>3. \A q \in Pages \ {p} : page[q].pc \in ArnPcs =>
          \A y \in page[q].ins : y[1] \in ArnsOf(Deleted(q) \cup Added(q))
    BY PageFacts, SeenRows DEF ArnsOf
  <2> QED BY <1>1, <1>3, <1>5, <2>1, <2>2, <2>3
<1>6. ASSUME ~ spoiled' PROVE Unspoiled'
  <2>1. Unspoiled /\ (\A q \in Pages \ {p} : page[q].pc \notin ArnPcs \cup DropPcs)
    BY <1>1, <1>6, AloneArns
  <2>2. Trusts' /\ Inlines'
    BY <1>1, <1>3, <1>4, <2>1 DEF Unspoiled, Trusts, Inlines, None
  <2> QED BY <1>1, <1>3, <1>6, <2>2, PageFacts, ArnSteps
<1> QED BY <1>1, <1>2, <1>3, <1>5, <1>6, PageFacts, PageMoves

\* A record with another pc, as in a transaction's later steps.
LEMMA NextStep ==
  ASSUME RoleInv, NEW p \in Pages, page[p].pc \in ArnPcs \ {"wipe", "insert"}, NEW to \in ArnPcs \ {"wipe", "insert"}
  PROVE  /\ To(p, to) \in PageStates /\ To(p, to).pc = to
         /\ To(p, to).ins = page[p].ins /\ To(p, to).del = page[p].del
         /\ \A r \in page[p].ins : r[2] = p
         /\ \A x \in page[p].ins, y \in arnRows \ page[p].del : x[1] # y[1]
         /\ \A q \in Pages \ {p} : page[q].pc \in ArnPcs =>
              \A x \in page[p].ins, y \in page[q].ins : x[1] # y[1]
<1>1. page[p] \in ArnPages
  BY PageFacts, PageKinds
<1>2. /\ To(p, to) \in PageStates /\ To(p, to).pc = to
      /\ To(p, to).ins = page[p].ins /\ To(p, to).del = page[p].del
  BY <1>1 DEF To, PageStates, ArnPages
<1> QED BY <1>2 DEF RoleInv, Apart

LEMMA OverIs == Over \in PageStates /\ Over.pc = "over"
  BY DEF Over, PageStates

LEMMA UpdateTrustKeeps == ASSUME RoleInv, NEW p \in Pages, UpdateTrust(p) PROVE RoleInv'
<1> DEFINE next == IF role.exists THEN To(p, "inline") ELSE Over
<1>1. /\ page[p].pc = "trust" /\ page' = [page EXCEPT ![p] = next]
      /\ role' = IF role.exists THEN [role EXCEPT !.trust = ArnsOf(Sees(p))] ELSE role
      /\ UNCHANGED <<app, todo, arnRows, flags, make, failures, spoiled>>
  BY DEF UpdateTrust, Turn
<1>2. todo = {} /\ app # "none"
  BY <1>1, BusyPage
<1>3. /\ next \in PageStates /\ next.pc = (IF role.exists THEN "inline" ELSE "over")
      /\ role.exists => next.ins = page[p].ins /\ next.del = page[p].del
  BY <1>1, NextStep, OverIs
<1>4. /\ role' \in Roles /\ role'.exists = role.exists /\ role'.attached = role.attached
      /\ role'.inline = role.inline /\ (~ role'.exists => role' = NoRole)
      /\ role.exists => role'.trust = ArnsOf(Sees(p))
  BY <1>1, PageFacts, SeenRows DEF Roles
<1> HIDE DEF next
<1>5. page'[p] = next /\ \A q \in Pages \ {p} : page'[q] = page[q]
  BY <1>1, <1>3, PageFacts
<1>6. ASSUME ~ spoiled' PROVE Unspoiled'
  <2>1. Unspoiled /\ (\A q \in Pages \ {p} : page[q].pc \notin ArnPcs \cup DropPcs)
    BY <1>1, <1>6, AloneArns
  <2>2. role.exists => Sees(p)' = Sees(p)
    BY <1>1, <1>3, <1>5, PageFacts DEF Sees, Added, Deleted, Open
  <2>3. Trusts'
    BY <1>1, <1>3, <1>4, <1>5, <2>1, <2>2 DEF Unspoiled, Trusts, None
  <2>4. Inlines'
    BY <1>1, <1>3, <1>4, <1>5, <2>1 DEF Unspoiled, Inlines, None
  <2> QED BY <1>1, <1>3, <1>4, <1>6, <2>3, <2>4, PageFacts, ArnSteps
<1>7. next.pc \in ArnPcs =>
        /\ next.pc = "inline"
        /\ \A r \in next.ins : r[2] = p
        /\ \A x \in next.ins, y \in arnRows \ next.del : x[1] # y[1]
        /\ \A q \in Pages \ {p} : page[q].pc \in ArnPcs =>
             \A x \in next.ins, y \in page[q].ins : x[1] # y[1]
  BY <1>1, <1>3, NextStep
<1> QED BY <1>1, <1>2, <1>3, <1>4, <1>6, <1>7, PageFacts, PageMoves

LEMMA UpdateInlineKeeps == ASSUME RoleInv, NEW p \in Pages, UpdateInline(p) PROVE RoleInv'
<1> DEFINE arns == ArnsOf(Sees(p))
           raises == PutRaises(arns)
           next == IF raises THEN Over ELSE To(p, "commit")
<1>1. /\ page[p].pc = "inline" /\ page' = [page EXCEPT ![p] = next]
      /\ role' = IF raises THEN role
                 ELSE [role EXCEPT !.inline = IF arns = {} \/ role.inline = {} THEN arns ELSE @]
      /\ UNCHANGED <<app, todo, arnRows, flags, make, failures, spoiled>>
  BY DEF UpdateInline, Turn, PutInline
<1>2. todo = {} /\ app # "none"
  BY <1>1, BusyPage
<1>3. /\ next \in PageStates /\ next.pc = (IF raises THEN "over" ELSE "commit")
      /\ ~ raises => next.ins = page[p].ins /\ next.del = page[p].del
  BY <1>1, NextStep, OverIs
<1>4. /\ role' \in Roles /\ role'.exists = role.exists /\ role'.attached = role.attached
      /\ role'.trust = role.trust
      /\ ~ raises => (role'.inline = {} <=> arns = {})
      /\ raises => role' = role /\ ~ role.exists
  <2>1. arns \subseteq Arns /\ role \in Roles
    BY PageFacts, SeenRows
  <2> QED BY <1>1, <2>1 DEF Roles, PutRaises
<1>5. ~ role'.exists => role' = NoRole
  <2> SUFFICES ASSUME ~ role.exists PROVE role' = NoRole
    BY <1>4
  <2>1. role = NoRole /\ (raises \/ arns = {})
    BY PageFacts DEF PutRaises
  <2> QED BY <1>1, <2>1 DEF NoRole
<1> HIDE DEF next
<1>6. page'[p] = next /\ \A q \in Pages \ {p} : page'[q] = page[q]
  BY <1>1, <1>3, PageFacts
<1>7. ASSUME ~ spoiled' PROVE Unspoiled'
  <2>1. Unspoiled /\ (\A q \in Pages \ {p} : page[q].pc \notin ArnPcs \cup DropPcs)
    BY <1>1, <1>7, AloneArns
  <2>2. ~ raises
    BY <1>1, <1>4, <2>1 DEF Unspoiled, Trusts
  <2>3. Sees(p)' = Sees(p) /\ (arns = {} <=> Sees(p) = {})
    BY <1>1, <1>3, <1>6, <2>2, PageFacts, SeenRows DEF Sees, Added, Deleted, Open
  <2> HIDE DEF raises
  <2>4. Trusts'
    BY <1>1, <1>3, <1>4, <1>6, <2>1, <2>2, <2>3 DEF Unspoiled, Trusts, None
  <2>5. Inlines'
    BY <1>1, <1>3, <1>4, <1>6, <2>1, <2>2, <2>3 DEF Unspoiled, Inlines, None
  <2> QED BY <1>1, <1>3, <1>4, <1>5, <1>7, <2>4, <2>5, PageFacts, ArnSteps
<1>8. next.pc \in ArnPcs =>
        /\ next.pc = "commit"
        /\ \A r \in next.ins : r[2] = p
        /\ \A x \in next.ins, y \in arnRows \ next.del : x[1] # y[1]
        /\ \A q \in Pages \ {p} : page[q].pc \in ArnPcs =>
             \A x \in next.ins, y \in page[q].ins : x[1] # y[1]
  BY <1>1, <1>3, NextStep
<1> HIDE DEF raises
<1> QED BY <1>1, <1>2, <1>3, <1>4, <1>5, <1>7, <1>8, PageFacts, PageMoves

LEMMA CommitArnsKeeps == ASSUME RoleInv, NEW p \in Pages, CommitArns(p) PROVE RoleInv'
<1>1. /\ page[p].pc = "commit" /\ page' = [page EXCEPT ![p] = Over]
      /\ arnRows' = IF app = "live" THEN Sees(p) ELSE arnRows
      /\ UNCHANGED <<app, todo, flags, role, make, failures, spoiled>>
  BY DEF CommitArns, Turn
<1>2. todo = {} /\ app # "none"
  BY <1>1, BusyPage
<1>3. page'[p] = Over /\ \A q \in Pages \ {p} : page'[q] = page[q]
  BY <1>1, OverIs, PageFacts
<1>4. arnRows' \subseteq arnRows \cup Added(p)
  BY <1>1, PageFacts, SeenRows
<1>5. \A x, y \in arnRows' : x[1] = y[1] => x = y
  <2>1. /\ \A r \in page[p].ins : r[2] = p
        /\ \A x \in page[p].ins, y \in arnRows \ page[p].del : x[1] # y[1]
    BY <1>1 DEF RoleInv, Apart
  <2>2. \A x, y \in page[p].ins : x[1] = y[1] => x = y
    BY <1>1, <2>1, PageFacts, PageKinds DEF ArnPages, ArnRowSet
  <2>3. Sees(p) = (arnRows \ page[p].del) \cup page[p].ins
    BY <1>1, PageFacts, SeenRows
  <2> QED BY <1>1, <2>1, <2>2, <2>3, PageFacts
<1>6. ASSUME ~ spoiled' PROVE Unspoiled'
  <2>1. Unspoiled /\ app = "live" /\ (\A q \in Pages \ {p} : page[q].pc \notin ArnPcs \cup DropPcs)
    BY <1>1, <1>6, AloneArns
  <2>2. Trusts'
    BY <1>1, <1>3, <2>1, OverIs DEF Unspoiled, Trusts, None
  <2>3. Inlines'
    BY <1>1, <1>3, <2>1, OverIs DEF Unspoiled, Inlines, None
  <2> QED BY <1>1, <1>6, <2>2, <2>3, OverIs, PageFacts, ArnSteps
<1> QED BY <1>1, <1>2, <1>4, <1>5, <1>6, OverIs, PageFacts, PageMoves

LEMMA AskFlagKeeps ==
  ASSUME RoleInv, NEW p \in Pages, NEW s \in Services, NEW on \in BOOLEAN, AskFlag(p, s, on)
  PROVE  RoleInv'
<1> DEFINE next == [pc |-> "attach", service |-> s, copy |-> [flags EXCEPT ![s] = on]]
<1>1. /\ app = "live" /\ todo = {} /\ page[p].pc = "unused" /\ page' = [page EXCEPT ![p] = next]
      /\ UNCHANGED <<app, todo, arnRows, flags, role, make, failures>>
      /\ spoiled' = (spoiled \/ At(FlagPcs \cup DropPcs, p))
  BY DEF AskFlag, Turn, Overlaps
<1>2. /\ next \in PageStates /\ next.pc = "attach"
      /\ \A t \in Services \ {next.service} : next.copy[t] = flags[t]
  BY PageFacts DEF PageStates, FlagPages
<1> HIDE DEF next
<1>3. page'[p] = next /\ \A q \in Pages \ {p} : page'[q] = page[q]
  BY <1>1, <1>2, PageFacts
<1>4. ASSUME ~ spoiled' PROVE Unspoiled'
  <2>1. Unspoiled /\ (\A q \in Pages \ {p} : page[q].pc \notin FlagPcs \cup DropPcs)
    BY <1>1, <1>4 DEF RoleInv, At
  <2>2. Exclusive' /\ Lifeless'
    BY <1>1, <1>2, <1>3, <2>1 DEF Unspoiled, Exclusive, Lifeless, Making, None
  <2>3. \A q \in Pages : page[q].pc \in ArnPcs \/ page'[q].pc \in ArnPcs => page'[q] = page[q]
    BY <1>1, <1>2, <1>3
  <2>4. Trusts' /\ Inlines'
    BY <1>1, <1>2, <1>3, <2>1, <2>3 DEF Unspoiled, Trusts, Inlines, None, Sees, Added, Deleted, Open
  <2>5. Attaches'
    BY <1>1, <1>2, <1>3, <2>1 DEF Unspoiled, Attaches, None
  <2>6. Makes'
    BY <1>1, <2>1 DEF Unspoiled, Makes
  <2> QED BY <2>2, <2>4, <2>5, <2>6 DEF Unspoiled
<1>5. spoiled' \in BOOLEAN
  BY <1>1, PageFacts
<1> QED BY <1>1, <1>2, <1>4, <1>5, PageFacts, PageMoves

\* A step of a switch: transactions and the task may go on beside it.
LEMMA AloneFlag ==
  ASSUME RoleInv, ~ spoiled, NEW p \in Pages, page[p].pc \in FlagPcs
  PROVE  /\ Unspoiled /\ app = "live" /\ todo = {}
         /\ \A q \in Pages \ {p} : page[q].pc \notin FlagPcs \cup DropPcs
  BY DEF RoleInv, Unspoiled, Exclusive, Lifeless, None, RoleFresh

LEMMA FlagSteps ==
  ASSUME RoleInv, ~ spoiled, NEW p \in Pages, page[p].pc \in FlagPcs,
         NEW next \in PageStates, page' = [page EXCEPT ![p] = next], next.pc \in {"save", "over"},
         UNCHANGED <<app, todo, arnRows, make>>, role'.exists = role.exists,
         role'.trust = role.trust, role'.inline = role.inline, Attaches'
  PROVE  Unspoiled'
<1>1. page'[p] = next /\ \A q \in Pages \ {p} : page'[q] = page[q]
  BY PageFacts
<1>2. /\ Unspoiled /\ app = "live" /\ todo = {}
      /\ \A q \in Pages \ {p} : page[q].pc \notin FlagPcs \cup DropPcs
  BY AloneFlag
<1>3. \A q \in Pages : page[q].pc \in ArnPcs \/ page'[q].pc \in ArnPcs => page'[q] = page[q]
  BY <1>1
<1>4. Exclusive' /\ Lifeless'
  BY <1>1, <1>2 DEF Unspoiled, Exclusive, Lifeless, Making, None
<1>5. Trusts'
  BY <1>1, <1>2, <1>3 DEF Unspoiled, Trusts, None, Sees, Added, Deleted, Open
<1>6. Inlines'
  BY <1>1, <1>2, <1>3 DEF Unspoiled, Inlines, None, Sees, Added, Deleted, Open
<1>7. Makes'
  BY <1>2 DEF Unspoiled, Makes
<1> QED BY <1>4, <1>5, <1>6, <1>7 DEF Unspoiled

LEMMA AttachPolicyKeeps == ASSUME RoleInv, NEW p \in Pages, AttachPolicy(p) PROVE RoleInv'
<1> DEFINE next == IF role.exists THEN To(p, "save") ELSE Over
           s == page[p].service
           copy == page[p].copy
<1>1. /\ page[p].pc = "attach" /\ page' = [page EXCEPT ![p] = next]
      /\ role' = IF ~ role.exists THEN role
                 ELSE [role EXCEPT !.attached = IF copy[s] THEN @ \cup {s} ELSE @ \ {s}]
      /\ UNCHANGED <<app, todo, arnRows, flags, make, failures, spoiled>>
  BY DEF AttachPolicy, Turn
<1>2. todo = {} /\ app # "none"
  BY <1>1, BusyPage
<1>3. s \in Services /\ copy \in [Services -> BOOLEAN] /\ page[p] \in FlagPages
  BY <1>1, PageFacts, PageKinds DEF FlagPages
<1>4. /\ next \in PageStates /\ next.pc = (IF role.exists THEN "save" ELSE "over")
      /\ role.exists => next.copy = copy
  BY <1>3, OverIs DEF To, FlagPages, PageStates
<1>5. /\ role' \in Roles /\ role'.exists = role.exists /\ role'.trust = role.trust
      /\ role'.inline = role.inline /\ (~ role'.exists => role' = NoRole)
      /\ role.exists => role'.attached = (IF copy[s] THEN role.attached \cup {s} ELSE role.attached \ {s})
  BY <1>1, <1>3, PageFacts DEF Roles
<1> HIDE DEF next, s, copy
<1>6. page'[p] = next /\ \A q \in Pages \ {p} : page'[q] = page[q]
  BY <1>1, <1>4, PageFacts
<1>7. ASSUME ~ spoiled' PROVE Unspoiled'
  <2>1. /\ Unspoiled /\ app = "live"
        /\ \A q \in Pages \ {p} : page[q].pc \notin FlagPcs \cup DropPcs
    BY <1>1, <1>7, AloneFlag
  <2>2. \A t \in Services \ {s} : copy[t] = flags[t]
    BY <1>1, <2>1 DEF Unspoiled, Attaches, s, copy
  <2>3. role.exists => role.attached = {t \in Services : flags[t]}
    BY <1>1, <2>1 DEF Unspoiled, Attaches, None
  <2>4. role.exists => role'.attached = {t \in Services : copy[t]}
    BY <1>3, <1>5, <2>2, <2>3
  <2>5. Attaches'
    BY <1>1, <1>4, <1>5, <1>6, <2>1, <2>4 DEF Unspoiled, Attaches, None
  <2> QED BY <1>1, <1>4, <1>5, <1>7, <2>5, FlagSteps
<1> QED BY <1>1, <1>2, <1>4, <1>5, <1>7, PageFacts, PageMoves

LEMMA SaveFlagKeeps == ASSUME RoleInv, NEW p \in Pages, SaveFlag(p) PROVE RoleInv'
<1>1. /\ page[p].pc = "save" /\ page' = [page EXCEPT ![p] = Over]
      /\ flags' = page[p].copy /\ app' = "live"
      /\ make' = IF app = "gone" THEN [make EXCEPT !.pc = "queued"] ELSE make
      /\ UNCHANGED <<todo, arnRows, role, failures, spoiled>>
  BY DEF SaveFlag, Turn
<1>2. todo = {} /\ app # "none"
  BY <1>1, BusyPage
<1>3. page[p].copy \in [Services -> BOOLEAN]
  BY <1>1, PageFacts, PageKinds DEF FlagPages
<1>4. make' \in [pc : MakePcs \cup {"none", "queued", "done"}, doc : SUBSET Arns]
  BY <1>1, PageFacts
<1>5. page'[p] = Over /\ \A q \in Pages \ {p} : page'[q] = page[q]
  BY <1>1, OverIs, PageFacts
<1>6. ASSUME ~ spoiled' PROVE Unspoiled'
  <2>1. /\ Unspoiled /\ app = "live"
        /\ \A q \in Pages \ {p} : page[q].pc \notin FlagPcs \cup DropPcs
    BY <1>1, <1>6, AloneFlag
  <2>2. Attaches'
    BY <1>1, <1>5, <2>1, OverIs DEF Unspoiled, Attaches, None
  <2> QED BY <1>1, <1>6, <2>1, <2>2, OverIs, FlagSteps
<1> QED BY <1>1, <1>2, <1>3, <1>4, <1>6, OverIs, PageFacts, PageMoves

LEMMA AskDeleteKeeps == ASSUME RoleInv, NEW p \in Pages, AskDelete(p) PROVE RoleInv'
<1> DEFINE next == [pc |-> "unrole"]
<1>1. /\ app = "live" /\ todo = {} /\ page[p].pc = "unused" /\ page' = [page EXCEPT ![p] = next]
      /\ UNCHANGED <<app, todo, arnRows, flags, role, make, failures>>
      /\ spoiled' = (spoiled \/ (Making \/ At(ArnPcs \cup FlagPcs \cup DropPcs, p)))
  BY DEF AskDelete, Turn, Overlaps
<1>2. next \in PageStates /\ next.pc = "unrole"
  BY DEF PageStates
<1> HIDE DEF next
<1>3. page'[p] = next /\ \A q \in Pages \ {p} : page'[q] = page[q]
  BY <1>1, <1>2, PageFacts
<1>4. ASSUME ~ spoiled' PROVE Unspoiled'
  <2>1. Unspoiled /\ ~ Making /\ (\A q \in Pages \ {p} : page[q].pc \notin ArnPcs \cup FlagPcs \cup DropPcs)
    BY <1>1, <1>4 DEF RoleInv, At
  <2>2. Exclusive' /\ Lifeless'
    BY <1>1, <1>2, <1>3, <2>1 DEF Unspoiled, Exclusive, Lifeless, Making, None
  <2>3. Trusts' /\ Inlines' /\ Makes'
    BY <1>1, <1>2, <1>3, <2>1 DEF Unspoiled, Trusts, Inlines, Makes, None
  <2>4. Attaches'
    BY <1>1, <1>2, <1>3, <2>1 DEF Unspoiled, Attaches, None
  <2> QED BY <2>2, <2>3, <2>4 DEF Unspoiled
<1>5. spoiled' \in BOOLEAN
  BY <1>1, PageFacts
<1> QED BY <1>1, <1>2, <1>4, <1>5, PageFacts, PageMoves

\* The deletion is alone.
LEMMA AloneDrop ==
  ASSUME RoleInv, ~ spoiled, NEW p \in Pages, page[p].pc \in DropPcs
  PROVE  /\ Unspoiled /\ app = "live" /\ todo = {} /\ ~ Making
         /\ \A q \in Pages \ {p} : page[q].pc \notin ArnPcs \cup FlagPcs \cup DropPcs
  BY DEF RoleInv, Unspoiled, Exclusive, Lifeless, Making, None, RoleFresh

LEMMA DeleteRoleKeeps == ASSUME RoleInv, NEW p \in Pages, DeleteRole(p) PROVE RoleInv'
<1> DEFINE next == To(p, "drop")
<1>1. /\ page[p].pc = "unrole" /\ page' = [page EXCEPT ![p] = next] /\ role' = NoRole
      /\ UNCHANGED <<app, todo, arnRows, flags, make, failures, spoiled>>
  BY DEF DeleteRole, Turn
<1>2. todo = {} /\ app # "none"
  BY <1>1, BusyPage
<1>3. next \in PageStates /\ next.pc = "drop"
  <2>1. page[p] \in [pc : DropPcs]
    BY <1>1, PageFacts, PageKinds DEF PageStates, ArnPages, FlagPages
  <2> QED BY <2>1 DEF To, PageStates
<1>4. NoRole \in Roles /\ ~ NoRole.exists
  BY DEF NoRole, Roles
<1> HIDE DEF next
<1>5. page'[p] = next /\ \A q \in Pages \ {p} : page'[q] = page[q]
  BY <1>1, <1>3, PageFacts
<1>6. ASSUME ~ spoiled' PROVE Unspoiled'
  <2>1. Unspoiled /\ app = "live" /\ todo = {} /\ ~ Making
        /\ (\A q \in Pages \ {p} : page[q].pc \notin ArnPcs \cup FlagPcs \cup DropPcs)
    BY <1>1, <1>6, AloneDrop
  <2>2. Exclusive' /\ Lifeless'
    BY <1>1, <1>3, <1>5, <2>1 DEF Unspoiled, Exclusive, Lifeless, Making, None
  <2>3. Trusts' /\ Inlines' /\ Makes'
    BY <1>1, <1>3, <1>4, <1>5, <2>1 DEF Trusts, Inlines, Makes, Making, None
  <2>4. Attaches'
    BY <1>1, <1>3, <1>4, <1>5, <2>1 DEF Attaches, None
  <2> QED BY <2>2, <2>3, <2>4 DEF Unspoiled
<1> QED BY <1>1, <1>2, <1>3, <1>4, <1>6, PageFacts, PageMoves

LEMMA DropAppKeeps == ASSUME RoleInv, NEW p \in Pages, DropApp(p) PROVE RoleInv'
<1>1. /\ page[p].pc = "drop" /\ page' = [page EXCEPT ![p] = Over] /\ app' = "gone" /\ arnRows' = {}
      /\ UNCHANGED <<todo, flags, role, make, failures, spoiled>>
  BY DEF DropApp, Turn
<1>2. todo = {} /\ app # "none"
  BY <1>1, BusyPage
<1>3. page'[p] = Over /\ \A q \in Pages \ {p} : page'[q] = page[q]
  BY <1>1, OverIs, PageFacts
<1>4. ASSUME ~ spoiled' PROVE Unspoiled'
  <2>1. Unspoiled /\ ~ Making /\ todo = {}
        /\ (\A q \in Pages \ {p} : page[q].pc \notin ArnPcs \cup FlagPcs \cup DropPcs)
    BY <1>1, <1>4, AloneDrop
  <2>2. role = NoRole /\ ~ NoRole.exists
    BY <1>1, <2>1 DEF Unspoiled, Lifeless, None, NoRole
  <2>3. Exclusive' /\ Lifeless'
    BY <1>1, <1>3, <2>1, <2>2, OverIs DEF Unspoiled, Exclusive, Lifeless, Making, None
  <2>4. Trusts' /\ Attaches' /\ Inlines' /\ Makes'
    BY <1>1, <1>3, <2>1, <2>2, OverIs DEF Trusts, Attaches, Inlines, Makes, Making, None
  <2> QED BY <2>3, <2>4 DEF Unspoiled
<1> QED BY <1>1, <1>2, <1>4, OverIs, PageFacts, PageMoves

LEMMA PageFailsKeeps == ASSUME RoleInv, NEW p \in Pages, PageFails(p) PROVE RoleInv'
<1>1. /\ page[p].pc \notin {"unused", "over"} /\ page' = [page EXCEPT ![p] = Over]
      /\ UNCHANGED <<app, todo, arnRows, flags, role, make>>
      /\ spoiled' = (spoiled \/ page[p].pc \in {"inline", "commit", "save", "drop"})
      /\ failures < MaxRoleFaults /\ failures' = failures + 1
  BY DEF PageFails, Overlaps
<1>2. todo = {} /\ app # "none" /\ failures' \in 0 .. MaxRoleFaults /\ spoiled' \in BOOLEAN
  BY <1>1, BusyPage, PageFacts, AppRoleAssumption
<1>3. page'[p] = Over /\ \A q \in Pages \ {p} : page'[q] = page[q]
  BY <1>1, OverIs, PageFacts
<1>4. ASSUME ~ spoiled' PROVE Unspoiled'
  <2>1. Unspoiled /\ page[p].pc \notin {"inline", "commit", "save", "drop"}
    BY <1>1, <1>4 DEF RoleInv
  <2>2. Exclusive' /\ Lifeless'
    BY <1>1, <1>2, <1>3, <2>1, OverIs DEF Unspoiled, Exclusive, Lifeless, Making, None
  <2>3. \A q \in Pages : page'[q].pc \in ArnPcs => page'[q] = page[q]
    BY <1>1, <1>3, OverIs
  <2>4. Trusts'
    BY <1>1, <1>3, <2>1, <2>3, OverIs DEF Unspoiled, Trusts, None, Sees, Added, Deleted, Open
  <2>5. Inlines' /\ Makes'
    BY <1>1, <1>3, <2>1, <2>3, OverIs DEF Unspoiled, Inlines, Makes, None, Sees, Added, Deleted, Open
  <2>6. Attaches'
    BY <1>1, <1>3, <2>1, OverIs DEF Unspoiled, Attaches, None
  <2> QED BY <2>2, <2>4, <2>5, <2>6 DEF Unspoiled
<1> QED BY <1>1, <1>2, <1>4, OverIs, PageFacts, PageMoves

LEMMA RoleStep == RoleInv /\ [RoleNext]_roleVars => RoleInv'
<1> SUFFICES ASSUME RoleInv, [RoleNext]_roleVars PROVE RoleInv'
  OBVIOUS
<1>1. CASE UNCHANGED roleVars
  <2>1. RoleTyped' /\ RoleFresh' /\ Apart' /\ spoiled' = spoiled
    BY <1>1 DEF RoleInv, roleVars, RoleTyped, RoleTypeOK, RoleFresh, Apart
  <2>2. ASSUME ~ spoiled PROVE Unspoiled'
    BY <1>1, <2>2 DEF RoleInv, roleVars, Unspoiled, Exclusive, Lifeless, Trusts, Attaches, Inlines, Makes,
       Making, None, Sees, Added, Deleted, Open
  <2> QED BY <2>1, <2>2 DEF RoleInv
<1>2. CASE RoleNext
  <2>1. ASSUME NEW arns \in SUBSET Arns, Register(arns) PROVE RoleInv'
    BY <2>1, RegisterKeeps
  <2>2. ASSUME NEW a \in Arns, InsertArn(a) PROVE RoleInv'
    BY <2>2, InsertArnKeeps
  <2>3. ASSUME RegistrationFails \/ TakeMake \/ CreateRole \/ ReadArns \/ PutPolicy \/ MakeFails
        PROVE  RoleInv'
    BY <2>3, RegistrationFailsKeeps, TakeMakeKeeps, CreateRoleKeeps, ReadArnsKeeps, PutPolicyKeeps,
       MakeFailsKeeps
  <2>4. ASSUME NEW p \in Pages, NEW arns \in SUBSET Arns, AskArns(p, arns) PROVE RoleInv'
    BY <2>4, AskArnsKeeps
  <2>5. ASSUME NEW p \in Pages, Wipe(p) \/ Insert(p) \/ UpdateTrust(p) \/ UpdateInline(p) \/ CommitArns(p)
        PROVE  RoleInv'
    BY <2>5, WipeKeeps, InsertKeeps, UpdateTrustKeeps, UpdateInlineKeeps, CommitArnsKeeps
  <2>6. ASSUME NEW p \in Pages, NEW s \in Services, NEW on \in BOOLEAN, AskFlag(p, s, on) PROVE RoleInv'
    BY <2>6, AskFlagKeeps
  <2>7. ASSUME NEW p \in Pages, \/ AttachPolicy(p) \/ SaveFlag(p) \/ AskDelete(p) \/ DeleteRole(p)
                                \/ DropApp(p) \/ PageFails(p)
        PROVE  RoleInv'
    BY <2>7, AttachPolicyKeeps, SaveFlagKeeps, AskDeleteKeeps, DeleteRoleKeeps, DropAppKeeps,
       PageFailsKeeps
  <2> QED BY <1>2, <2>1, <2>2, <2>3, <2>4, <2>5, <2>6, <2>7 DEF RoleNext
<1> QED BY <1>1, <1>2

LEMMA StillIsTrue == RoleInv => RoleSettles
<1> SUFFICES ASSUME RoleInv, RoleStill
             PROVE  /\ app = "gone" => ~ role.exists
                    /\ app = "live" /\ role.exists => /\ role.trust = ArnsOf(arnRows)
                                                      /\ role.attached = {s \in Services : flags[s]}
                    /\ app = "live" /\ make.pc = "done" => /\ role.exists
                                                           /\ role.inline = {} <=> arnRows = {}
  BY DEF RoleSettles
<1>1. Unspoiled /\ \A p \in Pages : page[p].pc \in {"unused", "over"}
  BY DEF RoleStill, RoleInv
<1>2. app = "gone" => ~ role.exists
  BY <1>1 DEF Unspoiled, Lifeless, NoRole
<1>3. app = "live" /\ role.exists => /\ role.trust = ArnsOf(arnRows)
                                     /\ role.attached = {s \in Services : flags[s]}
  BY <1>1 DEF Unspoiled, Trusts, Attaches, None
<1>4. app = "live" /\ make.pc = "done" => role.exists /\ (role.inline = {} <=> arnRows = {})
  BY <1>1 DEF Unspoiled, Inlines, None
<1> QED BY <1>2, <1>3, <1>4

\* However many pages, ARNs and services, and however often the task fails and
\* runs again: with nothing under way and nothing overlapped or failed half done,
\* the role of a live app trusts the rows' ARNs and has the policies switched on
\* (handlers/app.py CreateAppAWSRole, views/app.py UpdateCloudPlatformRoleArn).
THEOREM RoleFollowsRows == RoleSpec => []RoleSettles
BY StillIsTrue, RoleStart, RoleStep, PTL DEF RoleSpec

\* The rows, the role and the app's state keep their types.
THEOREM RoleIsTyped == RoleSpec => []RoleTypeOK
<1>1. RoleInv => RoleTypeOK
  BY DEF RoleInv, RoleTyped
<1> QED BY <1>1, RoleStart, RoleStep, PTL DEF RoleSpec

HIDE DEF ArnPcs, FlagPcs, DropPcs, MakePcs

-----------------------------------------------------------------------------
(***************************************************************************)
(* Together: Platform                                                      *)
(***************************************************************************)

\* A step of one part is a step or a stutter of each.
LEMMA PlatformStepsPart ==
  ASSUME [PlatformNext]_platformVars
  PROVE  /\ [Next]_vars /\ [StatusNext]_statusVars /\ [RoleNext]_roleVars /\ [GrantsNext]_grantVars
         /\ [FolderNext]_folderVars /\ [ParametersNext]_paramVars /\ [CustomersNext]_customerVars
         /\ [ClearUpNext]_clearVars
<1>1. CASE UNCHANGED platformVars BY <1>1 DEF platformVars
<1>2. CASE PlatformNext BY <1>2 DEF PlatformNext
<1> QED BY <1>1, <1>2

\* Each part behaves as its own specification says.
THEOREM PlatformParts ==
  PlatformSpec =>
    /\ Spec /\ StatusInit /\ [][StatusNext]_statusVars /\ RoleSpec /\ GrantsSpec
    /\ FolderSpec /\ ParametersSpec /\ CustomersSpec /\ ClearUpSpec
<1>1. PlatformInit => /\ Init /\ StatusInit /\ RoleInit /\ GrantsInit /\ FolderInit
                      /\ ParametersInit /\ CustomersInit /\ ClearUpInit
  BY DEF PlatformInit
<1> QED BY <1>1, PlatformStepsPart, PTL
  DEF PlatformSpec, Spec, RoleSpec, GrantsSpec, FolderSpec, ParametersSpec, CustomersSpec, ClearUpSpec

\* Every variable of every part keeps its type.
THEOREM PlatformTyped == PlatformSpec => []PlatformTypeOK
<1>1. /\ FolderInv => FolderTypeOK
      /\ ParametersInv => ParametersTypeOK
      /\ ClearInv => ClearUpTypeOK
  BY DEF FolderInv, ParametersInv, ClearInv
<1>2. FolderSpec => []FolderTypeOK
  BY <1>1, FolderStarts, FolderStep, PTL DEF FolderSpec
<1>3. ParametersSpec => []ParametersTypeOK
  BY <1>1, ParametersStart, ParametersStep, PTL DEF ParametersSpec
<1>4. ClearUpSpec => []ClearUpTypeOK
  BY <1>1, ClearStart, ClearStep, PTL DEF ClearUpSpec
<1>5. TypeOK /\ StatusTypeOK /\ RoleTypeOK /\ GrantsTypeOK /\ FolderTypeOK /\ ParametersTypeOK
      /\ CustomersTypeOK /\ ClearUpTypeOK => PlatformTypeOK
  BY DEF PlatformTypeOK
<1> QED BY <1>2, <1>3, <1>4, <1>5, PlatformParts, DeploymentsTyped, StatusTyped, RoleIsTyped,
  GrantsTyped, CustomersTyped, PTL

\* What the run of Platform checks holds of it, whatever its parts' sizes.
THEOREM PlatformKeeps ==
  PlatformSpec =>
    /\ [](/\ RowsTellReleases /\ StatusesSettle /\ RoleSettles /\ GrantsUsable
          /\ LatestKept /\ StringsFollowRows /\ PagesAreExact)
    /\ ClearUpSpares
BY PlatformParts, DeploymentsTold, PagesSettle, RoleFollowsRows, GrantsEven, LatestIsKept,
   StringsFollow, ListingsAreExact, ClearedUpUnused, PTL
=============================================================================
