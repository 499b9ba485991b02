----------------------------- MODULE StartupProofs -----------------------------
(***************************************************************************)
(* Theorems about Startup, for any number of processes, releases, jobs,    *)
(* starts and crashes.                                                     *)
(***************************************************************************)
EXTENDS Startup, NaturalsInduction, WellFoundedInduction, TLAPS

\* What the platform tasks do by themselves touches nothing but polling and handler.
LEMMA PlatformsTouchLittle ==
  ASSUME NEW i, Platform(i)
  PROVE  UNCHANGED <<pc, conf, script, ready, admission, duties, shared, counts>>
BY DEF Platform, TakeSignals, SignalStopsPolling, PlatformEnds, Unpolled

------------------------------------------------------------------------------
(* The lock and the database.                                               *)

\* The steps at which a process has the lock, and those at which it has the database open.
Locked  == (StartingUp \ {"lock"}) \cup {"failed"} \cup Looping \cup {"closing", "releasing"}
Opened  == {"check", "script", "record", "probe"} \cup Looping \cup {"closing"}
Places  == Locked \cup {"off", "lock", "exiting"}

LockInv ==
  /\ pc \in [Instances -> Places]
  /\ \A i \in Instances : pc[i] \in Locked => lock = i
  /\ \A i \in Instances : pc[i] \in Opened => i \in conns
  /\ conns \subseteq {i \in Instances : pc[i] \in Opened \cup {"failed"}}

\* What a process does while it stays at a step of the same kind.
LEMMA SameHold ==
  ASSUME LockInv, NEW i \in Instances, NEW next \in Places, Goto(i, next),
         UNCHANGED <<lock, conns>>,
         next \in Locked <=> pc[i] \in Locked,
         next \in Opened => pc[i] \in Opened,
         pc[i] \in Opened => next \in Opened \cup {"failed"},
         pc[i] = "failed" => next = "failed"
  PROVE  LockInv'
<1>1. /\ pc' \in [Instances -> Places] /\ pc'[i] = next
      /\ \A k \in Instances : k # i => pc'[k] = pc[k]
  BY DEF LockInv, Goto
<1>2. \A k \in Instances : pc'[k] \in Locked <=> pc[k] \in Locked
  BY <1>1
<1>3. \A k \in Instances : pc'[k] \in Opened => pc[k] \in Opened
  BY <1>1
<1>4. \A k \in Instances : pc[k] \in Opened \cup {"failed"} => pc'[k] \in Opened \cup {"failed"}
  BY <1>1
<1> QED
  BY <1>1, <1>2, <1>3, <1>4 DEF LockInv

\* The end of a process gives up what it had.
LEMMA EndingLetsGo ==
  ASSUME LockInv, NEW i \in Instances, Ends(i)
  PROVE  LockInv'
<1>1. /\ pc' = [pc EXCEPT ![i] = "off"] /\ conns' = conns \ {i}
      /\ lock' = IF lock = i THEN Nobody ELSE lock
  BY DEF Ends, Goto
<1>2. /\ pc' \in [Instances -> Places] /\ pc'[i] = "off"
      /\ \A k \in Instances : k # i => pc'[k] = pc[k]
  BY <1>1 DEF LockInv, Places
<1>3. "off" \notin Locked /\ "off" \notin Opened
  BY DEF Locked, Opened, StartingUp, Looping
<1> QED
  BY <1>1, <1>2, <1>3 DEF LockInv

\* The steps of a start.
LEMMA BootstrapLocks ==
  ASSUME LockInv, NEW i \in Instances, Bootstrap(i)
  PROVE  LockInv'
<1> USE DEF Locked, Opened, Places, StartingUp, Looping
<1>1. CASE LoadConfig(i)
  BY <1>1, SameHold DEF LoadConfig, shared
<1>2. CASE AcquireLock(i)
  <2>1. /\ pc[i] = "lock" /\ lock = Nobody /\ lock' = i /\ conns' = conns
        /\ pc' = [pc EXCEPT ![i] = "open"]
    BY <1>2 DEF AcquireLock, Goto
  <2>2. \A k \in Instances : pc[k] \notin Locked
    BY <2>1, StartupAssumption DEF LockInv
  <2> QED
    BY <2>1, <2>2 DEF LockInv
<1>3. CASE LockRefused(i) \/ FailedEnds(i)
  BY <1>3, EndingLetsGo DEF LockRefused, FailedEnds
<1>4. CASE OpenDatabase(i)
  <2>1. /\ pc[i] = "open" /\ lock' = lock /\ conns' = conns \cup {i}
        /\ pc' = [pc EXCEPT ![i] = "check"]
    BY <1>4 DEF OpenDatabase, Goto
  <2> QED
    BY <2>1 DEF LockInv
<1>5. CASE CheckVersions(i) \/ RecordMigration(i) \/ RunStatement(i) \/ SelfTest(i)
           \/ StartupFails(i)
  <2>1. PICK next \in {"probe", "script", "failed", "record", "serving"} : Goto(i, next)
    BY <1>5 DEF CheckVersions, RecordMigration, RunStatement, SelfTest, StartupFails, NextScript
  <2>2. UNCHANGED <<lock, conns>>
    BY <1>5 DEF CheckVersions, RecordMigration, RunStatement, SelfTest, StartupFails, shared
  <2>3. \/ pc[i] \in {"check", "script", "record", "probe"}
        \/ pc[i] = "open" /\ next = "failed"
    BY <1>5, <2>1 DEF CheckVersions, RecordMigration, RunStatement, SelfTest, StartupFails, Goto, LockInv
  <2> QED
    BY <2>1, <2>2, <2>3, SameHold
<1> QED
  BY <1>1, <1>2, <1>3, <1>4, <1>5 DEF Bootstrap

\* Serving and the end.
LEMMA TheRestLocks ==
  ASSUME LockInv, NEW i \in Instances, Serve(i) \/ Signal(i) \/ SiteFails(i) \/ Shutdown(i) \/ Crash(i)
  PROVE  LockInv'
<1> USE DEF Locked, Opened, Places, StartingUp, Looping
<1>1. CASE Serve(i) \/ Kill(i)
  <2>1. UNCHANGED <<pc, lock, conns>>
    BY <1>1, PlatformsTouchLittle DEF Serve, Spawn, StartPump, Admit, Insert, Claim, Pump, Kill,
       shared
  <2> QED
    BY <2>1 DEF LockInv
<1>2. CASE Signal(i) \/ SiteFails(i) \/ BeginShutdown(i) \/ Gather(i) \/ CancelTasks(i)
  <2>1. PICK next \in {"stopping", "unbound", "killing", "gathering", "closing"} : Goto(i, next)
    BY <1>2 DEF Signal, SiteFails, BeginShutdown, Gather, CancelTasks
  <2>2. pc[i] \in Looping /\ UNCHANGED <<lock, conns>>
    BY <1>2 DEF Signal, SiteFails, BeginShutdown, Gather, CancelTasks, shared
  <2> QED
    BY <2>1, <2>2, SameHold
<1>3. CASE CloseDatabase(i)
  <2>1. /\ pc[i] = "closing" /\ lock' = lock /\ conns' = conns \ {i}
        /\ pc' = [pc EXCEPT ![i] = "releasing"]
    BY <1>3 DEF CloseDatabase, Goto
  <2> QED
    BY <2>1 DEF LockInv
<1>4. CASE ReleaseLock(i)
  <2>1. /\ pc[i] = "releasing" /\ lock' = Nobody /\ conns' = conns
        /\ pc' = [pc EXCEPT ![i] = "exiting"]
    BY <1>4 DEF ReleaseLock, Goto
  <2>2. \A k \in Instances : k # i => pc[k] \notin Locked
    BY <2>1 DEF LockInv
  <2> QED
    BY <2>1, <2>2 DEF LockInv
<1>5. CASE Exit(i) \/ Crash(i)
  BY <1>5, EndingLetsGo DEF Exit, Crash
<1> QED
  BY <1>1, <1>2, <1>3, <1>4, <1>5 DEF Shutdown

\* Whoever steps.
LEMMA LockKept ==
  ASSUME LockInv, [Next]_vars
  PROVE  LockInv'
<1>1. CASE UNCHANGED vars
  BY <1>1 DEF vars, shared, LockInv
<1>2. CASE \E j \in Jobs : WorkerExits(j)
  BY <1>2 DEF WorkerExits, LockInv
<1>3. CASE \E i \in Instances : \/ Bootstrap(i) \/ Serve(i) \/ Signal(i) \/ SiteFails(i)
                                \/ Shutdown(i) \/ Crash(i)
  BY <1>3, BootstrapLocks, TheRestLocks
<1> QED
  BY <1>1, <1>2, <1>3 DEF Next

\* To begin with, nobody has anything.
LEMMA LockStarts ==
  ASSUME Init
  PROVE  LockInv
BY DEF Init, LockInv, Places, Locked, Opened, StartingUp, Looping

\* Whoever has the database open holds the lock, in any order of starts, failures, ends and
\* crashes (InstanceLock.acquire, bootstrap, shutdown_runtime).
THEOREM TheDatabaseIsLocked == Spec => []DatabaseIsLocked
<1>1. LockInv => DatabaseIsLocked
  BY DEF LockInv, DatabaseIsLocked, Locked, Opened, StartingUp, Looping
<1> QED
  BY <1>1, LockStarts, LockKept, PTL DEF Spec

------------------------------------------------------------------------------
(* The schema.                                                              *)

\* What is true of process i and its release.
Sound(i) ==
  LET s == script[i]
      r == conf[i].release
  IN /\ pc[i] # "off" => r \in Releases
     /\ pc[i] = "script" => s.version \in (1 .. r) \ recorded /\ s.pos \in 1 .. Statements[s.version]
     /\ pc[i] = "record" => s.version \in 1 .. r /\ schema[s.version] = Statements[s.version]
     /\ pc[i] \in {"script", "record", "probe"} \cup Looping => recorded \subseteq 1 .. r
     /\ pc[i] \in {"probe"} \cup Looping => recorded = 1 .. r

SchemaInv ==
  /\ schema \in [Versions -> Nat] /\ recorded \subseteq Versions
  /\ conf = [i \in Instances |-> conf[i]]
  /\ script \in [Instances -> [version : Nat, pos : Nat]]
  /\ \A v \in recorded : schema[v] = Statements[v]
  /\ \A i \in Instances : Sound(i)

\* CHOOSE finds the least script.
LEMMA LeastIsThere ==
  ASSUME NEW S, S \subseteq Nat, S # {}
  PROVE  \E v \in S : \A w \in S : v <= w
<1> DEFINE R == OpToRel(<, Nat)
<1>1. \A x, y \in Nat : <<x, y>> \in R <=> x < y
  BY DEF OpToRel
<1>2. IsWellFoundedOn(R, Nat)
  BY NatLessThanWellFounded
<1> HIDE DEF R
<1>3. \E v \in S : \A w \in S : ~ (<<w, v>> \in R)
  BY <1>2, WFMin, Zenon
<1>5. PICK v \in S : \A w \in S : <<w, v>> \notin R
  BY <1>3
<1>4. \A w \in S : v <= w
  <2> TAKE w \in S
  <2>1. v \in Nat /\ w \in Nat /\ ~(w < v)
    BY <1>1, <1>5
  <2> QED
    BY <2>1
<1> QED
  BY <1>4

\* What NextScript chooses.
LEMMA NextIsLeft ==
  ASSUME NEW i, NEW done, NextScript(i, done), conf[i].release \in Nat
  PROVE  \/ /\ Pending(i) \ done = {} /\ Goto(i, "probe")
            /\ script' = [script EXCEPT ![i] = NoScript]
         \/ \E v \in Pending(i) \ done :
              /\ Goto(i, "script")
              /\ script' = [script EXCEPT ![i] = [version |-> v, pos |-> 1]]
<1> DEFINE left == Pending(i) \ done
           v == CHOOSE v \in left : \A w \in left : v <= w
<1>1. CASE left = {}
  BY <1>1 DEF NextScript
<1>2. CASE left # {}
  <2>1. left \subseteq Nat
    BY DEF Pending
  <2>2. v \in left
    BY <1>2, <2>1, LeastIsThere
  <2>3. Goto(i, "script") /\ script' = [script EXCEPT ![i] = [version |-> v, pos |-> 1]]
    BY <1>2 DEF NextScript
  <2> QED
    BY <2>2, <2>3
<1> QED
  BY <1>1, <1>2

\* Nobody else is where the schema matters.
LEMMA Alone ==
  ASSUME LockInv, NEW i \in Instances, pc[i] \in Locked, NEW k \in Instances, k # i
  PROVE  pc[k] \notin Locked
BY DEF LockInv

\* A step that changes neither tables nor what the process loaded.
LEMMA MoveOn ==
  ASSUME LockInv, SchemaInv, NEW i \in Instances, NEW next, Goto(i, next),
         UNCHANGED <<conf, script, tables>>, pc[i] # "off",
         next \notin {"script", "record", "probe"},
         next \in Looping => pc[i] \in Looping \cup {"probe"}
  PROVE  SchemaInv'
<1>1. /\ pc'[i] = next /\ \A k \in Instances : k # i => pc'[k] = pc[k]
      /\ UNCHANGED <<schema, recorded, conf, script>>
  BY DEF Goto, LockInv, tables
<1>2. \A k \in Instances : k # i => (Sound(k)' <=> Sound(k))
  BY <1>1 DEF Sound
<1>3. Sound(i)'
  BY <1>1 DEF Sound, SchemaInv
<1> QED
  BY <1>1, <1>2, <1>3 DEF SchemaInv

\* The end of a process leaves the tables as they are.
LEMMA EndingLeavesTables ==
  ASSUME LockInv, SchemaInv, NEW i \in Instances, Ends(i)
  PROVE  SchemaInv'
<1>1. /\ pc'[i] = "off" /\ \A k \in Instances : k # i => pc'[k] = pc[k]
      /\ UNCHANGED <<schema, recorded>>
  BY DEF Ends, Goto, LockInv, tables
<1>2. /\ conf' = [k \in Instances |-> conf'[k]]
      /\ \A k \in Instances : k # i => conf'[k] = conf[k]
  BY DEF Ends, SchemaInv
<1>3. NoScript \in [version : Nat, pos : Nat] /\ script' = [script EXCEPT ![i] = NoScript]
  BY DEF Ends, NoScript
<1>4. /\ script' \in [Instances -> [version : Nat, pos : Nat]]
      /\ \A k \in Instances : k # i => script'[k] = script[k]
  BY <1>3 DEF SchemaInv
<1>5. \A k \in Instances : k # i => (Sound(k)' <=> Sound(k))
  BY <1>1, <1>2, <1>4 DEF Sound
<1>6. Sound(i)'
  BY <1>1 DEF Sound, Looping
<1> QED
  BY <1>1, <1>2, <1>4, <1>5, <1>6 DEF SchemaInv

\* The others, while a process that has the lock migrates.
LEMMA OthersStaySound ==
  ASSUME LockInv, SchemaInv, NEW i \in Instances, pc[i] \in Locked, NEW next, Goto(i, next),
         conf' = conf, NEW k \in Instances, k # i
  PROVE  Sound(k)'
<1>1. pc'[k] = pc[k] /\ pc[k] \notin Locked
  BY Alone DEF Goto, LockInv
<1>2. pc[k] # "off" => conf[k].release \in Releases
  BY DEF SchemaInv, Sound
<1> QED
  BY <1>1, <1>2 DEF Sound, Locked, StartingUp, Looping

\* Checking and recording lead to a script that is left, or to the whole schema.
LEMMA ScriptIsNext ==
  ASSUME LockInv, SchemaInv, NEW i \in Instances, NEW done, NextScript(i, done),
         pc[i] \in {"check", "record"}, UNCHANGED <<conf, schema>>,
         recorded' = recorded \cup done, conf[i].release \in Releases,
         recorded \subseteq 1 .. conf[i].release, done \subseteq 1 .. conf[i].release,
         \A v \in done : schema[v] = Statements[v],
         \A r \in Releases : r \in Nat /\ 1 .. r \subseteq Versions,
         \A v \in Versions : Statements[v] \in Nat \ {0}
  PROVE  SchemaInv'
<1> DEFINE r == conf[i].release
           left == Pending(i) \ done
<1>1. left = (1 .. r) \ recorded'
  BY DEF Pending
<1>2. recorded' \subseteq 1 .. r /\ recorded' \subseteq Versions
  OBVIOUS
<1>3. \A v \in recorded' : schema'[v] = Statements[v]
  BY DEF SchemaInv
<1>4. PICK next \in {"probe", "script"}, s \in [version : Nat, pos : Nat] :
        /\ Goto(i, next) /\ script' = [script EXCEPT ![i] = s]
        /\ next = "probe" => recorded' = 1 .. r
        /\ next = "script" => s.version \in left /\ s.pos = 1
  <2>1. CASE left = {} /\ Goto(i, "probe") /\ script' = [script EXCEPT ![i] = NoScript]
    <3>1. NoScript \in [version : Nat, pos : Nat]
      BY DEF NoScript
    <3> QED
      BY <1>1, <1>2, <2>1, <3>1
  <2>2. CASE \E v \in left : /\ Goto(i, "script")
                             /\ script' = [script EXCEPT ![i] = [version |-> v, pos |-> 1]]
    <3>1. PICK v \in left : /\ Goto(i, "script")
                            /\ script' = [script EXCEPT ![i] = [version |-> v, pos |-> 1]]
      BY <2>2
    <3>2. [version |-> v, pos |-> 1] \in [version : Nat, pos : Nat]
      BY <1>1
    <3> QED
      BY <3>1, <3>2
  <2> QED
    BY <2>1, <2>2, NextIsLeft
<1>5. pc'[i] = next
  BY <1>4 DEF Goto, LockInv
<1>6. script' \in [Instances -> [version : Nat, pos : Nat]] /\ script'[i] = s
  BY <1>4 DEF SchemaInv
<1> HIDE DEF left
<1>7. Sound(i)'
  <2>1. CASE next = "probe"
    BY <1>4, <1>5, <2>1 DEF Sound, Looping
  <2>2. CASE next = "script"
    <3>1. s.version \in (1 .. r) \ recorded' /\ s.pos = 1
      BY <1>1, <1>4, <2>2
    <3>2. s.pos \in 1 .. Statements[s.version]
      BY <3>1
    <3> QED
      BY <1>2, <1>5, <1>6, <2>2, <3>1, <3>2 DEF Sound, Looping
  <2> QED
    BY <2>1, <2>2
<1>8. \A k \in Instances : k # i => Sound(k)'
  BY <1>4, OthersStaySound DEF Locked, StartingUp
<1> QED
  BY <1>2, <1>3, <1>6, <1>7, <1>8 DEF SchemaInv

\* The steps of a start.
LEMMA BootstrapMigrates ==
  ASSUME LockInv, SchemaInv, NEW i \in Instances, Bootstrap(i)
  PROVE  SchemaInv'
<1>0. \A r \in Releases : r \in Nat /\ 1 .. r \subseteq Versions
  BY StartupAssumption DEF Versions
<1>a. conf[i].release \in Releases \/ pc[i] = "off"
  BY DEF SchemaInv, Sound
<1>s. \A v \in Versions : Statements[v] \in Nat \ {0}
  BY StartupAssumption DEF Versions
<1>1. CASE LoadConfig(i)
  <2>1. PICK c \in Configs, r \in Releases :
          conf' = [conf EXCEPT ![i] = [platforms |-> Enabled(c), release |-> r]]
    BY <1>1 DEF LoadConfig
  <2>2. /\ pc'[i] = "lock" /\ \A k \in Instances : k # i => pc'[k] = pc[k]
        /\ UNCHANGED <<schema, recorded, script>>
    BY <1>1 DEF LoadConfig, Goto, LockInv, shared, tables
  <2>3. /\ conf' = [k \in Instances |-> conf'[k]] /\ conf'[i].release = r
        /\ \A k \in Instances : k # i => conf'[k] = conf[k]
    BY <2>1 DEF SchemaInv
  <2>4. \A k \in Instances : k # i => (Sound(k)' <=> Sound(k))
    BY <2>2, <2>3 DEF Sound
  <2>5. Sound(i)'
    BY <2>2, <2>3 DEF Sound, Looping
  <2> QED
    BY <2>2, <2>3, <2>4, <2>5 DEF SchemaInv
<1>2. CASE LockRefused(i) \/ FailedEnds(i)
  BY <1>2, EndingLeavesTables DEF LockRefused, FailedEnds
<1>3. CASE AcquireLock(i) \/ OpenDatabase(i) \/ SelfTest(i) \/ StartupFails(i)
  <2>1. PICK next \in {"open", "check", "serving", "failed"} : Goto(i, next)
    BY <1>3 DEF AcquireLock, OpenDatabase, SelfTest, StartupFails
  <2>2. UNCHANGED <<conf, script, tables>> /\ pc[i] # "off"
    BY <1>3 DEF AcquireLock, OpenDatabase, SelfTest, StartupFails, StartingUp, local, shared
  <2>3. pc'[i] = next
    BY <2>1 DEF Goto, LockInv
  <2>4. next = "serving" => pc[i] = "probe"
    BY <1>3, <2>3 DEF AcquireLock, OpenDatabase, SelfTest, StartupFails, Goto, LockInv
  <2> QED
    BY <2>1, <2>2, <2>4, MoveOn DEF Looping
<1>4. CASE CheckVersions(i)
  <2>1. pc[i] = "check" /\ UNCHANGED <<conf, tables>>
    BY <1>4 DEF CheckVersions, shared
  <2>2. CASE recorded \subseteq 1 .. conf[i].release
    <3>1. NextScript(i, {})
      BY <1>4, <2>2 DEF CheckVersions
    <3>2. conf[i].release \in Releases
      BY <1>a, <2>1
    <3>3. UNCHANGED schema /\ recorded' = recorded \cup {}
      BY <2>1 DEF tables
    <3> QED
      BY <1>0, <1>s, <2>1, <2>2, <3>1, <3>2, <3>3, ScriptIsNext
  <2>3. CASE ~(recorded \subseteq 1 .. conf[i].release)
    <3>1. Goto(i, "failed") /\ UNCHANGED script
      BY <1>4, <2>3 DEF CheckVersions
    <3> QED
      BY <2>1, <3>1, MoveOn DEF Looping
  <2> QED
    BY <2>2, <2>3
<1>5. CASE RunStatement(i)
  <2> DEFINE v == script[i].version
             n == script[i].pos
  <2>1. /\ pc[i] = "script" /\ UNCHANGED <<conf, recorded>>
        /\ v \in (1 .. conf[i].release) \ recorded /\ n \in 1 .. Statements[v]
        /\ v \in Versions /\ Statements[v] \in Nat /\ n \in Nat
    BY <1>0, <1>a, <1>s, <1>5 DEF RunStatement, SchemaInv, Sound
  <2>2. CASE schema[v] >= n
    <3>1. Goto(i, "failed") /\ UNCHANGED <<script, schema>>
      BY <1>5, <2>2 DEF RunStatement
    <3> QED
      BY <2>1, <3>1, MoveOn DEF Looping, tables
  <2>3. CASE ~(schema[v] >= n)
    <3> DEFINE next == IF n = Statements[v] THEN "record" ELSE "script"
    <3>1. /\ schema' = [schema EXCEPT ![v] = n] /\ script' = [script EXCEPT ![i].pos = n + 1]
          /\ Goto(i, next)
      BY <1>5, <2>3 DEF RunStatement
    <3> HIDE DEF next, v, n
    <3>2. PICK m \in Nat : m = n + 1
      BY <2>1
    <3>3. /\ script' \in [Instances -> [version : Nat, pos : Nat]]
          /\ script'[i].version = v /\ script'[i].pos = m
      <4>1. script' = [script EXCEPT ![i].pos = m]
        BY <3>1, <3>2
      <4> QED
        BY <4>1 DEF SchemaInv, v
    <3>4. /\ schema' \in [Versions -> Nat] /\ schema'[v] = n
          /\ \A w \in Versions : w # v => schema'[w] = schema[w]
      BY <2>1, <3>1 DEF SchemaInv
    <3>5. pc'[i] = next
      BY <3>1 DEF Goto, LockInv
    <3>6. recorded \subseteq 1 .. conf[i].release /\ recorded \subseteq Versions
      BY <2>1 DEF SchemaInv, Sound
    <3>7. conf[i].release \in Releases
      BY <1>a, <2>1
    <3>8. Sound(i)'
      <4>1. CASE n = Statements[v]
        <5>1. pc'[i] = "record"
          BY <3>5, <4>1 DEF next
        <5> QED
          BY <2>1, <3>3, <3>4, <3>6, <3>7, <4>1, <5>1 DEF Sound, Looping
      <4>2. CASE n # Statements[v]
        <5>1. pc'[i] = "script" /\ m \in 1 .. Statements[v]
          BY <2>1, <3>2, <3>5, <4>2 DEF next
        <5> QED
          BY <2>1, <3>3, <3>4, <3>6, <3>7, <5>1 DEF Sound, Looping
      <4> QED
        BY <4>1, <4>2
    <3>9. \A k \in Instances : k # i => Sound(k)'
      BY <2>1, <3>1, OthersStaySound DEF Locked, StartingUp
    <3> QED
      BY <2>1, <3>3, <3>4, <3>6, <3>8, <3>9 DEF SchemaInv
  <2> QED
    BY <2>2, <2>3
<1>6. CASE RecordMigration(i)
  <2> DEFINE v == script[i].version
  <2>1. /\ pc[i] = "record" /\ UNCHANGED <<conf, schema>> /\ recorded' = recorded \cup {v}
        /\ NextScript(i, {v}) /\ v \in 1 .. conf[i].release /\ schema[v] = Statements[v]
        /\ recorded \subseteq 1 .. conf[i].release
    BY <1>6 DEF RecordMigration, SchemaInv, Sound
  <2> QED
    BY <1>0, <1>a, <1>s, <2>1, ScriptIsNext
<1> QED
  BY <1>1, <1>2, <1>3, <1>4, <1>5, <1>6 DEF Bootstrap

\* Everything after the start leaves the tables alone.
LEMMA TheRestSparesSchema ==
  ASSUME LockInv, SchemaInv, NEW i \in Instances,
         Serve(i) \/ Signal(i) \/ SiteFails(i) \/ Shutdown(i) \/ Crash(i)
  PROVE  SchemaInv'
<1>1. CASE Serve(i) \/ Kill(i)
  <2>1. UNCHANGED <<pc, conf, script, schema, recorded>>
    BY <1>1, PlatformsTouchLittle DEF Serve, Spawn, StartPump, Admit, Insert, Claim, Pump, Kill,
       shared, local, tables
  <2> QED
    BY <2>1 DEF SchemaInv, Sound
<1>2. CASE Signal(i) \/ SiteFails(i) \/ BeginShutdown(i) \/ Gather(i) \/ CancelTasks(i)
           \/ CloseDatabase(i) \/ ReleaseLock(i)
  <2>1. PICK next \in {"stopping", "unbound", "killing", "gathering", "closing", "releasing",
                       "exiting"} : Goto(i, next)
    BY <1>2 DEF Signal, SiteFails, BeginShutdown, Gather, CancelTasks, CloseDatabase, ReleaseLock
  <2>2. UNCHANGED <<conf, script, tables>> /\ pc[i] # "off"
    BY <1>2 DEF Signal, SiteFails, BeginShutdown, Gather, CancelTasks, CloseDatabase,
                ReleaseLock, shared, local
  <2>3. next \in Looping => pc[i] \in Looping
    <3>1. pc'[i] = next
      BY <2>1 DEF Goto, LockInv
    <3> QED
      BY <1>2, <3>1 DEF Signal, SiteFails, BeginShutdown, Gather, CancelTasks, CloseDatabase,
                        ReleaseLock, Goto, LockInv, Looping
  <2> QED
    BY <2>1, <2>2, <2>3, MoveOn
<1>3. CASE Exit(i) \/ Crash(i)
  BY <1>3, EndingLeavesTables DEF Exit, Crash
<1> QED
  BY <1>1, <1>2, <1>3 DEF Shutdown

\* A process serves only on the whole schema of its release, and what is recorded is there,
\* whatever earlier starts left half done (apply_migrations).
THEOREM ServedSchemasAreWhole == Spec => []ServedSchemaIsWhole
<1>1. Init => SchemaInv
  <2> SUFFICES ASSUME Init
               PROVE  SchemaInv
    OBVIOUS
  <2>1. /\ schema \in [Versions -> Nat] /\ recorded = {} /\ conf = [i \in Instances |-> conf[i]]
        /\ script \in [Instances -> [version : Nat, pos : Nat]]
    BY DEF Init, NoScript
  <2>2. \A i \in Instances : Sound(i)
    BY DEF Init, Sound, Looping
  <2> QED
    BY <2>1, <2>2 DEF SchemaInv
<1>2. LockInv /\ SchemaInv /\ [Next]_vars => SchemaInv'
  <2> SUFFICES ASSUME LockInv, SchemaInv, [Next]_vars
               PROVE  SchemaInv'
    OBVIOUS
  <2>1. CASE UNCHANGED vars \/ \E j \in Jobs : WorkerExits(j)
    <3>1. UNCHANGED <<pc, conf, script, schema, recorded>>
      BY <2>1 DEF vars, local, shared, tables, WorkerExits
    <3> QED
      BY <3>1 DEF SchemaInv, Sound
  <2> QED
    BY <2>1, BootstrapMigrates, TheRestSparesSchema DEF Next
<1>3. SchemaInv => ServedSchemaIsWhole
  BY DEF SchemaInv, Sound, ServedSchemaIsWhole
<1> QED
  BY <1>1, <1>2, <1>3, LockStarts, LockKept, PTL DEF Spec

------------------------------------------------------------------------------
(* Rows: what is not inserted yet has no worker and is not launched.        *)

RowInv ==
  /\ worker = [j \in Jobs |-> worker[j]] /\ row = [j \in Jobs |-> row[j]]
  /\ accepted = [i \in Instances |-> accepted[i]]
  /\ launching \in [Instances -> Jobs \cup {NoJob}]
  /\ \A i \in Instances, j \in Jobs : j \in accepted[i] => row[j] = "absent"
  /\ \A i, k \in Instances, j \in Jobs : j \in accepted[i] /\ j \in accepted[k] => i = k
  /\ \A j \in Jobs : row[j] = "absent" =>
       worker[j] = NoWorker /\ \A i \in Instances : launching[i] # j

\* A step that leaves jobs without a row alone.
LEMMA RowsStay ==
  ASSUME RowInv, UNCHANGED <<row, accepted>>, worker' = [j \in Jobs |-> worker'[j]],
         \A j \in Jobs : worker[j] = NoWorker /\ row[j] = "absent" => worker'[j] = NoWorker,
         launching' \in [Instances -> Jobs \cup {NoJob}],
         \A i \in Instances : launching'[i] = launching[i] \/ launching'[i] = NoJob
  PROVE  RowInv'
BY StartupAssumption DEF RowInv

\* The end of a process.
LEMMA EndingKeepsRows ==
  ASSUME RowInv, NEW i \in Instances, Ends(i)
  PROVE  RowInv'
<1>1. /\ row' = row /\ worker' = Outlived(i)
      /\ accepted' = [accepted EXCEPT ![i] = {}] /\ launching' = [launching EXCEPT ![i] = NoJob]
  BY DEF Ends
<1>2. /\ worker' = [j \in Jobs |-> worker'[j]]
      /\ \A j \in Jobs : worker[j] = NoWorker => worker'[j] = NoWorker
  BY <1>1, StartupAssumption DEF Outlived, NoWorker
<1>3. /\ accepted' = [k \in Instances |-> accepted'[k]] /\ accepted'[i] = {}
      /\ \A k \in Instances : k # i => accepted'[k] = accepted[k]
      /\ launching' \in [Instances -> Jobs \cup {NoJob}] /\ launching'[i] = NoJob
      /\ \A k \in Instances : k # i => launching'[k] = launching[k]
  BY <1>1 DEF RowInv
<1> QED
  BY <1>1, <1>2, <1>3, StartupAssumption DEF RowInv

\* What a process does while it serves.
LEMMA ServingKeepsRows ==
  ASSUME RowInv, NEW i \in Instances, Serve(i)
  PROVE  RowInv'
<1>1. ASSUME NEW j \in Jobs, Admit(i, j)
      PROVE  RowInv'
  <2>1. /\ row[j] = "absent" /\ \A k \in Instances : j \notin accepted[k]
        /\ accepted' = [accepted EXCEPT ![i] = @ \cup {j}] /\ UNCHANGED <<row, launching, worker>>
    BY <1>1 DEF Admit, shared
  <2>2. /\ accepted' = [k \in Instances |-> accepted'[k]]
        /\ accepted'[i] = accepted[i] \cup {j}
        /\ \A k \in Instances : k # i => accepted'[k] = accepted[k]
    BY <2>1 DEF RowInv
  <2> QED
    BY <2>1, <2>2 DEF RowInv
<1>2. ASSUME NEW j \in Jobs, Insert(i, j)
      PROVE  RowInv'
  <2>1. /\ j \in accepted[i] /\ row' = IF i \in conns THEN [row EXCEPT ![j] = "queued"] ELSE row
        /\ accepted' = [accepted EXCEPT ![i] = @ \ {j}] /\ UNCHANGED <<launching, worker>>
    BY <1>2 DEF Insert
  <2>2. /\ accepted' = [k \in Instances |-> accepted'[k]]
        /\ accepted'[i] = accepted[i] \ {j}
        /\ \A k \in Instances : k # i => accepted'[k] = accepted[k]
    BY <2>1 DEF RowInv
  <2>3. /\ row' = [l \in Jobs |-> row'[l]] /\ row'[j] \in {"queued", row[j]}
        /\ \A l \in Jobs : l # j => row'[l] = row[l]
    BY <2>1 DEF RowInv
  <2> QED
    BY <2>1, <2>2, <2>3 DEF RowInv
<1>3. ASSUME NEW j \in Jobs, Claim(i, j)
      PROVE  RowInv'
  <2>1. /\ row[j] = "queued" /\ row' = [row EXCEPT ![j] = "active"]
        /\ launching' = [launching EXCEPT ![i] = j] /\ UNCHANGED <<accepted, worker>>
    BY <1>3 DEF Claim
  <2>2. /\ row' = [l \in Jobs |-> row'[l]] /\ row'[j] = "active"
        /\ \A l \in Jobs : l # j => row'[l] = row[l]
        /\ launching' \in [Instances -> Jobs \cup {NoJob}] /\ launching'[i] = j
        /\ \A k \in Instances : k # i => launching'[k] = launching[k]
    BY <2>1 DEF RowInv
  <2> QED
    BY <2>1, <2>2 DEF RowInv
<1>4. ASSUME NEW j \in Jobs, Pump(i, j)
      PROVE  RowInv'
  <2>1. /\ worker[j].owner = i /\ worker' = [worker EXCEPT ![j].status = "reported"]
        /\ row' = IF i \in conns THEN [row EXCEPT ![j] = "ended"] ELSE row
        /\ UNCHANGED <<accepted, launching>>
    BY <1>4 DEF Pump
  <2>2. row[j] # "absent"
    BY <2>1, StartupAssumption DEF RowInv, NoWorker
  <2>3. /\ row' = [l \in Jobs |-> row'[l]] /\ row'[j] \in {"ended", row[j]}
        /\ \A l \in Jobs : l # j => row'[l] = row[l]
        /\ worker' = [l \in Jobs |-> worker'[l]]
        /\ \A l \in Jobs : l # j => worker'[l] = worker[l]
    BY <2>1 DEF RowInv
  <2> QED
    BY <2>1, <2>2, <2>3 DEF RowInv
<1>5. CASE Spawn(i)
  <2>1. /\ launching[i] # NoJob /\ UNCHANGED <<row, accepted, launching>>
        /\ \E w : worker' = [worker EXCEPT ![launching[i]] = w]
    BY <1>5 DEF Spawn, local, duties
  <2>2. /\ launching[i] \in Jobs /\ row[launching[i]] # "absent"
        /\ worker' = [l \in Jobs |-> worker'[l]]
        /\ \A l \in Jobs : l # launching[i] => worker'[l] = worker[l]
    BY <2>1 DEF RowInv
  <2> QED
    BY <2>1, <2>2 DEF RowInv
<1>6. CASE StartPump(i)
  <2>1. /\ launching[i] # NoJob /\ UNCHANGED <<row, accepted>>
        /\ \E s : worker' = [worker EXCEPT ![launching[i]].status = s]
        /\ launching' = launching \/ launching' = [launching EXCEPT ![i] = NoJob]
    BY <1>6 DEF StartPump
  <2>2. /\ launching[i] \in Jobs /\ row[launching[i]] # "absent"
        /\ worker' = [l \in Jobs |-> worker'[l]]
        /\ \A l \in Jobs : l # launching[i] => worker'[l] = worker[l]
    BY <2>1 DEF RowInv
  <2>3. /\ launching' \in [Instances -> Jobs \cup {NoJob}]
        /\ \A k \in Instances : launching'[k] = launching[k] \/ launching'[k] = NoJob
    BY <2>1 DEF RowInv
  <2>4. \A l \in Jobs : worker[l] = NoWorker /\ row[l] = "absent" => worker'[l] = NoWorker
    BY <2>2
  <2> QED
    BY <2>1, <2>2, <2>3, <2>4, RowsStay
<1>7. CASE Platform(i)
  <2>1. UNCHANGED <<row, accepted, launching, worker>>
    BY <1>7, PlatformsTouchLittle DEF duties, shared
  <2> QED
    BY <2>1 DEF RowInv
<1> QED
  BY <1>1, <1>2, <1>3, <1>4, <1>5, <1>6, <1>7 DEF Serve

\* Every other step.
LEMMA RowsKept ==
  ASSUME RowInv, [Next]_vars
  PROVE  RowInv'
<1>1. ASSUME UNCHANGED <<row, accepted, launching, worker>>
      PROVE  RowInv'
  BY <1>1 DEF RowInv
<1>2. CASE UNCHANGED vars
  BY <1>1, <1>2 DEF vars, local, duties, shared
<1>3. ASSUME NEW j \in Jobs, WorkerExits(j)
      PROVE  RowInv'
  <2>1. /\ worker[j].status = "running" /\ worker' = [worker EXCEPT ![j].status = "exited"]
        /\ UNCHANGED <<row, accepted, launching>>
    BY <1>3 DEF WorkerExits, local, duties
  <2>2. worker[j] # NoWorker
    BY <2>1 DEF NoWorker
  <2>3. /\ worker' = [l \in Jobs |-> worker'[l]]
        /\ \A l \in Jobs : l # j => worker'[l] = worker[l]
    BY <2>1 DEF RowInv
  <2> QED
    BY <2>1, <2>2, <2>3 DEF RowInv
<1>4. ASSUME NEW i \in Instances, Bootstrap(i) \/ Signal(i) \/ SiteFails(i) \/ Shutdown(i)
                                    \/ Crash(i)
      PROVE  RowInv'
  <2>1. CASE LockRefused(i) \/ FailedEnds(i) \/ Exit(i) \/ Crash(i)
    BY <2>1, EndingKeepsRows DEF LockRefused, FailedEnds, Exit, Crash
  <2>2. CASE \/ LoadConfig(i) \/ AcquireLock(i) \/ OpenDatabase(i) \/ CheckVersions(i)
             \/ RunStatement(i) \/ RecordMigration(i) \/ SelfTest(i) \/ StartupFails(i)
             \/ Signal(i) \/ SiteFails(i) \/ BeginShutdown(i) \/ Gather(i) \/ CloseDatabase(i)
             \/ ReleaseLock(i)
    <3>1. UNCHANGED <<row, accepted, launching, worker>>
      BY <2>2 DEF LoadConfig, AcquireLock, OpenDatabase, CheckVersions, RunStatement,
         RecordMigration, SelfTest, StartupFails, Signal, SiteFails, BeginShutdown, Gather,
         CloseDatabase, ReleaseLock, local, shared, duties
    <3> QED
      BY <1>1, <3>1
  <2>3. CASE CancelTasks(i)
    <3>1. /\ UNCHANGED <<row, accepted, worker>> /\ launching' = [launching EXCEPT ![i] = NoJob]
      BY <2>3 DEF CancelTasks, shared
    <3>2. /\ launching' \in [Instances -> Jobs \cup {NoJob}]
          /\ \A k \in Instances : launching'[k] = launching[k] \/ launching'[k] = NoJob
      BY <3>1 DEF RowInv
    <3>3. worker' = [j \in Jobs |-> worker'[j]]
      BY <3>1 DEF RowInv
    <3> QED
      BY <3>1, <3>2, <3>3, RowsStay
  <2>4. CASE Kill(i)
    <3>1. PICK j \in kill[i] :
            \/ /\ worker[j].status \in {"running", "starting"}
               /\ \/ worker' = [worker EXCEPT ![j].status = "exited", ![j].killed = TRUE]
                  \/ worker' = [worker EXCEPT ![j].status = "stillborn"]
            \/ worker' = worker
      BY <2>4 DEF Kill
    <3>2. UNCHANGED <<row, accepted, launching>>
      BY <2>4 DEF Kill
    <3>3. worker[j] = NoWorker => worker' = worker
      BY <3>1 DEF NoWorker
    <3>4. /\ worker' = [l \in Jobs |-> worker'[l]]
          /\ \A l \in Jobs : l # j => worker'[l] = worker[l]
      <4>1. CASE worker' = worker
        BY <4>1 DEF RowInv
      <4>2. CASE worker' = [worker EXCEPT ![j].status = "exited", ![j].killed = TRUE]
        BY <4>2 DEF RowInv
      <4>3. CASE worker' = [worker EXCEPT ![j].status = "stillborn"]
        BY <4>3 DEF RowInv
      <4> QED
        BY <3>1, <4>1, <4>2, <4>3
    <3> QED
      BY <3>2, <3>3, <3>4 DEF RowInv
  <2> QED
    BY <1>4, <2>1, <2>2, <2>3, <2>4 DEF Bootstrap, Shutdown
<1> QED
  BY <1>2, <1>3, <1>4, ServingKeepsRows DEF Next

------------------------------------------------------------------------------
(* Workers that are killed.                                                 *)

KillTypes ==
  /\ \A j \in Jobs : /\ worker[j] = [owner |-> worker[j].owner, status |-> worker[j].status,
                                     killed |-> worker[j].killed]
                     /\ worker[j].killed \in BOOLEAN
  /\ kill = [i \in Instances |-> kill[i]] /\ awaited = [i \in Instances |-> awaited[i]]

\* What is known of a worker of i that i has killed.
Accounted(i, j) ==
  worker[j].owner = i /\ worker[j].killed =>
    /\ worker[j].status = "reported" => row[j] = "ended"
    /\ pc[i] = "gathering" /\ worker[j].status = "exited" => j \in awaited[i]
    /\ pc[i] \in {"closing", "releasing", "exiting"} => worker[j].status = "reported"

KillInv ==
  /\ KillTypes
  /\ \A j \in Jobs : worker[j].killed => worker[j].status \in {"exited", "reported"}
  /\ \A i \in Instances, j \in Jobs : Accounted(i, j)
  /\ \A i \in Instances : \A j \in kill[i] : j \in Jobs /\ worker[j].owner = i

\* A step of process i along its own way, which leaves workers and rows alone.
LEMMA WalkAccounts ==
  ASSUME LockInv, RowInv, KillInv, NEW i \in Instances, NEW next, Goto(i, next),
         UNCHANGED <<worker, row, kill, awaited>>,
         next = "gathering" => pc[i] = "gathering",
         next \in {"closing", "releasing", "exiting"} =>
           \/ pc[i] \in {"closing", "releasing", "exiting"}
           \/ pc[i] = "gathering" /\ awaited[i] = {}
  PROVE  KillInv'
<1>1. pc'[i] = next /\ \A k \in Instances : k # i => pc'[k] = pc[k]
  BY DEF Goto, LockInv
<1>2. \A k \in Instances, j \in Jobs : Accounted(k, j)'
  <2> TAKE k \in Instances, j \in Jobs
  <2>1. Accounted(k, j)
    BY DEF KillInv
  <2>2. CASE k # i
    BY <1>1, <2>1, <2>2 DEF Accounted
  <2>3. CASE k = i
    <3>1. next = "gathering" \/ next \notin {"closing", "releasing", "exiting"}
            \/ (worker[j].owner = i /\ worker[j].killed => worker[j].status = "reported")
      <4>1. worker[j].killed => worker[j].status \in {"exited", "reported"}
        BY DEF KillInv
      <4> QED
        BY <2>1, <2>3, <4>1 DEF Accounted
    <3> QED
      BY <1>1, <2>1, <2>3, <3>1 DEF Accounted
  <2> QED
    BY <2>2, <2>3
<1> QED
  BY <1>2 DEF KillInv, KillTypes

\* A step that changes the worker of one job, which was not killed and is not now.
LEMMA OtherWorker ==
  ASSUME RowInv, KillInv, NEW j, NEW w, UNCHANGED <<pc, row, kill, awaited>>,
         worker' = [worker EXCEPT ![j] = w],
         j \in Jobs => /\ w = [owner |-> w.owner, status |-> w.status, killed |-> FALSE]
                       /\ w.owner = worker[j].owner \/ worker[j].owner = Nobody
  PROVE  KillInv'
<1>1. /\ worker' = [k \in Jobs |-> worker'[k]]
      /\ \A k \in Jobs : worker'[k] = IF k = j THEN w ELSE worker[k]
  BY DEF RowInv, KillInv, KillTypes
<1>2. /\ KillTypes'
      /\ \A k \in Jobs : worker'[k].killed => worker'[k].status \in {"exited", "reported"}
  <2>1. \A k \in Jobs :
          /\ worker'[k] = [owner |-> worker'[k].owner, status |-> worker'[k].status,
                           killed |-> worker'[k].killed]
          /\ worker'[k].killed \in BOOLEAN
          /\ worker'[k].killed => worker'[k].status \in {"exited", "reported"}
    <3> TAKE k \in Jobs
    <3>1. CASE k = j
      <4>1. worker'[k] = w /\ w.killed = FALSE
        BY <1>1, <3>1
      <4> QED
        BY <3>1, <4>1
    <3>2. CASE k # j
      <4>1. worker'[k] = worker[k]
        BY <1>1, <3>2
      <4> QED
        BY <4>1 DEF KillInv, KillTypes
    <3> QED
      BY <3>1, <3>2
  <2> QED
    BY <2>1 DEF KillInv, KillTypes
<1>3. \A i \in Instances, k \in Jobs : Accounted(i, k)'
  BY <1>1 DEF KillInv, Accounted
<1>4. \A i \in Instances : \A k \in kill[i] : k \in Jobs /\ worker'[k].owner = i
  BY <1>1, StartupAssumption DEF KillInv
<1> QED
  BY <1>2, <1>3, <1>4 DEF KillInv

\* The end of a process: its workers are nobody's.
LEMMA EndingAccounts ==
  ASSUME LockInv, RowInv, KillInv, NEW i \in Instances, Ends(i)
  PROVE  KillInv'
<1>1. /\ pc'[i] = "off" /\ \A k \in Instances : k # i => pc'[k] = pc[k]
      /\ row' = row /\ worker' = Outlived(i)
      /\ kill' = [kill EXCEPT ![i] = {}]
      /\ awaited' = [awaited EXCEPT ![i] = {}]
  BY DEF Ends, Goto, LockInv
<1>2. \A j \in Jobs :
        /\ worker[j].owner = i => worker'[j] = [worker[j] EXCEPT !.owner = Nobody]
        /\ worker[j].owner # i => worker'[j] = worker[j]
  BY <1>1 DEF Outlived
<1>3. \A j \in Jobs :
        /\ worker'[j] = [owner |-> worker'[j].owner, status |-> worker'[j].status,
                         killed |-> worker'[j].killed]
        /\ worker'[j].killed \in BOOLEAN
        /\ worker'[j].killed => worker'[j].status \in {"exited", "reported"}
        /\ worker'[j].owner # i
        /\ worker[j].owner # i => worker'[j] = worker[j]
        /\ worker[j].owner = i => worker'[j].owner = Nobody
  <2> TAKE j \in Jobs
  <2>1. CASE worker[j].owner = i
    <3>1. worker'[j] = [owner |-> Nobody, status |-> worker[j].status,
                        killed |-> worker[j].killed]
      BY <1>2, <2>1 DEF KillInv, KillTypes
    <3> QED
      BY <2>1, <3>1, StartupAssumption DEF RowInv, KillInv, KillTypes
  <2>2. CASE worker[j].owner # i
    BY <1>2, <2>2 DEF KillInv, KillTypes
  <2> QED
    BY <2>1, <2>2
<1>4. worker' = [j \in Jobs |-> worker'[j]]
  BY <1>1 DEF Outlived
<1>5. /\ kill' = [k \in Instances |-> kill'[k]]
      /\ awaited' = [k \in Instances |-> awaited'[k]]
      /\ kill'[i] = {}
      /\ \A k \in Instances : k # i =>
           kill'[k] = kill[k] /\ awaited'[k] = awaited[k]
  BY <1>1 DEF KillInv, KillTypes
<1>6. KillTypes'
  BY <1>1, <1>3, <1>4, <1>5 DEF KillInv, KillTypes
<1>7. \A k \in Instances, j \in Jobs : Accounted(k, j)'
  <2> TAKE k \in Instances, j \in Jobs
  <2>1. CASE worker'[j].owner = k
    <3>1. k # i /\ worker'[j] = worker[j]
      BY <1>3, <2>1, StartupAssumption
    <3> QED
      BY <1>1, <1>5, <3>1 DEF KillInv, Accounted
  <2>2. CASE worker'[j].owner # k
    BY <2>2 DEF Accounted
  <2> QED
    BY <2>1, <2>2
<1>8. \A k \in Instances : \A j \in kill'[k] : j \in Jobs /\ worker'[j].owner = k
  <2> TAKE k \in Instances
  <2>1. CASE k = i
    BY <1>5, <2>1
  <2>2. CASE k # i
    <3>1. kill'[k] = kill[k]
      BY <1>5, <2>2
    <3>2. \A j \in kill[k] : j \in Jobs /\ worker[j].owner = k
      BY DEF KillInv
    <3> QED
      BY <1>3, <2>2, <3>1, <3>2
  <2> QED
    BY <2>1, <2>2
<1> QED
  BY <1>1, <1>3, <1>5, <1>6, <1>7, <1>8 DEF KillInv

\* The kill and the report of a worker of process i.
LEMMA WorkerEndAccounts ==
  ASSUME LockInv, RowInv, KillInv, NEW i \in Instances, Kill(i) \/ \E j \in Jobs : Pump(i, j)
  PROVE  KillInv'
<1>1. CASE Kill(i)
  <2>1. PICK j \in kill[i] :
          /\ kill' = [kill EXCEPT ![i] = @ \ {j}]
          /\ worker' = CASE worker[j].status = "running" ->
                              [worker EXCEPT ![j].status = "exited", ![j].killed = TRUE]
                         [] worker[j].status = "starting" ->
                              [worker EXCEPT ![j].status = "stillborn"]
                         [] OTHER -> worker
    BY <1>1 DEF Kill
  <2>2. /\ pc[i] = "killing" /\ UNCHANGED <<pc, row, awaited>>
        /\ j \in Jobs /\ worker[j].owner = i
    BY <1>1, <2>1 DEF Kill, KillInv
  <2>3. /\ worker' = [k \in Jobs |-> worker'[k]]
        /\ \A k \in Jobs : k # j => worker'[k] = worker[k]
        /\ worker'[j] = [owner |-> i, status |-> worker'[j].status, killed |-> worker'[j].killed]
        /\ worker'[j].killed \in BOOLEAN
        /\ worker'[j].killed => worker'[j].status \in {"exited", "reported"}
        /\ worker'[j].status = "reported" => worker'[j] = worker[j]
    <3> DEFINE v == worker[j]
    <3>1. v.killed \in BOOLEAN /\ (v.killed => v.status \in {"exited", "reported"})
      BY <2>2 DEF KillInv, KillTypes
    <3>5. v = [owner |-> i, status |-> v.status, killed |-> v.killed]
      BY <2>2 DEF KillInv, KillTypes
    <3>2. CASE v.status = "running"
      <4>1. worker' = [worker EXCEPT ![j].status = "exited", ![j].killed = TRUE]
        BY <2>1, <3>2
      <4>2. /\ worker' = [k \in Jobs |-> worker'[k]]
            /\ \A k \in Jobs : k # j => worker'[k] = worker[k]
            /\ worker'[j] = [v EXCEPT !.status = "exited", !.killed = TRUE]
        BY <2>2, <4>1 DEF RowInv
      <4> HIDE DEF v
      <4>3. [v EXCEPT !.status = "exited"] = [owner |-> i, status |-> "exited",
                                              killed |-> v.killed]
        BY <3>5
      <4>4. worker'[j] = [[v EXCEPT !.status = "exited"] EXCEPT !.killed = TRUE]
        BY <4>2
      <4>5. worker'[j] = [owner |-> i, status |-> "exited", killed |-> TRUE]
        BY <4>3, <4>4
      <4> QED
        BY <4>2, <4>5
    <3>3. CASE v.status = "starting"
      <4>1. ~v.killed
        BY <3>1, <3>3
      <4>2. worker' = [worker EXCEPT ![j].status = "stillborn"]
        BY <2>1, <3>3
      <4>3. /\ worker' = [k \in Jobs |-> worker'[k]]
            /\ \A k \in Jobs : k # j => worker'[k] = worker[k]
            /\ worker'[j] = [v EXCEPT !.status = "stillborn"]
        BY <2>2, <4>2 DEF RowInv
      <4> HIDE DEF v
      <4>4. worker'[j] = [owner |-> i, status |-> "stillborn", killed |-> v.killed]
        BY <3>5, <4>3
      <4>5. v.killed = FALSE
        BY <3>1, <4>1
      <4> QED
        BY <4>3, <4>4, <4>5
    <3>4. CASE v.status \notin {"running", "starting"}
      <4>1. worker' = worker
        BY <2>1, <3>4
      <4>2. worker' = [k \in Jobs |-> worker'[k]] /\ worker'[j] = v
        BY <2>2, <4>1 DEF RowInv
      <4>3. \A k \in Jobs : k # j => worker'[k] = worker[k]
        BY <4>1
      <4> QED
        BY <3>1, <3>5, <4>2, <4>3
    <3> QED
      BY <3>2, <3>3, <3>4
  <2>4. worker'[j].owner = i
    BY <2>3
  <2>5. /\ kill' = [k \in Instances |-> kill'[k]] /\ kill'[i] \subseteq kill[i]
        /\ \A k \in Instances : k # i => kill'[k] = kill[k]
    BY <2>1 DEF KillInv, KillTypes
  <2>6. /\ KillTypes'
        /\ \A k \in Jobs : worker'[k].killed => worker'[k].status \in {"exited", "reported"}
    <3>1. \A k \in Jobs :
            /\ worker'[k] = [owner |-> worker'[k].owner, status |-> worker'[k].status,
                             killed |-> worker'[k].killed]
            /\ worker'[k].killed \in BOOLEAN
            /\ worker'[k].killed => worker'[k].status \in {"exited", "reported"}
      <4> TAKE k \in Jobs
      <4>1. CASE k = j
        <5>1. worker'[j] = [owner |-> worker'[j].owner, status |-> worker'[j].status,
                            killed |-> worker'[j].killed]
          BY <2>3, <2>4
        <5> QED
          BY <2>3, <4>1, <5>1
      <4>2. CASE k # j
        <5>1. worker'[k] = worker[k]
          BY <2>3, <4>2
        <5> QED
          BY <5>1 DEF KillInv, KillTypes
      <4> QED
        BY <4>1, <4>2
    <3> QED
      BY <2>2, <2>5, <3>1 DEF KillInv, KillTypes
  <2>7. \A k \in Instances, l \in Jobs : Accounted(k, l)'
    <3> TAKE k \in Instances, l \in Jobs
    <3>1. Accounted(k, l)
      BY DEF KillInv
    <3>2. CASE l # j
      BY <2>2, <2>3, <3>1, <3>2 DEF Accounted
    <3>3. CASE l = j /\ k = i
      <4>1. CASE worker'[j] = worker[j]
        BY <2>2, <3>1, <3>3, <4>1 DEF Accounted
      <4>2. CASE worker'[j].status # "reported"
        BY <2>2, <3>3, <4>2 DEF Accounted
      <4> QED
        BY <2>3, <4>1, <4>2
    <3>4. CASE l = j /\ k # i
      BY <2>2, <2>3, <2>4, <3>4 DEF Accounted
    <3> QED
      BY <3>2, <3>3, <3>4
  <2>8. \A k \in Instances : \A l \in kill'[k] : l \in Jobs /\ worker'[l].owner = k
    BY <2>2, <2>3, <2>4, <2>5 DEF KillInv
  <2> QED
    BY <2>2, <2>6, <2>7, <2>8 DEF KillInv
<1>2. CASE \E j \in Jobs : Pump(i, j)
  <2>1. PICK j \in Jobs : Pump(i, j)
    BY <1>2
  <2>2. /\ pc[i] \in Alive /\ worker[j].owner = i /\ worker[j].status = "exited"
        /\ worker' = [worker EXCEPT ![j].status = "reported"]
        /\ row' = IF i \in conns THEN [row EXCEPT ![j] = "ended"] ELSE row
        /\ awaited' = [awaited EXCEPT ![i] = @ \ {j}]
        /\ UNCHANGED <<pc, kill>>
    BY <2>1 DEF Pump
  <2>3. /\ worker' = [k \in Jobs |-> worker'[k]]
        /\ worker'[j] = [owner |-> i, status |-> "reported", killed |-> worker[j].killed]
        /\ \A k \in Jobs : k # j => worker'[k] = worker[k]
    <3> DEFINE v == worker[j]
    <3>1. /\ worker' = [k \in Jobs |-> worker'[k]]
          /\ worker'[j] = [v EXCEPT !.status = "reported"]
          /\ \A k \in Jobs : k # j => worker'[k] = worker[k]
      BY <2>2 DEF RowInv
    <3>2. v = [owner |-> i, status |-> v.status, killed |-> v.killed]
      BY <2>2 DEF KillInv, KillTypes
    <3> HIDE DEF v
    <3>3. worker'[j] = [owner |-> i, status |-> "reported", killed |-> v.killed]
      BY <3>1, <3>2
    <3> QED
      BY <3>1, <3>3 DEF v
  <2>4. /\ awaited' = [k \in Instances |-> awaited'[k]]
        /\ \A k \in Instances, l \in Jobs : l # j /\ l \in awaited[k] => l \in awaited'[k]
    BY <2>2 DEF KillInv, KillTypes
  <2>5. /\ row' = [k \in Jobs |-> row'[k]] /\ (i \in conns => row'[j] = "ended")
        /\ \A k \in Jobs : k # j => row'[k] = row[k]
        /\ row'[j] \in {row[j], "ended"}
    BY <2>2 DEF RowInv, KillInv, KillTypes
  <2>6. worker[j].killed => i \in conns
    <3>1. worker[j].killed => pc[i] \notin {"closing", "releasing", "exiting"}
      BY <2>2 DEF KillInv, Accounted
    <3>2. pc[i] \in Looping => i \in conns
      BY DEF LockInv, Opened
    <3> QED
      BY <2>2, <3>1, <3>2 DEF Alive
  <2>7. KillTypes'
    BY <2>2, <2>3, <2>4, <2>5 DEF RowInv, KillInv, KillTypes
  <2>8. \A k \in Instances, l \in Jobs : Accounted(k, l)'
    <3> TAKE k \in Instances, l \in Jobs
    <3>1. Accounted(k, l)
      BY DEF KillInv
    <3>2. CASE l # j
      <4>1. /\ pc' = pc /\ worker'[l] = worker[l] /\ row'[l] = row[l]
            /\ l \in awaited[k] => l \in awaited'[k]
        BY <2>2, <2>3, <2>4, <2>5, <3>2
      <4> QED
        BY <3>1, <4>1 DEF Accounted
    <3>3. CASE l = j
      <4>1. /\ worker'[j].status = "reported"
            /\ worker'[j].killed => worker[j].killed
        BY <2>3
      <4>2. worker'[j].killed => row'[j] = "ended"
        BY <2>5, <2>6, <4>1
      <4> QED
        BY <3>3, <4>1, <4>2 DEF Accounted
    <3> QED
      BY <3>2, <3>3
  <2>9. \A k \in Instances : \A l \in kill'[k] : l \in Jobs /\ worker'[l].owner = k
    BY <2>2, <2>3 DEF KillInv
  <2>10. \A k \in Jobs : worker'[k].killed => worker'[k].status \in {"exited", "reported"}
    BY <2>3 DEF KillInv
  <2> QED
    BY <2>2, <2>7, <2>8, <2>9, <2>10 DEF KillInv
<1> QED
  BY <1>1, <1>2

\* A step that leaves workers alone, and of the rows only those that have no outcome.
LEMMA RowsAccount ==
  ASSUME KillInv, UNCHANGED <<pc, worker, kill, awaited>>,
         \A j \in Jobs : row'[j] = row[j] \/ row[j] # "ended"
  PROVE  KillInv'
BY DEF KillInv, KillTypes, Accounted

\* What a process does while it serves.
LEMMA ServingAccounts ==
  ASSUME LockInv, RowInv, KillInv, NEW i \in Instances, Serve(i)
  PROVE  KillInv'
<1>1. ASSUME NEW j \in Jobs, Admit(i, j)
      PROVE  KillInv'
  BY <1>1, RowsAccount DEF Admit, shared
<1>2. ASSUME NEW j \in Jobs, Insert(i, j)
      PROVE  KillInv'
  <2>1. row[j] = "absent"
    BY <1>2 DEF Insert, RowInv
  <2>2. \A l \in Jobs : row'[l] = row[l] \/ row[l] # "ended"
    BY <1>2, <2>1 DEF Insert, RowInv
  <2> QED
    BY <1>2, <2>2, RowsAccount DEF Insert
<1>3. ASSUME NEW j \in Jobs, Claim(i, j)
      PROVE  KillInv'
  <2>1. \A l \in Jobs : row'[l] = row[l] \/ row[l] # "ended"
    BY <1>3 DEF Claim, RowInv
  <2> QED
    BY <1>3, <2>1, RowsAccount DEF Claim
<1>4. CASE Spawn(i)
  <2> DEFINE w == [owner |-> i, status |-> "starting", killed |-> FALSE]
  <2>1. /\ worker' = [worker EXCEPT ![launching[i]] = w] /\ worker[launching[i]] = NoWorker
        /\ UNCHANGED <<pc, row, kill, awaited>>
    BY <1>4 DEF Spawn, local, duties
  <2>2. /\ w = [owner |-> w.owner, status |-> w.status, killed |-> FALSE]
        /\ worker[launching[i]].owner = Nobody
    BY <2>1 DEF NoWorker
  <2> HIDE DEF w
  <2> QED
    BY <2>1, <2>2, OtherWorker
<1>5. CASE StartPump(i)
  <2> DEFINE j == launching[i]
  <2>1. PICK s \in {"running", "exited", "unread"} : worker' = [worker EXCEPT ![j].status = s]
    BY <1>5 DEF StartPump
  <2>2. /\ worker[j].status \in {"starting", "stillborn"} /\ j \in Jobs
        /\ UNCHANGED <<pc, row, kill, awaited>>
    BY <1>5 DEF StartPump, RowInv
  <2>3. /\ ~worker[j].killed
        /\ worker[j] = [owner |-> worker[j].owner, status |-> worker[j].status,
                        killed |-> worker[j].killed]
    BY <2>2 DEF KillInv, KillTypes
  <2> HIDE DEF j
  <2>4. worker' = [worker EXCEPT ![j] = [worker[j] EXCEPT !.status = s]]
    BY <2>1
  <2> DEFINE w == [worker[j] EXCEPT !.status = s]
  <2>5. w = [owner |-> worker[j].owner, status |-> s, killed |-> FALSE]
    <3>1. worker[j].killed = FALSE
      BY <2>2, <2>3 DEF KillInv, KillTypes
    <3> DEFINE v == worker[j]
    <3>2. w = [v EXCEPT !.status = s] /\ v = [owner |-> v.owner, status |-> v.status,
                                               killed |-> v.killed]
      BY <2>3
    <3> HIDE DEF v, w
    <3>3. w = [owner |-> v.owner, status |-> s, killed |-> v.killed]
      BY <3>2
    <3> QED
      BY <3>1, <3>3 DEF v
  <2>6. /\ w = [owner |-> w.owner, status |-> w.status, killed |-> FALSE]
        /\ w.owner = worker[j].owner
    BY <2>5
  <2>7. worker' = [worker EXCEPT ![j] = w]
    BY <2>4
  <2> HIDE DEF w
  <2> QED
    BY <2>2, <2>6, <2>7, OtherWorker
<1>6. ASSUME NEW j \in Jobs, Pump(i, j)
      PROVE  KillInv'
  BY <1>6, WorkerEndAccounts
<1>7. CASE Platform(i)
  BY <1>7, PlatformsTouchLittle, RowsAccount DEF duties, shared
<1> QED
  BY <1>1, <1>2, <1>3, <1>4, <1>5, <1>6, <1>7 DEF Serve

\* The steps of a start and of a shutdown.
LEMMA WalkingAccounts ==
  ASSUME LockInv, RowInv, KillInv, NEW i \in Instances,
         Bootstrap(i) \/ Signal(i) \/ SiteFails(i) \/ Shutdown(i) \/ Crash(i)
  PROVE  KillInv'
<1>1. CASE LockRefused(i) \/ FailedEnds(i) \/ Exit(i) \/ Crash(i)
  BY <1>1, EndingAccounts DEF LockRefused, FailedEnds, Exit, Crash
<1>2. CASE \/ LoadConfig(i) \/ AcquireLock(i) \/ OpenDatabase(i) \/ CheckVersions(i)
           \/ RunStatement(i) \/ RecordMigration(i) \/ SelfTest(i) \/ StartupFails(i)
           \/ Signal(i) \/ SiteFails(i)
  <2>1. PICK next \in {"lock", "open", "check", "script", "record", "probe", "failed", "serving",
                       "stopping", "unbound"} : Goto(i, next)
    BY <1>2 DEF LoadConfig, AcquireLock, OpenDatabase, CheckVersions, RunStatement,
       RecordMigration, SelfTest, StartupFails, Signal, SiteFails, NextScript
  <2>2. UNCHANGED <<worker, row, kill, awaited>>
    BY <1>2 DEF LoadConfig, AcquireLock, OpenDatabase, CheckVersions, RunStatement,
       RecordMigration, SelfTest, StartupFails, Signal, SiteFails, local, shared, duties
  <2> QED
    BY <2>1, <2>2, WalkAccounts
<1>3. CASE CancelTasks(i) \/ CloseDatabase(i) \/ ReleaseLock(i)
  <2>1. PICK next \in {"closing", "releasing", "exiting"} : Goto(i, next)
    BY <1>3 DEF CancelTasks, CloseDatabase, ReleaseLock
  <2>2. /\ UNCHANGED <<worker, row, kill, awaited>>
        /\ pc[i] \in {"closing", "releasing"} \/ (pc[i] = "gathering" /\ awaited[i] = {})
    <3>1. CASE CancelTasks(i)
      BY <3>1 DEF CancelTasks, shared
    <3>2. CASE CloseDatabase(i)
      <4>1. pc[i] = "closing" /\ UNCHANGED <<worker, row>>
        BY <3>2 DEF CloseDatabase
      <4>2. UNCHANGED <<kill, awaited>>
        BY <3>2 DEF CloseDatabase, local, duties
      <4> QED
        BY <4>1, <4>2
    <3>3. CASE ReleaseLock(i)
      <4>1. pc[i] = "releasing" /\ UNCHANGED <<worker, row>>
        BY <3>3 DEF ReleaseLock
      <4>2. UNCHANGED <<kill, awaited>>
        BY <3>3 DEF ReleaseLock, local, duties
      <4> QED
        BY <4>1, <4>2
    <3> QED
      BY <1>3, <3>1, <3>2, <3>3
  <2> QED
    BY <2>1, <2>2, WalkAccounts
<1>4. CASE BeginShutdown(i)
  <2>1. /\ pc'[i] = "killing" /\ \A k \in Instances : k # i => pc'[k] = pc[k]
        /\ kill' = [kill EXCEPT ![i] = {j \in Jobs : Known(i, j)}]
        /\ UNCHANGED <<worker, row, awaited>>
    BY <1>4 DEF BeginShutdown, Goto, LockInv, shared
  <2>2. \A k \in Instances, j \in Jobs : Accounted(k, j)'
    BY <2>1 DEF KillInv, Accounted
  <2>3. /\ kill' = [k \in Instances |-> kill'[k]] /\ kill'[i] = {j \in Jobs : Known(i, j)}
        /\ \A k \in Instances : k # i => kill'[k] = kill[k]
    BY <2>1 DEF KillInv, KillTypes
  <2>4. \A j \in Jobs : Known(i, j) => worker[j].owner = i
    BY DEF Known, Pumped
  <2> QED
    BY <2>1, <2>2, <2>3, <2>4 DEF KillInv, KillTypes
<1>5. CASE Gather(i)
  <2>1. /\ pc'[i] = "gathering" /\ \A k \in Instances : k # i => pc'[k] = pc[k]
        /\ awaited' = [awaited EXCEPT ![i] = {j \in Jobs : Pumped(i, j)}]
        /\ UNCHANGED <<worker, row, kill>>
    BY <1>5 DEF Gather, Goto, LockInv, shared
  <2>2. /\ awaited' = [k \in Instances |-> awaited'[k]]
        /\ awaited'[i] = {j \in Jobs : Pumped(i, j)}
        /\ \A k \in Instances : k # i => awaited'[k] = awaited[k]
    BY <2>1 DEF KillInv, KillTypes
  <2>3. \A k \in Instances, j \in Jobs : Accounted(k, j)'
    BY <2>1, <2>2 DEF KillInv, Accounted, Pumped
  <2> QED
    BY <2>1, <2>2, <2>3 DEF KillInv, KillTypes
<1>6. CASE Kill(i)
  BY <1>6, WorkerEndAccounts
<1> QED
  BY <1>1, <1>2, <1>3, <1>4, <1>5, <1>6 DEF Bootstrap, Shutdown

\* To begin with, there are no rows, launches and workers.
LEMMA RowsStart ==
  ASSUME Init
  PROVE  RowInv
<1>1. /\ \A i \in Instances : accepted[i] = {} /\ launching[i] = NoJob
      /\ \A j \in Jobs : worker[j] = NoWorker
  BY DEF Init
<1>2. /\ worker = [j \in Jobs |-> worker[j]] /\ row = [j \in Jobs |-> row[j]]
      /\ accepted = [i \in Instances |-> accepted[i]]
      /\ launching \in [Instances -> Jobs \cup {NoJob}]
  BY DEF Init
<1> QED
  BY <1>1, <1>2, StartupAssumption DEF RowInv

\* To begin with, nobody is killed.
LEMMA KillStarts ==
  ASSUME Init
  PROVE  KillInv
<1>1. \A j \in Jobs : worker[j] = [owner |-> Nobody, status |-> "none", killed |-> FALSE]
  BY DEF Init, NoWorker
<1>2. /\ kill = [i \in Instances |-> kill[i]] /\ awaited = [i \in Instances |-> awaited[i]]
      /\ \A i \in Instances : kill[i] = {}
  BY DEF Init
<1> QED
  <2>1. \A j \in Jobs :
          /\ worker[j].killed = FALSE
          /\ worker[j] = [owner |-> worker[j].owner, status |-> worker[j].status,
                          killed |-> worker[j].killed]
    <3> TAKE j \in Jobs
    <3>1. worker[j] = [owner |-> Nobody, status |-> "none", killed |-> FALSE]
      BY <1>1
    <3> QED
      BY <3>1
  <2>2. KillTypes
    BY <1>2, <2>1 DEF KillTypes
  <2> QED
    BY <1>2, <2>1, <2>2 DEF KillInv, Accounted

\* Whoever steps.
LEMMA KillKept ==
  ASSUME LockInv, RowInv, KillInv, [Next]_vars
  PROVE  KillInv'
<1>1. CASE UNCHANGED vars
  BY <1>1, RowsAccount DEF vars, local, duties, shared
<1>2. ASSUME NEW j \in Jobs, WorkerExits(j)
      PROVE  KillInv'
  <2> DEFINE w == [worker[j] EXCEPT !.status = "exited"]
  <2>1. /\ worker[j].status = "running" /\ UNCHANGED <<pc, row, kill, awaited>>
        /\ worker' = [worker EXCEPT ![j] = w]
    BY <1>2 DEF WorkerExits, local, duties
  <2>2. worker[j].killed = FALSE
    BY <2>1 DEF KillInv, KillTypes
  <2>3. w = [owner |-> worker[j].owner, status |-> "exited", killed |-> worker[j].killed]
    <3> DEFINE v == worker[j]
    <3>1. w = [v EXCEPT !.status = "exited"] /\ v = [owner |-> v.owner, status |-> v.status,
                                                     killed |-> v.killed]
      BY DEF KillInv, KillTypes
    <3> HIDE DEF v, w
    <3>2. w = [owner |-> v.owner, status |-> "exited", killed |-> v.killed]
      BY <3>1
    <3> QED
      BY <3>2 DEF v
  <2>4. /\ w = [owner |-> w.owner, status |-> w.status, killed |-> FALSE]
        /\ w.owner = worker[j].owner
    BY <2>2, <2>3
  <2> HIDE DEF w
  <2> QED
    BY <2>1, <2>4, OtherWorker
<1> QED
  BY <1>1, <1>2, ServingAccounts, WalkingAccounts DEF Next

\* When shutdown has closed the database, every job whose worker it killed after its pump was
\* started has an outcome (ProcessWorkerSupervisor.shutdown, _pump).
THEOREM KilledWorkersGetAnOutcome == Spec => []KilledWorkersAreReported
<1>1. KillInv => KilledWorkersAreReported
  <2> SUFFICES ASSUME KillInv, NEW i \in Instances, pc[i] \in {"releasing", "exiting"},
                      NEW j \in Jobs, worker[j].owner = i, worker[j].killed
               PROVE  row[j] = "ended"
    BY DEF KilledWorkersAreReported
  <2> QED
    BY DEF KillInv, Accounted
<1> QED
  BY <1>1, RowsStart, RowsKept, KillStarts, KillKept, LockStarts, LockKept, PTL DEF Spec

------------------------------------------------------------------------------
(* Launches.                                                                *)

\* A job that waits has never been launched; one that is launched is launched by one process.
LaunchInv ==
  \A j \in Jobs :
    /\ row[j] = "queued" => worker[j] = NoWorker /\ \A i \in Instances : launching[i] # j
    /\ \A i \in Instances : launching[i] = j =>
         /\ \A k \in Instances : launching[k] = j => k = i
         /\ worker[j] = NoWorker \/ worker[j].owner = i

\* A step that launches nothing and leaves workers to their owners.
LEMMA LaunchesStay ==
  ASSUME RowInv, LaunchInv,
         \A i \in Instances : launching'[i] = launching[i] \/ launching'[i] = NoJob,
         \A j \in Jobs : row'[j] = "queued" => row[j] \in {"absent", "queued"},
         \A j \in Jobs : \/ worker'[j] = worker[j]
                         \/ worker[j] # NoWorker /\ worker'[j].owner = worker[j].owner
  PROVE  LaunchInv'
<1>1. \A i \in Instances, j \in Jobs : launching'[i] = j => launching[i] = j
  BY StartupAssumption
<1>2. \A j \in Jobs : row'[j] = "queued" =>
        worker'[j] = NoWorker /\ \A i \in Instances : launching'[i] # j
  BY <1>1 DEF LaunchInv, RowInv
<1>3. \A i \in Instances, j \in Jobs : launching'[i] = j =>
        /\ \A k \in Instances : launching'[k] = j => k = i
        /\ worker'[j] = NoWorker \/ worker'[j].owner = i
  BY <1>1 DEF LaunchInv
<1> QED
  BY <1>2, <1>3 DEF LaunchInv

\* Another status leaves a worker to its owner.
LEMMA SameOwner ==
  ASSUME RowInv, KillInv, NEW j \in Jobs, NEW s, worker[j].status # "none",
         worker' = [worker EXCEPT ![j].status = s]
  PROVE  \A l \in Jobs : \/ worker'[l] = worker[l]
                         \/ worker[l] # NoWorker /\ worker'[l].owner = worker[l].owner
<1> DEFINE v == worker[j]
<1>1. /\ worker'[j] = [v EXCEPT !.status = s]
      /\ \A l \in Jobs : l # j => worker'[l] = worker[l]
  BY DEF RowInv
<1>2. v = [owner |-> v.owner, status |-> v.status, killed |-> v.killed]
  BY DEF KillInv, KillTypes
<1>3. v # NoWorker
  BY DEF NoWorker
<1> HIDE DEF v
<1>4. worker'[j] = [owner |-> v.owner, status |-> s, killed |-> v.killed]
  BY <1>1, <1>2
<1>5. worker'[j].owner = v.owner
  BY <1>4
<1> QED
  BY <1>1, <1>3, <1>5 DEF v

\* The end of a process: its workers are nobody's, and it launches nothing.
LEMMA EndingLaunches ==
  ASSUME RowInv, LaunchInv, NEW i \in Instances, Ends(i)
  PROVE  LaunchInv'
<1>1. /\ row' = row /\ worker' = Outlived(i) /\ launching' = [launching EXCEPT ![i] = NoJob]
  BY DEF Ends
<1>2. \A j \in Jobs : worker[j].owner # i => worker'[j] = worker[j]
  BY <1>1 DEF Outlived
<1>3. NoWorker.owner # i
  BY StartupAssumption DEF NoWorker
<1>4. /\ launching'[i] = NoJob
      /\ \A k \in Instances : k # i => launching'[k] = launching[k]
  BY <1>1 DEF RowInv
<1>5. \A j \in Jobs : row'[j] = "queued" =>
        worker'[j] = NoWorker /\ \A k \in Instances : launching'[k] # j
  BY <1>1, <1>2, <1>3, <1>4, StartupAssumption DEF LaunchInv
<1>6. ASSUME NEW j \in Jobs, NEW k \in Instances, launching'[k] = j
      PROVE  /\ \A l \in Instances : launching'[l] = j => l = k
             /\ worker'[j] = NoWorker \/ worker'[j].owner = k
  <2>1. k # i /\ launching[k] = j
    BY <1>4, <1>6, StartupAssumption
  <2>2. worker[j] = NoWorker \/ worker[j].owner = k
    BY <2>1 DEF LaunchInv
  <2>3. worker'[j] = worker[j]
    BY <1>2, <1>3, <2>1, <2>2
  <2>4. \A l \in Instances : launching'[l] = j => launching[l] = j
    BY <1>4, StartupAssumption
  <2> QED
    BY <2>1, <2>2, <2>3, <2>4 DEF LaunchInv
<1> QED
  BY <1>5, <1>6 DEF LaunchInv

\* What a process does while it serves.
LEMMA ServingLaunches ==
  ASSUME RowInv, KillInv, LaunchInv, NEW i \in Instances, Serve(i)
  PROVE  LaunchInv'
<1>1. CASE Platform(i) \/ \E j \in Jobs : Admit(i, j)
  BY <1>1, PlatformsTouchLittle, LaunchesStay DEF Admit, duties, shared
<1>2. ASSUME NEW j \in Jobs, Insert(i, j)
      PROVE  LaunchInv'
  <2>1. row[j] = "absent" /\ UNCHANGED <<launching, worker>>
    BY <1>2 DEF Insert, RowInv
  <2>2. \A l \in Jobs : l = j \/ row'[l] = row[l]
    BY <1>2 DEF Insert, RowInv
  <2> QED
    BY <2>1, <2>2, LaunchesStay
<1>3. ASSUME NEW j \in Jobs, Claim(i, j)
      PROVE  LaunchInv'
  <2>1. /\ row[j] = "queued" /\ row'[j] = "active" /\ worker' = worker
        /\ \A l \in Jobs : l # j => row'[l] = row[l]
        /\ launching'[i] = j /\ \A k \in Instances : k # i => launching'[k] = launching[k]
    BY <1>3 DEF Claim, RowInv
  <2>2. worker[j] = NoWorker /\ \A k \in Instances : launching[k] # j
    BY <2>1 DEF LaunchInv
  <2> QED
    BY <2>1, <2>2 DEF LaunchInv
<1>4. CASE Spawn(i)
  <2> DEFINE j == launching[i]
             w == [owner |-> i, status |-> "starting", killed |-> FALSE]
  <2>1. /\ j \in Jobs /\ worker' = [worker EXCEPT ![j] = w] /\ UNCHANGED <<row, launching>>
    BY <1>4 DEF Spawn, local, duties, RowInv
  <2>2. row[j] # "queued" /\ \A k \in Instances : launching[k] = j => k = i
    BY <2>1 DEF LaunchInv
  <2>3. worker'[j] = w /\ \A l \in Jobs : l # j => worker'[l] = worker[l]
    BY <2>1 DEF RowInv
  <2>4. worker'[j].owner = i
    BY <2>3
  <2> HIDE DEF w, j
  <2> QED
    BY <2>1, <2>2, <2>3, <2>4 DEF LaunchInv
<1>5. CASE StartPump(i)
  <2> DEFINE j == launching[i]
  <2>1. /\ j \in Jobs /\ row' = row /\ worker[j].status # "none"
        /\ \E s : worker' = [worker EXCEPT ![j].status = s]
        /\ launching' = launching \/ launching' = [launching EXCEPT ![i] = NoJob]
    BY <1>5 DEF StartPump, RowInv
  <2>2. \A k \in Instances : launching'[k] = launching[k] \/ launching'[k] = NoJob
    BY <2>1 DEF RowInv
  <2> HIDE DEF j
  <2> QED
    BY <2>1, <2>2, SameOwner, LaunchesStay
<1>6. ASSUME NEW j \in Jobs, Pump(i, j)
      PROVE  LaunchInv'
  <2>1. /\ worker[j].status # "none" /\ worker' = [worker EXCEPT ![j].status = "reported"]
        /\ launching' = launching
        /\ row' = row \/ row' = [row EXCEPT ![j] = "ended"]
    BY <1>6 DEF Pump
  <2>2. \A l \in Jobs : row'[l] = "queued" => row[l] = "queued"
    BY <2>1 DEF RowInv
  <2> QED
    BY <2>1, <2>2, SameOwner, LaunchesStay
<1> QED
  BY <1>1, <1>2, <1>3, <1>4, <1>5, <1>6 DEF Serve

\* A kill changes the status of a worker, and marks it.
LEMMA KillLaunches ==
  ASSUME RowInv, KillInv, LaunchInv, NEW i \in Instances, Kill(i)
  PROVE  LaunchInv'
<1>1. PICK j \in kill[i] :
        worker' = CASE worker[j].status = "running" ->
                         [worker EXCEPT ![j].status = "exited", ![j].killed = TRUE]
                    [] worker[j].status = "starting" ->
                         [worker EXCEPT ![j].status = "stillborn"]
                    [] OTHER -> worker
  BY DEF Kill
<1>2. j \in Jobs /\ UNCHANGED <<row, launching>>
  BY DEF Kill, KillInv
<1>3. CASE worker[j].status = "running"
  <2> DEFINE v == worker[j]
  <2>1. worker' = [worker EXCEPT ![j].status = "exited", ![j].killed = TRUE]
    BY <1>1, <1>3
  <2>2. /\ worker'[j] = [[v EXCEPT !.status = "exited"] EXCEPT !.killed = TRUE]
        /\ \A l \in Jobs : l # j => worker'[l] = worker[l]
    BY <1>2, <2>1 DEF RowInv
  <2>3. v = [owner |-> v.owner, status |-> v.status, killed |-> v.killed] /\ v # NoWorker
    BY <1>2, <1>3 DEF KillInv, KillTypes, NoWorker
  <2> HIDE DEF v
  <2>4. [v EXCEPT !.status = "exited"] = [owner |-> v.owner, status |-> "exited",
                                          killed |-> v.killed]
    BY <2>3
  <2>5. worker'[j] = [owner |-> v.owner, status |-> "exited", killed |-> TRUE]
    BY <2>2, <2>4
  <2>6. worker'[j].owner = v.owner
    BY <2>5
  <2> QED
    BY <1>2, <2>2, <2>3, <2>6, LaunchesStay DEF v
<1>4. CASE worker[j].status = "starting"
  <2>1. worker' = [worker EXCEPT ![j].status = "stillborn"]
    BY <1>1, <1>4
  <2> QED
    BY <1>2, <1>4, <2>1, SameOwner, LaunchesStay
<1>5. CASE worker[j].status \notin {"running", "starting"}
  <2>1. worker' = worker
    BY <1>1, <1>5
  <2> QED
    BY <1>2, <2>1, LaunchesStay
<1> QED
  BY <1>3, <1>4, <1>5

\* Whoever steps.
LEMMA LaunchKept ==
  ASSUME RowInv, KillInv, LaunchInv, [Next]_vars
  PROVE  LaunchInv'
<1>1. CASE UNCHANGED vars
  BY <1>1, LaunchesStay DEF vars, local, duties, shared
<1>2. ASSUME NEW j \in Jobs, WorkerExits(j)
      PROVE  LaunchInv'
  <2>1. /\ worker[j].status # "none" /\ worker' = [worker EXCEPT ![j].status = "exited"]
        /\ UNCHANGED <<row, launching>>
    BY <1>2 DEF WorkerExits, local, duties
  <2> QED
    BY <2>1, SameOwner, LaunchesStay
<1>3. ASSUME NEW i \in Instances, Bootstrap(i) \/ Signal(i) \/ SiteFails(i) \/ Shutdown(i)
                                    \/ Crash(i)
      PROVE  LaunchInv'
  <2>1. CASE LockRefused(i) \/ FailedEnds(i) \/ Exit(i) \/ Crash(i)
    BY <2>1, EndingLaunches DEF LockRefused, FailedEnds, Exit, Crash
  <2>2. CASE \/ LoadConfig(i) \/ AcquireLock(i) \/ OpenDatabase(i) \/ CheckVersions(i)
             \/ RunStatement(i) \/ RecordMigration(i) \/ SelfTest(i) \/ StartupFails(i)
             \/ Signal(i) \/ SiteFails(i) \/ BeginShutdown(i) \/ Gather(i) \/ CloseDatabase(i)
             \/ ReleaseLock(i)
    <3>1. UNCHANGED <<row, launching, worker>>
      BY <2>2 DEF LoadConfig, AcquireLock, OpenDatabase, CheckVersions, RunStatement,
         RecordMigration, SelfTest, StartupFails, Signal, SiteFails, BeginShutdown, Gather,
         CloseDatabase, ReleaseLock, local, shared, duties
    <3> QED
      BY <3>1, LaunchesStay
  <2>3. CASE CancelTasks(i)
    <3>1. /\ UNCHANGED <<row, worker>> /\ launching' = [launching EXCEPT ![i] = NoJob]
      BY <2>3 DEF CancelTasks, shared
    <3>2. \A k \in Instances : launching'[k] = launching[k] \/ launching'[k] = NoJob
      BY <3>1 DEF RowInv
    <3> QED
      BY <3>1, <3>2, LaunchesStay
  <2>4. CASE Kill(i)
    BY <2>4, KillLaunches
  <2> QED
    BY <1>3, <2>1, <2>2, <2>3, <2>4 DEF Bootstrap, Shutdown
<1> QED
  BY <1>1, <1>2, <1>3, ServingLaunches DEF Next

\* A job is launched by one process, once, over any ends, crashes and starts, whatever becomes
\* of the workers that outlive their process (JobRepository.claim_next, JobDispatcher).
THEOREM NoJobIsLaunchedTwice == Spec => []LaunchedOnce
<1>1. Init => LaunchInv
  BY StartupAssumption DEF Init, LaunchInv
<1>2. RowInv /\ LaunchInv => LaunchedOnce
  <2> SUFFICES ASSUME RowInv, LaunchInv, NEW i \in Instances, launching[i] # NoJob
               PROVE  /\ \A k \in Instances \ {i} : launching[k] # launching[i]
                      /\ worker[launching[i]] = NoWorker \/ worker[launching[i]].owner = i
    BY DEF LaunchedOnce
  <2>1. launching[i] \in Jobs
    BY DEF RowInv
  <2> QED
    BY <2>1 DEF LaunchInv
<1> QED
  BY <1>1, <1>2, LaunchKept, RowsStart, RowsKept, KillStarts, KillKept, LockStarts, LockKept,
     PTL DEF Spec
================================================================================
