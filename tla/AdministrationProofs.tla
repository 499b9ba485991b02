------------------------- MODULE AdministrationProofs -------------------------
(***************************************************************************)
(* Theorems about Administration, for any calls, people, capacities, times *)
(* to live, failures and number of crashes.                                *)
(***************************************************************************)
EXTENDS Administration, TLAPS

(* The inductive invariant.                                                 *)

\* The statement p belongs to the command of request r.
Agrees(r, p) ==
  /\ p \in {"mode", "members", "record", "record_commit"} => r.op = "use"
  /\ p \in {"purge", "purge_commit"} => r.op \in {"use", "whitelist_pending"}
  /\ p \in {"purge", "purge_commit", "record", "record_commit"} /\ r.op = "use"
       => r.who \in Users
  /\ p \in {"upsert", "bump", "bump_commit"} => r.op \in {"set", "capacity_confirm"}
  /\ p \in {"insert", "insert_commit", "clear", "clear_commit"} => r.op = "whitelist_add"
  /\ p \in {"delete", "delete_commit"} => r.op = "whitelist_remove"
  /\ p \in {"revision", "create", "create_commit"} => r.op = "capacity_ask"
  /\ p \in {"select", "check", "take", "take_commit"} => r.op = "capacity_confirm"

PcAgrees == \A c \in Calls : Agrees(call[c].request, call[c].pc)

\* The one call that took confirmation k and has not changed the capacity yet.
Holds(c, k) ==
  /\ call[c].request.op = "capacity_confirm" /\ call[c].request.conf = k
  /\ call[c].pc = "upsert" \/ (call[c].pc = "take_commit" /\ call[c].taken)

\* Call c has compared its arguments with confirmation k.
Compared(c, k) ==
  /\ call[c].request.op = "capacity_confirm" /\ call[c].request.conf = k
  /\ call[c].pc \in {"check", "take", "take_commit", "upsert"}

\* At most one call holds a confirmation, which is used and changed nothing yet.
HeldOnce ==
  \A c, k \in Calls :
    Holds(c, k) =>
      /\ db.rows[k].state = "used" /\ db.applied[k] = 0 /\ disk.applied[k] = 0
      /\ \A c2 \in Calls : Holds(c2, k) => c2 = c

\* What was compared stays equal: a row's value never changes.
ComparedStaysEqual ==
  \A c, k \in Calls :
    Compared(c, k) => /\ db.rows[k].state # "none"
                      /\ db.rows[k].value = call[c].request.arg.value

\* A call creates its confirmation with its last statement.
RowsAreOld ==
  \A c \in Calls :
    db.rows[c].state # "none" \/ disk.rows[c].state # "none"
      => call[c].pc \in {"create_commit", "done"}

\* The tables are never behind what was committed of confirmations.
DiskIsBehind ==
  /\ \A k \in Calls :
       /\ disk.rows[k].state = "used" => db.rows[k].state = "used"
       /\ disk.rows[k].state # "none" =>
            db.rows[k].state # "none" /\ db.rows[k].value = disk.rows[k].value
       /\ disk.applied[k] <= db.applied[k]
  /\ db.settings["capacity_bytes"] # disk.settings["capacity_bytes"] =>
       \E k \in Calls : disk.applied[k] = 0 /\ db.applied[k] = 1

\* An access check that could admit its user was seen allowed.
Witnessed ==
  \A c \in Calls :
    /\ Deciding(c) /\ Allowed(db, call[c].request.who) => c \in witness
    /\ call[c].pc = "members" /\ call[c].mode = "allow_all" => c \in witness

CInv == HeldOnce /\ ComparedStaysEqual /\ RowsAreOld /\ DiskIsBehind
          /\ AppliedOnce /\ CapacityWasConfirmed
IInv == TypeOK /\ PcAgrees /\ CInv /\ Witnessed /\ AdmittedWasAllowed

------------------------------------------------------------------------------
(* Types.                                                                   *)

\* What the fields of a request are, by its command.
LEMMA RequestFacts ==
  ASSUME NEW r \in Requests \cup {NoRequest}
  PROVE  /\ r.op \in {"use", "whitelist_add"} => r.who \in People
         /\ r.op = "set" => r.arg \in Assignments /\ r.conf = NoCall
         /\ r.op \in {"whitelist_add", "whitelist_remove"} => r.arg \in Users
         /\ r.op \in {"capacity_ask", "capacity_confirm"} =>
              r.arg \in CapacityChanges /\ r.who \in People
         /\ r.op = "capacity_confirm" => r.conf \in Calls
         /\ r \in Requests <=> r.op # "none"
  BY DEF Requests, NoRequest

\* One call goes on, the others stay where they are.
LEMMA ContinueFacts ==
  ASSUME call \in [Calls -> CallType],
         NEW c \in Calls, NEW r \in CallType, NEW next \in Resting \cup Working,
         Continue(c, r, next)
  PROVE  /\ call' \in [Calls -> CallType]
         /\ \A x \in Calls : x # c => call'[x] = call[x]
         /\ call'[c].pc = next
         /\ next \notin Resting => call'[c] = [r EXCEPT !.pc = next]
         /\ next \in Resting => call'[c] = [Blank EXCEPT !.pc = next]
<1> DEFINE e == [(IF next \in Resting THEN Blank ELSE r) EXCEPT !.pc = next]
<1>1. Blank \in CallType
  BY DEF Blank, CallType, Resting
<1>2. e \in CallType /\ e.pc = next
  BY <1>1 DEF CallType
<1>3. call' = [call EXCEPT ![c] = e]
  BY DEF Continue
<1>4. /\ next \notin Resting => e = [r EXCEPT !.pc = next]
      /\ next \in Resting => e = [Blank EXCEPT !.pc = next]
  OBVIOUS
<1> HIDE DEF e
<1> QED
  BY <1>2, <1>3, <1>4

\* A setting that a command may write is one of the catalog's.
LEMMA AssignmentType ==
  ASSUME NEW a \in Assignments \cup CapacityChanges
  PROVE  /\ a.key \in SettingKeys /\ a.value \in SettingValues
         /\ a \in Assignments => a.key # "capacity_bytes"
         /\ a \in CapacityChanges => a.key = "capacity_bytes" /\ a.value \in Capacities
  BY AdministrationAssumption
     DEF AllAssignments, CapacityChanges, SettingKeys, SettingValues, Modes

\* The mode that is in force is a mode.
LEMMA ModeType ==
  ASSUME db \in TableType
  PROVE  Mode(db) \in Modes
  BY AdministrationAssumption DEF Mode, TableType, SettingsType

\* A call that goes on keeps the types, when what it goes on to fits what it knows.
LEMMA ContinueKeepsTypes ==
  ASSUME TypeOK, PcAgrees,
         NEW c \in Calls, NEW r \in CallType, NEW next \in Resting \cup Working,
         Continue(c, r, next),
         next \notin Resting => Agrees(r.request, next),
         next = "members" => r.mode \in Modes
  PROVE  /\ call' \in [Calls -> CallType]
         /\ \A x \in Calls : call'[x].pc = "members" => call'[x].mode \in Modes
         /\ PcAgrees'
<1>1. /\ call' \in [Calls -> CallType]
      /\ \A x \in Calls : x # c => call'[x] = call[x]
      /\ call'[c].pc = next
      /\ next \notin Resting => call'[c] = [r EXCEPT !.pc = next]
  BY ContinueFacts DEF TypeOK
<1>2. next \notin Resting => call'[c].request = r.request /\ call'[c].mode = r.mode
  BY <1>1 DEF CallType
<1>3. Agrees(call'[c].request, call'[c].pc)
  BY <1>1, <1>2 DEF Agrees, Resting
<1>4. \A x \in Calls : call'[x].pc = "members" => call'[x].mode \in Modes
  BY <1>1, <1>2 DEF TypeOK, Resting
<1>5. PcAgrees'
  BY <1>1, <1>3 DEF PcAgrees
<1> QED
  BY <1>1, <1>4, <1>5

\* The same for a call whose knowledge does not change.
LEMMA GotoKeepsTypes ==
  ASSUME TypeOK, PcAgrees,
         NEW c \in Calls, NEW next \in Resting \cup Working, Goto(c, next),
         next \notin Resting => Agrees(call[c].request, next),
         next # "members"
  PROVE  /\ call' \in [Calls -> CallType]
         /\ \A x \in Calls : call'[x].pc = "members" => call'[x].mode \in Modes
         /\ PcAgrees'
<1>1. call[c] \in CallType
  BY DEF TypeOK
<1> QED
  BY <1>1, ContinueKeepsTypes DEF Goto

\* A statement keeps the types of what it does not change.
LEMMA ExecuteKeepsTypes ==
  ASSUME TypeOK, NEW d \in TableType, Execute(d)
  PROVE  /\ db' \in TableType /\ disk' \in TableType
         /\ clock' \in Nat /\ restarts' \in Nat /\ witness' \subseteq Calls
  BY DEF TypeOK, Execute

\* Access checks keep the types.
LEMMA AccessKeepsTypes ==
  ASSUME TypeOK, PcAgrees, NEW c \in Calls, Access(c)
  PROVE  TypeOK' /\ PcAgrees'
<1> USE DEF Resting, Working, Committing
<1>0. /\ call[c] \in CallType /\ Agrees(call[c].request, call[c].pc)
      /\ call[c].request \in Requests \cup {NoRequest}
  BY DEF TypeOK, PcAgrees, CallType
<1>1. CASE ReadMode(c)
  <2> DEFINE r == [call[c] EXCEPT !.mode = Mode(db)]
  <2>1. Mode(db) \in Modes
    BY ModeType DEF TypeOK
  <2>2. r \in CallType /\ r.mode = Mode(db) /\ r.request = call[c].request
    BY <1>0, <2>1 DEF CallType
  <2>3. Agrees(r.request, "members")
    BY <1>0, <1>1, <2>2 DEF ReadMode, Agrees
  <2>4. Continue(c, r, "members") /\ Read
    BY <1>1 DEF ReadMode
  <2> HIDE DEF r
  <2> QED
    BY <2>1, <2>2, <2>3, <2>4, ContinueKeepsTypes DEF Read, TypeOK
<1>2. CASE ReadWhitelist(c)
  <2> DEFINE next == IF Admits(c) THEN "admitted" ELSE "purge"
  <2>1. next = "purge" => call[c].request.who \in Users
    BY <1>0, <1>2, RequestFacts DEF ReadWhitelist, Admits, Agrees, People
  <2>2. next \notin {"idle", "done", "admitted", "refused"} => Agrees(call[c].request, next)
    BY <1>0, <1>2, <2>1 DEF ReadWhitelist, Agrees
  <2>3. Goto(c, next) /\ Read /\ next \in {"admitted", "purge"}
    BY <1>2 DEF ReadWhitelist
  <2> HIDE DEF next
  <2> QED
    BY <2>2, <2>3, GotoKeepsTypes DEF Read, TypeOK
<1>3. CASE PurgeDenials(c)
  <2> DEFINE d == [db EXCEPT !.lastSeen =
                    [u \in Users |-> IF db.lastSeen[u] < call[c].at - DenialTTL THEN Never
                                     ELSE db.lastSeen[u]]]
  <2>1. d \in TableType
    BY DEF TypeOK, TableType
  <2>2. Execute(d) /\ Goto(c, "purge_commit") /\ Agrees(call[c].request, "purge_commit")
    BY <1>0, <1>3 DEF PurgeDenials, Agrees
  <2> HIDE DEF d
  <2> QED
    BY <2>1, <2>2, GotoKeepsTypes, ExecuteKeepsTypes DEF TypeOK
<1>4. CASE RecordDenial(c)
  <2> DEFINE d == [db EXCEPT !.lastSeen[call[c].request.who] = call[c].at]
  <2>1. d \in TableType
    BY <1>0 DEF TypeOK, TableType, CallType
  <2>2. Execute(d) /\ Goto(c, "record_commit") /\ Agrees(call[c].request, "record_commit")
    BY <1>0, <1>4 DEF RecordDenial, Agrees
  <2> HIDE DEF d
  <2> QED
    BY <2>1, <2>2, GotoKeepsTypes, ExecuteKeepsTypes DEF TypeOK
<1> QED
  BY <1>1, <1>2, <1>3, <1>4 DEF Access

\* The statements about settings and the whitelist keep them.
LEMMA WritesKeepTypes ==
  ASSUME TypeOK, PcAgrees, NEW c \in Calls, Setting(c) \/ Membership(c)
  PROVE  TypeOK' /\ PcAgrees'
<1> USE DEF Resting, Working, Committing
<1>0. /\ call[c] \in CallType /\ Agrees(call[c].request, call[c].pc)
      /\ call[c].request \in Requests \cup {NoRequest}
  BY DEF TypeOK, PcAgrees, CallType
<1>1. CASE UpsertSetting(c)
  <2> DEFINE a == call[c].request.arg
             k == call[c].request.conf
             d == [db EXCEPT !.settings[a.key] = a.value, !.applied = Counted(k)]
  <2>1. /\ a \in Assignments \cup CapacityChanges
        /\ k \in Calls \cup {NoCall}
        /\ call[c].pc = "upsert"
    BY <1>0, <1>1, RequestFacts DEF UpsertSetting, Agrees
  <2>2. a.key \in SettingKeys /\ a.value \in SettingValues
    BY <2>1, AssignmentType
  <2>3. /\ a.key = "access_mode" => a.value \in Modes
        /\ a.key = "capacity_bytes" => a.value \in Capacities
    BY <2>1, AdministrationAssumption DEF AllAssignments, CapacityChanges
  <2>4. [db.settings EXCEPT ![a.key] = a.value] \in SettingsType
    <3> HIDE DEF a
    <3> QED BY <2>2, <2>3 DEF TypeOK, TableType, SettingsType, SettingKeys
  <2>5. Counted(k) \in [Calls -> Nat]
    <3>1. db.applied \in [Calls -> Nat]
      BY DEF TypeOK, TableType
    <3> HIDE DEF k
    <3> QED BY <2>1, <3>1 DEF Counted
  <2>6. d \in TableType
    <3> HIDE DEF a, k
    <3> QED BY <2>4, <2>5 DEF TypeOK, TableType
  <2>7. Execute(d) /\ Goto(c, "bump") /\ Agrees(call[c].request, "bump")
    BY <1>0, <1>1 DEF UpsertSetting, Agrees
  <2> HIDE DEF d
  <2> QED
    BY <2>6, <2>7, GotoKeepsTypes, ExecuteKeepsTypes DEF TypeOK
<1>2. CASE BumpRevision(c)
  <2> DEFINE d == [db EXCEPT !.revision = @ + 1]
  <2>1. d \in TableType
    BY DEF TypeOK, TableType
  <2>2. Execute(d) /\ Goto(c, "bump_commit") /\ Agrees(call[c].request, "bump_commit")
    BY <1>0, <1>2 DEF BumpRevision, Agrees
  <2> HIDE DEF d
  <2> QED
    BY <2>1, <2>2, GotoKeepsTypes, ExecuteKeepsTypes DEF TypeOK
<1>3. CASE AddIdentity(c)
  <2> DEFINE d == [db EXCEPT !.whitelist = @ \cup {call[c].request.arg}]
  <2>1. call[c].request.arg \in Users
    BY <1>0, <1>3, RequestFacts DEF AddIdentity, Agrees
  <2>2. d \in TableType
    BY <2>1 DEF TypeOK, TableType
  <2>3. Execute(d) /\ Goto(c, "insert_commit") /\ Agrees(call[c].request, "insert_commit")
    BY <1>0, <1>3 DEF AddIdentity, Agrees
  <2> HIDE DEF d
  <2> QED
    BY <2>2, <2>3, GotoKeepsTypes, ExecuteKeepsTypes DEF TypeOK
<1>4. CASE ClearDenial(c)
  <2> DEFINE d == [db EXCEPT !.lastSeen[call[c].request.arg] = Never]
  <2>1. d \in TableType
    BY DEF TypeOK, TableType
  <2>2. Execute(d) /\ Goto(c, "clear_commit") /\ Agrees(call[c].request, "clear_commit")
    BY <1>0, <1>4 DEF ClearDenial, Agrees
  <2> HIDE DEF d
  <2> QED
    BY <2>1, <2>2, GotoKeepsTypes, ExecuteKeepsTypes DEF TypeOK
<1>5. CASE RemoveIdentity(c)
  <2> DEFINE d == [db EXCEPT !.whitelist = @ \ {call[c].request.arg}]
  <2>1. d \in TableType
    BY DEF TypeOK, TableType
  <2>2. Execute(d) /\ Goto(c, "delete_commit") /\ Agrees(call[c].request, "delete_commit")
    BY <1>0, <1>5 DEF RemoveIdentity, Agrees
  <2> HIDE DEF d
  <2> QED
    BY <2>1, <2>2, GotoKeepsTypes, ExecuteKeepsTypes DEF TypeOK
<1> QED
  BY <1>1, <1>2, <1>3, <1>4, <1>5 DEF Setting, Membership

\* The statements about confirmations keep them.
LEMMA ConfirmationKeepsTypes ==
  ASSUME TypeOK, PcAgrees, NEW c \in Calls, Confirmation(c)
  PROVE  TypeOK' /\ PcAgrees'
<1> USE DEF Resting, Working, Committing
<1>0. /\ call[c] \in CallType /\ Agrees(call[c].request, call[c].pc)
      /\ call[c].request \in Requests \cup {NoRequest}
  BY DEF TypeOK, PcAgrees, CallType
<1>1. CASE ReadRevision(c)
  <2> DEFINE r == [call[c] EXCEPT !.revision = db.revision]
  <2>1. r \in CallType /\ r.request = call[c].request
    BY <1>0 DEF CallType, TypeOK, TableType
  <2>2. Agrees(r.request, "create")
    BY <1>0, <1>1, <2>1 DEF ReadRevision, Agrees
  <2>3. Continue(c, r, "create") /\ Read
    BY <1>1 DEF ReadRevision
  <2> HIDE DEF r
  <2> QED
    BY <2>1, <2>2, <2>3, ContinueKeepsTypes DEF Read, TypeOK
<1>2. CASE CreateConfirmation(c)
  <2> DEFINE row == [state |-> "open", owner |-> call[c].request.who,
                     value |-> call[c].request.arg.value, revision |-> call[c].revision,
                     expires |-> call[c].at + ConfirmTTL]
             d == [db EXCEPT !.rows[c] = row]
  <2>1. /\ call[c].request.who \in People
        /\ call[c].request.arg \in CapacityChanges
        /\ call[c].revision \in Nat /\ call[c].at \in Nat
    BY <1>0, <1>2, RequestFacts DEF CreateConfirmation, Agrees, CallType
  <2>2. row \in RowType
    BY <2>1, AssignmentType, AdministrationAssumption DEF RowType
  <2>3. d \in TableType
    <3> HIDE DEF row
    <3> QED BY <2>2 DEF TypeOK, TableType
  <2>4. Execute(d) /\ Goto(c, "create_commit") /\ Agrees(call[c].request, "create_commit")
    BY <1>0, <1>2 DEF CreateConfirmation, Agrees
  <2> HIDE DEF d
  <2> QED
    BY <2>3, <2>4, GotoKeepsTypes, ExecuteKeepsTypes DEF TypeOK
<1>3. CASE SelectConfirmation(c)
  <2> DEFINE row == db.rows[call[c].request.conf]
             r == [call[c] EXCEPT !.revision = row.revision]
             next == IF Matches(c, row) THEN "check" ELSE "done"
  <2>1. call[c].request.conf \in Calls
    BY <1>0, <1>3, RequestFacts DEF SelectConfirmation, Agrees
  <2>2. row.revision \in Nat
    BY <2>1 DEF TypeOK, TableType, RowType
  <2>3. r \in CallType /\ r.request = call[c].request
    BY <1>0, <2>2 DEF CallType
  <2>4. Agrees(r.request, "check")
    BY <1>0, <1>3, <2>3 DEF SelectConfirmation, Agrees
  <2>5. Continue(c, r, next) /\ Read /\ next \in {"check", "done"}
    BY <1>3 DEF SelectConfirmation
  <2> HIDE DEF r, next
  <2> QED
    BY <2>3, <2>4, <2>5, ContinueKeepsTypes DEF Read, TypeOK
<1>4. CASE CheckRevision(c)
  <2> DEFINE next == IF call[c].revision = db.revision THEN "take" ELSE "done"
  <2>1. /\ Goto(c, next) /\ Read /\ next \in {"take", "done"}
        /\ Agrees(call[c].request, "take")
    BY <1>0, <1>4 DEF CheckRevision, Agrees
  <2> HIDE DEF next
  <2> QED
    BY <2>1, GotoKeepsTypes DEF Read, TypeOK
<1>5. CASE TakeConfirmation(c)
  <2> DEFINE k == call[c].request.conf
             open == db.rows[k].state = "open"
             d == IF open THEN [db EXCEPT !.rows[k].state = "used"] ELSE db
             r == [call[c] EXCEPT !.taken = open]
  <2>1. k \in Calls
    BY <1>0, <1>5, RequestFacts DEF TakeConfirmation, Agrees
  <2>2. d \in TableType
    <3>1. db.rows \in [Calls -> RowType] /\ db.rows[k] \in RowType
      BY <2>1 DEF TypeOK, TableType
    <3>2. [db.rows EXCEPT ![k].state = "used"] \in [Calls -> RowType]
      <4> HIDE DEF k
      <4> QED BY <2>1, <3>1 DEF RowType
    <3>3. [db EXCEPT !.rows = [db.rows EXCEPT ![k].state = "used"]] \in TableType
      BY <3>2 DEF TypeOK, TableType
    <3> QED BY <3>3 DEF TypeOK
  <2>3. open \in BOOLEAN
    OBVIOUS
  <2>4. r \in CallType /\ r.request = call[c].request
    <3> HIDE DEF open
    <3> QED BY <1>0, <2>3 DEF CallType
  <2>5. Agrees(r.request, "take_commit")
    BY <1>0, <1>5, <2>4 DEF TakeConfirmation, Agrees
  <2>6. Execute(d) /\ Continue(c, r, "take_commit")
    BY <1>5 DEF TakeConfirmation
  <2> HIDE DEF d, r
  <2> QED
    BY <2>2, <2>4, <2>5, <2>6, ContinueKeepsTypes, ExecuteKeepsTypes DEF TypeOK
<1> QED
  BY <1>1, <1>2, <1>3, <1>4, <1>5 DEF Confirmation

\* Every step keeps the types, and every call at a statement of its command.
LEMMA NextKeepsTypes ==
  ASSUME TypeOK, PcAgrees, [Next]_vars
  PROVE  TypeOK' /\ PcAgrees'
<1> USE DEF Resting, Working, Committing
<1>1. ASSUME NEW c \in Calls, Receive(c)
      PROVE  TypeOK' /\ PcAgrees'
  <2>1. PICK q \in Requests :
          /\ Continue(c, [call[c] EXCEPT !.request = q, !.at = clock],
                      IF Accepted(q) THEN FirstStep[q.op] ELSE "done")
          /\ witness' = IF q.op = "use" /\ Allowed(db, q.who) THEN witness \cup {c}
                        ELSE witness
    BY <1>1 DEF Receive
  <2> DEFINE r == [call[c] EXCEPT !.request = q, !.at = clock]
             next == IF Accepted(q) THEN FirstStep[q.op] ELSE "done"
  <2>2. r \in CallType /\ r.request = q
    BY DEF TypeOK, CallType
  <2>3. q.op \in {"use", "set", "whitelist_add", "whitelist_remove", "whitelist_pending",
                  "capacity_ask", "capacity_confirm"}
    BY DEF Requests
  <2>4. /\ next \in Resting \cup Working /\ next # "members"
        /\ next \notin Resting => Agrees(q, next)
    BY <2>3 DEF FirstStep, Agrees
  <2>5. Continue(c, r, next) /\ witness' \subseteq Calls
    BY <2>1 DEF TypeOK
  <2> HIDE DEF r, next
  <2> QED
    BY <1>1, <2>2, <2>4, <2>5, ContinueKeepsTypes DEF TypeOK, Receive
<1>2. ASSUME NEW c \in Calls, Commit(c)
      PROVE  TypeOK' /\ PcAgrees'
  <2>1. Agrees(call[c].request, call[c].pc)
    BY DEF PcAgrees
  <2>2. AfterCommit(c) \in {"record", "refused", "clear", "upsert", "done"}
    BY DEF AfterCommit
  <2>3. AfterCommit(c) \in {"record", "clear", "upsert"} => Agrees(call[c].request, AfterCommit(c))
    BY <2>1, <1>2 DEF AfterCommit, Agrees, Commit
  <2>4. Goto(c, AfterCommit(c))
    BY <1>2 DEF Commit
  <2> QED
    BY <1>2, <2>2, <2>3, <2>4, GotoKeepsTypes DEF Commit, TypeOK
<1>3. ASSUME NEW c \in Calls, Fail(c)
      PROVE  TypeOK' /\ PcAgrees'
  BY <1>3, GotoKeepsTypes DEF Fail, Read, TypeOK
<1>4. CASE Tick
  BY <1>4 DEF Tick, TypeOK, PcAgrees
<1>5. CASE Crash
  <2>1. [Blank EXCEPT !.pc = "done"] \in CallType
    BY DEF Blank, CallType
  <2>2. call' \in [Calls -> CallType]
    BY <1>5, <2>1 DEF Crash, TypeOK
  <2>3. \A c \in Calls : call'[c].pc \notin Working
    BY <1>5 DEF Crash, Blank, TypeOK, CallType
  <2>4. PcAgrees'
    BY <2>3 DEF PcAgrees, Agrees
  <2> QED
    BY <1>5, <2>2, <2>3, <2>4 DEF Crash, TypeOK
<1>6. CASE UNCHANGED vars
  BY <1>6 DEF vars, TypeOK, PcAgrees
<1> QED
  BY <1>1, <1>2, <1>3, <1>4, <1>5, <1>6, AccessKeepsTypes, WritesKeepTypes,
     ConfirmationKeepsTypes DEF Next

\* The tables are empty and nothing has been asked.
LEMMA InitTypes == Init => TypeOK /\ PcAgrees
<1> SUFFICES ASSUME Init PROVE TypeOK /\ PcAgrees
  OBVIOUS
<1>1. Blank \in CallType /\ Blank.pc = "idle"
  BY DEF Blank, CallType, Resting
<1>2. NoRow \in RowType
  BY DEF NoRow, RowType
<1>3. Tables \in TableType
  BY <1>2 DEF Tables, TableType, SettingsType, SettingKeys, SettingValues, Never
<1> QED
  BY <1>1, <1>3 DEF Init, TypeOK, PcAgrees, Agrees

\* Tables, requests and coroutines are of the declared types.
THEOREM Types == Spec => []TypeOK
<1>1. TypeOK /\ PcAgrees /\ [Next]_vars => (TypeOK /\ PcAgrees)'
  BY NextKeepsTypes
<1> QED
  BY <1>1, InitTypes, PTL DEF Spec

------------------------------------------------------------------------------
(* Confirmations.                                                           *)

\* The statements that change nothing about confirmations, commits included.
LEMMA QuietStep ==
  ASSUME TypeOK, CInv,
         db'.rows = db.rows, db'.applied = db.applied,
         db'.settings["capacity_bytes"] = db.settings["capacity_bytes"],
         disk' = disk \/ (disk' = db /\ db' = db),
         \A c, k \in Calls : Holds(c, k)' => Holds(c, k),
         \A c, k \in Calls :
           Compared(c, k)' => Compared(c, k) /\ call'[c].request = call[c].request,
         \A c \in Calls : call[c].pc \in {"create_commit", "done"}
                           => call'[c].pc \in {"create_commit", "done"}
  PROVE  CInv'
<1>1. HeldOnce'
  BY DEF CInv, HeldOnce, TypeOK, TableType
<1>2. ComparedStaysEqual'
  BY DEF CInv, ComparedStaysEqual
<1>3. RowsAreOld'
  BY DEF CInv, RowsAreOld
<1>4. DiskIsBehind'
  <2>1. CASE disk' = disk
    BY <2>1 DEF CInv, DiskIsBehind
  <2>2. CASE disk' = db /\ db' = db
    BY <2>2 DEF DiskIsBehind, TypeOK, TableType
  <2> QED BY <2>1, <2>2
<1>5. AppliedOnce'
  BY DEF CInv, AppliedOnce, AppliedOnceIn
<1>6. CapacityWasConfirmed'
  BY DEF CInv, CapacityWasConfirmed, ConfirmedIn
<1> QED
  BY <1>1, <1>2, <1>3, <1>4, <1>5, <1>6 DEF CInv

\* A call that goes on to a statement before the comparison, or ends, holds nothing.
LEMMA ContinueHoldsNothing ==
  ASSUME TypeOK, NEW c \in Calls, NEW r \in CallType, NEW next \in Resting \cup Working,
         Continue(c, r, next),
         r.request.op # "capacity_confirm"
           \/ next \notin {"check", "take", "take_commit", "upsert"},
         call[c].pc \in {"create_commit", "done"} => next \in {"create_commit", "done"}
  PROVE  /\ \A x, k \in Calls : Holds(x, k)' => Holds(x, k)
         /\ \A x, k \in Calls :
              Compared(x, k)' => Compared(x, k) /\ call'[x].request = call[x].request
         /\ \A x \in Calls : call[x].pc \in {"create_commit", "done"}
                             => call'[x].pc \in {"create_commit", "done"}
<1>1. /\ \A x \in Calls : x # c => call'[x] = call[x]
      /\ call'[c].pc = next
      /\ next \notin Resting => call'[c] = [r EXCEPT !.pc = next]
  BY ContinueFacts DEF TypeOK
<1>2. next \notin Resting => call'[c].request = r.request
  BY <1>1 DEF CallType
<1> QED
  BY <1>1, <1>2 DEF Holds, Compared, Resting

\* Such a step, when its statement is not about confirmations either.
LEMMA QuietContinue ==
  ASSUME TypeOK, CInv,
         NEW c \in Calls, NEW r \in CallType, NEW next \in Resting \cup Working,
         Continue(c, r, next),
         r.request.op # "capacity_confirm"
           \/ next \notin {"check", "take", "take_commit", "upsert"},
         call[c].pc \in {"create_commit", "done"} => next \in {"create_commit", "done"},
         db'.rows = db.rows, db'.applied = db.applied,
         db'.settings["capacity_bytes"] = db.settings["capacity_bytes"], disk' = disk
  PROVE  CInv'
  BY ContinueHoldsNothing, QuietStep

\* The same for a call whose knowledge does not change.
LEMMA QuietGoto ==
  ASSUME TypeOK, CInv, NEW c \in Calls, NEW next \in Resting \cup Working,
         Goto(c, next),
         call[c].request.op # "capacity_confirm"
           \/ next \notin {"check", "take", "take_commit", "upsert"},
         call[c].pc \in {"create_commit", "done"} => next \in {"create_commit", "done"},
         db'.rows = db.rows, db'.applied = db.applied,
         db'.settings["capacity_bytes"] = db.settings["capacity_bytes"], disk' = disk
  PROVE  CInv'
<1>1. call[c] \in CallType
  BY DEF TypeOK
<1> QED
  BY <1>1, QuietContinue DEF Goto

\* Access checks do not touch confirmations.
LEMMA AccessKeepsCInv ==
  ASSUME TypeOK, PcAgrees, CInv, NEW c \in Calls, Access(c)
  PROVE  CInv'
<1> USE DEF Resting, Working, Committing
<1>1. CASE ReadMode(c)
  <2> DEFINE r == [call[c] EXCEPT !.mode = Mode(db)]
  <2>1. r \in CallType
    BY ModeType DEF TypeOK, CallType
  <2>2. Continue(c, r, "members") /\ Read /\ call[c].pc = "mode"
    BY <1>1 DEF ReadMode
  <2> HIDE DEF r
  <2> QED
    BY <2>1, <2>2, QuietContinue DEF Read
<1>2. CASE ReadWhitelist(c)
  <2>1. Admits(c) => Goto(c, "admitted")
    BY <1>2 DEF ReadWhitelist
  <2>2. ~Admits(c) => Goto(c, "purge")
    BY <1>2 DEF ReadWhitelist
  <2>3. call[c].pc = "members" /\ Read
    BY <1>2 DEF ReadWhitelist
  <2> QED
    BY <2>1, <2>2, <2>3, QuietGoto DEF Read
<1>3. CASE PurgeDenials(c)
  <2>1. /\ db'.rows = db.rows /\ db'.applied = db.applied /\ db'.settings = db.settings
        /\ disk' = disk
    BY <1>3 DEF PurgeDenials, Execute, TypeOK, TableType
  <2>2. Goto(c, "purge_commit") /\ call[c].pc = "purge"
    BY <1>3 DEF PurgeDenials
  <2> QED
    BY <2>1, <2>2, QuietGoto
<1>4. CASE RecordDenial(c)
  <2>1. /\ db'.rows = db.rows /\ db'.applied = db.applied /\ db'.settings = db.settings
        /\ disk' = disk
    BY <1>4 DEF RecordDenial, Execute, TypeOK, TableType
  <2>2. Goto(c, "record_commit") /\ call[c].pc = "record"
    BY <1>4 DEF RecordDenial
  <2> QED
    BY <2>1, <2>2, QuietGoto
<1> QED
  BY <1>1, <1>2, <1>3, <1>4 DEF Access

\* Nor do the statements about the whitelist and the revision.
LEMMA MembershipKeepsCInv ==
  ASSUME TypeOK, PcAgrees, CInv, NEW c \in Calls, BumpRevision(c) \/ Membership(c)
  PROVE  CInv'
<1> USE DEF Resting, Working, Committing
<1>1. CASE BumpRevision(c)
  <2>1. /\ db'.rows = db.rows /\ db'.applied = db.applied /\ db'.settings = db.settings
        /\ disk' = disk
    BY <1>1 DEF BumpRevision, Execute, TypeOK, TableType
  <2>2. Goto(c, "bump_commit") /\ call[c].pc = "bump"
    BY <1>1 DEF BumpRevision
  <2> QED
    BY <2>1, <2>2, QuietGoto
<1>2. CASE AddIdentity(c)
  <2>1. /\ db'.rows = db.rows /\ db'.applied = db.applied /\ db'.settings = db.settings
        /\ disk' = disk
    BY <1>2 DEF AddIdentity, Execute, TypeOK, TableType
  <2>2. Goto(c, "insert_commit") /\ call[c].pc = "insert"
    BY <1>2 DEF AddIdentity
  <2> QED
    BY <2>1, <2>2, QuietGoto
<1>3. CASE ClearDenial(c)
  <2>1. /\ db'.rows = db.rows /\ db'.applied = db.applied /\ db'.settings = db.settings
        /\ disk' = disk
    BY <1>3 DEF ClearDenial, Execute, TypeOK, TableType
  <2>2. Goto(c, "clear_commit") /\ call[c].pc = "clear"
    BY <1>3 DEF ClearDenial
  <2> QED
    BY <2>1, <2>2, QuietGoto
<1>4. CASE RemoveIdentity(c)
  <2>1. /\ db'.rows = db.rows /\ db'.applied = db.applied /\ db'.settings = db.settings
        /\ disk' = disk
    BY <1>4 DEF RemoveIdentity, Execute, TypeOK, TableType
  <2>2. Goto(c, "delete_commit") /\ call[c].pc = "delete"
    BY <1>4 DEF RemoveIdentity
  <2> QED
    BY <2>1, <2>2, QuietGoto
<1> QED
  BY <1>1, <1>2, <1>3, <1>4 DEF Membership

\* A setting that needs no confirmation is not the capacity.
LEMMA PlainUpsertKeepsCInv ==
  ASSUME TypeOK, PcAgrees, CInv, NEW c \in Calls, UpsertSetting(c),
         call[c].request.op = "set"
  PROVE  CInv'
<1> USE DEF Resting, Working, Committing
<1> DEFINE a == call[c].request.arg
<1>1. call[c].request \in Requests \cup {NoRequest}
  BY DEF TypeOK, CallType
<1>2. a \in Assignments /\ call[c].request.conf = NoCall
  BY <1>1, RequestFacts
<1>3. a.key \in SettingKeys /\ a.key # "capacity_bytes"
  BY <1>2, AssignmentType
<1>4. /\ db' = [db EXCEPT !.settings[a.key] = a.value, !.applied = db.applied]
      /\ disk' = disk /\ Goto(c, "bump") /\ call[c].pc = "upsert"
  BY <1>2 DEF UpsertSetting, Execute, Counted
<1>5. /\ db'.rows = db.rows /\ db'.applied = db.applied
      /\ db'.settings["capacity_bytes"] = db.settings["capacity_bytes"]
  <2> HIDE DEF a
  <2> QED BY <1>3, <1>4 DEF TypeOK, TableType, SettingsType, SettingKeys
<1> QED
  BY <1>4, <1>5, QuietGoto

\* A confirmation is created once, in a row that was empty.
LEMMA CreateKeepsCInv ==
  ASSUME TypeOK, PcAgrees, CInv, NEW c \in Calls, CreateConfirmation(c)
  PROVE  CInv'
<1> USE DEF Resting, Working, Committing
<1> DEFINE row == [state |-> "open", owner |-> call[c].request.who,
                   value |-> call[c].request.arg.value, revision |-> call[c].revision,
                   expires |-> call[c].at + ConfirmTTL]
<1>1. /\ db' = [db EXCEPT !.rows[c] = row] /\ disk' = disk
      /\ Goto(c, "create_commit") /\ call[c].pc = "create" /\ call[c] \in CallType
  BY DEF CreateConfirmation, Execute, TypeOK
<1>2. /\ db'.settings = db.settings /\ db'.applied = db.applied
      /\ \A k \in Calls : k # c => db'.rows[k] = db.rows[k]
      /\ db'.rows[c] = row
  <2> HIDE DEF row
  <2> QED BY <1>1 DEF TypeOK, TableType
<1>3. db.rows[c].state = "none" /\ disk.rows[c].state = "none"
  BY <1>1 DEF CInv, RowsAreOld
<1>4. /\ \A x, k \in Calls : Holds(x, k)' => Holds(x, k)
      /\ \A x, k \in Calls :
           Compared(x, k)' => Compared(x, k) /\ call'[x].request = call[x].request
      /\ \A x \in Calls : call[x].pc \in {"create_commit", "done"}
                          => call'[x].pc \in {"create_commit", "done"}
  BY <1>1, ContinueHoldsNothing DEF Goto
<1>5. call'[c].pc = "create_commit"
  BY <1>1, ContinueFacts DEF Goto, TypeOK
<1>6. db.applied[c] # 1 /\ disk.applied[c] # 1
  BY <1>3 DEF CInv, AppliedOnce, AppliedOnceIn
<1>7. row.state = "open"
  OBVIOUS
<1> HIDE DEF row
<1>8. HeldOnce'
  BY <1>1, <1>2, <1>3, <1>4 DEF CInv, HeldOnce
<1>9. ComparedStaysEqual'
  BY <1>2, <1>3, <1>4 DEF CInv, ComparedStaysEqual
<1>10. RowsAreOld'
  BY <1>1, <1>2, <1>4, <1>5 DEF CInv, RowsAreOld
<1>11. DiskIsBehind'
  BY <1>1, <1>2, <1>3 DEF CInv, DiskIsBehind
<1>12. AppliedOnce'
  BY <1>1, <1>2, <1>6 DEF CInv, AppliedOnce, AppliedOnceIn
<1>13. CapacityWasConfirmed'
  BY <1>1, <1>2, <1>6 DEF CInv, CapacityWasConfirmed, ConfirmedIn
<1> QED
  BY <1>8, <1>9, <1>10, <1>11, <1>12, <1>13 DEF CInv

\* What is selected is compared; what is checked again was compared.
LEMMA LookKeepsCInv ==
  ASSUME TypeOK, PcAgrees, CInv, NEW c \in Calls,
         ReadRevision(c) \/ SelectConfirmation(c) \/ CheckRevision(c)
  PROVE  CInv'
<1> USE DEF Resting, Working, Committing
<1>0. call[c] \in CallType
  BY DEF TypeOK
<1>1. CASE ReadRevision(c)
  <2> DEFINE r == [call[c] EXCEPT !.revision = db.revision]
  <2>1. r \in CallType
    BY <1>0 DEF CallType, TypeOK, TableType
  <2>2. Continue(c, r, "create") /\ Read /\ call[c].pc = "revision"
    BY <1>1 DEF ReadRevision
  <2> HIDE DEF r
  <2> QED
    BY <2>1, <2>2, QuietContinue DEF Read
<1>2. CASE SelectConfirmation(c)
  <2> DEFINE k == call[c].request.conf
             r == [call[c] EXCEPT !.revision = db.rows[k].revision]
  <2>1. k \in Calls /\ call[c].pc = "select" /\ Read
    BY <1>0, <1>2, RequestFacts DEF SelectConfirmation, PcAgrees, Agrees, CallType
  <2>2. db.rows[k].revision \in Nat
    <3> HIDE DEF k
    <3> QED BY <2>1 DEF TypeOK, TableType, RowType
  <2>3. r \in CallType /\ r.request = call[c].request
    BY <1>0, <2>2 DEF CallType
  <2>4. CASE Matches(c, db.rows[k])
    <3>1. Continue(c, r, "check")
      BY <1>2, <2>4 DEF SelectConfirmation
    <3> HIDE DEF r
    <3>0. "check" \in Resting \cup Working /\ "check" \notin Resting
      OBVIOUS
    <3>2. /\ \A x \in Calls : x # c => call'[x] = call[x]
          /\ call'[c].pc = "check" /\ call'[c] = [r EXCEPT !.pc = "check"]
      <4> HIDE DEF Resting, Working, Committing
      <4>1. call \in [Calls -> CallType]
        BY DEF TypeOK
      <4> QED BY <2>3, <3>0, <3>1, <4>1, ContinueFacts
    <3>3. call'[c].request = call[c].request
      BY <2>3, <3>2 DEF CallType
    <3>4. db.rows[k].state = "open" /\ db.rows[k].value = call[c].request.arg.value
      BY <2>4 DEF Matches
    <3>5. UNCHANGED <<db, disk>>
      BY <2>1 DEF Read
    <3>6. \A x, y \in Calls : Holds(x, y)' => Holds(x, y)
      BY <3>2, <3>3 DEF Holds
    <3>7. ComparedStaysEqual'
      <4> SUFFICES ASSUME NEW x \in Calls, NEW y \in Calls, Compared(x, y)'
                   PROVE  db.rows[y].state # "none" /\ db.rows[y].value = call'[x].request.arg.value
        BY <3>5 DEF ComparedStaysEqual
      <4>1. CASE x = c
        BY <3>3, <3>4, <4>1 DEF Compared
      <4>2. CASE x # c
        BY <3>2, <4>2 DEF Compared, CInv, ComparedStaysEqual
      <4> QED BY <4>1, <4>2
    <3>8. RowsAreOld'
      BY <2>1, <3>2, <3>5 DEF CInv, RowsAreOld
    <3> QED
      BY <3>5, <3>6, <3>7, <3>8 DEF CInv, HeldOnce, DiskIsBehind, AppliedOnce,
         AppliedOnceIn, CapacityWasConfirmed, ConfirmedIn
  <2>5. CASE ~Matches(c, db.rows[k])
    <3>1. Continue(c, r, "done")
      BY <1>2, <2>5 DEF SelectConfirmation
    <3> HIDE DEF r
    <3> QED
      BY <2>1, <2>3, <3>1, QuietContinue DEF Read
  <2> QED
    BY <2>4, <2>5
<1>3. CASE CheckRevision(c)
  <2>1. call[c].pc = "check" /\ Read
    BY <1>3 DEF CheckRevision
  <2>2. CASE call[c].revision = db.revision
    <3>1. Goto(c, "take")
      BY <1>3, <2>2 DEF CheckRevision
    <3>2. /\ \A x \in Calls : x # c => call'[x] = call[x]
          /\ call'[c].pc = "take" /\ call'[c] = [call[c] EXCEPT !.pc = "take"]
      BY <1>0, <3>1, ContinueFacts DEF TypeOK, Goto
    <3>3. call'[c].request = call[c].request
      BY <1>0, <3>2 DEF CallType
    <3> QED
      BY <2>1, <3>2, <3>3, QuietStep DEF Read, Holds, Compared
  <2>3. CASE call[c].revision # db.revision
    <3>1. Goto(c, "done")
      BY <1>3, <2>3 DEF CheckRevision
    <3> QED
      BY <2>1, <3>1, QuietGoto DEF Read
  <2> QED
    BY <2>2, <2>3
<1> QED
  BY <1>1, <1>2, <1>3

\* Whoever takes an open confirmation is the only one to hold it.
LEMMA TakeKeepsCInv ==
  ASSUME TypeOK, PcAgrees, CInv, NEW c \in Calls, TakeConfirmation(c)
  PROVE  CInv'
<1> DEFINE k == call[c].request.conf
           open == db.rows[k].state = "open"
           r == [call[c] EXCEPT !.taken = open]
<1>1. /\ call[c] \in CallType /\ call[c].pc = "take"
      /\ call[c].request.op = "capacity_confirm" /\ k \in Calls
  BY RequestFacts DEF TakeConfirmation, PcAgrees, Agrees, TypeOK, CallType
<1>2. r \in CallType /\ r.request = call[c].request /\ r.taken = open
  <2>1. open \in BOOLEAN
    OBVIOUS
  <2> HIDE DEF open
  <2> QED BY <1>1, <2>1 DEF CallType
<1>3. Continue(c, r, "take_commit") /\ disk' = disk
  BY DEF TakeConfirmation, Execute
<1> HIDE DEF r
<1>4. /\ \A x \in Calls : x # c => call'[x] = call[x]
      /\ call'[c] = [r EXCEPT !.pc = "take_commit"]
  <2>1. "take_commit" \in Resting \cup Working /\ "take_commit" \notin Resting
    BY DEF Resting, Working, Committing
  <2> QED
    BY <1>2, <1>3, <2>1, ContinueFacts DEF TypeOK
<1>5. /\ call'[c].pc = "take_commit" /\ call'[c].request = call[c].request
      /\ call'[c].taken = open
  BY <1>2, <1>4 DEF CallType
<1>6. /\ db'.settings = db.settings /\ db'.applied = db.applied
      /\ \A y \in Calls : y # k => db'.rows[y] = db.rows[y]
      /\ db'.rows[k].value = db.rows[k].value
      /\ open => db'.rows[k].state = "used"
      /\ ~open => db'.rows[k].state = db.rows[k].state
  <2>1. db' = IF open THEN [db EXCEPT !.rows[k].state = "used"] ELSE db
    BY DEF TakeConfirmation, Execute
  <2>2. db \in TableType /\ db.rows \in [Calls -> RowType] /\ db.rows[k] \in RowType
    BY <1>1 DEF TypeOK, TableType
  <2> HIDE DEF k
  <2> QED BY <1>1, <2>1, <2>2 DEF TableType, RowType
<1>7. /\ Compared(c, k) /\ db.rows[k].state # "none"
      /\ \A x, y \in Calls : Compared(x, y)' => Compared(x, y) /\ call'[x].request = call[x].request
  BY <1>1, <1>4, <1>5 DEF Compared, CInv, ComparedStaysEqual
<1>8. \A x, y \in Calls : Holds(x, y)' => Holds(x, y) \/ (x = c /\ y = k /\ open)
  BY <1>4, <1>5 DEF Holds
<1>9. open => /\ db.applied[k] = 0 /\ disk.applied[k] = 0
              /\ \A x \in Calls : ~Holds(x, k)
  <2>1. db.applied[k] \in Nat /\ disk.applied[k] \in Nat
    BY <1>1 DEF TypeOK, TableType
  <2> HIDE DEF k
  <2> QED
    BY <1>1, <2>1 DEF CInv, AppliedOnce, AppliedOnceIn, DiskIsBehind, HeldOnce
<1> HIDE DEF k, open
<1>10. HeldOnce'
  <2> SUFFICES ASSUME NEW x \in Calls, NEW y \in Calls, Holds(x, y)'
               PROVE  /\ db'.rows[y].state = "used" /\ db'.applied[y] = 0 /\ disk'.applied[y] = 0
                      /\ \A z \in Calls : Holds(z, y)' => z = x
    BY DEF HeldOnce
  <2>1. CASE Holds(x, y)
    BY <1>3, <1>6, <1>8, <1>9, <2>1 DEF CInv, HeldOnce
  <2>2. CASE x = c /\ y = k /\ open
    BY <1>3, <1>6, <1>8, <1>9, <2>2
  <2> QED
    BY <1>8, <2>1, <2>2
<1>11. ComparedStaysEqual'
  BY <1>6, <1>7 DEF CInv, ComparedStaysEqual
<1>12. RowsAreOld'
  BY <1>3, <1>4, <1>6, <1>7, <1>1 DEF CInv, RowsAreOld
<1>13. DiskIsBehind'
  BY <1>3, <1>6, <1>7 DEF CInv, DiskIsBehind
<1>14. AppliedOnce'
  BY <1>3, <1>6 DEF CInv, AppliedOnce, AppliedOnceIn
<1>15. CapacityWasConfirmed'
  BY <1>3, <1>6 DEF CInv, CapacityWasConfirmed, ConfirmedIn
<1> QED
  BY <1>10, <1>11, <1>12, <1>13, <1>14, <1>15 DEF CInv

\* Who holds a confirmation changes the capacity to its value, and no longer holds it.
LEMMA ConfirmedUpsertKeepsCInv ==
  ASSUME TypeOK, PcAgrees, CInv, NEW c \in Calls, UpsertSetting(c),
         call[c].request.op = "capacity_confirm"
  PROVE  CInv'
<1> DEFINE a == call[c].request.arg
           k == call[c].request.conf
<1>1. /\ call[c] \in CallType /\ call[c].pc = "upsert" /\ k \in Calls
      /\ a.key = "capacity_bytes" /\ a.value \in Capacities
  <2>1. call[c] \in CallType /\ call[c].request \in Requests \cup {NoRequest}
    BY DEF TypeOK, CallType
  <2>2. a \in CapacityChanges /\ k \in Calls
    BY <2>1, RequestFacts
  <2> QED
    BY <2>1, <2>2, AssignmentType DEF UpsertSetting
<1>2. Holds(c, k) /\ Compared(c, k)
  BY <1>1 DEF Holds, Compared
<1>3. /\ db.rows[k].state = "used" /\ db.applied[k] = 0 /\ disk.applied[k] = 0
      /\ \A x \in Calls : Holds(x, k) => x = c
      /\ db.rows[k].value = a.value
  BY <1>1, <1>2 DEF CInv, HeldOnce, ComparedStaysEqual
<1>4. /\ db'.rows = db.rows /\ db'.settings["capacity_bytes"] = a.value
      /\ db'.applied[k] = 1
      /\ \A y \in Calls : y # k => db'.applied[y] = db.applied[y]
      /\ disk' = disk
  <2>0. /\ db' = [db EXCEPT !.settings[a.key] = a.value, !.applied = Counted(k)]
        /\ disk' = disk
    BY DEF UpsertSetting, Execute
  <2>1. Counted(k) = [db.applied EXCEPT ![k] = @ + 1]
    <3>1. k # NoCall
      BY <1>1, AdministrationAssumption
    <3> QED BY <3>1 DEF Counted
  <2>2. /\ db \in TableType /\ db.settings \in [SettingKeys -> SettingValues]
        /\ db.applied \in [Calls -> Nat] /\ "capacity_bytes" \in SettingKeys
    BY DEF TypeOK, TableType, SettingsType, SettingKeys
  <2> HIDE DEF a, k
  <2>3. db'.settings = [db.settings EXCEPT ![a.key] = a.value] /\ db'.applied = Counted(k)
        /\ db'.rows = db.rows
    BY <2>0, <2>2 DEF TableType
  <2> QED
    BY <1>1, <1>3, <2>0, <2>1, <2>2, <2>3
<1>5. Goto(c, "bump")
  BY DEF UpsertSetting
<1>6. /\ \A x \in Calls : x # c => call'[x] = call[x]
      /\ call'[c].pc = "bump"
  <2>1. "bump" \in Resting \cup Working
    BY DEF Working
  <2>2. Continue(c, call[c], "bump") /\ call \in [Calls -> CallType] /\ call[c] \in CallType
    BY <1>5 DEF Goto, TypeOK
  <2> QED
    BY <2>1, <2>2, ContinueFacts
<1>7. /\ \A x, y \in Calls : Holds(x, y)' => Holds(x, y) /\ y # k
      /\ \A x, y \in Calls : Compared(x, y)' => Compared(x, y) /\ call'[x].request = call[x].request
  BY <1>3, <1>6 DEF Holds, Compared
<1> HIDE DEF a, k
<1>8. HeldOnce'
  BY <1>4, <1>7 DEF CInv, HeldOnce
<1>9. ComparedStaysEqual'
  BY <1>4, <1>7 DEF CInv, ComparedStaysEqual
<1>10. RowsAreOld'
  BY <1>1, <1>4, <1>6 DEF CInv, RowsAreOld
<1>11. DiskIsBehind'
  <2>1. \A y \in Calls : disk'.applied[y] <= db'.applied[y]
    BY <1>3, <1>4 DEF CInv, DiskIsBehind
  <2>2. disk'.applied[k] = 0 /\ db'.applied[k] = 1
    BY <1>3, <1>4
  <2> QED
    BY <1>1, <1>4, <2>1, <2>2 DEF CInv, DiskIsBehind
<1>12. AppliedOnce'
  BY <1>3, <1>4 DEF CInv, AppliedOnce, AppliedOnceIn
<1>13. CapacityWasConfirmed'
  BY <1>1, <1>3, <1>4 DEF CInv, CapacityWasConfirmed, ConfirmedIn
<1> QED
  BY <1>8, <1>9, <1>10, <1>11, <1>12, <1>13 DEF CInv

\* A commit makes the tables durable as they are.
LEMMA CommitKeepsCInv ==
  ASSUME TypeOK, PcAgrees, CInv, NEW c \in Calls, Commit(c)
  PROVE  CInv'
<1> DEFINE next == AfterCommit(c)
<1>1. /\ disk' = db /\ db' = db /\ Goto(c, next)
      /\ call[c].pc \in Committing /\ call[c] \in CallType
  BY DEF Commit, TypeOK
<1>2. /\ next \in {"record", "refused", "clear", "upsert", "done"}
      /\ next = "upsert" => call[c].pc = "take_commit" /\ call[c].taken
      /\ call[c].pc = "create_commit" => next = "done"
  BY DEF AfterCommit
<1>3. /\ \A x \in Calls : x # c => call'[x] = call[x]
      /\ call'[c].pc = next
      /\ next = "upsert" => call'[c] = [call[c] EXCEPT !.pc = next]
  <2>1. next \in Resting \cup Working /\ (next = "upsert" => next \notin Resting)
    BY <1>2 DEF Resting, Working, Committing
  <2> HIDE DEF next
  <2> QED
    BY <1>1, <2>1, ContinueFacts DEF Goto, TypeOK
<1>4. next = "upsert" => call'[c].request = call[c].request
  <2> HIDE DEF next
  <2> QED BY <1>1, <1>3 DEF CallType
<1> HIDE DEF next
<1>5. call[c].pc # "done"
  BY <1>1 DEF Committing
<1> QED
  BY <1>1, <1>2, <1>3, <1>4, <1>5, QuietStep DEF Holds, Compared

\* After a crash nobody holds anything.
LEMMA CrashKeepsCInv ==
  ASSUME TypeOK, PcAgrees, CInv, Crash
  PROVE  CInv'
<1>1. db' = disk /\ disk' = disk
  BY DEF Crash
<1>2. \A c \in Calls : /\ call'[c].pc \notin Working
                       /\ call[c].pc \in {"create_commit", "done"} => call'[c].pc = "done"
  BY DEF Crash, Blank, Resting, Working, Committing, TypeOK, CallType
<1>3. \A x, y \in Calls : ~Holds(x, y)' /\ ~Compared(x, y)'
  BY <1>2 DEF Holds, Compared, Working, Committing
<1>4. HeldOnce' /\ ComparedStaysEqual'
  BY <1>3 DEF HeldOnce, ComparedStaysEqual
<1>5. RowsAreOld'
  BY <1>1, <1>2 DEF CInv, RowsAreOld
<1>6. DiskIsBehind'
  BY <1>1 DEF DiskIsBehind, TypeOK, TableType
<1> QED
  BY <1>1, <1>4, <1>5, <1>6 DEF CInv, AppliedOnce, AppliedOnceIn, CapacityWasConfirmed, ConfirmedIn

\* Every step keeps what is known of confirmations.
LEMMA NextKeepsCInv ==
  ASSUME TypeOK, PcAgrees, CInv, [Next]_vars
  PROVE  CInv'
<1>1. ASSUME NEW c \in Calls, Receive(c)
      PROVE  CInv'
  <2>1. PICK q \in Requests :
          Continue(c, [call[c] EXCEPT !.request = q, !.at = clock],
                   IF Accepted(q) THEN FirstStep[q.op] ELSE "done")
    BY <1>1 DEF Receive
  <2> DEFINE r == [call[c] EXCEPT !.request = q, !.at = clock]
             next == IF Accepted(q) THEN FirstStep[q.op] ELSE "done"
  <2>2. r \in CallType /\ r.request = q
    BY DEF TypeOK, CallType
  <2>3. q.op \in {"use", "set", "whitelist_add", "whitelist_remove", "whitelist_pending",
                  "capacity_ask", "capacity_confirm"}
    BY DEF Requests
  <2>4. /\ next \in Resting \cup Working
        /\ q.op = "capacity_confirm" => next \in {"select", "done"}
    BY <2>3 DEF FirstStep, Resting, Working
  <2>5. Continue(c, r, next) /\ call[c].pc = "idle" /\ UNCHANGED <<db, disk>>
    BY <1>1, <2>1 DEF Receive
  <2> HIDE DEF r, next
  <2> QED
    BY <2>2, <2>4, <2>5, QuietContinue
<1>2. ASSUME NEW c \in Calls, Setting(c)
      PROVE  CInv'
  <2>1. UpsertSetting(c) => call[c].request.op \in {"set", "capacity_confirm"}
    BY DEF PcAgrees, Agrees, UpsertSetting
  <2> QED
    BY <1>2, <2>1, PlainUpsertKeepsCInv, ConfirmedUpsertKeepsCInv, MembershipKeepsCInv DEF Setting
<1>3. ASSUME NEW c \in Calls, Confirmation(c)
      PROVE  CInv'
  BY <1>3, CreateKeepsCInv, LookKeepsCInv, TakeKeepsCInv DEF Confirmation
<1>4. ASSUME NEW c \in Calls, Fail(c)
      PROVE  CInv'
  <2>1. Goto(c, "done") /\ UNCHANGED <<db, disk>>
    BY <1>4 DEF Fail, Read
  <2>2. "done" \in Resting \cup Working
    BY DEF Resting
  <2> QED
    BY <2>1, <2>2, QuietGoto
<1>5. CASE Tick \/ UNCHANGED vars
  <2>1. UNCHANGED <<db, disk, call>>
    BY <1>5 DEF Tick, vars
  <2> QED
    BY <2>1, QuietStep DEF Holds, Compared
<1> QED
  BY <1>1, <1>2, <1>3, <1>4, <1>5, AccessKeepsCInv, MembershipKeepsCInv, CommitKeepsCInv,
     CrashKeepsCInv DEF Next

CallsInv == TypeOK /\ PcAgrees /\ CInv

\* What holds of confirmations at the start and from then on.
LEMMA ConfirmationsInvariant == Spec => []CallsInv
<1>1. Init => CallsInv
  <2> SUFFICES ASSUME Init PROVE CallsInv
    OBVIOUS
  <2>1. /\ \A c \in Calls : call[c].pc = "idle"
        /\ \A k \in Calls : Tables.rows[k].state = "none" /\ Tables.applied[k] = 0
        /\ Tables.settings["capacity_bytes"] = Unset
        /\ db = Tables /\ disk = Tables
    BY DEF Init, Blank, Tables, NoRow, SettingKeys
  <2>2. CInv
    BY <2>1 DEF CInv, HeldOnce, Holds, ComparedStaysEqual, Compared, RowsAreOld, DiskIsBehind,
           AppliedOnce, AppliedOnceIn, CapacityWasConfirmed, ConfirmedIn
  <2> QED
    BY <2>2, InitTypes DEF CallsInv
<1>2. CallsInv /\ [Next]_vars => CallsInv'
  BY NextKeepsTypes, NextKeepsCInv DEF CallsInv
<1> QED
  BY <1>1, <1>2, PTL DEF Spec

\* A confirmation changes the capacity at most once, whatever races, raises or crashes.
THEOREM ConfirmationsAreAppliedOnce == Spec => []AppliedOnce
<1>1. CallsInv => AppliedOnce
  BY DEF CallsInv, CInv
<1> QED
  BY <1>1, ConfirmationsInvariant, PTL

\* The capacity is always one that a used confirmation was created for.
THEOREM CapacityIsConfirmed == Spec => []CapacityWasConfirmed
<1>1. CallsInv => CapacityWasConfirmed
  BY DEF CallsInv, CInv
<1> QED
  BY <1>1, ConfirmationsInvariant, PTL

\* What is committed changes the capacity only with a confirmation.
THEOREM OnlyConfirmationsChangeCapacity == Spec => OnlyConfirmedChanges
<1> DEFINE Change ==
      /\ \A k \in Calls : /\ disk.rows[k].state = "used" => disk'.rows[k].state = "used"
                          /\ disk.applied[k] <= disk'.applied[k]
      /\ disk'.settings["capacity_bytes"] # disk.settings["capacity_bytes"] =>
           \E k \in Calls : disk.applied[k] = 0 /\ disk'.applied[k] = 1
<1>1. CallsInv /\ [Next]_vars => [Change]_disk
  <2> SUFFICES ASSUME CallsInv, Next, disk' # disk PROVE Change
    BY DEF vars
  <2>1. disk' = db
    BY DEF Next, Receive, Access, ReadMode, ReadWhitelist, PurgeDenials, RecordDenial, Setting,
           UpsertSetting, BumpRevision, Membership, AddIdentity, ClearDenial, RemoveIdentity,
           Confirmation, ReadRevision, CreateConfirmation, SelectConfirmation, CheckRevision,
           TakeConfirmation, Commit, Fail, Tick, Crash, Execute, Read
  <2> QED
    BY <2>1 DEF CallsInv, CInv, DiskIsBehind
<1> QED
  BY <1>1, ConfirmationsInvariant, PTL DEF Spec, OnlyConfirmedChanges

------------------------------------------------------------------------------
(* Access checks.                                                           *)

WInv == Witnessed /\ AdmittedWasAllowed

\* A step of a call to a statement that is not a check's, or to a refusal.
LEMMA ContinueKeepsWitness ==
  ASSUME TypeOK, WInv,
         NEW c \in Calls, NEW r \in CallType, NEW next \in Resting \cup Working,
         Continue(c, r, next), next \notin {"mode", "members", "admitted"},
         witness \subseteq witness',
         \A x \in Calls : Deciding(x) /\ Allowed(db', call[x].request.who) => x \in witness'
  PROVE  WInv'
<1>1. /\ \A x \in Calls : x # c => call'[x] = call[x]
      /\ call'[c].pc = next
  BY ContinueFacts DEF TypeOK
<1>2. Witnessed'
  BY <1>1 DEF WInv, Witnessed, Deciding
<1>3. AdmittedWasAllowed'
  BY <1>1 DEF WInv, AdmittedWasAllowed
<1> QED
  BY <1>2, <1>3 DEF WInv

\* The same for a call whose knowledge does not change.
LEMMA GotoKeepsWitness ==
  ASSUME TypeOK, WInv, NEW c \in Calls, NEW next \in Resting \cup Working,
         Goto(c, next), next \notin {"mode", "members", "admitted"},
         witness \subseteq witness',
         \A x \in Calls : Deciding(x) /\ Allowed(db', call[x].request.who) => x \in witness'
  PROVE  WInv'
<1>1. call[c] \in CallType
  BY DEF TypeOK
<1> QED
  BY <1>1, ContinueKeepsWitness DEF Goto

\* What a statement writes, the checks under way have seen.
LEMMA ExecuteWitness ==
  ASSUME NEW d, Execute(d)
  PROVE  /\ witness \subseteq witness'
         /\ \A x \in Calls : Deciding(x) /\ Allowed(db', call[x].request.who) => x \in witness'
<1>1. db' = d /\ witness' = witness \cup {x \in Calls : Deciding(x) /\ Allowed(d, call[x].request.who)}
  BY DEF Execute
<1>2. \A x \in Calls : Allowed(db', call[x].request.who) <=> Allowed(d, call[x].request.who)
  BY <1>1 DEF Allowed, Mode
<1> QED
  BY <1>1, <1>2

\* When nothing is written, what they have seen still is all there is to see.
LEMMA ReadWitness ==
  ASSUME WInv, UNCHANGED <<db, witness>>
  PROVE  /\ witness \subseteq witness'
         /\ \A x \in Calls : Deciding(x) /\ Allowed(db', call[x].request.who) => x \in witness'
  BY DEF WInv, Witnessed, Allowed, Mode

\* The two reads of a check.
LEMMA CheckKeepsWitness ==
  ASSUME TypeOK, PcAgrees, WInv, NEW c \in Calls, ReadMode(c) \/ ReadWhitelist(c)
  PROVE  WInv'
<1>0. call[c] \in CallType /\ UNCHANGED <<db, witness>>
  BY DEF TypeOK, ReadMode, ReadWhitelist, Read
<1>1. CASE ReadMode(c)
  <2> DEFINE r == [call[c] EXCEPT !.mode = Mode(db)]
  <2>1. r \in CallType /\ r.request = call[c].request /\ r.mode = Mode(db)
    BY <1>0, ModeType DEF TypeOK, CallType
  <2>2. Continue(c, r, "members") /\ call[c].pc = "mode"
    BY <1>1 DEF ReadMode
  <2> HIDE DEF r
  <2>3. /\ \A x \in Calls : x # c => call'[x] = call[x]
        /\ call'[c].pc = "members" /\ call'[c] = [r EXCEPT !.pc = "members"]
    <3>1. "members" \in Resting \cup Working /\ "members" \notin Resting
      BY DEF Resting, Working
    <3> QED BY <2>1, <2>2, <3>1, ContinueFacts DEF TypeOK
  <2>4. call'[c].request = call[c].request /\ call'[c].mode = Mode(db)
    BY <2>1, <2>3 DEF CallType
  <2>5. call[c].request.op = "use"
    BY <2>2 DEF PcAgrees, Agrees
  <2>6. Mode(db) = "allow_all" => c \in witness
    BY <2>2, <2>5 DEF WInv, Witnessed, Deciding, Allowed
  <2>7. Witnessed'
    <3> SUFFICES ASSUME NEW x \in Calls
                 PROVE  /\ Deciding(x)' /\ Allowed(db', call'[x].request.who) => x \in witness'
                        /\ call'[x].pc = "members" /\ call'[x].mode = "allow_all" => x \in witness'
      BY DEF Witnessed, Allowed, Mode
    <3>1. CASE x = c
      BY <1>0, <2>2, <2>4, <2>5, <2>6, <3>1 DEF WInv, Witnessed, Deciding, Allowed, Mode
    <3>2. CASE x # c
      BY <1>0, <2>3, <3>2 DEF WInv, Witnessed, Deciding, Allowed, Mode
    <3> QED BY <3>1, <3>2
  <2>8. AdmittedWasAllowed'
    BY <1>0, <2>3 DEF WInv, AdmittedWasAllowed
  <2> QED
    BY <2>7, <2>8 DEF WInv
<1>2. CASE ReadWhitelist(c)
  <2>1. call[c].pc = "members" /\ call[c].request.op = "use"
    BY <1>2 DEF ReadWhitelist, PcAgrees, Agrees
  <2>2. Admits(c) => c \in witness
    BY <2>1 DEF WInv, Witnessed, Deciding, Admits, Allowed
  <2>3. CASE Admits(c)
    <3>1. Goto(c, "admitted")
      BY <1>2, <2>3 DEF ReadWhitelist
    <3>2. /\ \A x \in Calls : x # c => call'[x] = call[x]
          /\ call'[c].pc = "admitted"
      <4>1. "admitted" \in Resting \cup Working
        BY DEF Resting
      <4> QED BY <1>0, <3>1, <4>1, ContinueFacts DEF TypeOK, Goto
    <3>3. Witnessed'
      BY <1>0, <3>2 DEF WInv, Witnessed, Deciding, Allowed, Mode
    <3>4. AdmittedWasAllowed'
      BY <1>0, <2>2, <2>3, <3>2 DEF WInv, AdmittedWasAllowed
    <3> QED
      BY <3>3, <3>4 DEF WInv
  <2>4. CASE ~Admits(c)
    <3>1. Goto(c, "purge") /\ "purge" \in Resting \cup Working
      BY <1>2, <2>4 DEF ReadWhitelist, Working
    <3> QED
      BY <1>0, <3>1, ReadWitness, GotoKeepsWitness
  <2> QED
    BY <2>3, <2>4
<1> QED
  BY <1>1, <1>2

\* Every step keeps the witnesses.
LEMMA NextKeepsWitness ==
  ASSUME TypeOK, PcAgrees, WInv, [Next]_vars
  PROVE  WInv'
<1> USE DEF Resting, Working, Committing
<1>1. ASSUME NEW c \in Calls, Receive(c)
      PROVE  WInv'
  <2>1. PICK q \in Requests :
          /\ Continue(c, [call[c] EXCEPT !.request = q, !.at = clock],
                      IF Accepted(q) THEN FirstStep[q.op] ELSE "done")
          /\ witness' = IF q.op = "use" /\ Allowed(db, q.who) THEN witness \cup {c} ELSE witness
    BY <1>1 DEF Receive
  <2> DEFINE r == [call[c] EXCEPT !.request = q, !.at = clock]
             next == IF Accepted(q) THEN FirstStep[q.op] ELSE "done"
  <2>2. r \in CallType /\ r.request = q
    BY DEF TypeOK, CallType
  <2>3. q.op \in {"use", "set", "whitelist_add", "whitelist_remove", "whitelist_pending",
                  "capacity_ask", "capacity_confirm"}
    BY DEF Requests
  <2>4. /\ next \in Resting \cup Working
        /\ next \notin {"members", "admitted"}
        /\ next = "mode" => q.op = "use"
    BY <2>3 DEF FirstStep
  <2>5. Continue(c, r, next) /\ db' = db
    BY <1>1, <2>1 DEF Receive
  <2> HIDE DEF r, next
  <2>6. /\ \A x \in Calls : x # c => call'[x] = call[x]
        /\ call'[c].pc = next
        /\ next \notin Resting => call'[c] = [r EXCEPT !.pc = next]
    BY <2>2, <2>4, <2>5, ContinueFacts DEF TypeOK
  <2>7. next \notin Resting => call'[c].request = q
    BY <2>2, <2>6 DEF CallType
  <2>8. Witnessed'
    <3> SUFFICES ASSUME NEW x \in Calls
                 PROVE  /\ Deciding(x)' /\ Allowed(db', call'[x].request.who) => x \in witness'
                        /\ call'[x].pc = "members" /\ call'[x].mode = "allow_all" => x \in witness'
      BY DEF Witnessed, Allowed, Mode
    <3>1. CASE x = c
      BY <2>1, <2>4, <2>5, <2>6, <2>7, <3>1 DEF Deciding, Allowed, Mode
    <3>2. CASE x # c
      BY <2>1, <2>5, <2>6, <3>2 DEF WInv, Witnessed, Deciding, Allowed, Mode
    <3> QED BY <3>1, <3>2
  <2>9. AdmittedWasAllowed'
    BY <2>1, <2>4, <2>6 DEF WInv, AdmittedWasAllowed
  <2> QED
    BY <2>8, <2>9 DEF WInv
<1>2. ASSUME NEW c \in Calls, PurgeDenials(c) \/ RecordDenial(c)
      PROVE  WInv'
  <2>1. /\ \E d : Execute(d)
        /\ Goto(c, "purge_commit") \/ Goto(c, "record_commit")
    BY <1>2 DEF PurgeDenials, RecordDenial
  <2> QED
    BY <2>1, ExecuteWitness, GotoKeepsWitness
<1>3. ASSUME NEW c \in Calls, Setting(c) \/ Membership(c)
      PROVE  WInv'
  <2>1. /\ \E d : Execute(d)
        /\ \E next \in {"bump", "bump_commit", "insert_commit", "clear_commit", "delete_commit"} :
             Goto(c, next)
    BY <1>3 DEF Setting, UpsertSetting, BumpRevision, Membership, AddIdentity, ClearDenial,
                RemoveIdentity
  <2> QED
    BY <2>1, ExecuteWitness, GotoKeepsWitness
<1>4. ASSUME NEW c \in Calls, CreateConfirmation(c)
      PROVE  WInv'
  <2>1. (\E d : Execute(d)) /\ Goto(c, "create_commit")
    BY <1>4 DEF CreateConfirmation
  <2> QED
    BY <2>1, ExecuteWitness, GotoKeepsWitness
<1>5. ASSUME NEW c \in Calls, ReadRevision(c) \/ SelectConfirmation(c)
      PROVE  WInv'
  <2>1. call[c] \in CallType /\ call[c].request \in Requests \cup {NoRequest}
    BY DEF TypeOK, CallType
  <2>2. PICK n \in Nat, next \in {"create", "check", "done"} :
          Continue(c, [call[c] EXCEPT !.revision = n], next)
    <3>1. CASE ReadRevision(c)
      <4>1. db.revision \in Nat
        BY DEF TypeOK, TableType
      <4> QED BY <3>1, <4>1 DEF ReadRevision
    <3>2. CASE SelectConfirmation(c)
      <4>1. call[c].request.conf \in Calls
        BY <2>1, <3>2, RequestFacts DEF SelectConfirmation, PcAgrees, Agrees
      <4>2. db.rows[call[c].request.conf].revision \in Nat
        BY <4>1 DEF TypeOK, TableType, RowType
      <4> QED BY <3>2, <4>2 DEF SelectConfirmation
    <3> QED BY <1>5, <3>1, <3>2
  <2> DEFINE r == [call[c] EXCEPT !.revision = n]
  <2>3. r \in CallType
    BY <2>1 DEF CallType
  <2>4. UNCHANGED <<db, witness>>
    BY <1>5 DEF ReadRevision, SelectConfirmation, Read
  <2> HIDE DEF r
  <2>5. Continue(c, r, next)
    BY <2>2 DEF r
  <2> QED
    BY <2>3, <2>4, <2>5, ReadWitness, ContinueKeepsWitness
<1>6. ASSUME NEW c \in Calls, CheckRevision(c) \/ Commit(c) \/ Fail(c)
      PROVE  WInv'
  <2>1. UNCHANGED <<db, witness>>
    BY <1>6 DEF CheckRevision, Commit, Fail, Read
  <2>2. \E next \in {"take", "done", "record", "refused", "clear", "upsert"} : Goto(c, next)
    BY <1>6 DEF CheckRevision, Commit, Fail, AfterCommit
  <2> QED
    BY <2>1, <2>2, ReadWitness, GotoKeepsWitness
<1>7. ASSUME NEW c \in Calls, TakeConfirmation(c)
      PROVE  WInv'
  <2> DEFINE open == db.rows[call[c].request.conf].state = "open"
             r == [call[c] EXCEPT !.taken = open]
  <2>1. r \in CallType
    <3>1. open \in BOOLEAN /\ call[c] \in CallType
      BY DEF TypeOK
    <3> HIDE DEF open
    <3> QED BY <3>1 DEF CallType
  <2>2. (\E d : Execute(d)) /\ Continue(c, r, "take_commit")
    BY <1>7 DEF TakeConfirmation
  <2> HIDE DEF r
  <2> QED
    BY <2>1, <2>2, ExecuteWitness, ContinueKeepsWitness
<1>8. CASE Tick \/ UNCHANGED vars
  BY <1>8 DEF Tick, vars, WInv, Witnessed, AdmittedWasAllowed, Deciding, Allowed, Mode
<1>9. CASE Crash
  <2>1. \A x \in Calls : /\ call'[x].pc \notin Working
                         /\ call'[x].pc = "admitted" => call[x].pc = "admitted"
    BY <1>9 DEF Crash, Blank, TypeOK, CallType
  <2> QED
    BY <1>9, <2>1 DEF Crash, WInv, Witnessed, AdmittedWasAllowed, Deciding
<1> QED
  BY <1>1, <1>2, <1>3, <1>4, <1>5, <1>6, <1>7, <1>8, <1>9, CheckKeepsWitness
     DEF Next, Access, Confirmation

\* A user who is admitted was allowed at some moment of the check.
THEOREM AdmissionIsJustified == Spec => []AdmittedWasAllowed
<1>1. Init => WInv
  BY DEF Init, Blank, WInv, Witnessed, AdmittedWasAllowed, Deciding
<1>2. CallsInv /\ WInv /\ [Next]_vars => WInv'
  BY NextKeepsWitness DEF CallsInv
<1>3. WInv => AdmittedWasAllowed
  BY DEF WInv
<1> QED
  BY <1>1, <1>2, <1>3, ConfirmationsInvariant, PTL DEF Spec
================================================================================
