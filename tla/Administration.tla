---------------------------- MODULE Administration ----------------------------
(***************************************************************************)
(* Runtime settings, the whitelist, the list of refused users and the      *)
(* confirmations that a change of the capacity needs, with the commands of *)
(* administrators that write them and the access checks of users that read *)
(* them.                                                                   *)
(*                                                                         *)
(* All calls share one SQLite connection.  Each statement and each commit  *)
(* is an await, so a step is one statement: what one call has executed is  *)
(* visible to the others at once (db), and a commit of any call makes      *)
(* everything executed so far durable (disk).  A call that raises leaves   *)
(* its statements to the next commit; a crash loses what is not committed. *)
(***************************************************************************)
EXTENDS Integers

CONSTANTS
  Calls,        \* command and access-check coroutines; a confirmation has the name
                \* of the call that created it
  NoCall,       \* not a call
  Admins,       \* access.administrators
  Users,        \* other people
  InitialMode,  \* access.mode of the configuration
  Assignments,  \* [key, value] pairs that commands set without a confirmation
  Capacities,   \* capacities an administrator may ask for
  Legal,        \* those validate_setting_value accepts
  ConfirmTTL,   \* AdminService.confirmation_ttl
  DenialTTL,    \* _DENIAL_TTL
  MaxTime,      \* bound on the clock
  MayFail,      \* whether a database call may raise
  MaxRestarts   \* bound on the number of crashes

Modes  == {"allow_all", "whitelist"}
People == Admins \cup Users
Unset  == "unset"
Never  == -1

\* "retention set", "access mode set", and "setting reset" for the two keys it knows.
AllAssignments ==
  [key : {"access_mode"}, value : Modes]
    \cup [key : {"retention_seconds"}, value : {"default", "chosen"}]
    \cup [key : {"link_expiry_seconds"}, value : {"default"}]
CapacityChanges == [key : {"capacity_bytes"}, value : Capacities]
SettingKeys     == {"access_mode", "retention_seconds", "link_expiry_seconds", "capacity_bytes"}
SettingValues   == Modes \cup {"default", "chosen", Unset} \cup Capacities

ASSUME AdministrationAssumption ==
  /\ NoCall \notin Calls
  /\ Admins \cap Users = {}
  /\ InitialMode \in Modes
  /\ Assignments \subseteq AllAssignments
  /\ Unset \notin Capacities /\ Legal \subseteq Capacities
  /\ ConfirmTTL \in Nat /\ DenialTTL \in Nat /\ MaxTime \in Nat
  /\ MayFail \in BOOLEAN
  /\ MaxRestarts \in Nat

Requests ==
  [op : {"use", "whitelist_pending"}, who : People, arg : {NoCall}, conf : {NoCall}]
    \cup [op : {"set"}, who : People, arg : Assignments, conf : {NoCall}]
    \cup [op : {"whitelist_add", "whitelist_remove"}, who : People, arg : Users,
          conf : {NoCall}]
    \cup [op : {"capacity_ask"}, who : People, arg : CapacityChanges, conf : {NoCall}]
    \cup [op : {"capacity_confirm"}, who : People, arg : CapacityChanges, conf : Calls]

VARIABLES
  db,        \* the tables as the connection sees them
  disk,      \* the tables as last committed
  call,      \* of each call: its next statement (pc), what it was asked for, what it has read
  clock,
  witness,   \* calls whose user was allowed at some moment since they began
  restarts

vars == <<db, disk, call, clock, witness, restarts>>

NoRow   == [state |-> "none", owner |-> NoCall, value |-> Unset, revision |-> 0, expires |-> 0]
NoRequest == [op |-> "none", who |-> NoCall, arg |-> NoCall, conf |-> NoCall]
Blank   == [pc |-> "idle", request |-> NoRequest, at |-> 0, mode |-> Unset, revision |-> 0,
            taken |-> FALSE]

------------------------------------------------------------------------------
(* Steps.                                                                   *)

Committing == {"purge_commit", "record_commit", "bump_commit", "insert_commit",
               "clear_commit", "delete_commit", "create_commit", "take_commit"}
Resting    == {"idle", "done", "admitted", "refused"}
Working    == Committing \cup {"mode", "members", "purge", "record", "upsert", "bump", "insert",
                              "clear", "delete", "revision", "create", "select",
                              "check", "take"}

\* Call c, in the state r, goes on at next; nothing of a call outlives its end.
Continue(c, r, next) ==
  call' = [call EXCEPT ![c] = [(IF next \in Resting THEN Blank ELSE r) EXCEPT !.pc = next]]
Goto(c, next) == Continue(c, call[c], next)

\* Mutant: no default for a mode that was never set.
ModeWithoutDefault(d) == d.settings["access_mode"]
Mode(d) == IF d.settings["access_mode"] = Unset THEN InitialMode
           ELSE d.settings["access_mode"]

Allowed(d, who) == who \in Admins \/ Mode(d) = "allow_all" \/ who \in d.whitelist

\* An access check that is under way.
Deciding(c) == call[c].request.op = "use" /\ call[c].pc \in {"mode", "members"}

\* A statement of call c that turns the tables into d.
Execute(d) ==
  /\ db' = d
  /\ witness' = witness \cup {c \in Calls : Deciding(c) /\ Allowed(d, call[c].request.who)}
  /\ UNCHANGED <<disk, clock, restarts>>

Read == UNCHANGED <<db, disk, clock, witness, restarts>>

\* validate_setting_value: the other assignments are legal by their type.
Valid(r) == r.op \in {"capacity_ask", "capacity_confirm"} => r.arg.value \in Legal

FirstStep == [use |-> "mode", set |-> "upsert", whitelist_add |-> "insert",
              whitelist_remove |-> "delete", whitelist_pending |-> "purge",
              capacity_ask |-> "revision", capacity_confirm |-> "select"]

\* What require_administrator and the validation let through.
Accepted(r) == r.op = "use" \/ (r.who \in Admins /\ Valid(r))

\* A platform hands over a command or an access check.  The snapshot that
\* require_administrator reads decides nothing: it has no step of its own.
Receive(c) ==
  /\ call[c].pc = "idle"
  /\ \E r \in Requests :
       /\ Continue(c, [call[c] EXCEPT !.request = r, !.at = clock],
                   IF Accepted(r) THEN FirstStep[r.op] ELSE "done")
       /\ witness' = IF r.op = "use" /\ Allowed(db, r.who) THEN witness \cup {c} ELSE witness
  /\ UNCHANGED <<db, disk, clock, restarts>>

------------------------------------------------------------------------------
(* An access check: AuthorizationService.require_user_access.               *)

\* Mutant: whoever is checked, the mode is the configured one.
ReadInitialMode(c) ==
  /\ call[c].pc = "mode"
  /\ Continue(c, [call[c] EXCEPT !.mode = InitialMode], "members")
  /\ Read

ReadMode(c) ==
  /\ call[c].pc = "mode"
  /\ Continue(c, [call[c] EXCEPT !.mode = Mode(db)], "members")
  /\ Read

Admits(c) == \/ call[c].request.who \in Admins
             \/ call[c].mode = "allow_all"
             \/ call[c].request.who \in db.whitelist

ReadWhitelist(c) ==
  /\ call[c].pc = "members"
  /\ Goto(c, IF Admits(c) THEN "admitted" ELSE "purge")
  /\ Read

\* Also the first statement of "whitelist pending".
PurgeDenials(c) ==
  /\ call[c].pc = "purge"
  /\ Execute([db EXCEPT !.lastSeen =
       [u \in Users |-> IF db.lastSeen[u] < call[c].at - DenialTTL THEN Never
                        ELSE db.lastSeen[u]]])
  /\ Goto(c, "purge_commit")

RecordDenial(c) ==
  /\ call[c].pc = "record"
  /\ Execute([db EXCEPT !.lastSeen[call[c].request.who] = call[c].at])
  /\ Goto(c, "record_commit")

------------------------------------------------------------------------------
(* Settings and whitelist.                                                  *)

\* How often each confirmation changed the capacity, once k does.
Counted(k) == IF k = NoCall THEN db.applied ELSE [db.applied EXCEPT ![k] = @ + 1]

\* set_override is two statements and a commit.
UpsertSetting(c) ==
  /\ call[c].pc = "upsert"
  /\ LET a == call[c].request.arg
         k == call[c].request.conf
     IN Execute([db EXCEPT !.settings[a.key] = a.value, !.applied = Counted(k)])
  /\ Goto(c, "bump")

BumpRevision(c) ==
  /\ call[c].pc = "bump"
  /\ Execute([db EXCEPT !.revision = @ + 1])
  /\ Goto(c, "bump_commit")

AddIdentity(c) ==
  /\ call[c].pc = "insert"
  /\ Execute([db EXCEPT !.whitelist = @ \cup {call[c].request.arg}])
  /\ Goto(c, "insert_commit")

ClearDenial(c) ==
  /\ call[c].pc = "clear"
  /\ Execute([db EXCEPT !.lastSeen[call[c].request.arg] = Never])
  /\ Goto(c, "clear_commit")

RemoveIdentity(c) ==
  /\ call[c].pc = "delete"
  /\ Execute([db EXCEPT !.whitelist = @ \ {call[c].request.arg}])
  /\ Goto(c, "delete_commit")

------------------------------------------------------------------------------
(* Confirmations of a change of the capacity.                               *)

\* create reads the revision, then inserts the row.
ReadRevision(c) ==
  /\ call[c].pc = "revision"
  /\ Continue(c, [call[c] EXCEPT !.revision = db.revision], "create")
  /\ Read

CreateConfirmation(c) ==
  /\ call[c].pc = "create"
  /\ Execute([db EXCEPT !.rows[c] =
       [state |-> "open", owner |-> call[c].request.who, value |-> call[c].request.arg.value,
        revision |-> call[c].revision, expires |-> call[c].at + ConfirmTTL]])
  /\ Goto(c, "create_commit")

\* Mutant: the fingerprint and the snapshot are not compared.
MatchesAnyValue(c, row) ==
  /\ row.state = "open"
  /\ row.expires >= call[c].at
  /\ row.owner = call[c].request.who

\* What consume_if_matching checks in the row.
Matches(c, row) ==
  /\ row.state = "open"
  /\ row.expires >= call[c].at
  /\ row.owner = call[c].request.who
  /\ row.value = call[c].request.arg.value

SelectConfirmation(c) ==
  /\ call[c].pc = "select"
  /\ LET row == db.rows[call[c].request.conf]
     IN Continue(c, [call[c] EXCEPT !.revision = row.revision],
                 IF Matches(c, row) THEN "check" ELSE "done")
  /\ Read

\* The revision may move between this step and the next one.
CheckRevision(c) ==
  /\ call[c].pc = "check"
  /\ Goto(c, IF call[c].revision = db.revision THEN "take" ELSE "done")
  /\ Read

\* Mutant: without "AND consumed_at IS NULL".
TakeAgain(c) ==
  /\ call[c].pc = "take"
  /\ Execute([db EXCEPT !.rows[call[c].request.conf].state = "used"])
  /\ Continue(c, [call[c] EXCEPT !.taken = TRUE], "take_commit")

TakeConfirmation(c) ==
  /\ call[c].pc = "take"
  /\ LET open == db.rows[call[c].request.conf].state = "open"
     IN /\ Execute(IF open THEN [db EXCEPT !.rows[call[c].request.conf].state = "used"] ELSE db)
        /\ Continue(c, [call[c] EXCEPT !.taken = open], "take_commit")

------------------------------------------------------------------------------
(* Commits, failures and restarts.                                          *)

\* Mutant: the result of the UPDATE is not looked at.
AfterCommitUnchecked(c) ==
  CASE call[c].pc = "purge_commit"  -> IF call[c].request.op = "use" THEN "record" ELSE "done"
    [] call[c].pc = "record_commit" -> "refused"
    [] call[c].pc = "insert_commit" -> "clear"
    [] call[c].pc = "take_commit"   -> "upsert"
    [] OTHER                   -> "done"

\* What follows a commit.
AfterCommit(c) ==
  CASE call[c].pc = "purge_commit"  -> IF call[c].request.op = "use" THEN "record" ELSE "done"
    [] call[c].pc = "record_commit" -> "refused"
    [] call[c].pc = "insert_commit" -> "clear"
    [] call[c].pc = "take_commit"   -> IF call[c].taken THEN "upsert" ELSE "done"
    [] OTHER                   -> "done"

Commit(c) ==
  /\ call[c].pc \in Committing
  /\ disk' = db
  /\ Goto(c, AfterCommit(c))
  /\ UNCHANGED <<db, clock, witness, restarts>>

\* A statement or commit raises, and the call ends with the exception.
Fail(c) ==
  /\ MayFail
  /\ call[c].pc \in Working
  /\ Goto(c, "done")
  /\ Read

Tick ==
  /\ clock < MaxTime
  /\ clock' = clock + 1
  /\ UNCHANGED <<db, disk, call, witness, restarts>>

Crash ==
  /\ restarts < MaxRestarts
  /\ restarts' = restarts + 1
  /\ db' = disk
  /\ call' = [c \in Calls |-> IF call[c].pc \in Working THEN [Blank EXCEPT !.pc = "done"]
                              ELSE call[c]]
  /\ UNCHANGED <<disk, clock, witness>>

Tables == [settings |-> [k \in SettingKeys |-> Unset], revision |-> 0,
           rows |-> [c \in Calls |-> NoRow], applied |-> [c \in Calls |-> 0],
           whitelist |-> {}, lastSeen |-> [u \in Users |-> Never]]

Init ==
  /\ db = Tables /\ disk = Tables
  /\ call = [c \in Calls |-> Blank]
  /\ clock = 0
  /\ witness = {}
  /\ restarts = 0

Access(c)       == ReadMode(c) \/ ReadWhitelist(c) \/ PurgeDenials(c) \/ RecordDenial(c)
Setting(c)      == UpsertSetting(c) \/ BumpRevision(c)
Membership(c)   == AddIdentity(c) \/ ClearDenial(c) \/ RemoveIdentity(c)
Confirmation(c) == \/ ReadRevision(c) \/ CreateConfirmation(c) \/ SelectConfirmation(c)
                   \/ CheckRevision(c) \/ TakeConfirmation(c)

Next ==
  \/ \E c \in Calls :
       \/ Receive(c) \/ Access(c) \/ Setting(c) \/ Membership(c) \/ Confirmation(c)
       \/ Commit(c) \/ Fail(c)
  \/ Tick
  \/ Crash

Spec == Init /\ [][Next]_vars

------------------------------------------------------------------------------
(* Properties.                                                              *)

RowType == [state : {"none", "open", "used"}, owner : People \cup {NoCall},
            value : Capacities \cup {Unset}, revision : Nat, expires : Nat]

SettingsType == {s \in [SettingKeys -> SettingValues] :
                   /\ s["access_mode"] \in Modes \cup {Unset}
                   /\ s["capacity_bytes"] \in Capacities \cup {Unset}}

TableType == [settings : SettingsType, revision : Nat,
              rows : [Calls -> RowType], applied : [Calls -> Nat],
              whitelist : SUBSET Users, lastSeen : [Users -> Nat \cup {Never}]]

CallType == [pc : Resting \cup Working, request : Requests \cup {NoRequest}, at : Nat,
             mode : Modes \cup {Unset}, revision : Nat, taken : BOOLEAN]

\* Tables, requests and coroutines are of the declared types.
TypeOK ==
  /\ db \in TableType /\ disk \in TableType
  /\ call \in [Calls -> CallType]
  /\ \A c \in Calls : call[c].pc = "members" => call[c].mode \in Modes
  /\ clock \in Nat /\ restarts \in Nat /\ witness \subseteq Calls

AppliedOnceIn(d) ==
  \A k \in Calls : d.applied[k] <= 1 /\ (d.applied[k] = 1 => d.rows[k].state = "used")

ConfirmedIn(d) ==
  d.settings["capacity_bytes"] # Unset =>
    \E k \in Calls : d.applied[k] = 1 /\ d.rows[k].value = d.settings["capacity_bytes"]

\* A confirmation changes the capacity at most once, and only after it was marked as
\* used, in the tables and on disk, whichever calls present it at the same time,
\* whatever raises and wherever the process dies.
AppliedOnce == AppliedOnceIn(db) /\ AppliedOnceIn(disk)

\* A capacity that is set is the one some used confirmation was created for.
CapacityWasConfirmed == ConfirmedIn(db) /\ ConfirmedIn(disk)

\* What is committed about confirmations is never taken back, and the committed
\* capacity changes only together with a confirmation that had not changed it before.
OnlyConfirmedChanges ==
  [][ /\ \A k \in Calls : /\ disk.rows[k].state = "used" => disk'.rows[k].state = "used"
                          /\ disk.applied[k] <= disk'.applied[k]
      /\ disk'.settings["capacity_bytes"] # disk.settings["capacity_bytes"] =>
           \E k \in Calls : disk.applied[k] = 0 /\ disk'.applied[k] = 1
    ]_disk

\* A user who is admitted was allowed at some moment since the check began, although
\* the mode and the whitelist are read by two statements while both may change.
AdmittedWasAllowed ==
  \A c \in Calls : call[c].pc = "admitted" => c \in witness
================================================================================
