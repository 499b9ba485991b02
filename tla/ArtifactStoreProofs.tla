-------------------------- MODULE ArtifactStoreProofs --------------------------
(***************************************************************************)
(* Theorems about ArtifactStore, for any artifacts, any number of          *)
(* deleters, requests and stream slots, any faults and any number of       *)
(* crashes.                                                                *)
(*                                                                         *)
(* The proofs rest on one fact: a deleter past Mark is the only one past   *)
(* Mark on its artifact, and the row is still as its Mark left it.         *)
(***************************************************************************)
EXTENDS ArtifactStore, FiniteSetTheorems, TLAPS

\* No row exists before its publisher recorded it, and the file comes first.
PublishInv ==
  \A a \in Artifacts :
    /\ publish[a] \in {"none", "moved"} => access[a] = "none"
    /\ publish[a] = "moved" => a \in file

\* Whoever wants to delete an artifact found a row.
FoundInv ==
  /\ \A d \in Deleters : del[d].pc \in {"mark", "invalidate", "unlink", "finish"}
                           => access[del[d].art] # "none"
  /\ \A d \in Deleters : \A e \in batch[d] : access[e[1]] # "none"

\* Whoever deletes it is alone, and the row is as its Mark left it.
OwnerInv ==
  /\ \A d \in Deleters, a \in Artifacts :
       Holds(d, a) => access[a] = "pending" /\ version[a] = del[d].version
  /\ \A d \in Deleters, e \in Deleters, a \in Artifacts :
       Holds(d, a) /\ Holds(e, a) => d = e
  /\ \A d \in Deleters : del[d].pc = "finish" => del[d].art \notin file

IInv == TypeOK /\ PublishInv /\ FoundInv /\ OwnerInv /\ RowMatchesFile /\ TakenUntilReturned

------------------------------------------------------------------------------
(* Types.                                                                   *)

\* An empty store is well typed.
LEMMA InitTypes == Init => TypeOK
  BY StoreAssumption DEF Init, TypeOK, StoredTypes, DeletingTypes, ServingTypes

\* Publication, delivery and the passing of time keep the types.
LEMMA PublishTypes ==
  ASSUME TypeOK, NEW a \in Artifacts, PublishStep(a) \/ Expire(a)
  PROVE  TypeOK'
<1>1. StoredTypes'
  BY DEF PublishStep, MoveFile, Record, RecordFails, StartUpload, Delivered, Expire,
     TypeOK, StoredTypes, stored
<1>2. UNCHANGED <<deleting, serving, restarts>>
  BY DEF PublishStep, MoveFile, Record, RecordFails, StartUpload, Delivered, Expire
<1> QED
  BY <1>1, <1>2 DEF TypeOK, DeletingTypes, ServingTypes, deleting, serving

\* A row and the version it has at the moment, for every listed artifact.
LEMMA ListedTypes ==
  ASSUME StoredTypes, NEW arts, arts \subseteq Artifacts
  PROVE  Listed(arts) \subseteq Artifacts \X Nat
  BY DEF Listed, StoredTypes

\* A deleter that is through with an artifact is at rest or picks the next one.
LEMMA OnwardTypes ==
  ASSUME DeletingTypes, NEW d \in Deleters,
         del[d].pc \in {"mark", "invalidate", "unlink", "finish"}
  PROVE  Onward(d) \in {Idle} \cup
           [pc : {"pick"}, art : {Nobody}, version : {0}, reason : Reasons]
<1>1. del[d] \in [pc : {"mark", "invalidate", "unlink", "finish"}, art : Artifacts,
                 version : Nat, reason : Reasons]
  BY DEF DeletingTypes, Idle
<1> QED
  BY <1>1 DEF Onward

\* Listing, picking and deleting keep the types.
LEMMA DeleteTypes ==
  ASSUME TypeOK, NEW d \in Deleters,
         ListExpired(d) \/ DeleteStep(d) \/ \E a \in Artifacts : AdminRead(d, a)
  PROVE  TypeOK'
<1> USE DEF TypeOK
<1>1. CASE ListExpired(d)
  BY <1>1, ListedTypes
     DEF ListExpired, StoredTypes, DeletingTypes, ServingTypes, Idle, Reasons,
         Available, stored, serving
<1>2. CASE ListCandidates(d)
  BY <1>2, ListedTypes
     DEF ListCandidates, StoredTypes, DeletingTypes, ServingTypes, Idle, Reasons,
         Available, stored, serving
<1>3. CASE Pick(d)
  <2>1. PICK e \in batch[d] :
          /\ batch' = [batch EXCEPT ![d] = @ \ {e}]
          /\ del' = IF MayTake(d, e[1])
                      THEN [del EXCEPT ![d] = [pc |-> "mark", art |-> e[1],
                                               version |-> e[2], reason |-> @.reason]]
                      ELSE del
    BY <1>3 DEF Pick
  <2>2. e \in Artifacts \X Nat /\ del[d].reason \in Reasons
    BY <1>3, <2>1 DEF Pick, DeletingTypes, Idle
  <2>3. DeletingTypes'
    BY <2>1, <2>2 DEF DeletingTypes, Idle
  <2> QED
    BY <1>3, <2>3 DEF Pick, StoredTypes, ServingTypes, stored, serving
<1>4. CASE StopDeleting(d)
  BY <1>4 DEF StopDeleting, StoredTypes, DeletingTypes, ServingTypes, stored, serving
<1>5. CASE \E a \in Artifacts : AdminRead(d, a)
  BY <1>5 DEF AdminRead, StoredTypes, DeletingTypes, ServingTypes, Reasons, stored, serving
<1>6. CASE Mark(d)
  <2>1. /\ del[d].art \in Artifacts
        /\ Onward(d) \in {Idle} \cup
             [pc : {"pick"}, art : {Nobody}, version : {0}, reason : Reasons]
    BY <1>6, OnwardTypes DEF Mark, DeletingTypes, Idle
  <2>2. StoredTypes'
    BY <1>6, <2>1 DEF Mark, StoredTypes, DeletingTypes, Idle
  <2>3. DeletingTypes'
    <3>1. CASE Markable(d)
      BY <1>6, <2>1, <3>1 DEF Mark, StoredTypes, DeletingTypes, Idle
    <3>2. CASE ~Markable(d)
      BY <1>6, <2>1, <3>2 DEF Mark, DeletingTypes
    <3> QED
      BY <3>1, <3>2
  <2> QED
    BY <1>6, <2>2, <2>3 DEF Mark, ServingTypes, serving
<1>7. CASE Invalidate(d)
  BY <1>7 DEF Invalidate, StoredTypes, DeletingTypes, ServingTypes, Idle, stored
<1>8. CASE Unlink(d)
  BY <1>8 DEF Unlink, StoredTypes, DeletingTypes, ServingTypes, Idle, serving
<1>9. CASE UnlinkFails(d)
  <2>1. DeletingTypes'
    BY <1>9, OnwardTypes DEF UnlinkFails, DeletingTypes
  <2> QED
    BY <1>9, <2>1 DEF UnlinkFails, StoredTypes, ServingTypes, stored, serving
<1>10. CASE Finish(d)
  <2>1. del[d].art \in Artifacts /\ del[d].reason \in Reasons
    BY <1>10 DEF Finish, DeletingTypes, Idle
  <2>2. StoredTypes'
    BY <1>10, <2>1 DEF Finish, StoredTypes
  <2>3. DeletingTypes'
    BY <1>10, OnwardTypes DEF Finish, DeletingTypes, Idle, Reasons
  <2> QED
    BY <1>10, <2>2, <2>3 DEF Finish, ServingTypes, serving
<1> QED
  BY <1>1, <1>2, <1>3, <1>4, <1>5, <1>6, <1>7, <1>8, <1>9, <1>10 DEF DeleteStep

\* A request keeps the types; the semaphore bounds the slots.
LEMMA RequestTypes ==
  ASSUME TypeOK, NEW r \in Requests,
         RequestStep(r) \/ \E a \in Artifacts : ReadRow(r, a),
         req[r].pc \in {"body", "reading"} => slots > 0
  PROVE  TypeOK'
<1> USE DEF TypeOK
<1>1. StoredTypes' /\ DeletingTypes'
  BY DEF RequestStep, ReadRow, BeginStream, Acquire, Stat, Answer, TakeSlot, ClientGone,
     OpenFile, EndStream, StoredTypes, DeletingTypes, stored, deleting
<1>2. CASE \E a \in Artifacts : ReadRow(r, a)
  BY <1>1, <1>2 DEF ReadRow, ServingTypes, NoRead
<1>3. CASE BeginStream(r) \/ Stat(r) \/ ClientGone(r) \/ OpenFile(r)
  BY <1>1, <1>3 DEF BeginStream, Stat, ClientGone, OpenFile, ServingTypes, NoRead
<1>4. CASE Acquire(r)
  BY <1>1, <1>4 DEF Acquire, ServingTypes, NoRead
<1>5. CASE Answer(r)
  BY <1>1, <1>5 DEF Answer, Release, ServingTypes, NoRead
<1>6. CASE TakeSlot(r)
  BY <1>1, <1>6, StoreAssumption DEF TakeSlot, SlotFree, ServingTypes, NoRead
<1>7. CASE EndStream(r)
  BY <1>1, <1>7, StoreAssumption DEF EndStream, Release, ServingTypes, NoRead
<1> QED
  BY <1>2, <1>3, <1>4, <1>5, <1>6, <1>7 DEF RequestStep

\* A crash keeps the types.
LEMMA RestartTypes ==
  ASSUME TypeOK, Restart
  PROVE  TypeOK'
  BY StoreAssumption
     DEF Restart, TypeOK, StoredTypes, DeletingTypes, ServingTypes, stored

------------------------------------------------------------------------------
(* The invariant.                                                           *)

\* An empty store satisfies the invariant.
LEMMA InitInv == Init => IInv
<1> SUFFICES ASSUME Init PROVE IInv
  OBVIOUS
<1>1. {r \in Requests : Streaming(r)} = {}
  BY DEF Init, Streaming, NoRead
<1>2. TakenUntilReturned
  BY <1>1, FS_EmptySet DEF Init, TakenUntilReturned, Leasing, Streaming, NoRead
<1> QED
  BY <1>2, InitTypes DEF Init, IInv, PublishInv, FoundInv, OwnerInv, RowMatchesFile, Holds, Idle

\* Publication, delivery and the passing of time preserve the invariant.
LEMMA PublishPreserves ==
  ASSUME IInv, NEW a \in Artifacts, PublishStep(a) \/ Expire(a)
  PROVE  IInv'
<1> USE DEF IInv
<1>1. TypeOK'
  BY PublishTypes
<1>2. TakenUntilReturned'
  <2>1. UNCHANGED <<leases, slots, req>>
    BY DEF PublishStep, MoveFile, Record, RecordFails, StartUpload, Delivered, Expire,
       serving
  <2> QED
    BY <2>1 DEF TakenUntilReturned, Leasing, Streaming
<1>3. UNCHANGED <<batch, del>>
  BY DEF PublishStep, MoveFile, Record, RecordFails, StartUpload, Delivered, Expire,
     deleting
<1>4. PublishInv' /\ RowMatchesFile' /\ FoundInv' /\ OwnerInv'
  <2> USE DEF TypeOK, StoredTypes
  <2>1. CASE MoveFile(a)
    BY <1>3, <2>1 DEF MoveFile, PublishInv, RowMatchesFile, FoundInv, OwnerInv, Holds
  <2>2. CASE Record(a)
    BY <1>3, <2>2 DEF Record, PublishInv, RowMatchesFile, FoundInv, OwnerInv, Holds
  <2>3. CASE RecordFails(a)
    BY <1>3, <2>3 DEF RecordFails, PublishInv, RowMatchesFile, FoundInv, OwnerInv, Holds
  <2>4. CASE StartUpload(a) \/ Delivered(a) \/ Expire(a)
    BY <1>3, <2>4 DEF StartUpload, Delivered, Expire, PublishInv, RowMatchesFile,
       FoundInv, OwnerInv, Holds, stored
  <2> QED
    BY <2>1, <2>2, <2>3, <2>4 DEF PublishStep
<1> QED
  BY <1>1, <1>2, <1>4

\* Listing, picking and deleting preserve the invariant.
LEMMA DeletePreserves ==
  ASSUME IInv, NEW d \in Deleters,
         ListExpired(d) \/ DeleteStep(d) \/ \E a \in Artifacts : AdminRead(d, a)
  PROVE  IInv'
<1> USE DEF IInv
<1>1. TypeOK'
  BY DeleteTypes
<1>2. TakenUntilReturned'
  <2>1. UNCHANGED <<leases, slots, req>>
    BY DEF DeleteStep, ListExpired, ListCandidates, Pick, StopDeleting, AdminRead, Mark,
       Invalidate, Unlink, UnlinkFails, Finish, serving
  <2> QED
    BY <2>1 DEF TakenUntilReturned, Leasing, Streaming
<1>3. CASE ListExpired(d) \/ ListCandidates(d)
  <2>1. UNCHANGED <<stored, publish>>
    BY <1>3 DEF ListExpired, ListCandidates
  <2>2. \A e \in batch'[d] : access[e[1]] = "available"
    BY <1>3 DEF ListExpired, ListCandidates, Listed, Available, TypeOK, DeletingTypes
  <2>3. \A c \in Deleters \ {d} : batch'[c] = batch[c] /\ del'[c] = del[c]
    BY <1>3 DEF ListExpired, ListCandidates, TypeOK, DeletingTypes
  <2>4. del'[d].pc = "pick"
    BY <1>3 DEF ListExpired, ListCandidates, Idle, TypeOK, DeletingTypes
  <2> QED
    BY <1>1, <1>2, <2>1, <2>2, <2>3, <2>4
       DEF PublishInv, FoundInv, OwnerInv, RowMatchesFile, Holds, stored
<1>4. CASE Pick(d) \/ StopDeleting(d) \/ \E a \in Artifacts : AdminRead(d, a)
  <2>1. UNCHANGED <<stored, publish>>
    BY <1>4 DEF Pick, StopDeleting, AdminRead
  <2>2. del'[d] # del[d] => \/ del'[d].pc = "idle"
                            \/ del'[d].pc = "mark" /\ access[del'[d].art] # "none"
    <3>1. CASE Pick(d)
      <4>1. PICK e \in batch[d] :
              del' = IF MayTake(d, e[1])
                       THEN [del EXCEPT ![d] = [pc |-> "mark", art |-> e[1],
                                                version |-> e[2], reason |-> @.reason]]
                       ELSE del
        BY <3>1 DEF Pick
      <4>2. access[e[1]] # "none"
        BY DEF FoundInv
      <4>3. del'[d] # del[d] => del'[d].pc = "mark" /\ del'[d].art = e[1]
        BY <4>1 DEF TypeOK, DeletingTypes
      <4> QED
        BY <4>2, <4>3
    <3>2. CASE StopDeleting(d)
      BY <3>2 DEF StopDeleting, Idle, TypeOK, DeletingTypes
    <3>3. CASE \E a \in Artifacts : AdminRead(d, a)
      BY <3>3 DEF AdminRead, TypeOK, DeletingTypes
    <3> QED
      BY <1>4, <3>1, <3>2, <3>3
  <2>3. batch'[d] \subseteq batch[d]
    BY <1>4 DEF Pick, StopDeleting, AdminRead, TypeOK, DeletingTypes
  <2>4. \A c \in Deleters \ {d} : batch'[c] = batch[c] /\ del'[c] = del[c]
    BY <1>4 DEF Pick, StopDeleting, AdminRead, TypeOK, DeletingTypes
  <2> QED
    BY <1>1, <1>2, <2>1, <2>2, <2>3, <2>4
       DEF PublishInv, FoundInv, OwnerInv, RowMatchesFile, Holds, stored
<1>5. CASE Mark(d)
  <2> DEFINE a == del[d].art
  <2>1. a \in Artifacts /\ access[a] # "none"
    BY <1>5 DEF Mark, TypeOK, DeletingTypes, Idle, FoundInv
  <2>2. CASE Markable(d)
    <3>1. /\ access[a] = "available"
          /\ access' = [access EXCEPT ![a] = "pending"]
          /\ version' = [version EXCEPT ![a] = @ + 1]
          /\ UNCHANGED <<file, publish, batch>>
      BY <1>5, <2>2 DEF Mark, Markable
    <3>2. /\ del'[d].pc \in {"invalidate", "unlink"}
          /\ del'[d].art = a /\ del'[d].version = version[a] + 1
          /\ \A c \in Deleters \ {d} : del'[c] = del[c]
      BY <1>5, <2>2 DEF Mark, TypeOK, DeletingTypes, Idle
    <3>3. \A c \in Deleters : ~Holds(c, a)
      BY <2>1, <3>1 DEF OwnerInv
    <3>4. PublishInv' /\ FoundInv' /\ RowMatchesFile'
      BY <2>1, <3>1, <3>2 DEF PublishInv, FoundInv, RowMatchesFile, TypeOK, StoredTypes
    <3>5. OwnerInv'
      BY <2>1, <3>1, <3>2, <3>3 DEF OwnerInv, Holds, TypeOK, StoredTypes
    <3> QED
      BY <1>1, <1>2, <3>4, <3>5
  <2>3. CASE ~Markable(d)
    <3>1. UNCHANGED <<access, version, file, publish, batch>>
      BY <1>5, <2>3 DEF Mark
    <3>2. /\ del'[d].pc \in {"idle", "pick"}
          /\ \A c \in Deleters \ {d} : del'[c] = del[c]
      BY <1>5, <2>3, OnwardTypes DEF Mark, TypeOK, DeletingTypes, Idle
    <3> QED
      BY <1>1, <1>2, <3>1, <3>2 DEF PublishInv, FoundInv, OwnerInv, RowMatchesFile, Holds
  <2> QED
    BY <2>2, <2>3
<1>6. CASE Invalidate(d)
  <2>1. UNCHANGED <<stored, publish, batch>>
    BY <1>6 DEF Invalidate
  <2>2. /\ del[d].pc = "invalidate" /\ del'[d].pc = "unlink"
        /\ del'[d].art = del[d].art /\ del'[d].version = del[d].version
        /\ \A c \in Deleters \ {d} : del'[c] = del[c]
    BY <1>6 DEF Invalidate, TypeOK, DeletingTypes, Idle
  <2> QED
    BY <1>1, <1>2, <2>1, <2>2
       DEF PublishInv, FoundInv, OwnerInv, RowMatchesFile, Holds, stored
<1>7. CASE Unlink(d)
  <2> DEFINE a == del[d].art
  <2>1. /\ UNCHANGED <<access, version, publish, batch>>
        /\ file' = file \ {a}
    BY <1>7 DEF Unlink
  <2>2. /\ del[d].pc = "unlink" /\ del'[d].pc = "finish"
        /\ del'[d].art = a /\ del'[d].version = del[d].version
        /\ \A c \in Deleters \ {d} : del'[c] = del[c]
    BY <1>7 DEF Unlink, TypeOK, DeletingTypes, Idle
  <2>3. a \in Artifacts /\ access[a] = "pending"
    BY <2>2 DEF TypeOK, DeletingTypes, Idle, OwnerInv, Holds
  <2> QED
    BY <1>1, <1>2, <2>1, <2>2, <2>3
       DEF PublishInv, FoundInv, OwnerInv, RowMatchesFile, Holds
<1>8. CASE UnlinkFails(d)
  <2>1. UNCHANGED <<stored, publish, batch>>
    BY <1>8 DEF UnlinkFails
  <2>2. /\ del'[d].pc \in {"idle", "pick"}
        /\ \A c \in Deleters \ {d} : del'[c] = del[c]
    BY <1>8, OnwardTypes DEF UnlinkFails, TypeOK, DeletingTypes, Idle
  <2> QED
    BY <1>1, <1>2, <2>1, <2>2
       DEF PublishInv, FoundInv, OwnerInv, RowMatchesFile, Holds, stored
<1>9. CASE Finish(d)
  <2> DEFINE a == del[d].art
  <2>1. del[d].pc = "finish" /\ a \in Artifacts /\ a \notin file
    BY <1>9 DEF Finish, TypeOK, DeletingTypes, Idle, OwnerInv
  <2>2. access[a] = "pending" /\ version[a] = del[d].version
    BY <2>1 DEF OwnerInv, Holds
  <2>3. \A c \in Deleters \ {d} : ~Holds(c, a)
    BY <2>1 DEF OwnerInv, Holds
  <2>4. /\ UNCHANGED <<file, publish, batch>>
        /\ access' = [access EXCEPT ![a] = "deleted"]
        /\ version' = [version EXCEPT ![a] = @ + 1]
    BY <1>9, <2>2 DEF Finish
  <2>5. /\ del'[d].pc \in {"idle", "pick", "list"}
        /\ \A c \in Deleters \ {d} : del'[c] = del[c]
    BY <1>9, OnwardTypes DEF Finish, TypeOK, DeletingTypes, Idle
  <2>6. PublishInv' /\ FoundInv' /\ RowMatchesFile'
    BY <2>1, <2>2, <2>4, <2>5 DEF PublishInv, FoundInv, RowMatchesFile, TypeOK, StoredTypes
  <2>7. OwnerInv'
    BY <2>1, <2>3, <2>4, <2>5 DEF OwnerInv, Holds, TypeOK, StoredTypes
  <2> QED
    BY <1>1, <1>2, <2>6, <2>7
<1> QED
  BY <1>3, <1>4, <1>5, <1>6, <1>7, <1>8, <1>9 DEF DeleteStep

\* A request preserves the invariant: it takes and gives back what is its own.
LEMMA RequestPreserves ==
  ASSUME IInv, NEW r \in Requests,
         RequestStep(r) \/ \E a \in Artifacts : ReadRow(r, a)
  PROVE  IInv'
<1> USE DEF IInv
<1> DEFINE S == {q \in Requests : Streaming(q)}
<1>1. IsFiniteSet(S)
  BY StoreAssumption, FS_Subset
<1>2. slots = Cardinality(S) /\ slots \in Nat
  BY <1>1, FS_CardinalityType DEF TakenUntilReturned
<1>3. req[r].pc \in {"body", "reading"} => slots > 0
  <2>1. r \in S => Cardinality(S) # 0
    BY <1>1, FS_EmptySet
  <2> QED
    BY <1>2, <2>1 DEF Streaming
<1>4. TypeOK'
  BY <1>3, RequestTypes
<1>5. UNCHANGED <<stored, publish, deleting>>
  BY DEF RequestStep, ReadRow, BeginStream, Acquire, Stat, Answer, TakeSlot, ClientGone,
     OpenFile, EndStream
<1>6. PublishInv' /\ FoundInv' /\ OwnerInv' /\ RowMatchesFile'
  BY <1>5 DEF PublishInv, FoundInv, OwnerInv, RowMatchesFile, Holds, stored, deleting
<1>7. \A q \in Requests \ {r} : req'[q] = req[q]
  BY DEF RequestStep, ReadRow, BeginStream, Acquire, Stat, Answer, TakeSlot, ClientGone,
     OpenFile, EndStream, TypeOK, ServingTypes
<1>8. \A a \in Artifacts :
        leases'[a] = {q \in Requests : req'[q].art = a /\ Leasing(q)'}
  <2>1. SUFFICES ASSUME NEW a \in Artifacts, NEW q \in Requests
                 PROVE  q \in leases'[a] <=> req'[q].art = a /\ Leasing(q)'
    BY <1>4 DEF TypeOK, ServingTypes
  <2>2. q \in leases[a] <=> req[q].art = a /\ Leasing(q)
    BY DEF TakenUntilReturned
  <2>3. CASE UNCHANGED leases /\ (Leasing(r)' <=> Leasing(r))
               /\ (Leasing(r) => req'[r].art = req[r].art)
    BY <1>7, <2>2, <2>3 DEF Leasing, Streaming
  <2>4. CASE \E b \in Artifacts : ReadRow(r, b)
    BY <2>3, <2>4 DEF ReadRow, Leasing, Streaming, NoRead, TypeOK, ServingTypes
  <2>5. CASE BeginStream(r) \/ Stat(r) \/ TakeSlot(r) \/ ClientGone(r) \/ OpenFile(r)
    BY <2>3, <2>5 DEF BeginStream, Stat, TakeSlot, ClientGone, OpenFile, Leasing,
       Streaming, NoRead, TypeOK, ServingTypes
  <2>6. CASE Acquire(r)
    BY <1>7, <2>2, <2>6 DEF Acquire, Leasing, Streaming, NoRead, TypeOK, ServingTypes
  <2>7. CASE Answer(r) \/ EndStream(r)
    BY <1>7, <2>2, <2>7 DEF Answer, EndStream, Release, Leasing, Streaming, NoRead, TypeOK,
       ServingTypes
  <2> QED
    BY <2>4, <2>5, <2>6, <2>7 DEF RequestStep
<1>9. slots' = Cardinality({q \in Requests : Streaming(q)'})
  <2> DEFINE T == {q \in Requests : Streaming(q)'}
  <2>1. \A q \in Requests \ {r} : Streaming(q)' <=> Streaming(q)
    BY <1>7 DEF Streaming
  <2>2. CASE slots' = slots /\ (Streaming(r)' <=> Streaming(r))
    <3>1. T = S
      BY <2>1, <2>2
    <3> QED
      BY <1>2, <2>2, <3>1
  <2>3. CASE TakeSlot(r)
    <3>1. slots' = slots + 1 /\ ~Streaming(r) /\ Streaming(r)'
      BY <2>3 DEF TakeSlot, Streaming, TypeOK, ServingTypes, NoRead
    <3>2. T = S \cup {r} /\ r \notin S
      BY <2>1, <3>1
    <3> QED
      BY <1>1, <1>2, <3>1, <3>2, FS_AddElement
  <2>4. CASE EndStream(r)
    <3>1. slots' = slots - 1 /\ Streaming(r) /\ ~Streaming(r)'
      BY <2>4 DEF EndStream, Streaming, TypeOK, ServingTypes, NoRead
    <3>2. T = S \ {r} /\ r \in S
      BY <2>1, <3>1
    <3> QED
      BY <1>1, <1>2, <3>1, <3>2, FS_RemoveElement
  <2>5. CASE \E a \in Artifacts : ReadRow(r, a)
    BY <2>2, <2>5 DEF ReadRow, Streaming, NoRead, TypeOK, ServingTypes
  <2>6. CASE BeginStream(r) \/ Acquire(r) \/ Stat(r) \/ Answer(r)
    BY <2>2, <2>6 DEF BeginStream, Acquire, Stat, Answer, Streaming, NoRead, TypeOK,
       ServingTypes
  <2>7. CASE ClientGone(r) \/ OpenFile(r)
    BY <2>2, <2>7 DEF ClientGone, OpenFile, Streaming, NoRead, TypeOK, ServingTypes
  <2> QED
    BY <2>3, <2>4, <2>5, <2>6, <2>7 DEF RequestStep
<1> QED
  BY <1>4, <1>6, <1>8, <1>9 DEF TakenUntilReturned

\* A crash preserves the invariant: registry, slots and requests are lost together.
LEMMA RestartPreserves ==
  ASSUME IInv, Restart
  PROVE  IInv'
<1> USE DEF IInv
<1>1. {r \in Requests : Streaming(r)'} = {}
  BY DEF Restart, Streaming, NoRead
<1>2. TakenUntilReturned'
  BY <1>1, FS_EmptySet DEF Restart, TakenUntilReturned, Leasing, Streaming, NoRead
<1> QED
  BY <1>2, RestartTypes
     DEF Restart, PublishInv, FoundInv, OwnerInv, RowMatchesFile, Holds, Idle, stored,
         TypeOK, StoredTypes

\* The invariant speaks of nothing but the variables.
LEMMA StutterPreserves ==
  ASSUME IInv, UNCHANGED vars
  PROVE  IInv'
  BY DEF vars, stored, deleting, serving, IInv, TypeOK, StoredTypes, DeletingTypes,
     ServingTypes, PublishInv, FoundInv, OwnerInv, Holds, RowMatchesFile,
     TakenUntilReturned, Leasing, Streaming

\* Every step preserves the invariant.
LEMMA StepInv == IInv /\ [Next]_vars => IInv'
  BY PublishPreserves, DeletePreserves, RequestPreserves, RestartPreserves,
     StutterPreserves DEF Next

\* Rows, files and leases always agree with the steps the coroutines reached.
THEOREM Invariance == Spec => []IInv
<1> QED
  BY InitInv, StepInv, PTL DEF Spec

\* Every reachable state is of the declared types; the streams stay within the
\* semaphore (DownloadService).
THEOREM TypeCorrect == Spec => []TypeOK
<1>1. IInv => TypeOK
  BY DEF IInv
<1> QED
  BY <1>1, Invariance, PTL

\* A row offers only what can be read and says DELETED only when the file is gone
\* (publish_candidate, expire_due_artifacts, _delete_artifact, AdminArtifactDelete).
THEOREM RowsAreTrue == Spec => []RowMatchesFile
<1>1. IInv => RowMatchesFile
  BY DEF IInv
<1> QED
  BY <1>1, Invariance, PTL

\* Leases and slots are held exactly by the requests that are at a step which
\* holds them (DownloadService.handle and its generator).
THEOREM NothingIsKept == Spec => []TakenUntilReturned
<1>1. IInv => TakenUntilReturned
  BY DEF IInv
<1> QED
  BY <1>1, Invariance, PTL

------------------------------------------------------------------------------
(* Evicted artifacts hand out no lease.                                     *)

\* What the evictor removed was invalidated, or (after a crash) nobody who saw
\* the row available is left.
EvictInv ==
  /\ \A a \in Artifacts : access[a] \in {"none", "available"} => reason[a] = "none"
  /\ \A d \in Deleters : del[d].reason = "evicted" => d \in Evictors
  /\ \A d \in Deleters, a \in Artifacts : Holds(d, a) => reason[a] = del[d].reason
  /\ \A d \in Evictors : del[d].pc \in {"unlink", "finish"} => del[d].art \in invalidated
  /\ \A a \in Artifacts, r \in Requests :
       reason[a] = "evicted" /\ a \notin file /\ req[r] = [pc |-> "acquire", art |-> a]
         => a \in invalidated

\* Publication, and a file it takes back, do not concern evicted artifacts.
LEMMA PublishKeepsEvictInv ==
  ASSUME IInv, EvictInv, NEW a \in Artifacts, PublishStep(a) \/ Expire(a)
  PROVE  EvictInv'
<1>1. UNCHANGED <<del, invalidated, req, reason>>
  BY DEF PublishStep, MoveFile, Record, RecordFails, StartUpload, Delivered, Expire,
     deleting, serving, stored
<1>2. \A b \in Artifacts : reason[b] = "evicted" => (b \in file' <=> b \in file)
  BY DEF PublishStep, MoveFile, Record, RecordFails, StartUpload, Delivered, Expire,
     stored, EvictInv, IInv, PublishInv
<1>3. \A b \in Artifacts : access'[b] \in {"none", "available"}
                              => access[b] \in {"none", "available"}
  BY DEF PublishStep, MoveFile, Record, RecordFails, StartUpload, Delivered, Expire,
     stored, IInv, TypeOK, StoredTypes, PublishInv
<1> QED
  BY <1>1, <1>2, <1>3 DEF EvictInv, Holds

\* What a deleter's step must show to keep it: its own reason, the rows it
\* touches, and the artifacts whose file it removes.
LEMMA EvictFrame ==
  ASSUME EvictInv, NEW d \in Deleters,
         \A c \in Deleters \ {d} : del'[c] = del[c],
         UNCHANGED req, invalidated \subseteq invalidated',
         del'[d].reason = "evicted" => d \in Evictors,
         \A a \in Artifacts : access'[a] \in {"none", "available"} => reason'[a] = "none",
         \A a \in Artifacts : Holds(d, a)' => reason'[a] = del'[d].reason,
         \A c \in Deleters \ {d}, a \in Artifacts : Holds(c, a) => reason'[a] = reason[a],
         d \in Evictors /\ del'[d].pc \in {"unlink", "finish"} => del'[d].art \in invalidated',
         \A a \in Artifacts : reason'[a] = "evicted" /\ a \notin file'
                                => (reason[a] = "evicted" /\ a \notin file) \/ a \in invalidated'
  PROVE  EvictInv'
<1>1. \A c \in Deleters : del'[c].reason = "evicted" => c \in Evictors
  BY DEF EvictInv
<1>2. \A c \in Deleters, a \in Artifacts : Holds(c, a)' => reason'[a] = del'[c].reason
  <2>1. \A c \in Deleters \ {d}, a \in Artifacts : Holds(c, a)' <=> Holds(c, a)
    BY DEF Holds
  <2> QED
    BY <2>1 DEF EvictInv
<1>3. \A c \in Evictors : del'[c].pc \in {"unlink", "finish"} => del'[c].art \in invalidated'
  BY DEF EvictInv, Deleters
<1>4. \A a \in Artifacts, r \in Requests :
        reason'[a] = "evicted" /\ a \notin file' /\ req'[r] = [pc |-> "acquire", art |-> a]
          => a \in invalidated'
  BY DEF EvictInv
<1> QED
  BY <1>1, <1>2, <1>3, <1>4 DEF EvictInv

\* It keeps its reason or is at rest.
LEMMA OnwardReason ==
  ASSUME DeletingTypes, NEW d \in Deleters,
         del[d].pc \in {"mark", "invalidate", "unlink", "finish"}
  PROVE  Onward(d).pc \in {"idle", "pick"} /\ Onward(d).reason \in {"none", del[d].reason}
<1>1. del[d] \in [pc : {"mark", "invalidate", "unlink", "finish"}, art : Artifacts,
                 version : Nat, reason : Reasons]
  BY DEF DeletingTypes, Idle
<1>2. CASE d \in Admins
  BY <1>2 DEF Onward, Idle
<1>3. CASE d \notin Admins
  BY <1>1, <1>3 DEF Onward
<1> QED
  BY <1>2, <1>3

\* A deleter writes its own reason into the row, and an evictor invalidates the
\* artifact between that and the removal of the file.
LEMMA DeleteKeepsEvictInv ==
  ASSUME IInv, EvictInv, NEW d \in Deleters,
         ListExpired(d) \/ DeleteStep(d) \/ \E a \in Artifacts : AdminRead(d, a)
  PROVE  EvictInv'
<1> USE DEF IInv, TypeOK
<1>1. \A a \in Artifacts : access[a] \in {"none", "available"} => reason[a] = "none"
  BY DEF EvictInv
<1>2. UNCHANGED req
  BY DEF DeleteStep, ListExpired, ListCandidates, Pick, StopDeleting, AdminRead, Mark,
     Invalidate, Unlink, UnlinkFails, Finish, serving
<1>3. ASSUME UNCHANGED <<stored, invalidated>>,
             \A c \in Deleters \ {d} : del'[c] = del[c],
             del'[d].pc \in {"idle", "pick", "list", "mark"},
             del'[d].reason = "evicted" => d \in Evictors
      PROVE  EvictInv'
  <2>1. \A a \in Artifacts : ~Holds(d, a)'
    BY <1>3 DEF Holds
  <2> QED
    BY <1>1, <1>2, <1>3, <2>1, EvictFrame DEF stored
<1>4. CASE ListExpired(d)
  BY <1>3, <1>4 DEF ListExpired, Idle, serving, DeletingTypes
<1>5. CASE ListCandidates(d)
  BY <1>3, <1>5 DEF ListCandidates, Idle, serving, DeletingTypes
<1>6. CASE StopDeleting(d)
  BY <1>3, <1>6 DEF StopDeleting, Idle, serving, DeletingTypes
<1>7. CASE \E a \in Artifacts : AdminRead(d, a)
  BY <1>3, <1>7 DEF AdminRead, serving, DeletingTypes
<1>8. CASE Pick(d)
  <2>1. del[d].reason = "evicted" => d \in Evictors
    BY DEF EvictInv
  <2>2. PICK e \in batch[d] :
          del' = IF MayTake(d, e[1])
                   THEN [del EXCEPT ![d] = [pc |-> "mark", art |-> e[1],
                                            version |-> e[2], reason |-> @.reason]]
                   ELSE del
    BY <1>8 DEF Pick
  <2>3. /\ del'[d].pc \in {"pick", "mark"} /\ del'[d].reason = del[d].reason
        /\ \A c \in Deleters \ {d} : del'[c] = del[c]
    BY <1>8, <2>2 DEF Pick, DeletingTypes
  <2> QED
    BY <1>3, <1>8, <2>1, <2>3 DEF Pick, serving
<1>9. CASE Mark(d)
  <2>1. del[d].art \in Artifacts /\ (del[d].reason = "evicted" => d \in Evictors)
    BY <1>9 DEF Mark, DeletingTypes, Idle, EvictInv
  <2>2. CASE Markable(d)
    <3> DEFINE a == del[d].art
    <3>1. /\ access' = [access EXCEPT ![a] = "pending"]
          /\ reason' = [reason EXCEPT ![a] = del[d].reason]
          /\ access[a] = "available" /\ a \in file
          /\ UNCHANGED <<file, invalidated>>
      BY <1>9, <2>1, <2>2 DEF Mark, Markable, RowMatchesFile, serving
    <3>2. /\ del'[d].pc \in {"invalidate", "unlink"}
          /\ d \in Evictors => del'[d].pc = "invalidate"
          /\ del'[d].art = a /\ del'[d].reason = del[d].reason
          /\ \A c \in Deleters \ {d} : del'[c] = del[c]
      BY <1>9, <2>2 DEF Mark, DeletingTypes, Idle
    <3>3. \A c \in Deleters : ~Holds(c, a)
      BY <2>1, <3>1 DEF OwnerInv
    <3>4. \A b \in Artifacts : b # a => access'[b] = access[b] /\ reason'[b] = reason[b]
      BY <2>1, <3>1 DEF StoredTypes
    <3>5. access'[a] = "pending" /\ reason'[a] = del[d].reason
      BY <2>1, <3>1 DEF StoredTypes
    <3>6. \A b \in Artifacts : access'[b] \in {"none", "available"} => reason'[b] = "none"
      BY <1>1, <3>4, <3>5
    <3>7. \A b \in Artifacts : Holds(d, b)' => reason'[b] = del'[d].reason
      BY <3>2, <3>5 DEF Holds
    <3>8. \A c \in Deleters \ {d}, b \in Artifacts : Holds(c, b) => reason'[b] = reason[b]
      BY <3>3, <3>4
    <3>9. \A b \in Artifacts : reason'[b] = "evicted" /\ b \notin file'
                                 => (reason[b] = "evicted" /\ b \notin file) \/ b \in invalidated'
      BY <3>1, <3>4
    <3> QED
      BY <1>2, <2>1, <3>1, <3>2, <3>6, <3>7, <3>8, <3>9, EvictFrame
  <2>3. CASE ~Markable(d)
    <3>1. UNCHANGED <<stored, invalidated>>
      BY <1>9, <2>3 DEF Mark, stored, serving
    <3>2. /\ del'[d].pc \in {"idle", "pick"}
          /\ del'[d].reason \in {"none", del[d].reason}
          /\ \A c \in Deleters \ {d} : del'[c] = del[c]
      BY <1>9, <2>3, OnwardReason DEF Mark, DeletingTypes
    <3> QED
      BY <1>3, <2>1, <3>1, <3>2
  <2> QED
    BY <2>2, <2>3
<1>10. CASE Invalidate(d)
  <2>1. /\ del'[d].pc = "unlink" /\ del'[d].art = del[d].art
        /\ del'[d].reason = del[d].reason /\ del[d].pc = "invalidate"
        /\ invalidated' = invalidated \cup {del[d].art}
        /\ UNCHANGED <<file, access, reason>>
        /\ \A c \in Deleters \ {d} : del'[c] = del[c]
    BY <1>10 DEF Invalidate, DeletingTypes, Idle, stored
  <2>2. del[d].reason = "evicted" => d \in Evictors
    BY DEF EvictInv
  <2>3. \A a \in Artifacts : Holds(d, a)' => reason'[a] = del'[d].reason
    BY <2>1 DEF Holds, EvictInv
  <2> QED
    BY <1>1, <1>2, <2>1, <2>2, <2>3, EvictFrame
<1>11. CASE Unlink(d)
  <2>1. /\ del'[d].pc = "finish" /\ del'[d].art = del[d].art
        /\ del'[d].reason = del[d].reason /\ del[d].pc = "unlink"
        /\ file' = file \ {del[d].art}
        /\ UNCHANGED <<access, reason, invalidated>>
        /\ \A c \in Deleters \ {d} : del'[c] = del[c]
    BY <1>11 DEF Unlink, serving, DeletingTypes, Idle
  <2>2. del[d].reason = "evicted" => d \in Evictors
    BY DEF EvictInv
  <2>3. d \in Evictors => del[d].art \in invalidated
    BY <2>1 DEF EvictInv
  <2>4. \A a \in Artifacts : Holds(d, a)' => reason'[a] = del'[d].reason
    BY <2>1 DEF Holds, EvictInv
  <2>5. \A a \in Artifacts : a = del[d].art => reason[a] = del[d].reason
    BY <2>1 DEF Holds, EvictInv
  <2> QED
    BY <1>1, <1>2, <2>1, <2>2, <2>3, <2>4, <2>5, EvictFrame
<1>12. CASE UnlinkFails(d)
  <2>1. /\ del'[d].pc \in {"idle", "pick"}
        /\ del'[d].reason \in {"none", del[d].reason}
        /\ \A c \in Deleters \ {d} : del'[c] = del[c]
    BY <1>12, OnwardReason DEF UnlinkFails, DeletingTypes
  <2>2. del[d].reason = "evicted" => d \in Evictors
    BY DEF EvictInv
  <2> QED
    BY <1>3, <1>12, <2>1, <2>2 DEF UnlinkFails, serving
<1>13. CASE Finish(d)
  <2>1. del[d].art \in Artifacts /\ (del[d].reason = "evicted" => d \in Evictors)
    BY <1>13 DEF Finish, DeletingTypes, Idle, EvictInv
  <2>2. /\ UNCHANGED <<file, reason, invalidated>>
        /\ \A a \in Artifacts : access'[a] \in {"none", "available"} => access'[a] = access[a]
    BY <1>13, <2>1 DEF Finish, StoredTypes, serving
  <2>3. /\ del'[d].pc \in {"idle", "pick", "list"}
        /\ del'[d].reason = "evicted" => d \in Evictors
        /\ \A c \in Deleters \ {d} : del'[c] = del[c]
    BY <1>13, <2>1, OnwardReason DEF Finish, DeletingTypes, Idle
  <2>4. \A a \in Artifacts : ~Holds(d, a)'
    BY <2>3 DEF Holds
  <2> QED
    BY <1>1, <1>2, <2>2, <2>3, <2>4, EvictFrame
<1> QED
  BY <1>4, <1>5, <1>6, <1>7, <1>8, <1>9, <1>10, <1>11, <1>12, <1>13 DEF DeleteStep

\* A request asks for a lease only when it has just seen the row available.
LEMMA RequestKeepsEvictInv ==
  ASSUME IInv, EvictInv, NEW r \in Requests,
         RequestStep(r) \/ \E a \in Artifacts : ReadRow(r, a)
  PROVE  EvictInv'
<1> USE DEF IInv, TypeOK, ServingTypes
<1>1. UNCHANGED <<stored, deleting, invalidated>>
  BY DEF RequestStep, ReadRow, BeginStream, Acquire, Stat, Answer, TakeSlot, ClientGone,
     OpenFile, EndStream
<1>2. \A q \in Requests \ {r} : req'[q] = req[q]
  BY DEF RequestStep, ReadRow, BeginStream, Acquire, Stat, Answer, TakeSlot, ClientGone,
     OpenFile, EndStream
<1>3. req'[r].pc = "acquire" => access[req'[r].art] = "available"
  BY DEF RequestStep, ReadRow, BeginStream, Acquire, Stat, Answer, TakeSlot, ClientGone,
     OpenFile, EndStream, NoRead, Available
<1> QED
  BY <1>1, <1>2, <1>3 DEF EvictInv, Holds, stored, deleting

\* Every step keeps it.
LEMMA EvictStep == IInv /\ EvictInv /\ [Next]_vars => EvictInv'
<1> SUFFICES ASSUME IInv, EvictInv, [Next]_vars PROVE EvictInv'
  OBVIOUS
<1>1. CASE Restart
  BY <1>1 DEF Restart, EvictInv, Holds, Idle, NoRead, stored, Deleters
<1>2. CASE UNCHANGED vars
  BY <1>2 DEF vars, stored, deleting, serving, EvictInv, Holds
<1> QED
  BY <1>1, <1>2, PublishKeepsEvictInv, DeleteKeepsEvictInv, RequestKeepsEvictInv DEF Next

\* Once the evictor removed the file nobody gets a new lease on the artifact
\* (CapacityEvictionService._delete_artifact, InMemoryArtifactLeaseRegistry).
THEOREM NoLeaseAfterEviction == Spec => EvictedLeasesEnd
<1>1. Init => EvictInv
  BY DEF Init, EvictInv, Holds, Idle, NoRead, Deleters
<1>2. ASSUME IInv, EvictInv, [Next]_vars, NEW a \in Artifacts,
             reason[a] = "evicted", a \notin file
      PROVE  leases'[a] \subseteq leases[a]
  <2>1. ASSUME NEW r \in Requests, Acquire(r) PROVE leases'[a] \subseteq leases[a]
    <3>1. CASE req[r].art = a
      <4>1. req[r] = [pc |-> "acquire", art |-> a]
        BY <1>2, <2>1, <3>1 DEF Acquire, IInv, TypeOK, ServingTypes, NoRead
      <4>2. a \in invalidated
        BY <1>2, <4>1 DEF EvictInv
      <4> QED
        BY <2>1, <3>1, <4>2 DEF Acquire
    <3>2. CASE req[r].art # a
      BY <1>2, <2>1, <3>2 DEF Acquire, IInv, TypeOK, ServingTypes
    <3> QED
      BY <3>1, <3>2
  <2>2. ASSUME NEW r \in Requests, Answer(r) \/ EndStream(r)
        PROVE  leases'[a] \subseteq leases[a]
    BY <1>2, <2>2 DEF Answer, EndStream, Release, IInv, TypeOK, ServingTypes
  <2>3. CASE Restart
    BY <2>3 DEF Restart
  <2>4. CASE UNCHANGED leases
    BY <2>4
  <2> QED
    BY <1>2, <2>1, <2>2, <2>3, <2>4
       DEF Next, vars, serving, PublishStep, MoveFile, Record, RecordFails, StartUpload,
           Delivered, Expire, DeleteStep, ListExpired, ListCandidates, Pick, StopDeleting,
           AdminRead, Mark, Invalidate, Unlink, UnlinkFails, Finish, RequestStep, ReadRow,
           BeginStream, Stat, TakeSlot, ClientGone, OpenFile
<1>3. IInv /\ EvictInv /\ [Next]_vars
        => [\A a \in Artifacts : reason[a] = "evicted" /\ a \notin file
                                  => leases'[a] \subseteq leases[a]]_vars
  BY <1>2
<1> QED
  BY <1>1, <1>3, EvictStep, Invariance, PTL DEF Spec, EvictedLeasesEnd

------------------------------------------------------------------------------
(* Refinement of DeletedOnce.                                               *)

\* Who is past Mark on an artifact is its owner.
LEMMA HeldOwner ==
  ASSUME IInv, NEW d \in Deleters, NEW a \in Artifacts, Holds(d, a)
  PROVE  Owner(a) = d
<1>1. \A e \in Deleters : Holds(e, a) => e = d
  BY DEF IInv, OwnerInv
<1> QED
  BY <1>1 DEF Owner

\* The same, after a step.
LEMMA HeldOwnerNext ==
  ASSUME IInv', NEW d \in Deleters, NEW a \in Artifacts, Holds(d, a)'
  PROVE  Owner(a)' = d
<1>1. \A e \in Deleters : Holds(e, a)' => e = d
  BY DEF IInv, OwnerInv
<1> QED
  BY <1>1 DEF Owner

\* An artifact nobody is past Mark on has no owner.
LEMMA FreeOwner ==
  ASSUME NEW a \in Artifacts, \A d \in Deleters : ~Holds(d, a)
  PROVE  Owner(a) = Nobody
  BY DEF Owner

\* The same, after a step.
LEMMA FreeOwnerNext ==
  ASSUME NEW a \in Artifacts, \A d \in Deleters : ~Holds(d, a)'
  PROVE  Owner(a)' = Nobody
  BY DEF Owner

\* An artifact keeps its owner in a step that moves no deleter past Mark on it.
LEMMA SameOwner ==
  ASSUME IInv, IInv', NEW a \in Artifacts, \A d \in Deleters : Holds(d, a)' <=> Holds(d, a)
  PROVE  Owner(a)' = Owner(a)
<1>1. CASE \E d \in Deleters : Holds(d, a)
  <2>1. PICK d \in Deleters : Holds(d, a)
    BY <1>1
  <2>2. Holds(d, a)'
    BY <2>1
  <2> QED
    BY <2>1, <2>2, HeldOwner, HeldOwnerNext
<1>2. CASE \A d \in Deleters : ~Holds(d, a)
  BY <1>2, FreeOwner, FreeOwnerNext
<1> QED
  BY <1>1, <1>2

\* A step that changes no row and moves no deleter past Mark is a stutter.
LEMMA Stutters ==
  ASSUME IInv, IInv', UNCHANGED access,
         \A d \in Deleters, a \in Artifacts : Holds(d, a)' <=> Holds(d, a)
  PROVE  UNCHANGED Promise!vars
<1>1. \A a \in Artifacts : Owner(a)' = Owner(a)
  BY SameOwner
<1> QED
  BY <1>1 DEF Promise!vars

\* A deleter that lets go of its artifact gives the deletion up.
LEMMA GivesUp ==
  ASSUME IInv, IInv', UNCHANGED access, NEW lost \in SUBSET Artifacts,
         \A d \in Deleters, a \in lost : ~Holds(d, a)',
         \A d \in Deleters, a \in Artifacts \ lost : Holds(d, a)' <=> Holds(d, a)
  PROVE  Promise!Next
<1>1. \A a \in lost : Owner(a)' = Nobody
  BY FreeOwnerNext
<1>2. \A a \in Artifacts \ lost : Owner(a)' = Owner(a)
  BY SameOwner
<1>3. Promise!GiveUp(lost)
  BY <1>1, <1>2 DEF Promise!GiveUp
<1> QED
  BY <1>3 DEF Promise!Next

\* Deletion refines it: Mark begins, Finish ends, and a failed unlink gives up.
LEMMA DeleteRefines ==
  ASSUME IInv, IInv', NEW d \in Deleters,
         ListExpired(d) \/ DeleteStep(d) \/ \E a \in Artifacts : AdminRead(d, a)
  PROVE  [Promise!Next]_(Promise!vars)
<1> USE DEF IInv, TypeOK
<1>1. ASSUME UNCHANGED access,
             \A c \in Deleters \ {d} : del'[c] = del[c],
             del[d].pc \notin {"invalidate", "unlink", "finish"},
             del'[d].pc \notin {"invalidate", "unlink", "finish"}
      PROVE  UNCHANGED Promise!vars
  <2>1. \A c \in Deleters, a \in Artifacts : Holds(c, a)' <=> Holds(c, a)
    BY <1>1 DEF Holds
  <2> QED
    BY <1>1, <2>1, Stutters
<1>2. ASSUME UNCHANGED access,
             \A c \in Deleters \ {d} : del'[c] = del[c],
             del'[d].art = del[d].art,
             del[d].pc \in {"invalidate", "unlink", "finish"},
             del'[d].pc \in {"invalidate", "unlink", "finish"}
      PROVE  UNCHANGED Promise!vars
  <2>1. \A c \in Deleters, a \in Artifacts : Holds(c, a)' <=> Holds(c, a)
    BY <1>2 DEF Holds
  <2> QED
    BY <1>2, <2>1, Stutters
<1>3. CASE ListExpired(d)
  BY <1>1, <1>3 DEF ListExpired, Idle, stored, DeletingTypes
<1>4. CASE ListCandidates(d)
  BY <1>1, <1>4 DEF ListCandidates, Idle, stored, DeletingTypes
<1>5. CASE StopDeleting(d)
  BY <1>1, <1>5 DEF StopDeleting, Idle, stored, DeletingTypes
<1>6. CASE \E a \in Artifacts : AdminRead(d, a)
  BY <1>1, <1>6 DEF AdminRead, Idle, stored, DeletingTypes
<1>7. CASE Pick(d)
  <2>1. PICK e \in batch[d] :
          del' = IF MayTake(d, e[1])
                   THEN [del EXCEPT ![d] = [pc |-> "mark", art |-> e[1],
                                            version |-> e[2], reason |-> @.reason]]
                   ELSE del
    BY <1>7 DEF Pick
  <2>2. /\ del'[d].pc \in {"pick", "mark"}
        /\ \A c \in Deleters \ {d} : del'[c] = del[c]
    BY <1>7, <2>1 DEF Pick, DeletingTypes
  <2> QED
    BY <1>1, <1>7, <2>2 DEF Pick, stored
<1>8. CASE Mark(d)
  <2>1. PICK a \in Artifacts : a = del[d].art
    BY <1>8 DEF Mark, DeletingTypes, Idle
  <2>2. CASE Markable(d)
    <3>1. /\ access[a] = "available"
          /\ access' = [access EXCEPT ![a] = "pending"]
      BY <1>8, <2>1, <2>2 DEF Mark, Markable
    <3>2. /\ del[d].pc = "mark" /\ del'[d].pc \in {"invalidate", "unlink"}
          /\ del'[d].art = a
          /\ \A c \in Deleters \ {d} : del'[c] = del[c]
      BY <1>8, <2>1, <2>2 DEF Mark, DeletingTypes, Idle
    <3>3. \A b \in Artifacts \ {a}, c \in Deleters : Holds(c, b)' <=> Holds(c, b)
      BY <2>1, <3>2 DEF Holds
    <3>4. Holds(d, a)'
      BY <3>2 DEF Holds
    <3>5. Owner(a)' = d /\ \A b \in Artifacts \ {a} : Owner(b)' = Owner(b)
      BY <2>1, <3>3, <3>4, HeldOwnerNext, SameOwner
    <3>6. Promise!Begin(a, d)
      BY <2>1, <3>1, <3>5 DEF Promise!Begin
    <3> QED
      BY <2>1, <3>6 DEF Promise!Next
  <2>3. CASE ~Markable(d)
    <3>1. UNCHANGED access
      BY <1>8, <2>3 DEF Mark
    <3>2. /\ del[d].pc = "mark" /\ del'[d].pc \in {"idle", "pick"}
          /\ \A c \in Deleters \ {d} : del'[c] = del[c]
      BY <1>8, <2>3, OnwardReason DEF Mark, DeletingTypes
    <3> QED
      BY <1>1, <3>1, <3>2
  <2> QED
    BY <2>2, <2>3
<1>9. CASE Invalidate(d)
  BY <1>2, <1>9 DEF Invalidate, DeletingTypes, Idle, stored
<1>10. CASE Unlink(d)
  BY <1>2, <1>10 DEF Unlink, DeletingTypes, Idle
<1>11. CASE UnlinkFails(d)
  <2>1. PICK a \in Artifacts : Holds(d, a)
    BY <1>11 DEF UnlinkFails, DeletingTypes, Idle, Holds
  <2>2. /\ del'[d].pc \in {"idle", "pick"}
        /\ \A c \in Deleters \ {d} : del'[c] = del[c]
    BY <1>11, OnwardReason DEF UnlinkFails, DeletingTypes
  <2>3. \A c \in Deleters : Holds(c, a) => c = d
    BY <2>1 DEF OwnerInv
  <2>4. \A c \in Deleters, b \in {a} : ~Holds(c, b)'
    BY <2>2, <2>3 DEF Holds
  <2>5. \A c \in Deleters, b \in Artifacts \ {a} : Holds(c, b)' <=> Holds(c, b)
    BY <2>1, <2>2 DEF Holds
  <2>6. {a} \in SUBSET Artifacts /\ UNCHANGED access
    BY <1>11 DEF UnlinkFails, stored
  <2> QED
    BY <2>4, <2>5, <2>6, GivesUp
<1>12. CASE Finish(d)
  <2>1. PICK a \in Artifacts : a = del[d].art /\ Holds(d, a)
    BY <1>12 DEF Finish, DeletingTypes, Idle, Holds
  <2>2. access[a] = "pending" /\ version[a] = del[d].version
    BY <2>1 DEF OwnerInv
  <2>3. access' = [access EXCEPT ![a] = "deleted"]
    BY <1>12, <2>1, <2>2 DEF Finish
  <2>4. /\ del'[d].pc \in {"idle", "pick", "list"}
        /\ \A c \in Deleters \ {d} : del'[c] = del[c]
    BY <1>12, OnwardReason DEF Finish, DeletingTypes, Idle
  <2>5. \A c \in Deleters : Holds(c, a) => c = d
    BY <2>1 DEF OwnerInv
  <2>6. \A c \in Deleters : ~Holds(c, a)'
    BY <2>4, <2>5 DEF Holds
  <2>7. \A b \in Artifacts \ {a}, c \in Deleters : Holds(c, b)' <=> Holds(c, b)
    BY <2>1, <2>4 DEF Holds
  <2>8. Owner(a) = d /\ d # Nobody
    BY <2>1, HeldOwner, StoreAssumption DEF Deleters
  <2>9. Owner(a)' = Nobody /\ \A b \in Artifacts \ {a} : Owner(b)' = Owner(b)
    BY <2>1, <2>6, <2>7, FreeOwnerNext, SameOwner
  <2>10. Promise!Finish(a)
    BY <2>1, <2>2, <2>3, <2>8, <2>9 DEF Promise!Finish
  <2> QED
    BY <2>1, <2>10 DEF Promise!Next
<1> QED
  BY <1>3, <1>4, <1>5, <1>6, <1>7, <1>8, <1>9, <1>10, <1>11, <1>12 DEF DeleteStep

\* So does everything else: only Record touches a row.
LEMMA StepRefines == IInv /\ IInv' /\ [Next]_vars => [Promise!Next]_(Promise!vars)
<1> SUFFICES ASSUME IInv, IInv', [Next]_vars PROVE [Promise!Next]_(Promise!vars)
  OBVIOUS
<1>1. ASSUME UNCHANGED del PROVE \A d \in Deleters, a \in Artifacts : Holds(d, a)' <=> Holds(d, a)
  BY <1>1 DEF Holds
<1>2. ASSUME NEW a \in Artifacts, Record(a) PROVE [Promise!Next]_(Promise!vars)
  <2>1. \A b \in Artifacts : Owner(b)' = Owner(b)
    BY <1>1, <1>2, SameOwner DEF Record, deleting
  <2>2. Promise!Record(a)
    BY <1>2, <2>1 DEF Record, Promise!Record, IInv, PublishInv
  <2> QED
    BY <2>2 DEF Promise!Next
<1>3. ASSUME NEW a \in Artifacts,
             \/ MoveFile(a) \/ RecordFails(a) \/ StartUpload(a) \/ Delivered(a) \/ Expire(a)
      PROVE  UNCHANGED Promise!vars
  <2>1. UNCHANGED <<access, del>>
    BY <1>3 DEF MoveFile, RecordFails, StartUpload, Delivered, Expire, stored, deleting
  <2> QED
    BY <1>1, <2>1, Stutters
<1>4. ASSUME NEW r \in Requests, RequestStep(r) \/ \E a \in Artifacts : ReadRow(r, a)
      PROVE  UNCHANGED Promise!vars
  <2>1. UNCHANGED <<access, del>>
    BY <1>4 DEF RequestStep, ReadRow, BeginStream, Acquire, Stat, Answer, TakeSlot,
       ClientGone, OpenFile, EndStream, stored, deleting
  <2> QED
    BY <1>1, <2>1, Stutters
<1>5. CASE Restart
  <2>1. UNCHANGED access /\ \A d \in Deleters, a \in Artifacts : ~Holds(d, a)'
    BY <1>5 DEF Restart, stored, Holds, Idle
  <2>2. Artifacts \in SUBSET Artifacts
    OBVIOUS
  <2> QED
    BY <2>1, <2>2, GivesUp
<1>6. CASE UNCHANGED vars
  BY <1>1, <1>6, Stutters DEF vars, stored, deleting
<1> QED
  BY <1>2, <1>3, <1>4, <1>5, <1>6, DeleteRefines DEF Next, PublishStep

\* ArtifactStore implements DeletedOnce: whoever deletes an artifact, one actor
\* begins, the same one ends, and nobody else does.
THEOREM Refinement == Spec => DeletesOnce
<1>1. Init => Promise!Init
  <2> SUFFICES ASSUME Init PROVE Promise!Init
    OBVIOUS
  <2>1. \A d \in Deleters, a \in Artifacts : ~Holds(d, a)
    BY DEF Init, Holds, Idle
  <2>2. \A a \in Artifacts : Owner(a) = Nobody
    BY <2>1, FreeOwner
  <2> QED
    BY <2>2 DEF Init, Promise!Init
<1> QED
  BY <1>1, StepRefines, Invariance, PTL DEF Spec, Promise!Spec, DeletesOnce
================================================================================
