---------------------------- MODULE DeliveryProofs ----------------------------
(***************************************************************************)
(* Theorems about Delivery, for any platforms, files, limits, titles, lines*)
(* of the worker, ranges and times.                                        *)
(***************************************************************************)
EXTENDS Delivery, SequenceTheorems, TLAPS

(* What the records are.                                                   *)

Shape ==
  /\ job = [state |-> job.state, origin |-> job.origin, limit |-> job.limit, seq |-> job.seq]
  /\ art = [status |-> art.status, size |-> art.size, name |-> art.name, expires |-> art.expires]
  /\ pump = [pc |-> pump.pc, at |-> pump.at, current |-> pump.current, line |-> pump.line,
             link |-> pump.link]
  /\ rep = [terminal |-> rep.terminal, sent |-> rep.sent, seq |-> rep.seq, phase |-> rep.phase]
  /\ chat = [edit |-> chat.edit, told |-> chat.told, file |-> chat.file, link |-> chat.link,
             raised |-> chat.raised]
  /\ req = [pc |-> req.pc, range |-> req.range, status |-> req.status, from |-> req.from,
            upto |-> req.upto]

\* Records keep their fields.
LEMMA ShapeKept == Shape /\ [Next]_vars => Shape'
<1> SUFFICES ASSUME Shape, [Next]_vars
             PROVE  Shape'
  OBVIOUS
<1> USE DEF Shape
<1>1. CASE UNCHANGED vars
  BY <1>1 DEF vars, publishing
<1>2. CASE SubmitStep
  <2>1. ASSUME NEW p, NEW given, Submit(p, given)
        PROVE  Shape'
    BY <2>1 DEF Submit
  <2>2. CASE Acknowledge
    BY <2>2 DEF Acknowledge
  <2>3. CASE Refuse
    BY <2>3 DEF Refuse
  <2>4. CASE Cancel
    BY <2>4 DEF Cancel
  <2> QED
    BY <1>2, <2>1, <2>2, <2>3, <2>4 DEF SubmitStep
<1>3. CASE ProgressStep
  <2>1. ASSUME NEW seq, NEW r, ProgressLine(seq, r)
        PROVE  Shape'
    BY <2>1 DEF ProgressLine, Take, Idle
  <2>2. CASE Snapshot
    BY <2>2 DEF Snapshot, Goto
  <2>3. CASE Edit
    BY <2>3 DEF Edit, Rest, Idle
  <2>4. CASE SkipEdit
    BY <2>4 DEF SkipEdit, Rest, Idle
  <2> QED
    BY <1>3, <2>1, <2>2, <2>3, <2>4 DEF ProgressStep
<1>4. CASE DeliverStep
  <2>1. CASE Candidate
    BY <2>1 DEF Candidate, Take, Idle
  <2>2. CASE PublishFails
    BY <2>2 DEF PublishFails, Rest, Idle
  <2>3. ASSUME NEW f, Publish(f)
        PROVE  Shape'
    BY <2>3 DEF Publish
  <2>4. CASE Upload
    BY <2>4 DEF Upload, GotFile, Goto
  <2>5. CASE UploadDeferred
    BY <2>5 DEF UploadDeferred, Goto
  <2>6. CASE UploadFails
    BY <2>6 DEF UploadFails, GotFile, Goto
  <2>7. CASE PlanLink
    BY <2>7 DEF PlanLink, Goto
  <2>8. CASE Issue
    BY <2>8 DEF Issue
  <2>9. CASE Final
    BY <2>9 DEF Final, Tell, Goto
  <2>10. CASE FinalFails
    BY <2>10 DEF FinalFails, FinalRaised, Rest, Idle
  <2>11. CASE Reload
    BY <2>11 DEF Reload
  <2>12. CASE Complete
    BY <2>12 DEF Complete, Rest, Idle
  <2> QED
    BY <1>4, <2>1, <2>2, <2>3, <2>4, <2>5, <2>6, <2>7, <2>8, <2>9, <2>10, <2>11, <2>12
       DEF DeliverStep
<1>5. CASE EndStep
  <2>1. CASE Succeeded
    BY <2>1 DEF Succeeded, publishing
  <2>2. CASE Failed
    BY <2>2 DEF Failed, Take, Idle
  <2>3. CASE Fail
    BY <2>3 DEF Fail, Goto
  <2>4. CASE TellFailed
    BY <2>4 DEF TellFailed, Tell, Rest, Idle
  <2> QED
    BY <1>5, <2>1, <2>2, <2>3, <2>4 DEF EndStep
<1>6. CASE RequestStep
  <2>1. ASSUME NEW exp, NEW range, Ask(exp, range)
        PROVE  Shape'
    BY <2>1 DEF Ask, Answer, NoReq, publishing
  <2>2. CASE Lease
    BY <2>2 DEF Lease, Answer, publishing
  <2>3. CASE Open
    BY <2>3 DEF Open, Answer, publishing
  <2> QED
    BY <1>6, <2>1, <2>2, <2>3 DEF RequestStep
<1>7. CASE Reclaim \/ Tick
  BY <1>7 DEF Reclaim, Tick, publishing
<1> QED
  BY <1>1, <1>2, <1>3, <1>4, <1>5, <1>6, <1>7 DEF Next

Types ==
  /\ Shape
  /\ pump.at \in Nat /\ clock \in Nat /\ pump.current \in BOOLEAN
  /\ art.expires \in Nat /\ pump.link \in Nat /\ chat.link \in Nat
  /\ chat.told \in Seq({"completed", "failed"})

\* Records keep their types.
LEMMA TypesKept == Types /\ [Next]_vars => Types'
<1> SUFFICES ASSUME Types, [Next]_vars
             PROVE  Types'
  OBVIOUS
<1>0. Shape /\ Shape'
  BY ShapeKept DEF Types
<1> DEFINE Values == /\ pump.at \in Nat /\ clock \in Nat /\ pump.current \in BOOLEAN
                     /\ art.expires \in Nat /\ pump.link \in Nat /\ chat.link \in Nat
                     /\ chat.told \in Seq({"completed", "failed"})
<1>a. Values
  BY DEF Types
<1> SUFFICES Values'
  BY <1>0 DEF Types
<1>b. ASSUME UNCHANGED <<pump.at, pump.current, pump.link, art.expires, chat.link, chat.told>>,
             clock' \in Nat
      PROVE  Values'
  BY <1>a, <1>b
<1>c. ASSUME pump' = Idle, UNCHANGED <<art.expires, chat.link, chat.told, clock>>
      PROVE  Values'
  BY <1>a, <1>c DEF Idle, NoLink
<1>1. CASE UNCHANGED vars
  BY <1>a, <1>1 DEF vars, publishing
<1>2. CASE SubmitStep
  BY <1>0, <1>a, <1>2 DEF SubmitStep, Submit, Acknowledge, Refuse, Cancel, Shape
<1>3. CASE ProgressStep
  <2>1. ASSUME NEW seq, NEW r, ProgressLine(seq, r)
        PROVE  Values'
    BY <1>0, <1>a, <2>1 DEF ProgressLine, Take, Idle, NoLink
  <2>2. CASE Snapshot
    BY <1>0, <1>a, <2>2 DEF Snapshot, Goto, Shape
  <2>3. CASE Edit
    BY <1>0, <1>a, <1>c, <2>3 DEF Edit, Rest, Shape
  <2>4. CASE SkipEdit
    BY <1>a, <1>c, <2>4 DEF SkipEdit, Rest
  <2> QED
    BY <1>3, <2>1, <2>2, <2>3, <2>4 DEF ProgressStep
<1>4. CASE DeliverStep
  <2>1. CASE Candidate
    BY <1>0, <1>a, <2>1 DEF Candidate, Take, Idle, NoLink
  <2>2. CASE PublishFails
    BY <1>a, <1>c, <2>2 DEF PublishFails, Rest
  <2>3. ASSUME NEW f, Publish(f)
        PROVE  Values'
    <3>1. /\ art'.expires = pump.at + Retention /\ pump' = [pump EXCEPT !.pc = "deliver", !.current = TRUE]
          /\ UNCHANGED <<chat, clock>>
      BY <2>3 DEF Publish
    <3>2. /\ pump'.at = pump.at /\ pump'.link = pump.link /\ pump'.current = TRUE
      BY <1>0, <3>1 DEF Shape
    <3> QED
      BY <1>a, <3>1, <3>2, DeliveryAssumption
  <2>4. CASE Upload \/ UploadDeferred \/ UploadFails \/ PlanLink
    <3>1. /\ \E step : pump' = [pump EXCEPT !.pc = step]
          /\ UNCHANGED <<art, clock>>
          /\ chat' = chat \/ chat' = [chat EXCEPT !.file = TRUE]
      BY <2>4 DEF Upload, UploadDeferred, UploadFails, PlanLink, Goto, GotFile
    <3>2. UNCHANGED <<pump.at, pump.link, pump.current>>
      BY <1>0, <3>1 DEF Shape
    <3>3. UNCHANGED <<chat.link, chat.told>>
      BY <1>0, <3>1 DEF Shape
    <3> QED
      BY <1>a, <3>1, <3>2, <3>3
  <2>5. CASE Issue
    <3>1. LinkExpiry \in Nat
      BY <1>a, DeliveryAssumption DEF LinkExpiry, Lower
    <3> QED
      BY <1>0, <1>a, <2>5, <3>1 DEF Issue, Shape
  <2>6. CASE Final
    <3>1. /\ UNCHANGED <<pump.at, pump.link, pump.current, art, clock>>
          /\ chat' = chat \/ chat' = [chat EXCEPT !.told = Append(@, "completed"), !.link = pump.link]
      BY <1>0, <2>6 DEF Final, Goto, Tell, Shape
    <3>2. CASE chat' = [chat EXCEPT !.told = Append(@, "completed"), !.link = pump.link]
      <4>1. chat'.told = Append(chat.told, "completed") /\ chat'.link = pump.link
        BY <1>0, <3>2 DEF Shape
      <4> QED
        BY <1>a, <3>1, <4>1
    <3> QED
      BY <1>a, <3>1, <3>2
  <2>7. CASE FinalFails
    <3>1. /\ pump' = Idle /\ UNCHANGED <<art, clock>>
          /\ \/ chat' = chat
             \/ chat' = [chat EXCEPT !.told = Append(@, "completed"), !.link = pump.link,
                                     !.raised = TRUE]
      BY <2>7 DEF FinalFails, FinalRaised, Rest
    <3>2. CASE chat' # chat
      <4>1. chat'.told = Append(chat.told, "completed") /\ chat'.link = pump.link
        BY <1>0, <3>1, <3>2 DEF Shape
      <4> QED
        BY <1>a, <3>1, <4>1 DEF Idle, NoLink
    <3> QED
      BY <1>a, <1>c, <3>1, <3>2
  <2>8. CASE Reload
    BY <1>0, <1>a, <2>8 DEF Reload, Shape
  <2>9. CASE Complete
    BY <1>a, <1>c, <2>9 DEF Complete, Rest
  <2> QED
    BY <1>4, <2>1, <2>2, <2>3, <2>4, <2>5, <2>6, <2>7, <2>8, <2>9 DEF DeliverStep
<1>5. CASE EndStep
  <2>1. CASE Succeeded
    BY <1>a, <2>1 DEF Succeeded, publishing
  <2>2. CASE Failed
    BY <1>0, <1>a, <2>2 DEF Failed, Take, Idle, NoLink
  <2>3. CASE Fail
    BY <1>0, <1>a, <2>3 DEF Fail, Goto, Shape
  <2>4. CASE TellFailed
    <3>1. /\ pump' = Idle /\ UNCHANGED <<art, clock>>
          /\ chat' = chat \/ chat' = [chat EXCEPT !.told = Append(@, "failed"), !.link = chat.link]
      BY <2>4 DEF TellFailed, Tell, Rest
    <3>2. CASE chat' = [chat EXCEPT !.told = Append(@, "failed"), !.link = chat.link]
      <4>1. chat'.told = Append(chat.told, "failed") /\ chat'.link = chat.link
        BY <1>0, <3>2 DEF Shape
      <4> QED
        BY <1>a, <3>1, <4>1 DEF Idle, NoLink
    <3> QED
      BY <1>a, <1>c, <3>1, <3>2
  <2> QED
    BY <1>5, <2>1, <2>2, <2>3, <2>4 DEF EndStep
<1>6. CASE RequestStep
  <2>1. UNCHANGED <<pump, art, chat, clock>>
    BY <1>6 DEF RequestStep, Ask, Lease, Open, publishing
  <2> QED
    BY <1>a, <2>1
<1>7. CASE Reclaim
  <2>1. /\ UNCHANGED <<chat, clock>> /\ art' = [art EXCEPT !.status = "gone"]
        /\ pump' = pump \/ pump' = [pump EXCEPT !.current = FALSE]
    BY <1>7 DEF Reclaim
  <2>2. UNCHANGED <<pump.at, pump.link, art.expires>> /\ pump'.current \in BOOLEAN
    BY <1>0, <1>a, <2>1 DEF Shape
  <2> QED
    BY <1>a, <2>1, <2>2
<1>8. CASE Tick
  BY <1>a, <1>8 DEF Tick, publishing
<1> HIDE DEF Values
<1> QED
  BY <1>1, <1>2, <1>3, <1>4, <1>5, <1>6, <1>7, <1>8 DEF Next
------------------------------------------------------------------------------
(* What has been told.                                                      *)

\* What is told after nothing.
LEMMA FirstTold == ASSUME NEW x
                   PROVE  Append(<<>>, x) = <<x>> /\ Len(<<x>>) = 1
OBVIOUS

\* What is told after one outcome (two sequences of the same elements are the same).
LEMMA SecondTold ==
  ASSUME NEW x, NEW y
  PROVE  Append(<<x>>, y) = <<x, y>>
<1> DEFINE S == {x, y}
           s == Append(<<x>>, y)
           t == <<x, y>>
<1>1. s \in Seq(S) /\ Len(s) = 2 /\ s[1] = x /\ s[2] = y
  <2>1. <<x>> \in Seq(S) /\ y \in S /\ Len(<<x>>) = 1
    OBVIOUS
  <2> QED
    BY <2>1
<1>2. t \in Seq(S) /\ Len(t) = 2 /\ t[1] = x /\ t[2] = y
  OBVIOUS
<1> HIDE DEF s, t, S
<1>3. s = t
  <2>1. 1..Len(s) = {1, 2}
    BY <1>1
  <2>2. \A i \in 1..Len(s) : s[i] = t[i]
    BY <1>1, <1>2, <2>1
  <2> QED
    BY <1>1, <1>2, <2>2, SeqEqual
<1> QED
  BY <1>3 DEF s, t

Handed == chat.file \/ chat.link # 0 \/ lapses # {}
Gone   == art.status = "gone"
Told   == chat.told # <<>>
Doubt  == chat.raised /\ chat.told = <<"completed">>

\* Where the worker and its pump are, and what the owner has heard by then.
ToldInv ==
  /\ Types
  /\ job.state \in {"none", "created", "refused"} => worker = "none"
  /\ worker = "none" => pump.pc = "idle"
  /\ worker \in {"none", "running"} =>
       ~Told /\ art.status = "none" /\ pump.pc \in {"idle", "snapshot", "edit"}
  /\ pump.pc = "publish" => worker = "offered" /\ ~Told /\ art.status = "none"
  /\ pump.pc \in {"deliver", "link", "final"} =>
       worker = "offered" /\ ~Told /\ art.status # "none" /\ art.expires > 0
  /\ pump.pc = "final" => chat.file \/ pump.link # 0
  /\ pump.pc \in {"reload", "complete"} => worker = "offered" /\ Handed
  /\ pump.pc \in {"fail", "tell"} =>
       worker = "ended" /\ chat.told \in {<<>>, <<"completed">>} /\ (Told => Gone \/ chat.raised)
  /\ chat.told \in {<<>>, <<"completed">>} \/ worker = "ended"
  /\ ~Gone /\ pump.pc = "complete" /\ ~pump.current => job.state = "cancelled"
  /\ OneOutcome
  /\ ~Gone /\ Told => \/ chat.raised
                      \/ worker = "ended" /\ pump.pc = "idle"
                      \/ pump.pc \in {"reload", "complete"}
                      \/ job.state \in {"completed", "cancelled"}
  /\ Told => rep.terminal \/ pump.pc \in {"reload", "complete"} \/ Doubt
  /\ pump.pc = "tell" => rep.terminal
  /\ job.state = "completed" => Handed

\* Nothing is told at first.
LEMMA ToldStarts == Init => ToldInv
<1> SUFFICES ASSUME Init
             PROVE  ToldInv
  OBVIOUS
<1>1. Types
  BY DEF Init, Types, Shape, Idle, NoReq, NoLink
<1> QED
  BY <1>1 DEF Init, ToldInv, Told, OneOutcome, Idle

\* The owner is told once.
LEMMA ToldKept == ToldInv /\ [Next]_vars => ToldInv'
<1> SUFFICES ASSUME ToldInv, [Next]_vars
             PROVE  ToldInv'
  OBVIOUS
<1>0. Types /\ Types' /\ Shape /\ Shape'
  BY TypesKept DEF ToldInv, Types
<1> USE DEF ToldInv, Handed, Gone, Told, Doubt, OneOutcome
<1>1. CASE UNCHANGED vars
  BY <1>0, <1>1 DEF vars, publishing
<1>2. CASE SubmitStep
  <2>1. ASSUME NEW p, NEW given, Submit(p, given)
        PROVE  ToldInv'
    BY <1>0, <2>1 DEF Submit, Shape
  <2>2. CASE Acknowledge
    BY <1>0, <2>2 DEF Acknowledge, Shape
  <2>3. CASE Refuse
    BY <1>0, <2>3 DEF Refuse, Shape
  <2>4. CASE Cancel
    BY <1>0, <2>4 DEF Cancel, Shape
  <2> QED
    BY <1>2, <2>1, <2>2, <2>3, <2>4 DEF SubmitStep
<1>3. CASE ProgressStep
  <2>1. ASSUME NEW seq, NEW r, ProgressLine(seq, r)
        PROVE  ToldInv'
    BY <1>0, <2>1 DEF ProgressLine, Take, Idle, Shape
  <2>2. CASE Snapshot
    BY <1>0, <2>2 DEF Snapshot, Goto, Shape
  <2>3. CASE Edit
    BY <1>0, <2>3 DEF Edit, Rest, Idle, Shape
  <2>4. CASE SkipEdit
    BY <1>0, <2>4 DEF SkipEdit, Rest, Idle, Shape
  <2> QED
    BY <1>3, <2>1, <2>2, <2>3, <2>4 DEF ProgressStep
<1>4. CASE DeliverStep
  <2>1. CASE Candidate
    BY <1>0, <2>1 DEF Candidate, Take, Idle, Shape
  <2>2. CASE PublishFails
    BY <1>0, <2>2 DEF PublishFails, Rest, Idle, Shape
  <2>3. ASSUME NEW f, Publish(f)
        PROVE  ToldInv'
    <3>1. art'.expires > 0
      BY <1>0, <2>3, DeliveryAssumption DEF Publish, Types
    <3> QED
      BY <1>0, <2>3, <3>1 DEF Publish, Shape
  <2>4. CASE Upload
    BY <1>0, <2>4 DEF Upload, GotFile, Goto, Shape
  <2>5. CASE UploadDeferred
    BY <1>0, <2>5 DEF UploadDeferred, Goto, Shape
  <2>6. CASE UploadFails
    BY <1>0, <2>6 DEF UploadFails, GotFile, Goto, Shape
  <2>7. CASE PlanLink
    BY <1>0, <2>7 DEF PlanLink, Goto, Shape
  <2>8. CASE Issue
    <3>1. LinkExpiry # 0
      BY <1>0, <2>8, DeliveryAssumption DEF Issue, LinkExpiry, Lower, Types
    <3> QED
      BY <1>0, <2>8, <3>1 DEF Issue, Shape
  <2>9. CASE Final
    <3>1. CASE UNCHANGED chat
      BY <1>0, <2>9, <3>1 DEF Final, Tell, Goto, Shape
    <3>2. CASE Tell("completed", pump.link)
      <4>1. /\ chat'.told = Append(chat.told, "completed")
            /\ chat'.file = chat.file /\ chat'.link = pump.link /\ chat'.raised = chat.raised
        BY <1>0, <3>2 DEF Tell, Shape
      <4>2. /\ pump.pc = "final" /\ pump'.pc = "reload"
            /\ UNCHANGED <<job, art, worker, rep, pump.current>>
            /\ chat.told = <<>> /\ worker = "offered" /\ art.status # "none"
        BY <1>0, <2>9 DEF Final, Goto, Shape
      <4>3. chat'.told = <<"completed">> /\ Len(<<"completed">>) = 1
        BY <4>1, <4>2, FirstTold, Zenon
      <4>4. OneOutcome'
        BY <4>3
      <4>5. Handed' /\ chat'.told \in {<<>>, <<"completed">>}
        BY <4>1, <4>2, <4>3
      <4>6. job.state \notin {"none", "created", "refused"}
        BY <4>2
      <4> HIDE DEF Handed, Told, Doubt, OneOutcome
      <4> QED
        BY <1>0, <4>2, <4>4, <4>5, <4>6
    <3> QED
      BY <2>9, <3>1, <3>2 DEF Final
  <2>10. CASE FinalFails
    <3>1. CASE UNCHANGED chat
      BY <1>0, <2>10, <3>1 DEF FinalFails, Rest, Idle, Shape
    <3>2. CASE chat' = [chat EXCEPT !.told = Append(@, "completed"), !.link = pump.link,
                                    !.raised = TRUE]
      <4>1. /\ chat'.told = Append(chat.told, "completed")
            /\ chat'.file = chat.file /\ chat'.link = pump.link /\ chat'.raised = TRUE
        BY <1>0, <3>2 DEF Shape
      <4>2. /\ pump.pc = "final" /\ pump'.pc = "idle"
            /\ UNCHANGED <<job, art, worker, rep, lapses>>
            /\ chat.told = <<>> /\ worker = "offered" /\ art.status # "none"
        BY <2>10 DEF FinalFails, Rest, Idle
      <4>3. chat'.told = <<"completed">> /\ Len(<<"completed">>) = 1
        BY <4>1, <4>2, FirstTold, Zenon
      <4>4. OneOutcome'
        BY <4>3
      <4>5. Handed' /\ Doubt' /\ chat'.raised /\ chat'.told \in {<<>>, <<"completed">>}
        BY <4>1, <4>2, <4>3
      <4>6. job.state \notin {"none", "created", "refused"}
        BY <4>2
      <4> HIDE DEF Handed, Told, Doubt, OneOutcome
      <4> QED
        BY <1>0, <4>2, <4>4, <4>5, <4>6
    <3> QED
      BY <2>10, <3>1, <3>2 DEF FinalFails, FinalRaised
  <2>11. CASE Reload
    BY <1>0, <2>11 DEF Reload, Shape
  <2>12. CASE Complete
    BY <1>0, <2>12 DEF Complete, Rest, Idle, Shape
  <2> QED
    BY <1>4, <2>1, <2>2, <2>3, <2>4, <2>5, <2>6, <2>7, <2>8, <2>9, <2>10, <2>11, <2>12 DEF DeliverStep
<1>5. CASE EndStep
  <2>1. CASE Succeeded
    BY <1>0, <2>1 DEF Succeeded, publishing, Idle
  <2>2. CASE Failed
    BY <1>0, <2>2 DEF Failed, Take, Idle, FailIgnored, Shape
  <2>3. CASE Fail
    BY <1>0, <2>3 DEF Fail, Goto, Shape
  <2>4. CASE TellFailed
    <3>1. CASE UNCHANGED chat
      BY <1>0, <2>4, <3>1 DEF TellFailed, Rest, Idle
    <3>2. CASE Tell("failed", chat.link)
      <4>1. /\ chat'.told = Append(chat.told, "failed")
            /\ chat'.file = chat.file /\ chat'.link = chat.link /\ chat'.raised = chat.raised
        BY <1>0, <3>2 DEF Tell, Shape
      <4>2. /\ pump.pc = "tell" /\ pump'.pc = "idle"
            /\ UNCHANGED <<job, art, worker, rep, lapses>>
        BY <2>4 DEF TellFailed, Rest, Idle
      <4>3. worker = "ended" /\ rep.terminal
        BY <4>2
      <4>4. job.state \notin {"none", "created", "refused"}
        BY <4>3
      <4>5. Handed <=> Handed'
        BY <4>1, <4>2
      <4>6. OneOutcome'
        <5>1. CASE chat.told = <<>>
          <6>1. Len(chat'.told) = 1
            BY <4>1, <5>1, FirstTold, Zenon
          <6> QED
            BY <6>1
        <5>2. CASE chat.told = <<"completed">>
          <6>1. chat'.told = <<"completed", "failed">>
            BY <4>1, <5>2, SecondTold, Zenon
          <6>2. Gone \/ chat.raised
            BY <4>2, <5>2
          <6> QED
            BY <4>1, <4>2, <6>1, <6>2
        <5> QED
          BY <4>2, <5>1, <5>2
      <4>7. job'.state = "completed" => Handed'
        BY <4>2, <4>5
      <4> HIDE DEF Handed, Told, Doubt, OneOutcome
      <4> QED
        BY <1>0, <4>2, <4>3, <4>4, <4>6, <4>7
    <3> QED
      BY <2>4, <3>1, <3>2 DEF TellFailed
  <2> QED
    BY <1>5, <2>1, <2>2, <2>3, <2>4 DEF EndStep
<1>6. CASE RequestStep
  <2>1. ASSUME NEW exp, NEW range, Ask(exp, range)
        PROVE  ToldInv'
    BY <1>0, <2>1 DEF Ask, publishing, Shape
  <2>2. CASE Lease
    BY <1>0, <2>2 DEF Lease, publishing, Shape
  <2>3. CASE Open
    BY <1>0, <2>3 DEF Open, publishing, Shape
  <2> QED
    BY <1>6, <2>1, <2>2, <2>3 DEF RequestStep
<1>7. CASE Reclaim
  BY <1>0, <1>7 DEF Reclaim, Shape
<1>8. CASE Tick
  BY <1>0, <1>8 DEF Tick, publishing
<1> QED
  BY <1>1, <1>2, <1>3, <1>4, <1>5, <1>6, <1>7, <1>8 DEF Next

\* A job is COMPLETED only after its owner got the file or a link, or in the two ways in which
\* nothing arrives (Delivery.deliver, Orchestrator.handle_event).
THEOREM CompletedMeansDelivered == Spec => []CompletedWasDelivered
<1>1. ToldInv => CompletedWasDelivered
  BY DEF ToldInv, CompletedWasDelivered, Handed, Links, NoLink
<1> QED
  BY <1>1, ToldStarts, ToldKept, PTL DEF Spec

\* The owner hears of one outcome at most, and of a failure after a success only if the artifact
\* was reclaimed or the call that told him of the success raised (Orchestrator.handle_event).
THEOREM OneOutcomeIsTold == Spec => []OneOutcome
<1>1. ToldInv => OneOutcome
  BY DEF ToldInv
<1> QED
  BY <1>1, ToldStarts, ToldKept, PTL DEF Spec

------------------------------------------------------------------------------
(* Edits.                                                                   *)

\* The reporter remembers the last edit; a line of progress has a number.
EditInv ==
  /\ chat.edit.seq = (IF rep.seq = -1 THEN 0 ELSE rep.seq)
  /\ chat.edit.phase = rep.phase /\ chat.edit.at = rep.sent
  /\ rep.seq \in Int /\ rep.seq >= -1
  /\ pump.pc \in {"snapshot", "edit"} => pump.line.seq \in Nat \ {0}

\* Only Edit edits.
LEMMA EditsKept ==
  ToldInv /\ EditInv /\ [Next]_vars =>
    /\ EditInv'
    /\ chat'.edit # chat.edit =>
         /\ chat.told = <<>> \/ Doubt
         /\ chat'.edit.seq > chat.edit.seq
         /\ chat'.edit.phase # chat.edit.phase \/ chat'.edit.at - chat.edit.at >= Interval
<1> SUFFICES ASSUME ToldInv, EditInv, [Next]_vars
             PROVE  /\ EditInv'
                    /\ chat'.edit # chat.edit =>
                         /\ chat.told = <<>> \/ Doubt
                         /\ chat'.edit.seq > chat.edit.seq
                         /\ \/ chat'.edit.phase # chat.edit.phase
                            \/ chat'.edit.at - chat.edit.at >= Interval
  OBVIOUS
<1>0. Shape
  BY DEF ToldInv, Types
<1>1. ASSUME NEW seq \in 1..MaxSequence, NEW r, ProgressLine(seq, r)
      PROVE  EditInv' /\ UNCHANGED chat
  <2> DEFINE line == [kind |-> "progress", seq |-> seq, phase |-> r.phase, done |-> r.done,
                      total |-> r.total]
  <2>1. UNCHANGED <<chat, rep>> /\ (pump' = pump \/ pump'.line = line)
    BY <1>1 DEF ProgressLine, Take, Idle
  <2>2. seq \in Nat \ {0}
    BY DeliveryAssumption
  <2> QED
    BY <2>1, <2>2 DEF EditInv
<1>2. CASE Edit
  <2>1. /\ rep' = [rep EXCEPT !.sent = pump.at, !.seq = pump.line.seq, !.phase = pump.line.phase]
        /\ chat' = [chat EXCEPT !.edit =
              [seq |-> pump.line.seq, phase |-> pump.line.phase, at |-> pump.at,
               percent |-> Percent(pump.line.done, pump.line.total)]]
        /\ pump' = Idle /\ pump.pc = "edit" /\ EditDue
    BY <1>2 DEF Edit, Rest
  <2>2. /\ chat'.edit.seq = pump.line.seq /\ chat'.edit.phase = pump.line.phase
        /\ chat'.edit.at = pump.at
    BY <1>0, <2>1 DEF Shape
  <2>3. /\ rep'.seq = pump.line.seq /\ rep'.phase = pump.line.phase /\ rep'.sent = pump.at
        /\ pump'.pc = "idle"
    BY <1>0, <2>1 DEF Shape, Idle
  <2>4. EditInv' /\ chat'.edit.seq > chat.edit.seq
    BY <2>1, <2>2, <2>3 DEF EditInv, EditDue, Newer
  <2>5. chat.told = <<>> \/ Doubt
    BY <2>1 DEF ToldInv, Told, EditDue
  <2>6. chat'.edit.phase # chat.edit.phase \/ chat'.edit.at - chat.edit.at >= Interval
    BY <2>1, <2>2 DEF EditInv, EditDue, PhaseChanged
  <2> QED
    BY <2>4, <2>5, <2>6
<1>3. ASSUME UNCHANGED <<rep.seq, rep.phase, rep.sent, chat.edit>>,
             pump'.pc \in {"snapshot", "edit"} => pump.pc \in {"snapshot", "edit"} /\ pump'.line = pump.line
      PROVE  EditInv' /\ UNCHANGED chat.edit
  BY <1>3 DEF EditInv
<1>4. CASE UNCHANGED vars
  BY <1>3, <1>4 DEF vars, publishing
<1>5. CASE SubmitStep
  BY <1>0, <1>3, <1>5 DEF SubmitStep, Submit, Acknowledge, Refuse, Cancel, Shape
<1>6. CASE Snapshot \/ SkipEdit
  BY <1>0, <1>3, <1>6 DEF Snapshot, SkipEdit, Goto, Rest, Idle, Shape
<1>7. CASE DeliverStep
  <2>1. CASE Candidate \/ PublishFails \/ FinalFails
    <3>1. UNCHANGED <<rep, chat.edit>> /\ pump'.pc \in {"idle", "publish"}
      <4>1. CASE Candidate
        BY <4>1 DEF Candidate, Take, Idle
      <4>2. CASE PublishFails
        BY <4>2 DEF PublishFails, Rest, Idle
      <4>3. CASE FinalFails
        <5>1. UNCHANGED rep /\ pump'.pc = "idle" /\ FinalRaised
          BY <4>3 DEF FinalFails, Rest, Idle
        <5>2. UNCHANGED chat.edit
          BY <1>0, <5>1 DEF FinalRaised, Shape
        <5> QED
          BY <5>1, <5>2
      <4> QED
        BY <2>1, <4>1, <4>2, <4>3
    <3> QED
      BY <1>3, <3>1
  <2>2. ASSUME NEW f, Publish(f)
        PROVE  EditInv' /\ UNCHANGED chat.edit
    BY <1>0, <1>3, <2>2 DEF Publish, Shape
  <2>3. CASE Upload \/ UploadDeferred \/ UploadFails \/ PlanLink
    BY <1>0, <1>3, <2>3 DEF Upload, UploadDeferred, UploadFails, PlanLink, GotFile, Goto, Shape
  <2>4. CASE Issue \/ Reload
    BY <1>0, <1>3, <2>4 DEF Issue, Reload, Shape
  <2>5. CASE Final
    BY <1>0, <1>3, <2>5 DEF Final, Tell, Goto, Shape
  <2>6. CASE Complete
    BY <1>0, <1>3, <2>6 DEF Complete, Rest, Idle, Shape
  <2> QED
    BY <1>7, <2>1, <2>2, <2>3, <2>4, <2>5, <2>6 DEF DeliverStep
<1>8. CASE EndStep
  <2>1. CASE Succeeded
    BY <1>3, <2>1 DEF Succeeded, publishing
  <2>2. CASE Failed
    BY <1>3, <2>2 DEF Failed, Take, Idle
  <2>3. CASE Fail
    BY <1>0, <1>3, <2>3 DEF Fail, Goto, Shape
  <2>4. CASE TellFailed
    BY <1>0, <1>3, <2>4 DEF TellFailed, Tell, Rest, Idle, Shape
  <2> QED
    BY <1>8, <2>1, <2>2, <2>3, <2>4 DEF EndStep
<1>9. CASE RequestStep \/ Tick
  BY <1>3, <1>9 DEF RequestStep, Ask, Lease, Open, Tick, publishing
<1>10. CASE Reclaim
  BY <1>0, <1>3, <1>10 DEF Reclaim, Shape
<1> QED
  BY <1>1, <1>2, <1>4, <1>5, <1>6, <1>7, <1>8, <1>9, <1>10 DEF Next, ProgressStep

\* Edits go forward, at their interval, until an outcome is told (ProgressReporter.on_progress).
THEOREM EditsOnlyGoForward == Spec => EditsGoForward
<1>1. Init => EditInv
  BY DEF Init, EditInv, NoEdit, Idle
<1>2. ToldInv /\ EditInv /\ [Next]_vars =>
        [chat'.edit # chat.edit =>
           /\ chat.told = <<>> \/ (chat.raised /\ chat.told = <<"completed">>)
           /\ chat'.edit.seq > chat.edit.seq
           /\ \/ chat'.edit.phase # chat.edit.phase
              \/ chat'.edit.at - chat.edit.at >= Interval]_vars
  BY EditsKept DEF Doubt
<1>3. ToldInv /\ EditInv /\ [Next]_vars => EditInv'
  BY EditsKept
<1> QED
  BY <1>1, <1>2, <1>3, ToldStarts, ToldKept, PTL DEF Spec, EditsGoForward

------------------------------------------------------------------------------
(* Requests.                                                                *)

\* Select takes the bytes the header names; it refuses a header only if it is malformed, and
\* calls it unsatisfiable only if it names no byte.
LEMMA SelectIsRight ==
  ASSUME NEW r \in Ranges, NEW size \in Nat
  PROVE  LET s == Select(r, size) IN
           /\ s.status \in {200, 206} => s.from..s.upto = Wanted(r, size)
           /\ s.status = 416 => Wanted(r, size) = {}
           /\ s.status = 404 => ~WellFormed(r)
<1> DEFINE s == Select(r, size)
           W == Wanted(r, size)
<1>0. /\ r.kind \in {"whole", "unreadable", "open", "suffix", "span"}
      /\ r.first \in Nat /\ r.last \in Nat
  BY DeliveryAssumption
<1>e. size = 0 => W = {}
  BY DEF Wanted
<1>1. CASE r.kind = "whole"
  <2>1. s = [status |-> 200, from |-> 0, upto |-> size - 1]
    BY <1>1 DEF Select, Selected
  <2>2. W = 0..(size - 1)
    BY <1>1 DEF Wanted
  <2> QED
    BY <2>1, <2>2
<1>2. CASE r.kind = "unreadable"
  <2>1. s = [status |-> 404, from |-> 0, upto |-> Unknown]
    BY <1>2 DEF Select, NoBytes
  <2> QED
    BY <1>2, <2>1 DEF WellFormed
<1>3. CASE r.kind \notin {"whole", "unreadable"} /\ size = 0
  <2>1. s = [status |-> 416, from |-> 0, upto |-> Unknown]
    BY <1>0, <1>3 DEF Select, NoBytes
  <2> QED
    BY <1>e, <1>3, <2>1
<1>4. CASE r.kind = "suffix" /\ size # 0
  <2>1. s = IF r.last = 0 THEN [status |-> 404, from |-> 0, upto |-> Unknown]
            ELSE IF r.last < size THEN [status |-> 206, from |-> size - r.last, upto |-> size - 1]
                 ELSE [status |-> 206, from |-> 0, upto |-> size - 1]
    BY <1>0, <1>4 DEF Select, NoBytes, Selected, SuffixStart
  <2>2. W = {b \in 0..(size - 1) : b >= size - r.last}
    BY <1>4 DEF Wanted
  <2>3. r.last < size => (size - r.last)..(size - 1) = W
    BY <1>0, <1>4, <2>2
  <2>4. ~(r.last < size) => 0..(size - 1) = W
    BY <1>0, <1>4, <2>2
  <2>5. WellFormed(r) <=> r.last > 0
    BY <1>4 DEF WellFormed
  <2> QED
    BY <1>0, <2>1, <2>3, <2>4, <2>5
<1>5. CASE r.kind = "open" /\ size # 0
  <2>1. s = IF r.first >= size THEN [status |-> 416, from |-> 0, upto |-> Unknown]
            ELSE [status |-> 206, from |-> r.first, upto |-> size - 1]
    BY <1>0, <1>5 DEF Select, NoBytes, Selected
  <2>2. W = {b \in 0..(size - 1) : b >= r.first}
    BY <1>5 DEF Wanted
  <2>3. r.first >= size => W = {}
    BY <1>0, <2>2
  <2>4. r.first..(size - 1) = W
    BY <1>0, <2>2
  <2> QED
    BY <2>1, <2>3, <2>4
<1>6. CASE r.kind = "span" /\ size # 0
  <2>1. s = IF r.first >= size THEN [status |-> 416, from |-> 0, upto |-> Unknown]
            ELSE IF r.last < r.first THEN [status |-> 404, from |-> 0, upto |-> Unknown]
                 ELSE [status |-> 206, from |-> r.first, upto |-> Lower(r.last, size - 1)]
    BY <1>0, <1>6 DEF Select, NoBytes, Selected
  <2>2. W = {b \in 0..(size - 1) : b >= r.first /\ b <= r.last}
    BY <1>6 DEF Wanted
  <2>3. r.first >= size => W = {}
    BY <1>0, <2>2
  <2>4. r.first..Lower(r.last, size - 1) = W
    BY <1>0, <2>2 DEF Lower
  <2>5. WellFormed(r) <=> r.first <= r.last
    BY <1>6 DEF WellFormed
  <2> QED
    BY <1>0, <2>1, <2>3, <2>4, <2>5
<1> QED
  BY <1>0, <1>1, <1>2, <1>3, <1>4, <1>5, <1>6

\* Links expire before their artifact, and whoever asked asked for an artifact.
RequestInv ==
  /\ art.size \in Nat /\ art.status \in {"none", "available", "gone"}
  /\ art.status = "none" => art.expires = 0
  /\ chat.link <= art.expires /\ pump.link <= art.expires
  /\ req.pc # "idle" => art.status # "none" /\ req.range \in Ranges
  /\ ServedAsAsked

\* Requests change nothing else, and nothing but their own steps changes them.
LEMMA RequestsKept ==
  ToldInv /\ RequestInv /\ [Next]_vars =>
    RequestInv' /\ (Denied => LinkStopsWorking \/ ~NameFits(art.name))
<1> SUFFICES ASSUME ToldInv, RequestInv, [Next]_vars
             PROVE  RequestInv' /\ (Denied => LinkStopsWorking \/ ~NameFits(art.name))
  OBVIOUS
<1>0. Types /\ Types' /\ Shape /\ Shape'
  BY TypesKept DEF ToldInv, Types
<1>1. ASSUME NEW exp \in Links, NEW range \in Ranges, Ask(exp, range)
      PROVE  RequestInv' /\ (Denied => LinkStopsWorking \/ ~NameFits(art.name))
  <2>0. exp \in Links
    BY <1>1
  <2>1. /\ UNCHANGED <<art, chat, pump, clock>>
        /\ exp = chat.link /\ exp # 0
    BY <1>1 DEF Ask, publishing, Links, NoLink
  <2>2. /\ req'.range = range /\ req'.pc \in {"lease", "answered"}
        /\ req'.pc = "answered" => req'.status = 404 /\ ~LinkValid(exp)
    BY <1>1 DEF Ask, Answer, NoReq
  <2>3. art.status # "none"
    BY <1>0, <2>1 DEF RequestInv, Types
  <2>4. RequestInv'
    BY <2>1, <2>2, <2>3 DEF RequestInv, ServedAsAsked
  <2>5. ~LinkValid(exp) => LinkStopsWorking
    <3>1. ~LinkValid(exp) => \/ exp - clock > MaxTTL \/ clock >= exp
                             \/ art.status # "available"
      BY <1>0, <2>1, DeliveryAssumption DEF LinkValid, RequestInv, Types
    <3> QED
      BY <2>0, <2>3, <3>1 DEF LinkStopsWorking, RequestInv
  <2> QED
    BY <2>2, <2>4, <2>5 DEF Denied
<1>2. CASE Lease
  <2>1. /\ UNCHANGED <<art, chat, pump>> /\ req.pc = "lease"
        /\ \/ req' = [req EXCEPT !.pc = "open"]
           \/ /\ art.status # "available"
              /\ req' = [req EXCEPT !.pc = "answered", !.status = 404]
    BY <1>2 DEF Lease, Answer, publishing
  <2>2. CASE req' = [req EXCEPT !.pc = "open"]
    <3>1. req'.pc = "open" /\ req'.range = req.range
      BY <1>0, <2>2 DEF Shape
    <3> QED
      BY <2>1, <3>1 DEF RequestInv, ServedAsAsked, Denied
  <2>3. CASE /\ art.status # "available"
             /\ req' = [req EXCEPT !.pc = "answered", !.status = 404]
    <3>1. req'.status = 404 /\ req'.range = req.range
      BY <1>0, <2>3 DEF Shape
    <3> QED
      BY <2>1, <2>3, <3>1 DEF RequestInv, ServedAsAsked, LinkStopsWorking
  <2> QED
    BY <2>1, <2>2, <2>3
<1>3. CASE Open
  <2> DEFINE s == Select(req.range, art.size)
  <2>1. /\ req.pc = "open" /\ UNCHANGED <<art, chat, pump>>
        /\ req.range \in Ranges /\ art.size \in Nat /\ art.status # "none"
    BY <1>3 DEF Open, publishing, RequestInv
  <2>2. /\ s.status \in {200, 206} => s.from..s.upto = Wanted(req.range, art.size)
        /\ s.status = 416 => Wanted(req.range, art.size) = {}
        /\ s.status = 404 => ~WellFormed(req.range)
    BY <2>1, SelectIsRight
  <2>3. CASE art.status = "gone" \/ ~NameFits(art.name)
    <3>1. req' = [req EXCEPT !.pc = "answered", !.status = 404]
      BY <1>3, <2>3 DEF Open, Answer
    <3>2. req'.range = req.range /\ req'.status = 404
      BY <1>0, <3>1 DEF Shape
    <3> QED
      BY <2>1, <2>3, <3>2 DEF RequestInv, ServedAsAsked, LinkStopsWorking
  <2>4. CASE ~(art.status = "gone" \/ ~NameFits(art.name))
    <3>1. req' = [[req EXCEPT !.from = s.from, !.upto = s.upto]
                    EXCEPT !.pc = "answered", !.status = s.status]
      BY <1>3, <2>4 DEF Open, Answer
    <3> HIDE DEF s
    <3>2. /\ req'.range = req.range /\ req'.status = s.status
          /\ req'.from = s.from /\ req'.upto = s.upto
      BY <1>0, <3>1 DEF Shape
    <3>3. RequestInv'
      BY <2>1, <2>2, <3>2 DEF RequestInv, ServedAsAsked
    <3> QED
      BY <2>2, <3>2, <3>3 DEF Denied, LinkStopsWorking
  <2> QED
    BY <2>3, <2>4
<1>4. ASSUME UNCHANGED <<art.size, art.expires, req>>, chat'.link <= art.expires,
             pump'.link <= art.expires, art'.status \in {art.status, "gone"},
             art.status = "none" => art'.status = "none"
      PROVE  RequestInv' /\ ~Denied
  BY <1>4 DEF RequestInv, ServedAsAsked, Denied
<1>5. CASE UNCHANGED vars \/ Tick
  BY <1>4, <1>5 DEF vars, publishing, Tick, RequestInv
<1>6. CASE SubmitStep
  <2>1. UNCHANGED <<art, chat, req>> /\ (pump' = pump \/ pump' = [pump EXCEPT !.current = FALSE])
    BY <1>6 DEF SubmitStep, Submit, Acknowledge, Refuse, Cancel
  <2>2. pump'.link = pump.link
    BY <1>0, <2>1 DEF Shape
  <2> QED
    BY <1>4, <2>1, <2>2 DEF RequestInv
<1>7. CASE ProgressStep
  <2>1. UNCHANGED <<art, chat.link, req>>
    BY <1>0, <1>7 DEF ProgressStep, ProgressLine, Snapshot, Edit, SkipEdit, Shape
  <2>2. pump'.link \in {pump.link, 0}
    <3>1. ASSUME NEW seq, NEW r, ProgressLine(seq, r)
          PROVE  pump'.link \in {pump.link, 0}
      BY <3>1 DEF ProgressLine, Take, Idle, NoLink
    <3>2. CASE Snapshot
      BY <1>0, <3>2 DEF Snapshot, Goto, Shape
    <3>3. CASE Edit \/ SkipEdit
      BY <3>3 DEF Edit, SkipEdit, Rest, Idle, NoLink
    <3> QED
      BY <1>7, <3>1, <3>2, <3>3 DEF ProgressStep
  <2> QED
    BY <1>0, <1>4, <2>1, <2>2 DEF RequestInv, Types
<1>8. CASE EndStep
  <2>1. UNCHANGED <<art, chat.link, req>>
    BY <1>0, <1>8 DEF EndStep, Succeeded, Failed, Fail, TellFailed, Tell, publishing, Shape
  <2>2. pump'.link \in {pump.link, 0}
    <3>1. CASE Succeeded
      BY <3>1 DEF Succeeded, publishing
    <3>2. CASE Failed
      BY <3>2 DEF Failed, Take, Idle, NoLink
    <3>3. CASE Fail
      BY <1>0, <3>3 DEF Fail, Goto, Shape
    <3>4. CASE TellFailed
      BY <3>4 DEF TellFailed, Rest, Idle, NoLink
    <3> QED
      BY <1>8, <3>1, <3>2, <3>3, <3>4 DEF EndStep
  <2> QED
    BY <1>0, <1>4, <2>1, <2>2 DEF RequestInv, Types
<1>9. CASE Reclaim
  <2>1. /\ art.status = "available" /\ UNCHANGED <<chat, req>>
        /\ art' = [art EXCEPT !.status = "gone"]
        /\ pump' = pump \/ pump' = [pump EXCEPT !.current = FALSE]
    BY <1>9 DEF Reclaim
  <2>2. UNCHANGED <<art.size, art.expires, pump.link>> /\ art'.status = "gone"
    BY <1>0, <2>1 DEF Shape
  <2> QED
    BY <1>4, <2>1, <2>2 DEF RequestInv
<1>10. CASE DeliverStep
  <2>1. ASSUME NEW f \in Files, Publish(f)
        PROVE  RequestInv' /\ ~Denied
    <3>1. /\ art' = [status |-> "available", size |-> f.size, name |-> DisplayName(f.title),
                     expires |-> pump.at + Retention]
          /\ UNCHANGED <<chat, req>> /\ pump' = [pump EXCEPT !.pc = "deliver", !.current = TRUE]
          /\ art.status = "none"
      BY <2>1 DEF Publish, ToldInv
    <3>2. pump'.link = pump.link
      BY <1>0, <3>1 DEF Shape
    <3>3. /\ art'.size = f.size /\ art'.status = "available" /\ art'.expires = pump.at + Retention
          /\ f.size \in Nat
      BY <3>1, DeliveryAssumption
    <3>4. req.pc = "idle" /\ chat.link = 0 /\ pump.link = 0
      BY <1>0, <3>1 DEF RequestInv, Types
    <3> QED
      BY <1>0, <3>1, <3>2, <3>3, <3>4, DeliveryAssumption DEF RequestInv, ServedAsAsked, Denied, Types
  <2>2. CASE Issue
    <3>1. UNCHANGED <<art, chat, req>> /\ pump' = [pump EXCEPT !.pc = "final", !.link = LinkExpiry]
      BY <2>2 DEF Issue
    <3>2. pump'.link = LinkExpiry
      BY <1>0, <3>1 DEF Shape
    <3>3. LinkExpiry <= art.expires
      BY <1>0, DeliveryAssumption DEF LinkExpiry, Lower, Types
    <3> QED
      BY <1>4, <3>1, <3>2, <3>3 DEF RequestInv
  <2>3. CASE Final
    <3>1. UNCHANGED <<art, req>> /\ chat'.link \in {chat.link, pump.link}
      BY <1>0, <2>3 DEF Final, Tell, Shape
    <3>2. pump'.link = pump.link
      BY <1>0, <2>3 DEF Final, Goto, Shape
    <3> QED
      BY <1>4, <3>1, <3>2 DEF RequestInv
  <2>4. CASE \/ Candidate \/ PublishFails \/ Upload \/ UploadDeferred \/ UploadFails \/ PlanLink
             \/ Reload \/ Complete
    <3>1. UNCHANGED <<art, chat.link, req>>
      BY <1>0, <2>4 DEF Candidate, PublishFails, Upload, UploadDeferred, UploadFails, PlanLink,
         Reload, Complete, GotFile, Shape
    <3>2. pump'.link \in {pump.link, 0}
      <4>1. CASE Candidate
        BY <4>1 DEF Candidate, Take, Idle, NoLink
      <4>2. CASE PublishFails \/ Complete
        BY <4>2 DEF PublishFails, Complete, Rest, Idle, NoLink
      <4>3. CASE Upload \/ UploadDeferred \/ UploadFails \/ PlanLink \/ Reload
        BY <1>0, <4>3 DEF Upload, UploadDeferred, UploadFails, PlanLink, Reload, Goto, Shape
      <4> QED
        BY <2>4, <4>1, <4>2, <4>3
    <3> QED
      BY <1>0, <1>4, <3>1, <3>2 DEF RequestInv, Types
  <2>5. CASE FinalFails
    <3>1. UNCHANGED <<art, req>> /\ pump'.link = 0 /\ FinalRaised
      BY <2>5 DEF FinalFails, Rest, Idle, NoLink
    <3>2. chat'.link \in {chat.link, pump.link}
      BY <1>0, <3>1 DEF FinalRaised, Shape
    <3> QED
      BY <1>0, <1>4, <3>1, <3>2 DEF RequestInv, Types
  <2> QED
    BY <1>10, <2>1, <2>2, <2>3, <2>4, <2>5 DEF DeliverStep
<1> QED
  BY <1>1, <1>2, <1>3, <1>5, <1>6, <1>7, <1>8, <1>9, <1>10 DEF Next, RequestStep

\* Nobody has asked at first.
LEMMA RequestsStart == Init => RequestInv
BY DEF Init, RequestInv, ServedAsAsked, Idle, NoReq, NoLink

\* What is sent is exactly what the request names of the file (parse_single_range,
\* DownloadService.handle).
THEOREM RequestsGetWhatTheyAskFor == Spec => []ServedAsAsked
<1>1. RequestInv => ServedAsAsked
  BY DEF RequestInv
<1> QED
  BY <1>1, ToldStarts, ToldKept, RequestsStart, RequestsKept, PTL DEF Spec

\* A link to a file with a name content_disposition accepts works until it expires, the artifact
\* is reclaimed, or the request is malformed, unless its lifetime is over the hard maximum
\* (HmacTokenSigner.verify_request, DownloadService.handle).
THEOREM LinksWork == Spec => ShortNamesAreServed
<1>1. ToldInv /\ RequestInv /\ [Next]_vars =>
        [Denied => LinkStopsWorking \/ ~NameFits(art.name)]_vars
  BY RequestsKept
<1>2. ToldInv /\ RequestInv /\ [Next]_vars => RequestInv'
  BY RequestsKept
<1> QED
  BY <1>1, <1>2, ToldStarts, ToldKept, RequestsStart, PTL DEF Spec, ShortNamesAreServed
================================================================================
