---------------------------- MODULE DownloadProofs ----------------------------
(***************************************************************************)
(* Theorems about Download, for any sources, redirects, failures and runs  *)
(* of the login tool.                                                      *)
(***************************************************************************)
EXTENDS CommandsProofs

(* The cookie file.                                                         *)

LoginSteps == {"idle", "confirm", "page", "reopen", "export", "check", "replace"}

LoginTypes ==
  /\ login \in [pc : LoginSteps, browser : BOOLEAN, temporary : BOOLEAN,
                signed : BOOLEAN, runs : Nat, saved : Nat]
  /\ file \in [gen : Nat, signed : BOOLEAN]

\* Cookies without a sign-in never reach the temporary file.
CookieInv ==
  /\ LoginTypes
  /\ login.pc = "replace" => login.signed
  /\ CookieFileIsOperators

\* Only the login tool writes the file: a worker that closes its jar leaves it alone.
LEMMA OthersSpareTheFile ==
  ASSUME Next, ~LoginStep
  PROVE  UNCHANGED <<file, login>>
<1>1. CASE \E meant \in Intents, platform \in PlatformIds, more \in BOOLEAN :
             Receive(meant, platform, more)
  BY <1>1 DEF Receive
<1>2. CASE CheckStep
  BY <1>2 DEF CheckStep, ResolveFirst, ResolveHop, FallBack, Allow, Redirect, Deny,
              RaiseUnresolved, Accept, Answer
<1>3. CASE WorkerStep
  BY <1>3 DEF WorkerStep, Spawn, Fetch, AttemptFails, AttemptEnds, AfterClose, Validate,
              OpenSession, Choose, ProbeFails, Offer, Succeed, Exit, Kill
<1>4. CASE Take \/ Reap
  BY <1>4 DEF Take, Reap
<1> QED
  BY <1>1, <1>2, <1>3, <1>4 DEF Next

\* However a run of the login tool ends, the file is the old one or the new one.
LEMMA LoginKeeps ==
  ASSUME CookieInv, LoginStep
  PROVE  CookieInv'
<1> USE DEF CookieInv, LoginTypes, LoginSteps, CookieFileIsOperators, Tool, Rest
<1>1. CASE \E native \in BOOLEAN : LogIn(native)
  <2>1. PICK native \in BOOLEAN : LogIn(native)
    BY <1>1
  <2>2. PICK n \in Nat : n = login.runs + 1
    OBVIOUS
  <2>3. login' = [login EXCEPT !.pc = IF native THEN "confirm" ELSE "page",
                               !.browser = TRUE, !.runs = n]
    BY <2>1, <2>2 DEF LogIn
  <2>4. /\ login' \in [pc : LoginSteps, browser : BOOLEAN, temporary : BOOLEAN,
                       signed : BOOLEAN, runs : Nat, saved : Nat]
        /\ login'.pc \in {"confirm", "page"} /\ login'.saved = login.saved
    BY <2>3
  <2> QED
    BY <2>1, <2>4 DEF LogIn
<1>2. CASE Confirm
  BY <1>2 DEF Confirm
<1>3. CASE Reopen
  BY <1>3 DEF Reopen
<1>4. CASE \E signed \in BOOLEAN : Export(signed)
  BY <1>4 DEF Export
<1>5. CASE WriteTemporary
  BY <1>5 DEF WriteTemporary
<1>6. CASE Replace
  <2>1. PICK n \in Nat : n = login.saved + 1
    OBVIOUS
  <2>0. login.signed = TRUE /\ login.saved + 2 = n + 1
    BY <1>6, <2>1 DEF Replace
  <2>2. /\ login' = [login EXCEPT !.pc = "idle", !.browser = FALSE, !.temporary = FALSE,
                                 !.saved = n]
        /\ file' = [gen |-> n + 1, signed |-> TRUE]
    <3>1. login' = [Rest EXCEPT !.saved = Rest.saved + 1]
      BY <1>6 DEF Replace
    <3>2. Rest.saved = login.saved
      OBVIOUS
    <3>3. file' = [gen |-> login.saved + 2, signed |-> login.signed]
      BY <1>6 DEF Replace
    <3> QED
      BY <2>0, <2>1, <3>1, <3>2, <3>3
  <2>3. /\ login' \in [pc : LoginSteps, browser : BOOLEAN, temporary : BOOLEAN,
                       signed : BOOLEAN, runs : Nat, saved : Nat]
        /\ login'.pc = "idle" /\ login'.saved = n /\ ~login'.browser /\ ~login'.temporary
    BY <2>2
  <2> QED
    BY <2>2, <2>3
<1>7. CASE GiveUp
  BY <1>7 DEF GiveUp
<1> HIDE DEF CookieInv
<1> QED
  BY <1>1, <1>2, <1>3, <1>4, <1>5, <1>6, <1>7 DEF LoginStep

\* The file the operator already has, and no login under way.
LEMMA InitCookie ==
  ASSUME Init
  PROVE  CookieInv
<1>1. login \in [pc : LoginSteps, browser : BOOLEAN, temporary : BOOLEAN,
                 signed : BOOLEAN, runs : Nat, saved : Nat]
  BY DEF Init, LoginSteps
<1>2. file = [gen |-> 0, signed |-> FALSE] \/ file = [gen |-> 1, signed |-> TRUE]
  BY DEF Init
<1>3. login.pc = "idle" /\ login.saved = 0 /\ ~login.browser /\ ~login.temporary
  BY DEF Init
<1>4. file \in [gen : Nat, signed : BOOLEAN] /\ (file.gen > 0 => file.signed)
  <2>1. CASE file = [gen |-> 0, signed |-> FALSE]
    BY <2>1
  <2>2. CASE file = [gen |-> 1, signed |-> TRUE]
    BY <2>2
  <2> QED
    BY <1>2, <2>1, <2>2
<1> QED
  BY <1>1, <1>3, <1>4 DEF CookieInv, LoginTypes, CookieFileIsOperators

\* What workers use is a whole file the operator saved, and no run of the login tool leaves
\* anything behind (_extract_info, atomic_write_cookie_file, run_login).
THEOREM CookiesStayTheOperators == Spec => []CookieFileIsOperators
<1>1. Init => CookieInv
  BY InitCookie
<1>2. CookieInv /\ [Next]_vars => CookieInv'
  <2> SUFFICES ASSUME CookieInv, [Next]_vars
               PROVE  CookieInv'
    OBVIOUS
  <2>1. CASE UNCHANGED <<file, login>>
    BY <2>1 DEF CookieInv, LoginTypes, CookieFileIsOperators
  <2>2. CASE LoginStep
    BY <2>2, LoginKeeps
  <2>3. CASE Next /\ ~LoginStep
    BY <2>1, <2>3, OthersSpareTheFile
  <2> QED
    BY <2>1, <2>2, <2>3 DEF vars
<1>3. CookieInv => CookieFileIsOperators
  BY DEF CookieInv
<1> QED
  BY <1>1, <1>2, <1>3, PTL DEF Spec

------------------------------------------------------------------------------
(* The check of the URL.                                                    *)

Trails == Seq({"public", "asked"} \X Readable)

\* Where a URL was asked that was not asked just before (HEAD, then GET).
HopSet(t) ==
  {i \in DOMAIN t : t[i][1] = "asked" /\ ~(i - 1 \in DOMAIN t /\ t[i - 1] = t[i])}

HopsPublic(t) ==
  \A i \in HopSet(t) : i - 1 \in DOMAIN t /\ t[i - 1] = <<"public", t[i][2]>>

\* How many hops there are when there were this many redirects.
HopCount(c) == c.redirects + (IF c.step \in {"get", "final", "accepted"} THEN 1 ELSE 0)

CheckTypes ==
  /\ command = [meant |-> command.meant, platform |-> command.platform, more |-> command.more,
                read |-> command.read, answer |-> command.answer]
  /\ check = [step |-> check.step, url |-> check.url, redirects |-> check.redirects,
              trail |-> check.trail]
  /\ check.step \in {"none", "first", "hop", "ask", "get", "final", "accepted"}
  /\ check.redirects \in 0..MaxRedirects
  /\ check.trail \in Trails

\* What the last entries of the trail are at each step.
TrailAgrees ==
  LET t == check.trail IN
  /\ check.step \in {"none", "first"} => t = <<>> /\ check.redirects = 0
  /\ check.step = "ask" => Len(t) > 0 /\ t[Len(t)] = <<"public", check.url>>
  /\ check.step \in {"get", "final"} => Len(t) > 0 /\ t[Len(t)] = <<"asked", check.url>>
  /\ check.step = "accepted" => /\ Len(t) > 1 /\ t[Len(t)] = <<"public", check.url>>
                                /\ t[Len(t) - 1] = <<"asked", check.url>>
  /\ check.step \in {"ask", "get", "final", "accepted"} => check.url \in Readable

CheckInv ==
  /\ CheckTypes /\ TrailAgrees
  /\ command.meant = Rejected => check = NoCheck
  /\ HopsPublic(check.trail)
  /\ IsFiniteSet(HopSet(check.trail))
  /\ Cardinality(HopSet(check.trail)) = HopCount(check)

\* A name that is found public makes no hop.
LEMMA AppendPublic ==
  ASSUME NEW t \in Trails, NEW u \in Readable
  PROVE  LET n == Append(t, <<"public", u>>) IN
         /\ n \in Trails /\ HopSet(n) = HopSet(t)
         /\ HopsPublic(t) => HopsPublic(n)
         /\ Len(n) = Len(t) + 1 /\ n[Len(n)] = <<"public", u>>
         /\ Len(t) > 0 => n[Len(n) - 1] = t[Len(t)]
<1> DEFINE n == Append(t, <<"public", u>>)
<1>1. /\ n \in Trails /\ Len(n) = Len(t) + 1 /\ n[Len(n)] = <<"public", u>>
      /\ \A i \in 1..Len(t) : n[i] = t[i]
      /\ DOMAIN n = 1..(Len(t) + 1) /\ DOMAIN t = 1..Len(t) /\ Len(t) \in Nat
  BY DEF Trails
<1> HIDE DEF n
<1>2. HopSet(n) = HopSet(t)
  BY <1>1 DEF HopSet
<1>3. HopsPublic(t) => HopsPublic(n)
  <2> SUFFICES ASSUME HopsPublic(t), NEW i \in HopSet(t)
               PROVE  i - 1 \in DOMAIN n /\ n[i - 1] = <<"public", n[i][2]>>
    BY <1>2 DEF HopsPublic
  <2>1. i \in 1..Len(t) /\ i - 1 \in 1..Len(t) /\ t[i - 1] = <<"public", t[i][2]>>
    BY <1>1 DEF HopsPublic, HopSet
  <2> QED
    BY <1>1, <2>1
<1>4. Len(t) > 0 => n[Len(n) - 1] = t[Len(t)]
  BY <1>1
<1> QED
  BY <1>1, <1>2, <1>3, <1>4 DEF n

\* Asking what was just found public makes one hop more.
LEMMA AppendAsked ==
  ASSUME NEW t \in Trails, NEW u \in Readable, Len(t) > 0, t[Len(t)] = <<"public", u>>
  PROVE  LET n == Append(t, <<"asked", u>>) IN
         /\ n \in Trails
         /\ HopSet(n) = HopSet(t) \cup {Len(t) + 1} /\ Len(t) + 1 \notin HopSet(t)
         /\ HopsPublic(t) => HopsPublic(n)
         /\ Len(n) = Len(t) + 1 /\ n[Len(n)] = <<"asked", u>>
  BY DEF Trails, HopSet, HopsPublic

\* Asking again does not.
LEMMA AppendAskedAgain ==
  ASSUME NEW t \in Trails, NEW u \in Readable, Len(t) > 0, t[Len(t)] = <<"asked", u>>
  PROVE  LET n == Append(t, <<"asked", u>>) IN
         /\ n \in Trails /\ HopSet(n) = HopSet(t)
         /\ HopsPublic(t) => HopsPublic(n)
         /\ Len(n) = Len(t) + 1 /\ n[Len(n)] = <<"asked", u>>
  BY DEF Trails, HopSet, HopsPublic

\* The steps that leave the trail alone.
LEMMA QuietCheck ==
  ASSUME CheckInv, check' = NoCheck, command'.meant # Rejected,
         \/ command' = command
         \/ \E answer : command' = [command EXCEPT !.answer = answer]
  PROVE  CheckInv'
<1>1. check' = [step |-> "none", url |-> Link, redirects |-> 0, trail |-> <<>>]
  BY DEF NoCheck
<1>2. HopSet(<<>>) = {}
  BY DEF HopSet
<1>3. IsFiniteSet({}) /\ Cardinality({}) = 0
  BY FS_EmptySet
<1>4. command' = [meant |-> command'.meant, platform |-> command'.platform,
                  more |-> command'.more, read |-> command'.read, answer |-> command'.answer]
  BY DEF CheckInv, CheckTypes
<1>7. CheckTypes' /\ TrailAgrees'
  BY <1>1, <1>4, DownloadAssumption DEF CheckTypes, TrailAgrees, Trails
<1>5. check'.trail = <<>> /\ HopCount(check') = 0
  BY <1>1 DEF HopCount
<1>6. HopsPublic(check'.trail)
  BY <1>2, <1>5 DEF HopsPublic
<1> QED
  BY <1>2, <1>3, <1>5, <1>6, <1>7 DEF CheckInv

\* From HEAD or GET on: the URL is asked.
LEMMA AskedOnce ==
  ASSUME CheckInv, check.step \in {"ask", "get"}
  PROVE  LET t == check.trail n == Append(t, <<"asked", check.url>>) IN
         /\ n \in Trails /\ HopsPublic(n) /\ IsFiniteSet(HopSet(n))
         /\ Cardinality(HopSet(n)) = check.redirects + 1
         /\ Len(n) > 0 /\ n[Len(n)] = <<"asked", check.url>>
<1> DEFINE t == check.trail
           n == Append(t, <<"asked", check.url>>)
<1>1. /\ t \in Trails /\ check.url \in Readable /\ Len(t) > 0 /\ HopsPublic(t)
      /\ check.redirects \in Nat /\ IsFiniteSet(HopSet(t)) /\ Len(t) \in Nat
  BY DEF CheckInv, CheckTypes, TrailAgrees, Trails
<1>2. CASE check.step = "ask"
  <2>1. t[Len(t)] = <<"public", check.url>>
    BY <1>2 DEF CheckInv, TrailAgrees
  <2>2. /\ n \in Trails /\ HopSet(n) = HopSet(t) \cup {Len(t) + 1}
        /\ Len(t) + 1 \notin HopSet(t) /\ HopsPublic(n)
        /\ Len(n) = Len(t) + 1 /\ n[Len(n)] = <<"asked", check.url>>
    BY <1>1, <2>1, AppendAsked
  <2>3. Cardinality(HopSet(t)) = check.redirects
    BY <1>1, <1>2 DEF CheckInv, HopCount
  <2>4. /\ IsFiniteSet(HopSet(n))
        /\ Cardinality(HopSet(n)) = check.redirects + 1
    BY <1>1, <2>2, <2>3, FS_AddElement
  <2> QED
    BY <1>1, <2>2, <2>4
<1>3. CASE check.step = "get"
  <2>1. t[Len(t)] = <<"asked", check.url>>
    BY <1>3 DEF CheckInv, TrailAgrees
  <2>2. /\ n \in Trails /\ HopSet(n) = HopSet(t) /\ HopsPublic(n)
        /\ Len(n) = Len(t) + 1 /\ n[Len(n)] = <<"asked", check.url>>
    BY <1>1, <2>1, AppendAskedAgain
  <2>3. Cardinality(HopSet(t)) = check.redirects + 1
    BY <1>1, <1>3 DEF CheckInv, HopCount
  <2> QED
    BY <1>1, <2>2, <2>3
<1> QED
  BY <1>2, <1>3

\* Each step of validate and preflight appends what it did, and moves on.
LEMMA CheckStepKeeps ==
  ASSUME CheckInv, CheckStep
  PROVE  CheckInv'
<1> DEFINE t == check.trail
           r == check.redirects
<1>0. /\ command = [meant |-> command.meant, platform |-> command.platform,
                   more |-> command.more, read |-> command.read, answer |-> command.answer]
      /\ check = [step |-> check.step, url |-> check.url, redirects |-> r, trail |-> t]
      /\ r \in 0..MaxRedirects /\ t \in Trails /\ HopsPublic(t) /\ Len(t) \in Nat
      /\ MaxRedirects \in Nat
      /\ IsFiniteSet(HopSet(t)) /\ Cardinality(HopSet(t)) = HopCount(check)
  BY DownloadAssumption DEF CheckInv, CheckTypes, Trails
<1>a. check.step # "none" => command.meant # Rejected
  BY DEF CheckInv, NoCheck
<1>1. CASE ResolveFirst \/ ResolveHop
  <2> DEFINE n == Append(t, <<"public", check.url>>)
             next == IF check.step = "first" THEN "hop" ELSE "ask"
  <2>1. /\ check.step \in {"first", "hop"} /\ check.url \in Readable
        /\ check' = [step |-> next, url |-> check.url, redirects |-> r, trail |-> n]
        /\ command' = command
    BY <1>0, <1>1 DEF ResolveFirst, ResolveHop, LookUp
  <2>2. /\ n \in Trails /\ HopSet(n) = HopSet(t) /\ HopsPublic(n)
        /\ Len(n) = Len(t) + 1 /\ n[Len(n)] = <<"public", check.url>>
    BY <1>0, <2>1, AppendPublic
  <2>3. HopCount(check') = HopCount(check)
    BY <2>1 DEF HopCount
  <2> HIDE DEF n, t, r
  <2>4. check'.trail = n
    BY <2>1
  <2>5. CheckTypes' /\ TrailAgrees'
    BY <1>0, <2>1, <2>2 DEF CheckTypes, TrailAgrees
  <2> QED
    BY <1>0, <1>a, <2>1, <2>2, <2>3, <2>4, <2>5 DEF CheckInv
<1>2. CASE FallBack \/ Allow \/ \E u \in Urls : Redirect(u)
  <2> DEFINE n == Append(t, <<"asked", check.url>>)
  <2>1. check.step \in {"ask", "get"} /\ command' = command /\ check.url \in Readable
    BY <1>2 DEF FallBack, Allow, Redirect, CheckInv, TrailAgrees
  <2>2. /\ n \in Trails /\ HopsPublic(n) /\ IsFiniteSet(HopSet(n))
        /\ Cardinality(HopSet(n)) = r + 1
        /\ Len(n) > 0 /\ n[Len(n)] = <<"asked", check.url>>
    BY <2>1, AskedOnce
  <2>3. PICK next \in {"get", "final"} :
          \/ check' = [step |-> next, url |-> check.url, redirects |-> r, trail |-> n]
          \/ \E u \in Urls : /\ r < MaxRedirects
                             /\ check' = [step |-> "hop", url |-> u, redirects |-> r + 1,
                                          trail |-> n]
    BY <1>0, <1>2 DEF FallBack, Allow, Redirect, Asked, AfterRedirect
  <2> HIDE DEF n, t, r
  <2>4. check'.trail = n
    BY <2>3
  <2>5. HopCount(check') = r + 1
    BY <1>0, <2>3 DEF HopCount
  <2>6. CheckTypes' /\ TrailAgrees'
    BY <1>0, <2>1, <2>2, <2>3 DEF CheckTypes, TrailAgrees
  <2> QED
    BY <1>0, <1>a, <2>1, <2>2, <2>4, <2>5, <2>6 DEF CheckInv
<1>3. CASE Deny \/ RaiseUnresolved
  <2>1. PICK answer : /\ check' = NoCheck /\ check.step # "none"
                      /\ command' = [command EXCEPT !.answer = answer]
    BY <1>3 DEF Deny, RaiseUnresolved, Answer
  <2>2. command'.meant = command.meant
    BY <2>1 DEF CheckInv, CheckTypes
  <2> QED
    BY <1>a, <2>1, <2>2, QuietCheck
<1>4. CASE Accept
  <2> DEFINE n == Append(t, <<"public", check.url>>)
  <2>1. /\ check.step = "final" /\ check.url \in Readable
        /\ check' = [step |-> "accepted", url |-> check.url, redirects |-> r, trail |-> n]
        /\ command' = [command EXCEPT !.answer = "accepted"]
    BY <1>0, <1>4 DEF Accept, Answer, LookUp
  <2>a. /\ command'.meant = command.meant
        /\ command' = [meant |-> command'.meant, platform |-> command'.platform,
                       more |-> command'.more, read |-> command'.read,
                       answer |-> command'.answer]
    BY <2>1 DEF CheckInv, CheckTypes
  <2>2. Len(t) > 0 /\ t[Len(t)] = <<"asked", check.url>>
    BY <2>1 DEF CheckInv, TrailAgrees
  <2>3. /\ n \in Trails /\ HopSet(n) = HopSet(t) /\ HopsPublic(n)
        /\ Len(n) = Len(t) + 1 /\ n[Len(n)] = <<"public", check.url>>
        /\ n[Len(n) - 1] = <<"asked", check.url>>
    BY <1>0, <2>1, <2>2, AppendPublic
  <2>4. HopCount(check') = HopCount(check)
    BY <2>1 DEF HopCount
  <2> HIDE DEF n, t, r
  <2>5. check'.trail = n
    BY <2>1
  <2>6. CheckTypes' /\ TrailAgrees'
    BY <1>0, <2>a, <2>1, <2>2, <2>3 DEF CheckTypes, TrailAgrees
  <2> QED
    BY <1>0, <1>a, <2>a, <2>1, <2>3, <2>4, <2>5, <2>6 DEF CheckInv
<1> QED
  BY <1>1, <1>2, <1>3, <1>4 DEF CheckStep

\* A command starts a check, a worker forgets it, and everyone else leaves it alone.
LEMMA OthersKeepCheck ==
  ASSUME CheckInv, Next, ~CheckStep
  PROVE  CheckInv'
<1>1. CASE \E meant \in Intents, platform \in PlatformIds, more \in BOOLEAN :
             Receive(meant, platform, more)
  <2>1. PICK meant \in Intents, platform \in PlatformIds, more \in BOOLEAN :
          Receive(meant, platform, more)
    BY <1>1
  <2>2. /\ command.meant = Rejected /\ command'.meant # Rejected
        /\ command' = [meant |-> command'.meant, platform |-> command'.platform,
                       more |-> command'.more, read |-> command'.read,
                       answer |-> command'.answer]
    BY <2>1, DownloadAssumption DEF Receive
  <2>3. /\ check = [step |-> "none", url |-> Link, redirects |-> 0, trail |-> <<>>]
        /\ HopCount(check) = 0
    BY <2>2 DEF CheckInv, NoCheck, HopCount
  <2>4. CASE check' = check
    BY <2>2, <2>4 DEF CheckInv, CheckTypes, TrailAgrees, HopCount
  <2>5. CASE check' # check
    <3>1. PICK u : check' = [step |-> "first", url |-> u, redirects |-> 0, trail |-> <<>>]
      BY <2>1, <2>3, <2>5 DEF Receive
    <3>2. check'.trail = check.trail /\ HopCount(check') = HopCount(check)
      BY <2>3, <3>1 DEF HopCount
    <3>3. CheckTypes' /\ TrailAgrees'
      BY <2>2, <3>1, DownloadAssumption DEF CheckTypes, TrailAgrees, Trails
    <3> QED
      BY <2>2, <3>2, <3>3 DEF CheckInv
  <2> QED
    BY <2>4, <2>5
<1>2. CASE Spawn
  <2>1. check' = NoCheck /\ command' = command
    BY <1>2 DEF Spawn
  <2>2. CASE command.meant = Rejected
    BY <2>1, <2>2 DEF CheckInv, CheckTypes, TrailAgrees, HopCount
  <2> QED
    BY <2>1, <2>2, QuietCheck
<1>3. CASE UNCHANGED <<command, check>>
  BY <1>3 DEF CheckInv, CheckTypes, TrailAgrees, HopCount
<1>4. WorkerStep => Spawn \/ UNCHANGED <<command, check>>
  BY DEF WorkerStep, Fetch, AttemptFails, Validate, OpenSession, Choose, ProbeFails, Offer,
         Succeed, Exit, Kill
<1>5. Take \/ Reap \/ LoginStep => UNCHANGED <<command, check>>
  BY DEF Take, Reap, LoginStep, LogIn, Confirm, Reopen, Export, WriteTemporary, Replace,
         GiveUp, Tool
<1> QED
  BY <1>1, <1>2, <1>3, <1>4, <1>5 DEF Next

\* Whatever the sites answer, a name is looked up before each request, the last one once
\* more, and there are MaxRedirects redirects at most (UrlSafetyService.validate,
\* AiohttpPreflightClient.preflight).
THEOREM HopsAreLookedUp == Spec => []HopsAreChecked
<1>1. Init => CheckInv
  <2> SUFFICES ASSUME Init
               PROVE  CheckInv
    OBVIOUS
  <2>1. check = [step |-> "none", url |-> Link, redirects |-> 0, trail |-> <<>>]
        /\ check = NoCheck
    BY DEF Init, NoCheck
  <2>2. HopSet(<<>>) = {} /\ HopsPublic(<<>>)
    BY DEF HopSet, HopsPublic
  <2>3. IsFiniteSet({}) /\ Cardinality({}) = 0
    BY FS_EmptySet
  <2>5. command = [meant |-> command.meant, platform |-> command.platform,
                   more |-> command.more, read |-> command.read, answer |-> command.answer]
    BY DEF Init
  <2>4. CheckTypes /\ TrailAgrees /\ HopCount(check) = 0 /\ check.trail = <<>>
    BY <2>1, <2>5, DownloadAssumption DEF CheckTypes, TrailAgrees, Trails, HopCount
  <2> QED
    BY <2>1, <2>2, <2>3, <2>4 DEF CheckInv
<1>2. CheckInv /\ [Next]_vars => CheckInv'
  <2> SUFFICES ASSUME CheckInv, [Next]_vars
               PROVE  CheckInv'
    OBVIOUS
  <2>1. CASE UNCHANGED vars
    BY <2>1 DEF vars, CheckInv, CheckTypes, TrailAgrees, HopCount
  <2> QED
    BY <2>1, CheckStepKeeps, OthersKeepCheck
<1>3. CheckInv => HopsAreChecked
  <2> SUFFICES ASSUME CheckInv
               PROVE  HopsAreChecked
    OBVIOUS
  <2> DEFINE t == check.trail
             Hops == {i \in DOMAIN t :
                        t[i][1] = "asked" /\ ~(i - 1 \in DOMAIN t /\ t[i - 1] = t[i])}
  <2>1. Hops = HopSet(t)
    BY DEF HopSet
  <2>2. \A i \in Hops : /\ i - 1 \in DOMAIN t /\ t[i - 1] = <<"public", t[i][2]>>
                        /\ t[i - 1] = <<"public", t[i - 1][2]>> /\ t[i - 1][2] = t[i][2]
    BY <2>1 DEF CheckInv, HopsPublic
  <2> HIDE DEF Hops
  <2>3. check.step = "accepted" =>
          /\ Len(t) > 1 /\ t[Len(t)] = <<"public", check.url>>
          /\ t[Len(t) - 1] = <<"asked", check.url>>
          /\ Cardinality(Hops) <= MaxRedirects + 1
    <3>1. check.step = "accepted" => Cardinality(Hops) = check.redirects + 1
      BY <2>1 DEF CheckInv, HopCount
    <3>2. check.redirects \in 0..MaxRedirects
      BY DEF CheckInv, CheckTypes
    <3> QED
      BY <3>1, <3>2, DownloadAssumption DEF CheckInv, TrailAgrees
  <2> QED
    BY <2>2, <2>3 DEF HopsAreChecked, Hops
<1> QED
  BY <1>1, <1>2, <1>3, PTL DEF Spec

------------------------------------------------------------------------------
(* The operator's session.                                                  *)

Early == {"none", "download", "validate", "session", "probe"}

Codes == {"none", "AUTHENTICATION_REQUIRED", "DRM_UNSUPPORTED", "NO_MATCHING_FORMAT",
          "UNSUPPORTED_SOURCE", "DOWNLOAD_FAILED", "INTERNAL_ERROR"}
Attempts == [cookies : BOOLEAN, code : Codes]

WorkerTypes ==
  /\ worker = [pc |-> worker.pc, jar |-> worker.jar, left |-> worker.left,
               files |-> worker.files, out |-> worker.out, rc |-> worker.rc]
  /\ worker.pc \in Early \cup {"offered", "exit", "ended"}
  /\ worker.jar \in Nat /\ worker.rc \in Int
  /\ worker.left \in Seq(EntryType)
  /\ attempts \in Seq(Attempts)
  /\ source \in Sources

Given(e) == \E i \in DOMAIN source.entries : e = source.entries[i]

\* Nobody else touches the worker, its attempts or its source.
LEMMA OthersSpareTheWorker ==
  ASSUME Next, ~WorkerStep
  PROVE  UNCHANGED <<worker, attempts, source>>
<1>1. CASE \E meant \in Intents, platform \in PlatformIds, more \in BOOLEAN :
             Receive(meant, platform, more)
  BY <1>1 DEF Receive, working
<1>2. CASE CheckStep
  BY <1>2 DEF CheckStep, ResolveFirst, ResolveHop, FallBack, Allow, Redirect, Deny,
              RaiseUnresolved, Accept, Answer, working
<1>3. CASE LoginStep
  BY <1>3 DEF LoginStep, LogIn, Confirm, Reopen, Export, WriteTemporary, Replace, GiveUp,
              Tool, working
<1>4. CASE Take \/ Reap
  BY <1>4 DEF Take, Reap
<1> QED
  BY <1>1, <1>2, <1>3, <1>4 DEF Next

\* What a worker has before it is what its source has.
LEMMA EntriesAreGiven ==
  ASSUME source \in Sources
  PROVE  /\ Entries \in Seq(EntryType)
         /\ \A i \in DOMAIN Entries : Given(Entries[i])
<1>1. source.entries \in Seq(EntryType) /\ (source.watch => source.entries # <<>>)
  BY SourcesAssumption
<1>2. CASE Entries = source.entries
  BY <1>1, <1>2 DEF Given
<1>3. CASE Entries # source.entries
  <2> DEFINE e == source.entries
  <2>1. Entries = SubSeq(e, 1, 1) /\ e # <<>>
    BY <1>1, <1>3 DEF Entries
  <2>2. SubSeq(e, 1, 1) \in Seq(EntryType) /\ DOMAIN SubSeq(e, 1, 1) = 1..1
        /\ SubSeq(e, 1, 1)[1] = e[1] /\ 1 \in DOMAIN e
    BY <1>1, <2>1
  <2> QED
    BY <2>1, <2>2 DEF Given
<1> QED
  BY <1>2, <1>3

\* What an attempt may end with.
LEMMA CodesOfErrors ==
  ASSUME NEW e, NEW code \in Errors(e)
  PROVE  code \in Codes
<1>1. \A says : Classify(says) \in Codes
  <2> TAKE says
  <2>1. CASE says \cap SignIn # {}
    BY <2>1 DEF Classify, Codes
  <2>2. CASE says \cap SignIn = {}
    BY <2>2 DEF Classify, Codes
  <2> QED
    BY <2>1, <2>2
<1>2. code = "INTERNAL_ERROR" \/ \E says : code = Classify(says)
  BY DEF Errors
<1> QED
  BY <1>1, <1>2 DEF Codes

\* A step of the worker to another place.
LEMMA Moves ==
  ASSUME WorkerTypes, attempts' \in Seq(Attempts), source' = source,
         NEW pc \in Early \cup {"offered", "exit", "ended"}, NEW rc \in Int, NEW out,
         worker' = [worker EXCEPT !.pc = pc, !.out = out, !.rc = rc]
  PROVE  WorkerTypes'
<1>1. worker' = [pc |-> pc, jar |-> worker.jar, left |-> worker.left,
                 files |-> worker.files, out |-> out, rc |-> rc]
  BY DEF WorkerTypes
<1> QED
  BY <1>1 DEF WorkerTypes

\* No worker, to begin with.
LEMMA InitWorker ==
  ASSUME Init
  PROVE  WorkerTypes
BY DEF Init, WorkerTypes, NoWorker, NoJar, Early

\* The shapes of the worker's state, whoever steps.
LEMMA TypesKept ==
  ASSUME CookieInv, WorkerTypes, Next
  PROVE  CookieInv' /\ WorkerTypes'
<1>0. CookieInv'
  <2>1. CASE LoginStep
    BY <2>1, LoginKeeps
  <2>2. CASE ~LoginStep
    BY <2>2, OthersSpareTheFile DEF CookieInv, LoginTypes, CookieFileIsOperators
  <2> QED
    BY <2>1, <2>2
<1> SUFFICES WorkerTypes'
  BY <1>0
<1>1. CASE WorkerStep
  <2>0. /\ worker.rc \in Int /\ 1 \in Int /\ -9 \in Int /\ attempts \in Seq(Attempts)
        /\ {"validate", "session", "exit", "probe", "offered", "ended"}
             \subseteq Early \cup {"offered", "exit", "ended"}
    BY DEF WorkerTypes, Early
  <2>1. CASE Spawn
    <3>1. Entries \in Seq(EntryType)
      BY EntriesAreGiven DEF WorkerTypes
    <3> QED
      BY <2>1, <3>1 DEF Spawn, WorkerTypes, Early
  <2>2. CASE Fetch
    <3>1. PICK f : worker' = [worker EXCEPT !.files = @ \cup {f}, !.left = Tail(@)]
      BY <2>2 DEF Fetch
    <3>2. worker.left # <<>> /\ UNCHANGED <<source, attempts>>
      BY <2>2 DEF Fetch
    <3>3. Tail(worker.left) \in Seq(EntryType)
      BY <3>2 DEF WorkerTypes
    <3> QED
      BY <3>1, <3>2, <3>3 DEF WorkerTypes
  <2>3. CASE AttemptFails
    <3>1. PICK code \in Errors(Head(worker.left)) :
            /\ attempts' = Append(attempts, [cookies |-> worker.jar # NoJar, code |-> code])
            /\ \/ worker' = [worker EXCEPT !.pc = "validate"]
               \/ worker' = [worker EXCEPT !.pc = "exit", !.rc = 1]
      BY <2>3 DEF AttemptFails, AttemptEnds, Failing
    <3>a. PICK pc \in {"validate", "exit"}, rc \in {worker.rc, 1} :
            worker' = [worker EXCEPT !.pc = pc, !.out = worker.out, !.rc = rc]
      BY <3>1
    <3>2. code \in Codes /\ source' = source
      BY <2>3, CodesOfErrors DEF AttemptFails
    <3>3. [cookies |-> worker.jar # NoJar, code |-> code] \in Attempts
      BY <3>2 DEF Attempts
    <3>4. attempts' \in Seq(Attempts)
      BY <2>0, <3>1, <3>3
    <3> QED
      BY <3>a, <3>2, <3>4, <2>0, Moves
  <2>4. CASE Validate \/ ProbeFails
    <3>1. PICK pc \in {"session", "exit"}, rc \in {worker.rc, 1} :
            worker' = [worker EXCEPT !.pc = pc, !.out = worker.out, !.rc = rc]
      BY <2>4 DEF Validate, ProbeFails, Failing
    <3>2. source' = source /\ attempts' = attempts
      BY <2>4 DEF Validate, ProbeFails
    <3> QED
      BY <3>1, <3>2, <2>0, Moves
  <2>5. CASE OpenSession
    <3>1. Entries \in Seq(EntryType) /\ file.gen \in Nat
      BY EntriesAreGiven DEF CookieInv, LoginTypes, WorkerTypes
    <3> QED
      BY <2>5, <3>1 DEF OpenSession, WorkerTypes, Early
  <2>6. CASE Choose
    <3>1. attempts' = Append(attempts, [cookies |-> worker.jar # NoJar, code |-> "none"])
      BY <2>6 DEF Choose, AttemptEnds
    <3>2. PICK pc \in {"exit", "probe"}, rc \in {worker.rc, 1} :
            worker' = [worker EXCEPT !.pc = pc, !.out = worker'.out, !.rc = rc]
      <4>1. CASE worker' = [worker EXCEPT !.pc = "exit", !.rc = 1]
        <5>1. worker'.out = worker.out
          BY <4>1 DEF WorkerTypes
        <5>2. worker' = [worker EXCEPT !.pc = "exit", !.out = worker'.out, !.rc = 1]
          BY <4>1, <5>1 DEF WorkerTypes
        <5> QED
          BY <5>2
      <4>2. CASE \E f : worker' = [worker EXCEPT !.pc = "probe", !.out = {f}]
        <5>1. PICK f : worker' = [worker EXCEPT !.pc = "probe", !.out = {f}]
          BY <4>2
        <5>2. worker'.out = {f}
          BY <5>1 DEF WorkerTypes
        <5>3. worker' = [worker EXCEPT !.pc = "probe", !.out = worker'.out, !.rc = worker.rc]
          BY <5>1, <5>2 DEF WorkerTypes
        <5> QED
          BY <5>3
      <4> QED
        BY <2>6, <4>1, <4>2 DEF Choose, Failing
    <3>3. [cookies |-> worker.jar # NoJar, code |-> "none"] \in Attempts
      BY DEF Attempts, Codes
    <3>4. attempts' \in Seq(Attempts)
      BY <2>0, <3>1, <3>3
    <3>5. source' = source
      BY <2>6 DEF Choose
    <3> QED
      BY <3>2, <3>4, <3>5, <2>0, Moves
  <2>7. CASE Offer \/ Succeed \/ Exit \/ Kill
    <3>1. PICK pc \in {"offered", "exit", "ended"}, rc \in {worker.rc, -9} :
            worker' = [worker EXCEPT !.pc = pc, !.out = worker.out, !.rc = rc]
      BY <2>7 DEF Offer, Succeed, Exit, Kill
    <3>2. source' = source /\ attempts' = attempts
      BY <2>7 DEF Offer, Succeed, Exit, Kill
    <3> QED
      BY <3>1, <3>2, <2>0, Moves
  <2> QED
    BY <1>1, <2>1, <2>2, <2>3, <2>4, <2>5, <2>6, <2>7 DEF WorkerStep
<1>2. CASE ~WorkerStep
  <2>1. UNCHANGED <<worker, attempts, source>>
    BY <1>2, OthersSpareTheWorker
  <2> QED
    BY <2>1 DEF WorkerTypes
<1> QED
  BY <1>0, <1>1, <1>2

\* The first attempt was made without cookies, and its error reads as a demand for a sign-in.
SessionDue ==
  /\ Configured
  /\ Len(attempts) > 0
  /\ attempts[1] = [cookies |-> FALSE, code |-> "AUTHENTICATION_REQUIRED"]

SessionInv ==
  /\ CookieInv /\ WorkerTypes
  /\ \A i \in DOMAIN worker.left : Given(worker.left[i])
  /\ worker.pc \in {"none", "validate", "session"} => worker.jar = NoJar
  /\ worker.pc \in {"none", "download"} /\ worker.jar = NoJar => attempts = <<>>
  /\ worker.pc \in {"validate", "session"} => SessionDue /\ Len(attempts) = 1
  /\ worker.pc = "session" => file.gen # NoJar
  /\ worker.jar # NoJar => SessionDue /\ Len(attempts) <= 2
  /\ worker.pc = "download" /\ worker.jar # NoJar => Len(attempts) = 1

\* The first attempt, and another one.
LEMMA OneAttemptMore ==
  ASSUME NEW s \in Seq(Attempts), NEW x \in Attempts
  PROVE  LET n == Append(s, x) IN
         /\ Len(n) = Len(s) + 1 /\ Len(s) \in Nat
         /\ Len(s) > 0 => n[1] = s[1]
         /\ s = <<>> => n[1] = x /\ Len(n) = 1
  OBVIOUS

\* A step that makes no attempt and does not go where a session is due.
LEMMA QuietSession ==
  ASSUME SessionInv, CookieInv', WorkerTypes', UNCHANGED <<attempts, source>>,
         worker'.jar = worker.jar,
         \A i \in DOMAIN worker'.left : Given(worker'.left[i]),
         worker.pc = "session" => file'.gen # NoJar,
         \/ worker'.pc = worker.pc
         \/ worker'.pc \in {"probe", "offered", "exit", "ended"}
         \/ worker.pc = "none" /\ worker'.pc = "download"
  PROVE  SessionInv'
<1>1. /\ SessionDue' <=> SessionDue
      /\ \A i \in DOMAIN worker'.left : Given(worker.left[i])' <=> Given(worker'.left[i])
  BY DEF SessionDue, Given
<1>2. \A i \in DOMAIN worker'.left : Given(worker.left[i])'
  BY <1>1
<1>3. (\A i \in DOMAIN worker.left : Given(worker.left[i]))'
  BY <1>2
<1> QED
  BY <1>1, <1>3 DEF SessionInv

\* The steps of the worker.
LEMMA WorkerStepSpares ==
  ASSUME SessionInv, WorkerStep, CookieInv', WorkerTypes'
  PROVE  SessionInv'
<1>0. /\ WorkerTypes /\ worker.left \in Seq(EntryType) /\ worker.jar \in Nat
      /\ attempts \in Seq(Attempts) /\ file.gen \in Nat
      /\ \A i \in DOMAIN worker.left : Given(worker.left[i])
  BY DEF SessionInv, WorkerTypes, CookieInv, LoginTypes
<1>a. /\ file' = file /\ source' = source
  BY DEF WorkerStep, Spawn, Fetch, AttemptFails, AttemptEnds, AfterClose, Validate,
         OpenSession, Choose, ProbeFails, Offer, Succeed, Exit, Kill
<1>b. worker.pc = "session" => file'.gen # NoJar
  BY <1>a DEF SessionInv
<1>d. \A i \in DOMAIN Entries : Given(Entries[i])
  BY <1>0, EntriesAreGiven DEF WorkerTypes
<1>1. CASE Spawn
  <2>1. /\ worker.pc = "none" /\ worker'.pc = "download" /\ worker'.jar = worker.jar
        /\ worker'.left = Entries /\ attempts' = attempts
    BY <1>0, <1>1 DEF Spawn, WorkerTypes
  <2>2. \A i \in DOMAIN worker'.left : Given(worker'.left[i])
    BY <1>d, <2>1
  <2> QED
    BY <1>a, <1>b, <2>1, <2>2, QuietSession
<1>2. CASE Fetch
  <2>1. /\ worker'.pc = worker.pc /\ worker'.jar = worker.jar /\ attempts' = attempts
        /\ worker'.left = Tail(worker.left) /\ worker.left # <<>>
    BY <1>0, <1>2 DEF Fetch, WorkerTypes
  <2>2. \A i \in DOMAIN worker'.left :
          i + 1 \in DOMAIN worker.left /\ worker'.left[i] = worker.left[i + 1]
    BY <1>0, <2>1
  <2>3. \A i \in DOMAIN worker'.left : Given(worker'.left[i])
    BY <1>0, <2>2
  <2> QED
    BY <1>a, <1>b, <2>1, <2>3, QuietSession
<1>3. CASE AttemptFails \/ Choose
  <2>1. PICK x \in Attempts : /\ attempts' = Append(attempts, x)
                              /\ \/ worker'.pc \in {"exit", "probe"}
                                 \/ /\ worker'.pc = "validate" /\ worker.jar = NoJar
                                    /\ Configured
                                    /\ x = [cookies |-> FALSE,
                                            code |-> "AUTHENTICATION_REQUIRED"]
    <3>1. CASE AttemptFails
      <4>1. PICK code \in Errors(Head(worker.left)) :
              /\ AttemptEnds(code)
              /\ IF worker.jar = NoJar /\ NeedsSession(code)
                 THEN worker' = [worker EXCEPT !.pc = "validate"] /\ UNCHANGED pipe
                 ELSE Failing
        BY <3>1 DEF AttemptFails
      <4>2. [cookies |-> worker.jar # NoJar, code |-> code] \in Attempts
        BY <4>1, CodesOfErrors DEF Attempts
      <4>3. \/ worker'.pc = "exit"
            \/ /\ worker'.pc = "validate" /\ worker.jar = NoJar /\ Configured
               /\ code = "AUTHENTICATION_REQUIRED"
        BY <1>0, <3>1, <4>1 DEF NeedsSession, Failing, WorkerTypes, AttemptFails
      <4> QED
        BY <4>1, <4>2, <4>3 DEF AttemptEnds
    <3>2. CASE Choose
      <4>1. [cookies |-> worker.jar # NoJar, code |-> "none"] \in Attempts
        BY DEF Attempts, Codes
      <4>2. worker'.pc \in {"exit", "probe"}
        BY <1>0, <3>2 DEF Choose, Failing, WorkerTypes
      <4> QED
        BY <3>2, <4>1, <4>2 DEF Choose, AttemptEnds
    <3> QED
      BY <1>3, <3>1, <3>2
  <2>2. worker.pc = "download" /\ worker'.jar = worker.jar /\ worker'.left = worker.left
    BY <1>0, <1>3 DEF AttemptFails, Choose, Failing, WorkerTypes
  <2>3. (\A i \in DOMAIN worker.left : Given(worker.left[i]))'
    BY <1>0, <1>a, <2>2 DEF Given
  <2>4. CASE worker.jar = NoJar
    <3>1. attempts = <<>>
      BY <2>2, <2>4 DEF SessionInv
    <3>2. Len(attempts') = 1 /\ attempts'[1] = x
      BY <1>0, <2>1, <3>1, OneAttemptMore
    <3>3. worker'.pc = "validate" => SessionDue'
      BY <2>1, <3>2 DEF SessionDue
    <3> QED
      BY <2>1, <2>2, <2>3, <2>4, <3>2, <3>3 DEF SessionInv
  <2>5. CASE worker.jar # NoJar
    <3>1. SessionDue /\ Len(attempts) = 1
      BY <2>2, <2>5 DEF SessionInv
    <3>2. Len(attempts') = 2 /\ attempts'[1] = attempts[1]
      <4>1. Len(attempts) > 0 /\ Len(attempts) + 1 = 2
        BY <3>1
      <4> QED
        BY <1>0, <2>1, <4>1, OneAttemptMore
    <3>3. SessionDue'
      BY <3>1, <3>2 DEF SessionDue
    <3> QED
      BY <2>1, <2>2, <2>3, <2>5, <3>2, <3>3 DEF SessionInv
  <2> QED
    BY <2>4, <2>5
<1>4. CASE Validate
  <2>1. /\ worker.pc = "validate" /\ worker'.jar = worker.jar /\ worker'.left = worker.left
        /\ attempts' = attempts
        /\ worker'.pc = "exit" \/ (worker'.pc = "session" /\ file.gen # NoJar)
    BY <1>0, <1>4 DEF Validate, Failing, WorkerTypes
  <2>2. (\A i \in DOMAIN worker.left : Given(worker.left[i]))'
    BY <1>0, <1>a, <2>1 DEF Given
  <2>3. SessionDue' <=> SessionDue
    BY <2>1 DEF SessionDue
  <2> QED
    BY <1>a, <2>1, <2>2, <2>3 DEF SessionInv
<1>5. CASE OpenSession
  <2>1. /\ worker.pc = "session" /\ worker'.pc = "download" /\ worker'.jar = file.gen
        /\ worker'.left = Entries /\ attempts' = attempts
    BY <1>0, <1>5 DEF OpenSession, WorkerTypes
  <2>3. (\A i \in DOMAIN worker.left : Given(worker.left[i]))'
    BY <1>a, <1>d, <2>1 DEF Given
  <2>4. SessionDue' <=> SessionDue
    BY <2>1 DEF SessionDue
  <2>5. SessionDue /\ Len(attempts) = 1 /\ worker'.jar # NoJar
    BY <2>1 DEF SessionInv
  <2>6. Len(attempts') = 1 /\ Len(attempts') <= 2
    BY <2>1, <2>5
  <2> QED
    BY <2>1, <2>3, <2>4, <2>5, <2>6 DEF SessionInv
<1>6. CASE ProbeFails \/ Offer \/ Succeed \/ Exit \/ Kill
  <2>1. /\ worker'.pc \in {"offered", "exit", "ended"} /\ worker'.jar = worker.jar
        /\ worker'.left = worker.left /\ attempts' = attempts
    BY <1>0, <1>6 DEF ProbeFails, Failing, Offer, Succeed, Exit, Kill, WorkerTypes
  <2>2. \A i \in DOMAIN worker'.left : Given(worker'.left[i])
    BY <1>0, <2>1
  <2> QED
    BY <1>a, <1>b, <2>1, <2>2, QuietSession
<1> QED
  BY <1>1, <1>2, <1>3, <1>4, <1>5, <1>6 DEF WorkerStep

\* The worker's state and its attempts stay as SessionInv has them, whoever steps.
LEMMA SessionStays == Spec => []SessionInv
<1>1. Init => SessionInv
  <2> SUFFICES ASSUME Init
               PROVE  SessionInv
    OBVIOUS
  <2>1. CookieInv /\ WorkerTypes
    BY InitCookie, InitWorker
  <2>2. worker.pc = "none" /\ worker.jar = NoJar /\ worker.left = <<>> /\ attempts = <<>>
    BY DEF Init, NoWorker
  <2> QED
    BY <2>1, <2>2 DEF SessionInv
<1>2. SessionInv /\ [Next]_vars => SessionInv'
  <2> SUFFICES ASSUME SessionInv, [Next]_vars
               PROVE  SessionInv'
    OBVIOUS
  <2>0. \A i \in DOMAIN worker.left : Given(worker.left[i])
    BY DEF SessionInv
  <2>1. CASE UNCHANGED vars
    <3>1. UNCHANGED <<worker, attempts, source, file, login>>
      BY <2>1 DEF vars
    <3>2. CookieInv' /\ WorkerTypes'
      BY <3>1 DEF SessionInv, CookieInv, LoginTypes, CookieFileIsOperators, WorkerTypes
    <3> QED
      BY <2>0, <3>1, <3>2, QuietSession DEF SessionInv
  <2>2. CASE Next
    <3>1. CookieInv' /\ WorkerTypes'
      BY <2>2, TypesKept DEF SessionInv
    <3>2. CASE WorkerStep
      BY <3>1, <3>2, WorkerStepSpares
    <3>3. CASE ~WorkerStep
      <4>1. UNCHANGED <<worker, attempts, source>>
        BY <2>2, <3>3, OthersSpareTheWorker
      <4>2. file' = file \/ file'.gen # NoJar
        <5>1. CASE LoginStep
          <6>1. file' = file \/ \E b : file' = [gen |-> login.saved + 2, signed |-> b]
            BY <5>1 DEF LoginStep, LogIn, Confirm, Reopen, Export, WriteTemporary, Replace,
                        GiveUp
          <6>2. login.saved \in Nat
            BY DEF SessionInv, CookieInv, LoginTypes
          <6> QED
            BY <6>1, <6>2 DEF NoJar
        <5>2. CASE ~LoginStep
          BY <2>2, <5>2, OthersSpareTheFile
        <5> QED
          BY <5>1, <5>2
      <4>3. worker.pc = "session" => file'.gen # NoJar
        BY <4>2 DEF SessionInv
      <4> QED
        BY <2>0, <3>1, <4>1, <4>3, QuietSession
    <3> QED
      BY <3>2, <3>3
  <2> QED
    BY <2>1, <2>2
<1> QED
  BY <1>1, <1>2, PTL DEF Spec

\* The operator's cookies are tried once, after an attempt without them whose error reads as
\* a demand for a sign-in (run_ytdlp_download, _extract_info, classify_ytdlp_error).
THEOREM TheSessionIsSpared == Spec => []SessionIsSpared
<1>1. SessionInv => SessionIsSpared
  <2> SUFFICES ASSUME SessionInv, worker.jar # NoJar
               PROVE  /\ Configured
                      /\ Len(attempts) \in 1..2
                      /\ attempts[1] = [cookies |-> FALSE, code |-> "AUTHENTICATION_REQUIRED"]
    BY DEF SessionIsSpared
  <2>1. SessionDue /\ Len(attempts) <= 2 /\ Len(attempts) \in Nat
    BY DEF SessionInv, WorkerTypes
  <2>2. Len(attempts) > 0
    BY <2>1 DEF SessionDue
  <2>3. Len(attempts) \in 1..2
    <3>1. PICK n \in Nat : n = Len(attempts)
      BY <2>1
    <3>2. n \in 1..2
      BY <2>1, <2>2, <3>1
    <3> QED
      BY <3>1, <3>2
  <2> QED
    BY <2>1, <2>3 DEF SessionDue
<1> QED
  BY <1>1, SessionStays, PTL

------------------------------------------------------------------------------
(* The end of a worker.                                                     *)

Lines == {"phase", "candidate", "succeeded", "failed", "cut"}
Heard == {<<>>, <<"candidate">>, <<"failed">>, <<"candidate", "failed">>,
          <<"candidate", "succeeded">>}

CandidateAt(p, i) == i \in DOMAIN p /\ p[i] = "candidate"
EndAt(p, i) == i \in DOMAIN p /\ p[i] \in {"succeeded", "failed"}

\* In a pipe there is one candidate at most, one end at most, and the end comes last.
Ordered(p) ==
  /\ p \in Seq(Lines)
  /\ \A i, j \in DOMAIN p : CandidateAt(p, i) /\ CandidateAt(p, j) => i = j
  /\ \A i, j \in DOMAIN p : EndAt(p, i) /\ EndAt(p, j) => i = j
  /\ \A i, j \in DOMAIN p : CandidateAt(p, i) /\ EndAt(p, j) => i < j

NoCandidate(p) == \A i \in DOMAIN p : ~CandidateAt(p, i)
NoEnd(p) == \A i \in DOMAIN p : ~EndAt(p, i)
Success(p) == \E i \in DOMAIN p : p[i] = "succeeded"

Told == heard \notin {<<>>, <<"candidate">>}

EndingInv ==
  /\ CookieInv /\ WorkerTypes /\ Ordered(pipe)
  /\ pump = [terminal |-> pump.terminal, done |-> pump.done]
  /\ pump.terminal \in BOOLEAN /\ pump.done \in BOOLEAN
  /\ heard \in Heard
  /\ heard # <<>> => NoCandidate(pipe)
  /\ Told <=> (pump.terminal \/ pump.done)
  /\ Told => NoEnd(pipe)
  /\ pump.done => worker.pc = "ended"
  /\ worker.pc \in Early \cup {"offered"} => ~Told /\ NoEnd(pipe)
  /\ worker.pc \in Early => heard = <<>> /\ NoCandidate(pipe)
  /\ worker.pc = "offered" => heard = <<"candidate">> \/ ~NoCandidate(pipe)
  /\ Success(pipe) => heard = <<"candidate">> \/ ~NoCandidate(pipe)
  /\ worker.pc \in {"exit", "ended"} /\ worker.rc = 0 => ~NoEnd(pipe) \/ pump.terminal

\* What one more line, or two, make of a sequence of lines.
LEMMA OneMore ==
  ASSUME NEW p \in Seq(Lines), NEW l \in Lines
  PROVE  LET n == p \o <<l>> IN
         /\ n \in Seq(Lines) /\ DOMAIN n = 1..(Len(p) + 1) /\ DOMAIN p = 1..Len(p)
         /\ Len(p) \in Nat /\ n[Len(p) + 1] = l
         /\ \A i \in 1..Len(p) : n[i] = p[i]
  OBVIOUS

\* Two lines more are one more and another.
LEMMA TwoMore ==
  ASSUME NEW p \in Seq(Lines), NEW k \in Lines, NEW l \in Lines
  PROVE  p \o <<k, l>> = (p \o <<k>>) \o <<l>>
<1> DEFINE a == p \o <<k, l>>
           m == p \o <<k>>
           b == m \o <<l>>
<1>1. /\ a \in Seq(Lines) /\ Len(a) = Len(p) + 2 /\ Len(p) \in Nat
      /\ a[Len(p) + 1] = k /\ a[Len(p) + 2] = l
      /\ \A i \in 1..Len(p) : a[i] = p[i]
  OBVIOUS
<1>2. /\ m \in Seq(Lines) /\ Len(m) = Len(p) + 1 /\ m[Len(p) + 1] = k
      /\ \A i \in 1..Len(p) : m[i] = p[i]
  OBVIOUS
<1> HIDE DEF m
<1>3. /\ b \in Seq(Lines) /\ Len(b) = Len(p) + 2 /\ b[Len(p) + 2] = l
      /\ \A i \in 1..(Len(p) + 1) : b[i] = m[i]
  BY <1>1, <1>2
<1> HIDE DEF a, b
<1>4. \A i \in 1..Len(a) : a[i] = b[i]
  BY <1>1, <1>2, <1>3
<1>5. a = [i \in 1..Len(a) |-> a[i]] /\ b = [i \in 1..Len(b) |-> b[i]]
  BY <1>1, <1>3
<1>6. a = b
  BY <1>1, <1>3, <1>4, <1>5
<1> QED
  BY <1>6 DEF a, b, m

\* Phases, and a line that is cut, change nothing that is told.
LEMMA EmitPlain ==
  ASSUME NEW p, Ordered(p), NEW l \in {"phase", "cut"}
  PROVE  LET n == p \o <<l>> IN
         /\ Ordered(n)
         /\ NoCandidate(n) <=> NoCandidate(p)
         /\ NoEnd(n) <=> NoEnd(p)
         /\ Success(n) <=> Success(p)
<1> DEFINE n == p \o <<l>>
<1>1. /\ n \in Seq(Lines) /\ DOMAIN n = 1..(Len(p) + 1) /\ DOMAIN p = 1..Len(p)
      /\ Len(p) \in Nat /\ n[Len(p) + 1] = l /\ \A i \in 1..Len(p) : n[i] = p[i]
  BY OneMore DEF Ordered, Lines
<1> HIDE DEF n
<1>2. \A i \in DOMAIN n : CandidateAt(n, i) \/ EndAt(n, i) \/ n[i] = "succeeded" => i \in DOMAIN p
  BY <1>1 DEF CandidateAt, EndAt
<1>3. \A i \in DOMAIN p : /\ i \in DOMAIN n /\ n[i] = p[i]
                          /\ CandidateAt(n, i) <=> CandidateAt(p, i)
                          /\ EndAt(n, i) <=> EndAt(p, i)
  BY <1>1 DEF CandidateAt, EndAt
<1>4. Ordered(n)
  BY <1>1, <1>2, <1>3 DEF Ordered
<1>5. (NoCandidate(n) <=> NoCandidate(p)) /\ (NoEnd(n) <=> NoEnd(p))
  BY <1>2, <1>3 DEF NoCandidate, NoEnd
<1>6. Success(n) <=> Success(p)
  BY <1>2, <1>3 DEF Success
<1> QED
  BY <1>4, <1>5, <1>6 DEF n

\* The first candidate.
LEMMA EmitCandidate ==
  ASSUME NEW p, Ordered(p), NoCandidate(p), NoEnd(p)
  PROVE  LET n == p \o <<"candidate">> IN
         Ordered(n) /\ ~NoCandidate(n) /\ NoEnd(n) /\ ~Success(n)
<1> DEFINE n == p \o <<"candidate">>
<1>1. /\ n \in Seq(Lines) /\ DOMAIN n = 1..(Len(p) + 1) /\ DOMAIN p = 1..Len(p)
      /\ Len(p) \in Nat /\ n[Len(p) + 1] = "candidate" /\ \A i \in 1..Len(p) : n[i] = p[i]
  BY OneMore DEF Ordered, Lines
<1> HIDE DEF n
<1>2. \A i \in DOMAIN n : ~EndAt(n, i) /\ n[i] # "succeeded"
  BY <1>1 DEF EndAt, NoEnd
<1>3. \A i \in DOMAIN n : CandidateAt(n, i) <=> i = Len(p) + 1
  BY <1>1 DEF CandidateAt, NoCandidate
<1>4. Len(p) + 1 \in DOMAIN n
  BY <1>1
<1> HIDE DEF CandidateAt
<1>5. Ordered(n) /\ ~NoCandidate(n) /\ NoEnd(n) /\ ~Success(n)
  BY <1>1, <1>2, <1>3, <1>4 DEF Ordered, NoCandidate, NoEnd, Success
<1> QED
  BY <1>5 DEF n

\* The first end.
LEMMA EmitEnd ==
  ASSUME NEW p, Ordered(p), NoEnd(p), NEW l \in {"succeeded", "failed"}
  PROVE  LET n == p \o <<l>> IN
         /\ Ordered(n) /\ ~NoEnd(n)
         /\ NoCandidate(n) <=> NoCandidate(p)
         /\ Success(n) => l = "succeeded"
<1> DEFINE n == p \o <<l>>
<1>1. /\ n \in Seq(Lines) /\ DOMAIN n = 1..(Len(p) + 1) /\ DOMAIN p = 1..Len(p)
      /\ Len(p) \in Nat /\ n[Len(p) + 1] = l /\ \A i \in 1..Len(p) : n[i] = p[i]
  BY OneMore DEF Ordered, Lines
<1> HIDE DEF n
<1>2. \A i \in DOMAIN n : EndAt(n, i) <=> i = Len(p) + 1
  BY <1>1 DEF EndAt, NoEnd
<1>3. \A i \in DOMAIN n : CandidateAt(n, i) => i \in DOMAIN p
  BY <1>1 DEF CandidateAt
<1>4. \A i \in DOMAIN p : /\ i \in DOMAIN n /\ i < Len(p) + 1
                          /\ CandidateAt(n, i) <=> CandidateAt(p, i)
  BY <1>1 DEF CandidateAt
<1>5. Len(p) + 1 \in DOMAIN n
  BY <1>1
<1>6. Ordered(n)
  BY <1>1, <1>2, <1>3, <1>4 DEF Ordered
<1>7. ~NoEnd(n) /\ (NoCandidate(n) <=> NoCandidate(p))
  BY <1>2, <1>3, <1>4, <1>5 DEF NoEnd, NoCandidate
<1>8. Success(n) => l = "succeeded"
  BY <1>1, <1>2 DEF Success, EndAt
<1> QED
  BY <1>6, <1>7, <1>8 DEF n

\* What is left when a line was read.
LEMMA ReadLine ==
  ASSUME NEW p, Ordered(p), p # <<>>
  PROVE  LET n == Tail(p) l == Head(p) IN
         /\ Ordered(n) /\ l \in Lines
         /\ NoCandidate(p) => NoCandidate(n)
         /\ NoEnd(p) => NoEnd(n) /\ l \notin {"succeeded", "failed"}
         /\ l = "candidate" => NoCandidate(n) /\ ~NoCandidate(p)
         /\ l # "candidate" /\ NoCandidate(n) => NoCandidate(p)
         /\ l \in {"succeeded", "failed"} => NoEnd(n) /\ NoCandidate(p) /\ ~NoEnd(p)
         /\ l \notin {"succeeded", "failed"} /\ NoEnd(n) => NoEnd(p)
         /\ Success(n) => Success(p)
         /\ l = "succeeded" => Success(p)
<1> DEFINE n == Tail(p)
           l == Head(p)
<1>1. /\ p \in Seq(Lines) /\ DOMAIN p = 1..Len(p) /\ Len(p) \in Nat \ {0}
      /\ n \in Seq(Lines) /\ DOMAIN n = 1..(Len(p) - 1) /\ l = p[1] /\ l \in Lines
      /\ \A i \in 1..(Len(p) - 1) : n[i] = p[i + 1]
  BY DEF Ordered
<1> HIDE DEF n, l
<1>2. \A i \in DOMAIN n : /\ i + 1 \in DOMAIN p /\ n[i] = p[i + 1]
                          /\ CandidateAt(n, i) <=> CandidateAt(p, i + 1)
                          /\ EndAt(n, i) <=> EndAt(p, i + 1)
  BY <1>1 DEF CandidateAt, EndAt
<1>3. \A i \in DOMAIN p : i = 1 \/ (i - 1 \in DOMAIN n /\ i - 1 + 1 = i)
  BY <1>1
<1>4. /\ 1 \in DOMAIN p
      /\ l = "candidate" <=> CandidateAt(p, 1)
      /\ l \in {"succeeded", "failed"} <=> EndAt(p, 1)
  BY <1>1 DEF CandidateAt, EndAt
<1>5. \A i \in DOMAIN n : i \in Nat /\ i + 1 # 1
  BY <1>1
<1>6. Ordered(n)
  <2>1. \A i, j \in DOMAIN n : CandidateAt(n, i) /\ CandidateAt(n, j) => i = j
    BY <1>1, <1>2, <1>5 DEF Ordered
  <2>2. \A i, j \in DOMAIN n : EndAt(n, i) /\ EndAt(n, j) => i = j
    BY <1>1, <1>2, <1>5 DEF Ordered
  <2>3. \A i, j \in DOMAIN n : CandidateAt(n, i) /\ EndAt(n, j) => i < j
    BY <1>1, <1>2, <1>5 DEF Ordered
  <2> QED
    BY <1>1, <2>1, <2>2, <2>3 DEF Ordered
<1>7. /\ NoCandidate(p) => NoCandidate(n)
      /\ l = "candidate" => NoCandidate(n) /\ ~NoCandidate(p)
  BY <1>1, <1>2, <1>4, <1>5 DEF Ordered, NoCandidate
<1>8. l # "candidate" /\ NoCandidate(n) => NoCandidate(p)
  BY <1>2, <1>3, <1>4 DEF NoCandidate
<1>9. /\ NoEnd(p) => NoEnd(n) /\ l \notin {"succeeded", "failed"}
      /\ l \in {"succeeded", "failed"} => NoEnd(n) /\ ~NoEnd(p)
  BY <1>1, <1>2, <1>4, <1>5 DEF Ordered, NoEnd
<1>10. l \in {"succeeded", "failed"} => NoCandidate(p)
  <2>1. \A i \in DOMAIN p : ~(i < 1)
    BY <1>1
  <2> QED
    BY <1>4, <2>1 DEF Ordered, NoCandidate
<1>11. l \notin {"succeeded", "failed"} /\ NoEnd(n) => NoEnd(p)
  BY <1>2, <1>3, <1>4 DEF NoEnd
<1>12. (Success(n) => Success(p)) /\ (l = "succeeded" => Success(p))
  BY <1>1, <1>2, <1>4 DEF Success
<1> QED
  BY <1>1, <1>6, <1>7, <1>8, <1>9, <1>10, <1>11, <1>12 DEF n, l

\* Nothing that is told depends on a step that leaves the pipe and the pump alone, and the
\* worker where it is, but for a step between places of the same kind.
LEMMA QuietEnding ==
  ASSUME EndingInv, CookieInv', WorkerTypes', UNCHANGED <<pump, heard>>, Ordered(pipe'),
         NoCandidate(pipe') <=> NoCandidate(pipe), NoEnd(pipe') <=> NoEnd(pipe),
         Success(pipe') <=> Success(pipe), worker.pc # "ended",
         \/ worker'.pc = worker.pc /\ worker'.rc = worker.rc
         \/ worker.pc \in Early /\ worker'.pc \in Early
         \/ worker'.pc = "ended" /\ worker'.rc # 0
         \/ worker.pc = "exit" /\ worker'.pc = "ended" /\ worker'.rc = worker.rc
  PROVE  EndingInv'
<1>1. ~pump.done
  BY DEF EndingInv
<1> DEFINE nc == NoCandidate(pipe)
           ne == NoEnd(pipe)
           su == Success(pipe)
           ncp == NoCandidate(pipe')
           nep == NoEnd(pipe')
           sup == Success(pipe')
<1>2. (ncp <=> nc) /\ (nep <=> ne) /\ (sup <=> su)
  OBVIOUS
<1>3. Told' <=> Told
  BY DEF Told
<1> HIDE DEF nc, ne, su, ncp, nep, sup
<1> QED
  BY <1>1, <1>2, <1>3 DEF EndingInv, Early, nc, ne, su, ncp, nep, sup

\* A worker that fails says so, once, and nothing after it.
LEMMA FailingTells ==
  ASSUME EndingInv, CookieInv', WorkerTypes', UNCHANGED <<pump, heard>>, Failing,
         worker.pc \in Early
  PROVE  EndingInv'
<1>1. pipe' = pipe \o <<"failed">> /\ worker'.pc = "exit" /\ worker'.rc = 1
  BY DEF Failing, Emit, WorkerTypes, EndingInv
<1>2. /\ Ordered(pipe') /\ ~NoEnd(pipe') /\ NoCandidate(pipe') /\ ~Success(pipe')
  BY <1>1, EmitEnd DEF EndingInv
<1>3. /\ ~Told /\ ~pump.terminal /\ ~pump.done /\ heard = <<>> /\ ~Told'
  BY DEF EndingInv, Told, Early
<1> QED
  BY <1>1, <1>2, <1>3 DEF EndingInv, Early

\* The steps of the worker.
LEMMA WorkerStepTells ==
  ASSUME EndingInv, WorkerStep, CookieInv', WorkerTypes'
  PROVE  EndingInv'
<1>0. WorkerTypes /\ Ordered(pipe) /\ pipe \in Seq(Lines)
  BY DEF EndingInv, Ordered
<1>1. CASE Spawn
  <2>1. pipe' = (pipe \o <<"phase">>) \o <<"phase">> /\ UNCHANGED <<pump, heard>>
    BY <1>0, <1>1, TwoMore DEF Spawn, Emit, Lines
  <2>2. worker.pc = "none" /\ worker'.pc = "download"
    BY <1>0, <1>1 DEF Spawn, WorkerTypes
  <2> DEFINE m == pipe \o <<"phase">>
  <2>3. /\ Ordered(m) /\ (NoCandidate(m) <=> NoCandidate(pipe)) /\ (NoEnd(m) <=> NoEnd(pipe))
        /\ Success(m) <=> Success(pipe)
    BY <1>0, EmitPlain
  <2> HIDE DEF m
  <2>4. /\ Ordered(pipe') /\ (NoCandidate(pipe') <=> NoCandidate(m))
        /\ (NoEnd(pipe') <=> NoEnd(m)) /\ (Success(pipe') <=> Success(m))
    BY <2>1, <2>3, EmitPlain DEF m
  <2> QED
    BY <2>1, <2>2, <2>3, <2>4, QuietEnding DEF Early
<1>2. CASE Fetch \/ OpenSession
  <2>1. UNCHANGED <<pipe, pump, heard>> /\ worker.pc \in Early /\ worker'.pc \in Early
    BY <1>0, <1>2 DEF Fetch, OpenSession, WorkerTypes, Early
  <2> QED
    BY <1>0, <2>1, QuietEnding DEF Early
<1>3. CASE AttemptFails \/ Validate
  <2>1. UNCHANGED <<pump, heard>> /\ worker.pc \in Early
    BY <1>3 DEF AttemptFails, Validate, Early
  <2>2. CASE Failing
    BY <2>1, <2>2, FailingTells
  <2>3. CASE ~Failing
    <3>1. UNCHANGED pipe /\ worker'.pc \in Early
      BY <1>0, <1>3, <2>3 DEF AttemptFails, Validate, WorkerTypes, Early
    <3> QED
      BY <1>0, <2>1, <3>1, QuietEnding DEF Early
  <2> QED
    BY <2>2, <2>3
<1>4. CASE Choose
  <2>1. UNCHANGED <<pump, heard>> /\ worker.pc \in Early
    BY <1>4 DEF Choose, Early
  <2>2. CASE Failing
    BY <2>1, <2>2, FailingTells
  <2>3. CASE ~Failing
    <3>1. pipe' = pipe \o <<"phase">> /\ worker'.pc \in Early
      BY <1>0, <1>4, <2>3 DEF Choose, WorkerTypes, Early, Emit
    <3>2. /\ Ordered(pipe') /\ (NoCandidate(pipe') <=> NoCandidate(pipe))
          /\ (NoEnd(pipe') <=> NoEnd(pipe)) /\ (Success(pipe') <=> Success(pipe))
      BY <1>0, <3>1, EmitPlain
    <3> QED
      BY <2>1, <3>1, <3>2, QuietEnding DEF Early
  <2> QED
    BY <2>2, <2>3
<1>5. CASE ProbeFails
  <2>1. UNCHANGED <<pump, heard>> /\ worker.pc \in Early /\ Failing
    BY <1>5 DEF ProbeFails, Early
  <2> QED
    BY <2>1, FailingTells
<1>6. CASE Offer
  <2>1. /\ pipe' = (pipe \o <<"phase">>) \o <<"candidate">> /\ UNCHANGED <<pump, heard>>
        /\ worker.pc = "probe" /\ worker'.pc = "offered"
    BY <1>0, <1>6, TwoMore DEF Offer, Emit, Lines, WorkerTypes
  <2>2. /\ NoCandidate(pipe) /\ NoEnd(pipe) /\ heard = <<>> /\ ~Told
        /\ ~pump.terminal /\ ~pump.done
    BY <2>1 DEF EndingInv, Early
  <2> DEFINE m == pipe \o <<"phase">>
  <2>3. Ordered(m) /\ NoCandidate(m) /\ NoEnd(m)
    BY <1>0, <2>2, EmitPlain
  <2> HIDE DEF m
  <2>4. Ordered(pipe') /\ ~NoCandidate(pipe') /\ NoEnd(pipe') /\ ~Success(pipe')
    BY <2>1, <2>3, EmitCandidate DEF m
  <2>5. ~Told' /\ heard' = <<>>
    BY <2>1, <2>2 DEF Told
  <2> QED
    BY <2>1, <2>2, <2>4, <2>5 DEF EndingInv, Early
<1>7. CASE Succeed
  <2>1. /\ pipe' = pipe \o <<"succeeded">> /\ UNCHANGED <<pump, heard>>
        /\ worker.pc = "offered" /\ worker'.pc = "exit"
    BY <1>0, <1>7 DEF Succeed, Emit, WorkerTypes
  <2>2. /\ NoEnd(pipe) /\ ~Told /\ ~pump.terminal /\ ~pump.done
        /\ heard = <<"candidate">> \/ ~NoCandidate(pipe)
    BY <2>1 DEF EndingInv
  <2>3. Ordered(pipe') /\ ~NoEnd(pipe') /\ (NoCandidate(pipe') <=> NoCandidate(pipe))
    BY <1>0, <2>1, <2>2, EmitEnd
  <2>4. ~Told'
    BY <2>1, <2>2 DEF Told
  <2> QED
    BY <2>1, <2>2, <2>3, <2>4 DEF EndingInv, Early
<1>8. CASE Exit
  <2>1. /\ UNCHANGED <<pipe, pump, heard>>
        /\ worker.pc = "exit" /\ worker'.pc = "ended" /\ worker'.rc = worker.rc
    BY <1>0, <1>8 DEF Exit, WorkerTypes
  <2> QED
    BY <1>0, <2>1, QuietEnding
<1>9. CASE Kill
  <2>1. /\ worker.pc # "ended" /\ worker'.pc = "ended" /\ worker'.rc # 0
        /\ UNCHANGED <<pump, heard>> /\ (pipe' = pipe \/ pipe' = pipe \o <<"cut">>)
    BY <1>0, <1>9 DEF Kill, Emit, WorkerTypes
  <2>2. /\ Ordered(pipe') /\ (NoCandidate(pipe') <=> NoCandidate(pipe))
        /\ (NoEnd(pipe') <=> NoEnd(pipe)) /\ (Success(pipe') <=> Success(pipe))
    BY <1>0, <2>1, EmitPlain
  <2> QED
    BY <2>1, <2>2, QuietEnding
<1> QED
  BY <1>1, <1>2, <1>3, <1>4, <1>5, <1>6, <1>7, <1>8, <1>9 DEF WorkerStep

\* What is heard, with one word more.
LEMMA OneWordMore ==
  ASSUME NEW l \in Lines
  PROVE  Append(<<>>, l) = <<l>> /\ Append(<<"candidate">>, l) = <<"candidate", l>>
<1>1. Append(<<>>, l) = <<l>>
  OBVIOUS
<1>2. /\ <<"candidate">> \in Seq(Lines) /\ <<l>> \in Seq(Lines)
      /\ <<"candidate", l>> \in Seq(Lines)
  BY DEF Lines
<1> DEFINE a == Append(<<"candidate">>, l)
           b == <<"candidate", l>>
<1>3. a \in Seq(Lines) /\ Len(a) = 2 /\ a[1] = "candidate" /\ a[2] = l
  BY <1>2
<1>4. b \in Seq(Lines) /\ Len(b) = 2 /\ b[1] = "candidate" /\ b[2] = l
  BY <1>2
<1> HIDE DEF a, b
<1>5. a = [i \in 1..Len(a) |-> a[i]] /\ b = [i \in 1..Len(b) |-> b[i]]
  BY <1>3, <1>4
<1>6. a = b
  <2>1. \A i \in 1..2 : i = 1 \/ i = 2
    OBVIOUS
  <2>2. \A i \in 1..2 : a[i] = b[i]
    BY <1>3, <1>4, <2>1
  <2> QED
    BY <1>3, <1>4, <1>5, <2>2
<1> QED
  BY <1>1, <1>6 DEF a, b

\* The steps of the pump.
LEMMA PumpTells ==
  ASSUME EndingInv, Take \/ Reap, CookieInv', WorkerTypes'
  PROVE  EndingInv'
<1>0. Ordered(pipe) /\ heard \in Heard
  BY DEF EndingInv
<1>1. CASE Take
  <2> DEFINE l == Head(pipe)
             n == Tail(pipe)
  <2>1. /\ ~pump.done /\ pipe # <<>> /\ pipe' = n /\ UNCHANGED worker
        /\ pump' = [pump EXCEPT !.terminal = @ \/ l \in Endings]
        /\ heard' = IF l \in {"phase", "cut"} THEN heard ELSE Append(heard, l)
    BY <1>1 DEF Take
  <2>2. /\ Ordered(n) /\ l \in Lines
        /\ NoCandidate(pipe) => NoCandidate(n)
        /\ NoEnd(pipe) => NoEnd(n) /\ l \notin {"succeeded", "failed"}
        /\ l = "candidate" => NoCandidate(n) /\ ~NoCandidate(pipe)
        /\ l # "candidate" /\ NoCandidate(n) => NoCandidate(pipe)
        /\ l \in {"succeeded", "failed"} => NoEnd(n) /\ NoCandidate(pipe) /\ ~NoEnd(pipe)
        /\ l \notin {"succeeded", "failed"} /\ NoEnd(n) => NoEnd(pipe)
        /\ Success(n) => Success(pipe)
        /\ l = "succeeded" => Success(pipe)
    BY <1>0, <2>1, ReadLine
  <2> HIDE DEF l, n
  <2>3. /\ pump'.done = FALSE /\ pump' = [terminal |-> pump'.terminal, done |-> pump'.done]
        /\ pump'.terminal <=> pump.terminal \/ l \in {"succeeded", "failed"}
        /\ pump'.terminal \in BOOLEAN
    BY <2>1 DEF EndingInv, Endings
  <2>4. Ordered(pipe')
    BY <2>1, <2>2
  <2>5. CASE l \in {"phase", "cut"}
    <3>1. heard' = heard /\ (Told' <=> Told) /\ pump'.terminal = pump.terminal
      BY <2>1, <2>3, <2>5 DEF Told, EndingInv
    <3>2. /\ NoCandidate(pipe') <=> NoCandidate(pipe)
          /\ NoEnd(pipe') <=> NoEnd(pipe)
          /\ Success(pipe') => Success(pipe)
      BY <2>1, <2>2, <2>5
    <3> QED
      BY <2>1, <2>3, <2>4, <3>1, <3>2 DEF EndingInv
  <2>6. CASE l = "candidate"
    <3>1. heard = <<>> /\ heard' = <<"candidate">> /\ ~Told /\ ~Told'
      <4>1. heard = <<>> /\ heard' = Append(<<>>, l)
        BY <2>1, <2>2, <2>6 DEF EndingInv
      <4>2. heard' = <<"candidate">>
        BY <2>2, <2>6, <4>1, OneWordMore
      <4> QED
        BY <4>1, <4>2 DEF Told
    <3>2. NoCandidate(pipe') /\ (NoEnd(pipe') <=> NoEnd(pipe)) /\ ~NoCandidate(pipe)
      BY <2>1, <2>2, <2>6
    <3>3. ~pump.terminal /\ ~pump'.terminal
      BY <2>3, <2>6, <3>1 DEF EndingInv
    <3>4. worker'.pc \notin Early
      BY <2>1, <3>2 DEF EndingInv
    <3> QED
      BY <2>1, <2>3, <2>4, <3>1, <3>2, <3>3, <3>4 DEF EndingInv, Heard
  <2>7. CASE l \in {"succeeded", "failed"}
    <3>1. /\ ~NoEnd(pipe) /\ NoCandidate(pipe) /\ NoEnd(pipe') /\ NoCandidate(pipe')
      BY <2>1, <2>2, <2>7
    <3>2. heard \in {<<>>, <<"candidate">>} /\ ~Told /\ ~pump.terminal /\ pump'.terminal
      BY <2>3, <2>7, <3>1 DEF EndingInv, Told
    <3>3. l = "succeeded" => heard = <<"candidate">>
      BY <2>2, <3>1 DEF EndingInv
    <3>4. heard' = Append(heard, l)
      BY <2>1, <2>7
    <3>5. heard' \in {<<"failed">>, <<"candidate", "failed">>, <<"candidate", "succeeded">>}
      BY <2>2, <2>7, <3>2, <3>3, <3>4, OneWordMore
    <3>6. heard' \in Heard /\ Told'
      BY <3>5 DEF Heard, Told
    <3>7. ~Success(pipe')
      BY <3>1 DEF Success, NoEnd, EndAt
    <3>8. worker'.pc \notin Early \cup {"offered"}
      BY <2>1, <3>1 DEF EndingInv
    <3> QED
      BY <2>1, <2>3, <2>4, <3>1, <3>2, <3>6, <3>7, <3>8 DEF EndingInv
  <2> QED
    BY <2>2, <2>5, <2>6, <2>7 DEF Lines
<1>2. CASE Reap
  <2>1. /\ ~pump.done /\ pipe = <<>> /\ pipe' = pipe /\ worker' = worker
        /\ worker.pc = "ended" /\ pump' = [pump EXCEPT !.done = TRUE]
        /\ heard' = IF worker.rc # 0 /\ ~pump.terminal THEN Append(heard, "failed") ELSE heard
    BY <1>2 DEF Reap
  <2>2. /\ NoCandidate(pipe) /\ NoEnd(pipe) /\ ~Success(pipe)
        /\ NoCandidate(pipe') /\ NoEnd(pipe') /\ ~Success(pipe')
    BY <2>1 DEF NoCandidate, NoEnd, Success
  <2>3. /\ pump'.done = TRUE /\ pump' = [terminal |-> pump'.terminal, done |-> pump'.done]
        /\ pump'.terminal = pump.terminal
    BY <2>1 DEF EndingInv
  <2>4. heard' \in Heard /\ Told'
    <3>1. CASE pump.terminal
      BY <2>1, <3>1 DEF EndingInv, Told
    <3>2. CASE ~pump.terminal
      <4>1. worker.rc # 0 /\ heard' = Append(heard, "failed")
        BY <2>1, <2>2, <3>2 DEF EndingInv
      <4>2. heard \in {<<>>, <<"candidate">>}
        BY <2>1, <3>2 DEF EndingInv, Told
      <4>3. heard' \in {<<"failed">>, <<"candidate", "failed">>}
        BY <4>1, <4>2, OneWordMore DEF Lines
      <4> QED
        BY <4>3 DEF Heard, Told
    <3> QED
      BY <3>1, <3>2
  <2> QED
    BY <2>1, <2>2, <2>3, <2>4 DEF EndingInv, Early
<1> QED
  BY <1>1, <1>2

\* However a worker ends, killed at any step included, one end is told
\* (ProcessWorkerSupervisor._pump).
THEOREM OneEndIsTold == Spec => []OneEnding
<1>1. Init => EndingInv
  <2> SUFFICES ASSUME Init
               PROVE  EndingInv
    OBVIOUS
  <2>1. CookieInv
    BY InitCookie
  <2>2. WorkerTypes
    BY InitWorker
  <2>3. /\ pipe = <<>> /\ heard = <<>> /\ pump = [terminal |-> FALSE, done |-> FALSE]
        /\ worker.pc = "none"
    BY DEF Init, NoWorker
  <2>4. Ordered(<<>>) /\ NoCandidate(<<>>) /\ NoEnd(<<>>) /\ ~Success(<<>>)
    BY DEF Ordered, NoCandidate, NoEnd, Success
  <2>5. ~Told
    BY <2>3 DEF Told
  <2> QED
    BY <2>1, <2>2, <2>3, <2>4, <2>5 DEF EndingInv, Early, Heard
<1>2. EndingInv /\ [Next]_vars => EndingInv'
  <2> SUFFICES ASSUME EndingInv, [Next]_vars
               PROVE  EndingInv'
    OBVIOUS
  <2>1. CASE UNCHANGED vars
    BY <2>1 DEF vars, EndingInv, CookieInv, LoginTypes, CookieFileIsOperators, WorkerTypes, Told
  <2>2. CASE Next
    <3>1. CookieInv' /\ WorkerTypes'
      BY <2>2, TypesKept DEF EndingInv
    <3>2. CASE WorkerStep
      BY <3>1, <3>2, WorkerStepTells
    <3>3. CASE Take \/ Reap
      BY <3>1, <3>3, PumpTells
    <3>4. CASE ~WorkerStep /\ ~(Take \/ Reap)
      <4>1. UNCHANGED <<worker, attempts, source, pipe, pump, heard>>
        BY <2>2, <3>4 DEF Next, Receive, CheckStep, ResolveFirst, ResolveHop, FallBack, Allow,
           Redirect, Deny, RaiseUnresolved, Accept, Answer, LoginStep, LogIn, Confirm, Reopen,
           Export, WriteTemporary, Replace, GiveUp, Tool, working
      <4> QED
        BY <3>1, <4>1 DEF EndingInv, Told
    <3> QED
      BY <3>2, <3>3, <3>4
  <2> QED
    BY <2>1, <2>2
<1>3. EndingInv => OneEnding
  <2> SUFFICES ASSUME EndingInv
               PROVE  OneEnding
    OBVIOUS
  <2> DEFINE ends == {i \in DOMAIN heard : heard[i] # "candidate"}
  <2>1. Cardinality({}) = 0 /\ Cardinality({1}) = 1 /\ Cardinality({2}) = 1
    BY FS_EmptySet, FS_Singleton
  <2>2. CASE heard \in {<<>>, <<"candidate">>}
    <3>1. ends = {} /\ ~pump.done
      BY <2>2 DEF EndingInv, Told
    <3> QED
      BY <2>1, <3>1 DEF OneEnding
  <2>3. CASE heard = <<"failed">>
    <3>1. ends = {1} /\ heard[1] = "failed"
      BY <2>3
    <3> QED
      BY <2>1, <3>1 DEF OneEnding
  <2>4. CASE heard \in {<<"candidate", "failed">>, <<"candidate", "succeeded">>}
    <3>1. ends = {2} /\ heard[1] = "candidate"
      BY <2>4
    <3> QED
      BY <2>1, <3>1 DEF OneEnding
  <2> QED
    BY <2>2, <2>3, <2>4 DEF EndingInv, Heard
<1> QED
  BY <1>1, <1>2, <1>3, PTL DEF Spec

------------------------------------------------------------------------------
(* The file that is offered.                                                *)

WorkerShape ==
  worker = [pc |-> worker.pc, jar |-> worker.jar, left |-> worker.left,
            files |-> worker.files, out |-> worker.out, rc |-> worker.rc]

\* A file that is what the options of the job allow.
Suits(f) ==
  IF Mode = "ytmp3" THEN f.ext = "mp3" /\ f.bitrate \in {Preset} \cup Copied
  ELSE Ceiling(Preset) = Unknown \/ f.height <= Ceiling(Preset)

\* Files come from an accepted download only, and suit it; one is offered that was looked
\* into.
FileInv ==
  /\ CommandInv
  /\ WorkerShape
  /\ worker.pc # "none" => IsDownload(command.read)
  /\ worker.pc = "none" => worker.files = {} /\ worker.out = {}
  /\ \A f \in worker.files : Suits(f)
  /\ \A f \in worker.out : Suits(f)
  /\ worker.pc = "offered" /\ Mode = "ytdl" => \A f \in worker.out : Shown(f)

\* No alternative of the format string goes beyond the quality that was asked for.
LEMMA AlternativesArePreset ==
  ASSUME NEW preset, NEW i \in DOMAIN Alternatives(preset)
  PROVE  Alternatives(preset)[i].preset = preset
<1> DEFINE A(merged, mp4) == [merged |-> merged, mp4 |-> mp4, preset |-> preset]
           S == [merged : BOOLEAN, mp4 : BOOLEAN, preset : {preset}]
           a == A(TRUE, TRUE)
           b == A(FALSE, TRUE)
           c == A(TRUE, FALSE)
           d == A(FALSE, FALSE)
           last == IF preset = "best" THEN <<d>> ELSE <<c, d>>
<1>1. a \in S /\ b \in S /\ c \in S /\ d \in S
  OBVIOUS
<1>2. Alternatives(preset) = <<a, b>> \o last
  BY Zenon DEF Alternatives, Alternative
<1>3. \A s \in S : s.preset = preset
  OBVIOUS
<1> HIDE DEF S, a, b, c, d
<1>a. <<a, b>> \in Seq(S) /\ last \in Seq(S)
  BY <1>1
<1> HIDE DEF last
<1>4. Alternatives(preset) \in Seq(S)
  BY <1>a, <1>2, ConcatProperties
<1>5. Alternatives(preset)[i] \in S
  BY <1>4
<1> QED
  BY <1>3, <1>5

\* What fits an alternative is within its quality.
LEMMA FittingIsWithin ==
  ASSUME NEW formats, NEW alt, NEW f \in Fitting(formats, alt)
  PROVE  Ceiling(alt.preset) = Unknown \/ f.height <= Ceiling(alt.preset)
<1> DEFINE usable == {g \in formats : alt.mp4 => g.mp4}
           within == {g \in usable : Within(g, alt.preset)}
           seen   == {g \in within : g.pictures}
           whole  == IF \/ \A g \in formats : ~g.pictures
                        \/ \A g \in formats : ~g.sound
                     THEN within ELSE {g \in seen : g.sound}
<1>1. \E g \in within : f.height = g.height
  <2>1. Highest(whole) \subseteq within /\ Highest(seen) \subseteq within
    BY DEF Highest
  <2>2. CASE ~alt.merged
    <3>1. f \in {[ext |-> IF g.mp4 THEN "mp4" ELSE "other", pictures |-> g.pictures,
                  height |-> g.height, bitrate |-> Omitted] : g \in Highest(whole)}
      BY <2>2 DEF Fitting
    <3> HIDE DEF within, whole
    <3> QED
      BY <2>1, <3>1
  <2>3. CASE alt.merged
    <3>1. f \in {[ext |-> "mp4", pictures |-> TRUE, height |-> g.height, bitrate |-> Omitted]
                   : g \in Highest(seen)}
      BY <2>3 DEF Fitting
    <3> HIDE DEF within, seen
    <3> QED
      BY <2>1, <3>1
  <2> QED
    BY <2>2, <2>3
<1> QED
  BY <1>1 DEF Within

\* So whatever yt-dlp and ffmpeg leave of an entry suits the job.
LEMMA ResultsSuit ==
  ASSUME NEW e, Given(e), NEW f \in Results(e.formats)
  PROVE  Suits(f)
<1> DEFINE formats == e.formats
           alts == Alternatives(Preset)
           good == {i \in DOMAIN alts : Fitting(formats, alts[i]) # {}}
<1>1. CASE Mode = "ytmp3"
  <2>1. PICK g \in formats : g.sound /\ f = Extracted(g)
    BY <1>1 DEF Results
  <2>2. f.ext = "mp3" /\ f.bitrate = IF g.mp3 = Omitted THEN Preset ELSE g.mp3
    BY <2>1 DEF Extracted
  <2>3. g \in UNION {source.entries[i].formats : i \in DOMAIN source.entries}
    BY <2>1 DEF Given
  <2>4. g.mp3 # Omitted => g.mp3 \in Copied
    BY <2>1, <2>3, Zenon DEF Copied
  <2> QED
    BY <1>1, <2>2, <2>4 DEF Suits
<1>2. CASE Mode # "ytmp3"
  <2>1. PICK i \in DOMAIN alts : f \in Fitting(formats, alts[i])
    BY <1>2 DEF Results
  <2>2. alts[i].preset = Preset
    BY AlternativesArePreset
  <2>3. Ceiling(alts[i].preset) = Unknown \/ f.height <= Ceiling(alts[i].preset)
    BY <2>1, FittingIsWithin
  <2> QED
    BY <1>2, <2>2, <2>3 DEF Suits
<1> QED
  BY <1>1, <1>2

\* A step that moves the worker on, with the files it has.
LEMMA FilesKept ==
  ASSUME FileInv, CommandInv', WorkerShape', UNCHANGED <<command, source>>, worker.pc # "none",
         worker'.files = worker.files, worker'.pc # "none",
         worker'.out = worker.out \/ \E f \in worker.files : worker'.out = {f},
         worker'.pc = "offered" /\ Mode = "ytdl" => \A f \in worker'.out : Shown(f)
  PROVE  FileInv'
<1>1. (\A f : Suits(f)' <=> Suits(f)) /\ Mode' = Mode
  BY DEF Suits, Mode, Preset, Copied
<1>2. \A f \in worker'.out : Suits(f)
  BY DEF FileInv
<1>3. (\A f \in worker.files : Suits(f))' /\ (\A f \in worker.out : Suits(f))'
  BY <1>1, <1>2 DEF FileInv, Suits, Mode, Preset, Copied
<1> QED
  BY <1>1, <1>3 DEF FileInv

\* No step of the worker makes or offers a file that does not suit the job.
LEMMA WorkerKeepsFiles ==
  ASSUME FileInv, SessionInv, WorkerStep, CommandInv'
  PROVE  FileInv'
<1>0. command' = command /\ source' = source
  BY DEF WorkerStep, Spawn, Fetch, AttemptFails, Validate, OpenSession, Choose,
         ProbeFails, Offer, Succeed, Exit, Kill
<1>1. CASE Spawn
  <2>1. /\ worker' = [pc |-> "download", jar |-> worker.jar, left |-> Entries,
                      files |-> worker.files, out |-> worker.out, rc |-> worker.rc]
        /\ worker.files = {} /\ worker.out = {} /\ command.answer = "accepted"
    BY <1>1 DEF Spawn, FileInv, WorkerShape
  <2>2. IsDownload(command.read)
    BY <2>1 DEF FileInv, CommandInv
  <2>3. /\ worker'.pc = "download" /\ worker'.files = {} /\ worker'.out = {} /\ WorkerShape'
        /\ IsDownload(command'.read)
    BY <1>0, <2>1, <2>2 DEF WorkerShape
  <2> QED
    BY <2>3 DEF FileInv
<1>2. CASE Fetch
  <2>1. PICK f \in Results(Head(worker.left).formats) :
          worker' = [worker EXCEPT !.files = @ \cup {f}, !.left = Tail(@)]
    BY <1>2 DEF Fetch
  <2>2. worker.pc = "download"
    BY <1>2 DEF Fetch
  <2>3. /\ worker'.pc = "download" /\ worker'.files = worker.files \cup {f}
        /\ worker'.out = worker.out /\ WorkerShape'
    BY <2>1, <2>2 DEF FileInv, WorkerShape
  <2>a. /\ worker.left \in Seq(EntryType) /\ worker.left # <<>>
        /\ \A i \in DOMAIN worker.left : Given(worker.left[i])
    BY <1>2 DEF SessionInv, WorkerTypes, Fetch
  <2>b. Given(Head(worker.left))
    BY <2>a
  <2>4. IsDownload(command.read) /\ Suits(f)
    BY <2>1, <2>2, <2>b, ResultsSuit DEF FileInv
  <2>5. (\A g \in worker.files : Suits(g))' /\ (\A g \in worker.out : Suits(g))'
    BY <1>0, <2>3, <2>4 DEF FileInv, Suits, Mode, Preset, Copied
  <2> QED
    BY <1>0, <2>3, <2>4, <2>5 DEF FileInv
<1>3. ASSUME NEW pc \in {"validate", "session", "download", "exit", "ended"}, worker.pc # "none",
             NEW jar, NEW left, NEW rc,
             worker' = [pc |-> pc, jar |-> jar, left |-> left, files |-> worker.files,
                        out |-> worker.out, rc |-> rc]
      PROVE  FileInv'
  <2>1. /\ worker'.files = worker.files /\ worker'.out = worker.out /\ worker'.pc = pc
        /\ WorkerShape'
    BY <1>3 DEF WorkerShape
  <2> QED
    BY <1>0, <1>3, <2>1, FilesKept
<1>a. worker = [pc |-> worker.pc, jar |-> worker.jar, left |-> worker.left,
                files |-> worker.files, out |-> worker.out, rc |-> worker.rc]
  BY DEF FileInv, WorkerShape
<1>b. CASE AttemptFails
  <2>1. \/ worker' = [worker EXCEPT !.pc = "validate"]
        \/ worker' = [worker EXCEPT !.pc = "exit", !.rc = 1]
    BY <1>b DEF AttemptFails, Failing
  <2>2. worker.pc = "download"
    BY <1>b DEF AttemptFails
  <2> QED
    BY <1>3, <1>a, <2>1, <2>2
<1>c. CASE Validate
  <2>1. \/ worker' = [worker EXCEPT !.pc = "session"]
        \/ worker' = [worker EXCEPT !.pc = "exit", !.rc = 1]
    BY <1>c DEF Validate, Failing
  <2>2. worker.pc = "validate"
    BY <1>c DEF Validate
  <2> QED
    BY <1>3, <1>a, <2>1, <2>2
<1>d. CASE OpenSession
  <2>1. /\ worker' = [worker EXCEPT !.pc = "download", !.jar = file.gen, !.left = Entries]
        /\ worker.pc = "session"
    BY <1>d DEF OpenSession
  <2> QED
    BY <1>3, <1>a, <2>1
<1>e. CASE ProbeFails
  <2>1. worker' = [worker EXCEPT !.pc = "exit", !.rc = 1] /\ worker.pc = "probe"
    BY <1>e DEF ProbeFails, Failing
  <2> QED
    BY <1>3, <1>a, <2>1
<1>f. CASE Succeed
  <2>1. worker' = [worker EXCEPT !.pc = "exit"] /\ worker.pc = "offered"
    BY <1>f DEF Succeed
  <2> QED
    BY <1>3, <1>a, <2>1
<1>g. CASE Exit
  <2>1. worker' = [worker EXCEPT !.pc = "ended"] /\ worker.pc = "exit"
    BY <1>g DEF Exit
  <2> QED
    BY <1>3, <1>a, <2>1
<1>h. CASE Kill
  <2>1. worker' = [worker EXCEPT !.pc = "ended", !.rc = -9] /\ worker.pc # "none"
    BY <1>h DEF Kill
  <2> QED
    BY <1>3, <1>a, <2>1
<1>4. CASE Choose
  <2>1. worker.pc = "download"
    BY <1>4 DEF Choose
  <2>2. \/ worker' = [worker EXCEPT !.pc = "exit", !.rc = 1]
        \/ \E f \in worker.files : worker' = [worker EXCEPT !.pc = "probe", !.out = {f}]
    BY <1>4 DEF Choose, Failing
  <2>3. /\ worker'.files = worker.files /\ worker'.pc \in {"exit", "probe"} /\ WorkerShape'
        /\ worker'.out = worker.out \/ \E f \in worker.files : worker'.out = {f}
    BY <2>2 DEF FileInv, WorkerShape
  <2> QED
    BY <1>0, <2>1, <2>3, FilesKept
<1>5. CASE Offer
  <2>1. /\ worker.pc = "probe" /\ worker' = [worker EXCEPT !.pc = "offered"]
        /\ \A f \in worker.out : Mode = "ytdl" => Shown(f)
    BY <1>5 DEF Offer
  <2>2. /\ worker'.files = worker.files /\ worker'.out = worker.out /\ worker'.pc = "offered"
        /\ WorkerShape'
    BY <2>1 DEF FileInv, WorkerShape
  <2> QED
    BY <1>0, <2>1, <2>2, FilesKept
<1> QED
  BY <1>1, <1>2, <1>4, <1>5, <1>b, <1>c, <1>d, <1>e, <1>f, <1>g, <1>h DEF WorkerStep

\* What is offered suits the command as it was meant, whatever the source has and however
\* often the worker starts over (build_format_selector, media_worker, probe_media).
THEOREM FilesAreAsAsked == Spec => []FileIsAsAsked
<1>1. Init => FileInv
  <2> SUFFICES ASSUME Init
               PROVE  FileInv
    OBVIOUS
  <2>1. worker = [pc |-> "none", jar |-> NoJar, left |-> <<>>, files |-> {}, out |-> {}, rc |-> 0]
    BY DEF Init, NoWorker
  <2>2. /\ worker.pc = "none" /\ worker.files = {} /\ worker.out = {} /\ WorkerShape
    BY <2>1 DEF WorkerShape
  <2> QED
    BY <2>2, InitCommand DEF FileInv
<1>2. FileInv /\ SessionInv /\ [Next]_vars => FileInv'
  <2> SUFFICES ASSUME FileInv, SessionInv, [Next]_vars
               PROVE  FileInv'
    OBVIOUS
  <2>0. CommandInv'
    BY CommandKept DEF FileInv
  <2>1. CASE WorkerStep
    BY <2>0, <2>1, WorkerKeepsFiles
  <2>2. CASE \E meant \in Intents, platform \in PlatformIds, more \in BOOLEAN :
               Receive(meant, platform, more)
    <3>0. PICK meant \in Intents, platform \in PlatformIds, more \in BOOLEAN :
            Receive(meant, platform, more)
      BY <2>2
    <3>a. command.read = Rejected
      BY <3>0, ReceiveKeeps DEF FileInv
    <3>1. command.read = Rejected /\ worker' = worker
      BY <3>0, <3>a DEF Receive, working
    <3>2. worker.pc = "none" /\ worker.files = {} /\ worker.out = {}
      BY <3>1 DEF FileInv, IsDownload, Rejected, Args
    <3> QED
      BY <2>0, <3>1, <3>2 DEF FileInv, WorkerShape
  <2>3. CASE ~WorkerStep /\ ~\E meant \in Intents, platform \in PlatformIds, more \in BOOLEAN :
               Receive(meant, platform, more)
    <3>1. worker' = worker /\ source' = source /\ command'.read = command.read
      <4>1. CASE UNCHANGED vars
        BY <4>1 DEF vars
      <4>2. CASE CheckStep
        BY <4>2 DEF CheckStep, ResolveFirst, ResolveHop, FallBack, Allow, Redirect, Deny,
                    RaiseUnresolved, Accept, Answer, working, FileInv, CommandInv, CommandShape
      <4>3. CASE Take \/ Reap \/ LoginStep
        BY <4>3 DEF Take, Reap, LoginStep, LogIn, Confirm, Reopen, Export, WriteTemporary,
                    Replace, GiveUp, Tool, working
      <4> QED
        BY <2>3, <4>1, <4>2, <4>3 DEF Next
    <3> QED
      BY <2>0, <3>1 DEF FileInv, WorkerShape, Suits, Mode, Preset, Copied
  <2> QED
    BY <2>1, <2>2, <2>3
<1>3. FileInv => FileIsAsAsked
  <2> SUFFICES ASSUME FileInv, worker.pc = "offered", NEW f \in worker.out
               PROVE  LET meant == command.meant IN
                      IF meant.command = "ytmp3"
                      THEN f.ext = "mp3" /\ f.bitrate \in {meant.args[2]} \cup Copied
                      ELSE /\ f.pictures \/ f.ext = "mp4"
                           /\ \/ Ceiling(meant.args[2]) = Unknown
                              \/ f.height <= Ceiling(meant.args[2])
    BY DEF FileIsAsAsked
  <2>1. IsDownload(command.read) /\ command.read = command.meant
    BY DEF FileInv, CommandInv
  <2>2. Suits(f) /\ (Mode = "ytdl" => Shown(f))
    BY DEF FileInv
  <2>3. Mode = command.meant.command /\ Preset = command.meant.args[2]
    BY <2>1 DEF Mode, Preset
  <2> QED
    BY <2>1, <2>2, <2>3 DEF Suits, Shown, IsDownload
<1> QED
  BY <1>1, <1>2, <1>3, SessionStays, PTL DEF Spec
====
