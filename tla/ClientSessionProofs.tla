------------------------ MODULE ClientSessionProofs ------------------------
(***************************************************************************)
(* Proofs about ClientSession, for any number of accounts, tokens and      *)
(* requests in flight and any limit: the session is whole, and nobody is   *)
(* shown an account after the limit.                                       *)
(*                                                                         *)
(* The argument: while a start of the application asks the server, it is   *)
(* alone (RestoreFits), so what it restores is what the device still       *)
(* holds; a sign-in is alone with the old answers (LoginFits).  All clocks *)
(* of the limit run at least as far as the person's absence (Ages), so     *)
(* that whichever of them is asked does not admit too late; and who is     *)
(* signed in after a long absence (StaleFits) is about to be signed out.   *)
(***************************************************************************)
EXTENDS ClientSession, TLAPS

Jobs ==
  {NoJob} \cup [kind : {"restore"}, token : Tokens, users : SUBSET Accounts]
          \cup [kind : {"login"}, who : Accounts]
          \cup [kind : {"fetch"}, token : Tokens, served : BOOLEAN]

Age == 0..Limit

Types ==
  /\ app \in {"off", "front", "back"}
  /\ user \in SUBSET Accounts /\ token \in Tokens \cup {None} /\ ending \in BOOLEAN
  /\ idle \in Age /\ quiet \in Age /\ seen \in Age \cup {None}
  /\ disk \in [users : SUBSET Accounts, token : Tokens \cup {None}, age : Age]
  /\ job \in [Slots -> Jobs]
  /\ owner \in [Tokens -> Accounts \cup {None}]
  /\ ended \in SUBSET Tokens
  /\ stale \in BOOLEAN /\ late \in BOOLEAN

\* Tokens in use were issued to somebody.
Owned ==
  /\ token # None => owner[token] # None
  /\ disk.token # None => owner[disk.token] # None
  /\ \A t \in ended : owner[t] # None
  /\ \A s \in Slots : job[s].kind = "fetch" => owner[job[s].token] # None

Off == app = "off" => /\ user = {} /\ token = None /\ ~ending /\ chores = {}
                      /\ \A s \in Slots : job[s] = NoJob

RestoreFits ==
  \A s \in Slots : job[s].kind = "restore" =>
    /\ user = {} /\ token = None /\ ~ending
    /\ job[s].token = disk.token /\ job[s].users = disk.users
    /\ \A r \in Slots \ {s} : job[r] = NoJob

LoginFits ==
  \A s \in Slots : job[s].kind = "login" =>
    /\ ~late => user = {}
    /\ \A r \in Slots \ {s} : job[r].kind \notin {"restore", "login"}

\* No clock lags behind the absence it measures.
Ages ==
  /\ app # "off" => idle >= quiet
  /\ disk.token # None => disk.age >= quiet
  /\ seen # None => seen >= quiet

EndingFits == ~late /\ ending => user = {}

StaleFits ==
  ~late /\ (user # {} \/ Busy("restore")) => ~stale \/ idle = Limit

IInv ==
  /\ Types /\ Owned /\ Off /\ RestoreFits /\ LoginFits
  /\ Ages /\ EndingFits /\ StaleFits /\ SessionWhole

-----------------------------------------------------------------------------
(* The records of the model.                                               *)

LEMMA IdleJob == NoJob \in Jobs /\ NoJob.kind = "none"
BY DEF NoJob, Jobs

LEMMA JobKinds ==
  ASSUME NEW j \in Jobs
  PROVE  /\ j.kind \in {"none", "restore", "login", "fetch"}
         /\ j.kind = "none" => j = NoJob
         /\ j.kind = "restore" => j.token \in Tokens /\ j.users \in SUBSET Accounts
         /\ j.kind = "login" => j.who \in Accounts
         /\ j.kind = "fetch" => j.token \in Tokens /\ j.served \in BOOLEAN
BY DEF Jobs, NoJob

LEMMA NothingStored ==
  /\ NoSession \in [users : SUBSET Accounts, token : Tokens \cup {None}, age : Age]
  /\ NoSession.users = {} /\ NoSession.token = None
BY DeviceAssumption DEF NoSession, Age

LEMMA Aging ==
  ASSUME NEW a \in Age, NEW b \in Age
  PROVE  Older(a) \in Age /\ Older(a) >= a /\ (a >= b => Older(a) >= Older(b))
BY DeviceAssumption DEF Older, Age

-----------------------------------------------------------------------------
(* Steps that leave the session and the requests as they are: only time,   *)
(* the clocks and what the server knows change.                            *)

Same ==
  /\ UNCHANGED <<user, token, ending, job, owner, ended, late>>
  /\ app' \in {"off", "front", "back"} /\ (app' = "off" <=> app = "off")
  /\ app = "off" => chores' = {}
  /\ disk' \in [users : SUBSET Accounts, token : Tokens \cup {None}, age : Age]
  /\ disk'.users = disk.users /\ disk'.token = disk.token

LEMMA ClockStep ==
  ASSUME IInv, Same, idle' \in Age, quiet' \in Age, seen' \in Age \cup {None},
         stale' \in BOOLEAN, Ages', StaleFits'
  PROVE  IInv'
<1>1. Types' BY DEF IInv, Types, Same
<1>2. Owned' /\ Off' BY DEF IInv, Types, Owned, Off, Same
<1>3. RestoreFits' /\ LoginFits' BY DEF IInv, RestoreFits, LoginFits, Same
<1>4. EndingFits' BY DEF IInv, EndingFits, Same
<1>5. SessionWhole'
  BY DEF IInv, SessionWhole, Whole, Busy, Same
<1> QED BY <1>1, <1>2, <1>3, <1>4, <1>5 DEF IInv

-----------------------------------------------------------------------------
(* Steps that end the session, whatever asked for it.                      *)

LEMMA EndStep ==
  ASSUME IInv, app # "off", app' \in {"front", "back"},
         user' = {}, token' = None, disk' = NoSession,
         ended' = ended \cup ({token} \ {None}),
         stale' = FALSE, late' = late, owner' = owner, ending' \in BOOLEAN,
         idle' \in Age, quiet' \in Age, seen' \in Age \cup {None}, Ages',
         \A s \in Slots : job[s].kind # "restore",
         job' \in [Slots -> Jobs],
         \A s \in Slots : job'[s] \in {job[s], NoJob}
  PROVE  IInv'
<1>1. Types' BY NothingStored DEF IInv, Types
<1>2. Owned' /\ Off'
  BY NothingStored, IdleJob DEF IInv, Types, Owned, Off
<1>3. RestoreFits' /\ LoginFits'
  BY IdleJob DEF IInv, RestoreFits, LoginFits
<1>4. EndingFits' BY DEF EndingFits
<1>5. StaleFits' BY IdleJob DEF StaleFits, Busy
<1>6. SessionWhole'
  BY NothingStored DEF SessionWhole, Whole
<1> QED BY <1>1, <1>2, <1>3, <1>4, <1>5, <1>6 DEF IInv

\* Somebody is signed in, or a screen asks: then no start is pending.
LEMMA NoRestore ==
  ASSUME IInv, user # {} \/ token # None \/ ending
               \/ \E r \in Slots : job[r].kind \notin {"none", "restore"}
  PROVE  \A s \in Slots : job[s].kind # "restore"
BY IdleJob DEF IInv, RestoreFits

\* Requests are in flight only while the application runs.
LEMMA Running ==
  ASSUME IInv, NEW s \in Slots, job[s].kind # "none"
  PROVE  app # "off"
BY IdleJob DEF IInv, Off

-----------------------------------------------------------------------------
(* Steps that only drop the answer to a sign-in or to a screen.            *)

LEMMA DropStep ==
  ASSUME IInv, NEW s \in Slots, job[s].kind \in {"login", "fetch"},
         job' = [job EXCEPT ![s] = NoJob],
         UNCHANGED <<app, memory, idle, disk, seen, chores, owner, quiet, stale,
                     ended, late>>
  PROVE  IInv'
<1>1. /\ job \in [Slots -> Jobs] /\ job'[s] = NoJob
      /\ \A r \in Slots \ {s} : job'[r] = job[r]
  BY DEF IInv, Types
<1>2. Types' BY IdleJob DEF IInv, Types, memory
<1>3. Owned' /\ Off' BY <1>1, IdleJob DEF IInv, Types, Owned, Off, memory
<1>4. RestoreFits' /\ LoginFits'
  BY <1>1, IdleJob DEF IInv, RestoreFits, LoginFits, memory
<1>5. Ages' /\ EndingFits' BY DEF IInv, Ages, EndingFits, memory
<1>6. Busy("restore")' <=> Busy("restore") BY <1>1, IdleJob DEF Busy
<1>7. StaleFits' BY <1>6 DEF IInv, StaleFits, memory
<1>8. SessionWhole' BY <1>6 DEF IInv, SessionWhole, Whole, memory
<1> QED BY <1>2, <1>3, <1>4, <1>5, <1>7, <1>8 DEF IInv

-----------------------------------------------------------------------------
(* The steps of the device, of the person and of time.                     *)

LEMMA InitHolds == Init => IInv
<1> SUFFICES ASSUME Init PROVE IInv
  OBVIOUS
<1>1. Types
  <2>1. job \in [Slots -> Jobs] /\ owner \in [Tokens -> Accounts \cup {None}]
    BY IdleJob DEF Init
  <2>2. 0 \in Age BY DeviceAssumption DEF Age
  <2> QED BY <2>1, <2>2, NothingStored DEF Init, Types
<1>2. Owned /\ Off BY NothingStored, IdleJob DEF Init, Owned, Off
<1>3. RestoreFits /\ LoginFits BY IdleJob DEF Init, RestoreFits, LoginFits
<1>4. Ages /\ EndingFits BY NothingStored DEF Init, Ages, EndingFits
<1>5. StaleFits BY DEF Init, StaleFits
<1>6. SessionWhole BY NothingStored DEF Init, SessionWhole, Whole
<1> QED BY <1>1, <1>2, <1>3, <1>4, <1>5, <1>6 DEF IInv

LEMMA StutterStep == IInv /\ UNCHANGED vars => IInv'
<1> SUFFICES ASSUME IInv, UNCHANGED vars PROVE IInv'
  OBVIOUS
<1>1. Same BY DEF Same, vars, memory, server, IInv, Types, Off
<1>2. Ages' /\ StaleFits' BY DEF vars, memory, IInv, Ages, StaleFits, Busy
<1> QED BY <1>1, <1>2, ClockStep DEF vars, memory, IInv, Types

\* Whoever is signed in has a token and is not being signed out.
LEMMA Active ==
  ASSUME IInv, ~late, user # {}
  PROVE  SignedIn /\ ~ending
BY DEF IInv, SessionWhole, Whole, EndingFits, SignedIn

LEMMA TouchStep == IInv /\ Touch => IInv'
<1> SUFFICES ASSUME IInv, Touch PROVE IInv'
  OBVIOUS
<1>1. Same BY DEF Touch, Same, memory, server, IInv, Types
<1>2. idle' = 0 /\ quiet' = 0 /\ seen' \in {0, seen}
      /\ disk' = disk /\ stale' = stale /\ late' = late /\ job' = job
  BY DEF Touch, Recorded
<1>3. 0 \in Age BY DeviceAssumption DEF Age
<1>4. Ages' BY <1>2, DeviceAssumption DEF IInv, Types, Ages, Age
<1>5. ~late => ~stale
  <2> SUFFICES ASSUME ~late, stale PROVE FALSE
    OBVIOUS
  <2>1. idle = Limit BY DEF IInv, StaleFits, Touch
  <2>2. SignedIn /\ ~ending BY Active DEF Touch
  <2> QED BY <2>1, <2>2, DeviceAssumption DEF Touch, TimerDue
<1>6. StaleFits' BY <1>2, <1>5 DEF StaleFits
<1> QED BY <1>1, <1>2, <1>3, <1>4, <1>6, ClockStep DEF IInv, Types

LEMMA BackgroundStep == IInv /\ Background => IInv'
<1> SUFFICES ASSUME IInv, Background PROVE IInv'
  OBVIOUS
<1>1. Same BY DEF Background, Same, memory, server, IInv, Types
<1>2. Ages' BY DEF Background, IInv, Types, Ages, Age
<1>3. StaleFits' BY DEF Background, memory, IInv, StaleFits, Busy
<1> QED BY <1>1, <1>2, <1>3, ClockStep DEF Background, memory, IInv, Types

LEMMA ChoreStep == IInv /\ Chore => IInv'
<1> SUFFICES ASSUME IInv, Chore PROVE IInv'
  OBVIOUS
<1>1. /\ UNCHANGED <<app, memory, idle, disk, job, owner, quiet, stale, ended, late>>
      /\ seen' \in {None, idle} /\ chores # {}
  BY DEF Chore
<1>2. app # "off" BY <1>1 DEF IInv, Off
<1>3. Same BY <1>1, <1>2 DEF Same, memory, IInv, Types
<1>4. Ages' BY <1>1, <1>2, DeviceAssumption DEF IInv, Types, Ages, Age
<1>5. StaleFits' BY <1>1 DEF memory, IInv, StaleFits, Busy
<1> QED BY <1>1, <1>3, <1>4, <1>5, ClockStep DEF IInv, Types

LEMMA TickStep == IInv /\ Tick => IInv'
<1> SUFFICES ASSUME IInv, Tick PROVE IInv'
  OBVIOUS
<1>1. /\ idle' \in Age /\ quiet' \in Age /\ disk.age \in Age
      /\ seen' \in Age \cup {None} /\ (seen = None => seen' = None)
      /\ disk' = [disk EXCEPT !.age = Older(disk.age)]
      /\ Older(disk.age) \in Age
  BY Aging DEF Tick, IInv, Types, Older
<1>2. Same
  BY <1>1 DEF Tick, Same, memory, server, IInv, Types
<1>3. /\ idle >= quiet => idle' >= quiet'
      /\ disk.age >= quiet => Older(disk.age) >= quiet'
      /\ seen # None /\ seen >= quiet => seen' >= quiet'
  BY Aging DEF Tick, IInv, Types
<1>4. Ages'
  <2>1. disk'.age = Older(disk.age) /\ disk'.token = disk.token
    BY <1>1 DEF IInv, Types
  <2> QED BY <1>1, <1>3, <2>1 DEF Tick, memory, IInv, Ages
<1>5. idle = Limit => idle' = Limit BY DEF Tick, Older
<1>6. StaleFits' BY <1>5 DEF Tick, memory, IInv, StaleFits, Busy
<1> QED BY <1>1, <1>2, <1>4, <1>6, ClockStep DEF Tick, memory, IInv, Types

LEMMA KillStep == IInv /\ Kill => IInv'
<1> SUFFICES ASSUME IInv, Kill PROVE IInv'
  OBVIOUS
<1>1. \A s \in Slots : job'[s] = NoJob BY DEF Kill
<1>2. Types'
  <2>1. job' \in [Slots -> Jobs] BY IdleJob DEF Kill
  <2>2. 0 \in Age BY DeviceAssumption DEF Age
  <2> QED BY <2>1, <2>2 DEF Kill, server, IInv, Types
<1>3. Owned' /\ Off' BY <1>1, IdleJob DEF Kill, server, IInv, Owned, Off
<1>4. RestoreFits' /\ LoginFits'
  BY <1>1, IdleJob DEF Kill, RestoreFits, LoginFits
<1>5. Ages' /\ EndingFits' BY DEF Kill, IInv, Ages, EndingFits
<1>6. StaleFits' BY <1>1, IdleJob DEF Kill, StaleFits, Busy
<1>7. SessionWhole' BY DEF Kill, server, IInv, SessionWhole, Whole
<1> QED BY <1>2, <1>3, <1>4, <1>5, <1>6, <1>7 DEF IInv

LEMMA ServerStep ==
  ASSUME IInv, NEW t \in Tokens, SignOutArrives(t) \/ SignOutLost(t) \/ Revoke(t)
  PROVE  IInv'
<1>1. UNCHANGED <<app, memory, idle, disk, seen, job, chores, owner, quiet, stale,
                  ended, late>>
  BY DEF SignOutArrives, SignOutLost, Revoke
<1>2. Same BY <1>1 DEF Same, memory, IInv, Types, Off
<1>3. Ages' /\ StaleFits' BY <1>1 DEF memory, IInv, Ages, StaleFits, Busy
<1> QED BY <1>1, <1>2, <1>3, ClockStep DEF IInv, Types

-----------------------------------------------------------------------------
(* Starting the application, signing in, and the screens' requests.        *)

LEMMA OpenStep == IInv /\ Open => IInv'
<1> SUFFICES ASSUME IInv, Open PROVE IInv'
  OBVIOUS
<1>1. /\ user = {} /\ token = None /\ ~ending
      /\ \A r \in Slots : job[r] = NoJob
  BY DEF Open, IInv, Off
<1>2. 0 \in Age BY DeviceAssumption DEF Age
<1>3. CASE job' = job /\ disk' \in {disk, NoSession} /\ disk'.token = None
           /\ seen' \in {seen, None}
  <2>1. Types' BY <1>2, <1>3, NothingStored DEF Open, memory, server, IInv, Types
  <2>2. Owned' /\ Off' BY <1>1, <1>3, IdleJob DEF Open, memory, server, IInv, Owned, Off
  <2>3. RestoreFits' /\ LoginFits'
    BY <1>1, <1>3, IdleJob DEF RestoreFits, LoginFits
  <2>4. Ages' /\ EndingFits'
    BY <1>1, <1>3, DeviceAssumption DEF Open, memory, IInv, Types, Age, Ages, EndingFits
  <2>5. StaleFits' BY <1>1, <1>3, IdleJob DEF Open, memory, StaleFits, Busy
  <2>6. SessionWhole'
    BY <1>1, <1>3, NothingStored DEF Open, memory, server, IInv, SessionWhole, Whole
  <2> QED BY <2>1, <2>2, <2>3, <2>4, <2>5, <2>6 DEF IInv
<1>4. CASE /\ disk.token # None /\ Restorable /\ UNCHANGED <<disk, seen>>
           /\ \E s \in Slots : job' = [job EXCEPT ![s] =
                [kind |-> "restore", token |-> disk.token, users |-> disk.users]]
  <2> DEFINE q == [kind |-> "restore", token |-> disk.token, users |-> disk.users]
  <2>1. PICK s \in Slots : job' = [job EXCEPT ![s] = q] BY <1>4
  <2>2. q \in Jobs BY <1>4 DEF Jobs, IInv, Types
  <2>3. job' \in [Slots -> Jobs] /\ job'[s] = q /\ \A r \in Slots \ {s} : job'[r] = NoJob
    BY <1>1, <2>1, <2>2 DEF IInv, Types
  <2>4. q.kind = "restore" /\ q.token = disk.token /\ q.users = disk.users
    OBVIOUS
  <2> HIDE DEF q
  <2>5. Types' BY <1>2, <1>4, <2>3 DEF Open, memory, server, IInv, Types
  <2>6. Owned' /\ Off'
    BY <1>1, <1>4, <2>3, <2>4, IdleJob DEF Open, memory, server, IInv, Owned, Off
  <2>7. RestoreFits' /\ LoginFits'
    BY <1>1, <1>4, <2>3, <2>4, IdleJob DEF Open, memory, RestoreFits, LoginFits
  <2>8. Ages' /\ EndingFits'
    BY <1>1, <1>4, DeviceAssumption DEF Open, memory, IInv, Types, Age, Ages, EndingFits
  <2>9. quiet < Limit
    BY <1>4, DeviceAssumption DEF Restorable, Elapsed, IInv, Types, Age, Ages
  <2>10. StaleFits'
    BY <2>9, DeviceAssumption DEF Open, StaleFits, IInv, Types, Age
  <2>11. Busy("restore")' BY <2>3, <2>4 DEF Busy
  <2>12. SessionWhole'
    BY <1>1, <1>4, <2>11 DEF Open, memory, server, IInv, SessionWhole, Whole
  <2> QED BY <2>5, <2>6, <2>7, <2>8, <2>10, <2>12 DEF IInv
<1> QED BY <1>3, <1>4, NothingStored DEF Open

LEMMA StartLoginStep ==
  ASSUME IInv, NEW s \in Slots, NEW a \in Accounts, StartLogin(s, a)
  PROVE  IInv'
<1> DEFINE q == [kind |-> "login", who |-> a]
<1>1. q \in Jobs /\ q.kind = "login" BY DEF Jobs
<1>2. job' \in [Slots -> Jobs] /\ job'[s] = q /\ \A r \in Slots \ {s} : job'[r] = job[r]
  BY <1>1 DEF StartLogin, IInv, Types
<1> HIDE DEF q
<1>3. \A r \in Slots : job[r].kind \notin {"restore", "login"}
  BY DEF StartLogin, Busy
<1>4. Types' BY <1>2, DeviceAssumption DEF StartLogin, memory, server, IInv, Types, Age
<1>5. Owned' /\ Off' BY <1>1, <1>2 DEF StartLogin, memory, server, IInv, Owned, Off
<1>6. RestoreFits' BY <1>1, <1>2, <1>3 DEF RestoreFits
<1>7. LoginFits' BY <1>1, <1>2, <1>3 DEF StartLogin, memory, LoginFits
<1>8. Ages' /\ EndingFits'
  BY DeviceAssumption DEF StartLogin, memory, IInv, Types, Age, Ages, EndingFits
<1>9. ~Busy("restore")' BY <1>1, <1>2, <1>3 DEF Busy
<1>10. StaleFits' BY <1>9 DEF StartLogin, memory, StaleFits
<1>11. SessionWhole'
  BY <1>3, <1>9 DEF StartLogin, memory, server, IInv, SessionWhole, Whole
<1> QED BY <1>4, <1>5, <1>6, <1>7, <1>8, <1>10, <1>11 DEF IInv

LEMMA StartFetchStep ==
  ASSUME IInv, NEW s \in Slots, StartFetch(s)
  PROVE  IInv'
<1> DEFINE q == [kind |-> "fetch", token |-> token, served |-> token \notin revoked]
<1>1. q \in Jobs /\ q.kind = "fetch" /\ q.token = token
  BY DEF Jobs, StartFetch, SignedIn, IInv, Types
<1>2. job' \in [Slots -> Jobs] /\ job'[s] = q /\ \A r \in Slots \ {s} : job'[r] = job[r]
  BY <1>1 DEF StartFetch, IInv, Types
<1> HIDE DEF q
<1>3. \A r \in Slots : job[r].kind # "restore"
  BY NoRestore DEF StartFetch, SignedIn
<1>4. Types' BY <1>2 DEF StartFetch, memory, server, IInv, Types
<1>5. Owned' /\ Off'
  BY <1>1, <1>2 DEF StartFetch, SignedIn, memory, server, IInv, Owned, Off
<1>6. RestoreFits' BY <1>1, <1>2, <1>3 DEF RestoreFits
<1>7. LoginFits' BY <1>1, <1>2 DEF StartFetch, memory, IInv, LoginFits
<1>8. Ages' /\ EndingFits' BY DEF StartFetch, memory, IInv, Ages, EndingFits
<1>9. ~Busy("restore")' /\ ~Busy("restore") BY <1>1, <1>2, <1>3 DEF Busy
<1>10. StaleFits' BY <1>9 DEF StartFetch, memory, IInv, StaleFits
<1>11. SessionWhole'
  BY <1>9 DEF StartFetch, memory, server, IInv, SessionWhole, Whole
<1> QED BY <1>4, <1>5, <1>6, <1>7, <1>8, <1>10, <1>11 DEF IInv

\* The account a token in use was issued to.
LEMMA OwnerIsAccount ==
  ASSUME IInv, NEW t \in Tokens, owner[t] # None
  PROVE  owner[t] \in Accounts
BY DEF IInv, Types

\* What a start restores is what the device holds, and it is alone.
LEMMA RestoreStep ==
  ASSUME IInv, NEW s \in Slots, RestoreAnswer(s)
  PROVE  IInv'
<1> DEFINE t == job[s].token
<1>1. /\ user = {} /\ token = None /\ ~ending
      /\ t = disk.token /\ job[s].users = disk.users
      /\ \A r \in Slots \ {s} : job[r] = NoJob
  BY DEF RestoreAnswer, IInv, RestoreFits
<1>2. t \in Tokens /\ t # None /\ job[s].users \in SUBSET Accounts
  BY JobKinds, DeviceAssumption DEF RestoreAnswer, IInv, Types
<1>3. owner[t] # None /\ owner[t] \in Accounts
  BY <1>1, <1>2, OwnerIsAccount DEF IInv, Owned
<1>4. app # "off" BY Running DEF RestoreAnswer
<1>5. job' \in [Slots -> Jobs] /\ \A r \in Slots : job'[r] = NoJob
  BY <1>1, IdleJob DEF RestoreAnswer, IInv, Types
<1>6. ~Busy("restore")' /\ Busy("restore")
  BY <1>5, IdleJob DEF Busy, RestoreAnswer
<1>7. UNCHANGED <<app, idle, chores, owner, quiet, stale, ended, late>>
  BY DEF RestoreAnswer, server
<1>8. RestoreFits' /\ LoginFits' BY <1>5, IdleJob DEF RestoreFits, LoginFits
<1>9. ~late => ~stale \/ idle = Limit BY <1>6 DEF IInv, StaleFits
<1>10. StaleFits' BY <1>7, <1>9 DEF StaleFits
<1>11. CASE /\ user' \in {disk.users, disk.users \cup {owner[t]}}
            /\ token' = t /\ ending' = FALSE /\ seen' \in {idle, seen}
            /\ disk' = disk
  <2>1. Types' BY <1>2, <1>3, <1>5, <1>7, <1>11 DEF IInv, Types
  <2>2. Owned' /\ Off'
    BY <1>1, <1>3, <1>4, <1>5, <1>7, <1>11, IdleJob DEF IInv, Owned, Off
  <2>3. Ages' /\ EndingFits'
    BY <1>4, <1>7, <1>11 DEF IInv, Ages, EndingFits
  <2>4. SessionWhole'
    BY <1>1, <1>2, <1>7, <1>11 DEF IInv, SessionWhole, Whole
  <2> QED BY <1>8, <1>10, <2>1, <2>2, <2>3, <2>4 DEF IInv
<1>12. CASE /\ user' = user /\ token' = token /\ ending' = ending
            /\ seen' \in {None, seen} /\ disk' = NoSession
  <2>1. Types' BY <1>5, <1>7, <1>12, NothingStored DEF IInv, Types
  <2>2. Owned' /\ Off'
    BY <1>1, <1>4, <1>5, <1>7, <1>12, IdleJob, NothingStored DEF IInv, Owned, Off
  <2>3. Ages' /\ EndingFits'
    BY <1>1, <1>4, <1>7, <1>12, NothingStored DEF IInv, Ages, EndingFits
  <2>4. SessionWhole'
    BY <1>1, <1>7, <1>12, NothingStored DEF SessionWhole, Whole
  <2> QED BY <1>8, <1>10, <2>1, <2>2, <2>3, <2>4 DEF IInv
<1> QED
  <2>1. \/ /\ user' = job[s].users \cup {owner[t]} /\ token' = t /\ ending' = FALSE
           /\ seen' = idle /\ UNCHANGED disk
        \/ /\ user' = job[s].users /\ token' = t
           /\ ending' = ending /\ seen' = seen /\ disk' = disk
        \/ /\ disk' = NoSession /\ seen' \in {None, seen}
           /\ user' = user /\ token' = token /\ ending' = ending
    BY DEF RestoreAnswer, memory
  <2>2. ending = FALSE BY <1>1 DEF IInv, Types
  <2> QED BY <1>1, <1>11, <1>12, <2>1, <2>2

LEMMA LoginStep ==
  ASSUME IInv, NEW s \in Slots, LoginAnswer(s)
  PROVE  IInv'
<1>1. PICK t \in Tokens :
        /\ owner[t] = None /\ owner' = [owner EXCEPT ![t] = job[s].who]
        /\ user' = {job[s].who} /\ token' = t /\ ending' = FALSE
        /\ disk' = [users |-> {job[s].who}, token |-> t, age |-> 0]
  BY DEF LoginAnswer
<1>2. job[s].who \in Accounts /\ job[s].who # None
  BY JobKinds, DeviceAssumption DEF LoginAnswer, IInv, Types
<1>3. /\ disk'.users = {job[s].who} /\ disk'.token = t /\ disk'.age = 0
      /\ t # None /\ t \notin ended /\ 0 \in Age
  BY <1>1, DeviceAssumption DEF IInv, Owned, Age
<1>4. owner'[t] = job[s].who /\ \A u \in Tokens \ {t} : owner'[u] = owner[u]
  BY <1>1 DEF IInv, Types
<1>5. /\ job' \in [Slots -> Jobs] /\ job'[s] = NoJob
      /\ \A r \in Slots \ {s} : job'[r] = job[r]
      /\ \A r \in Slots : job'[r].kind \notin {"restore", "login"}
  <2>1. \A r \in Slots \ {s} : job[r].kind \notin {"restore", "login"}
    BY DEF LoginAnswer, IInv, LoginFits
  <2> QED BY <2>1, IdleJob DEF LoginAnswer, IInv, Types
<1>6. app # "off" BY Running DEF LoginAnswer
<1>7. idle' = 0 /\ quiet' = 0 /\ stale' = FALSE /\ UNCHANGED <<app, seen, ended, late>>
  BY DEF LoginAnswer
<1>8. Types' BY <1>1, <1>2, <1>3, <1>5, <1>7 DEF IInv, Types
<1>9. Owned'
  <2>1. \A r \in Slots : job'[r].kind = "fetch" => owner'[job'[r].token] # None
    BY <1>2, <1>4, <1>5, IdleJob, JobKinds DEF IInv, Types, Owned
  <2>2. \A u \in ended : owner'[u] # None
    BY <1>3, <1>4 DEF IInv, Types, Owned
  <2> QED BY <1>1, <1>2, <1>3, <1>4, <1>7, <2>1, <2>2 DEF Owned
<1>10. Off' /\ RestoreFits' /\ LoginFits'
  BY <1>5, <1>6, <1>7 DEF Off, RestoreFits, LoginFits
<1>11. Ages' /\ EndingFits' /\ StaleFits'
  BY <1>1, <1>3, <1>7, DeviceAssumption
     DEF IInv, Types, Age, Ages, EndingFits, StaleFits
<1>12. SessionWhole' BY <1>1, <1>3, <1>4, <1>7 DEF SessionWhole, Whole
<1> QED BY <1>8, <1>9, <1>10, <1>11, <1>12 DEF IInv

LEMMA FetchStep ==
  ASSUME IInv, NEW s \in Slots, FetchOk(s)
  PROVE  IInv'
<1> DEFINE t == job[s].token
<1>1. t \in Tokens /\ t # None /\ owner[t] \in Accounts
  BY JobKinds, OwnerIsAccount, DeviceAssumption DEF FetchOk, IInv, Types, Owned
<1>2. app # "off" BY Running DEF FetchOk
<1>3. \A r \in Slots : job[r].kind # "restore" BY NoRestore DEF FetchOk
<1>4. /\ job' \in [Slots -> Jobs] /\ job'[s] = NoJob
      /\ \A r \in Slots \ {s} : job'[r] = job[r]
  BY IdleJob DEF FetchOk, IInv, Types
<1>5. /\ user' = user \cup {owner[t]} /\ late' = (late \/ t # token)
      /\ disk' = [users |-> user', token |-> t, age |-> idle]
      /\ UNCHANGED <<app, token, ending, idle, seen, chores, owner, quiet, stale, ended>>
  BY DEF FetchOk, server
<1>6. disk'.users = user' /\ disk'.token = t /\ disk'.age = idle
  BY <1>5
<1>7. ~late' => /\ ~late /\ t = token /\ user = {owner[t]} /\ user' = {owner[t]}
                /\ t \notin ended /\ ~ending
  BY <1>1, <1>5 DEF IInv, SessionWhole, Whole, EndingFits
<1>8. Types' BY <1>1, <1>4, <1>5 DEF IInv, Types
<1>9. Owned' /\ Off'
  BY <1>1, <1>2, <1>4, <1>5, <1>6, IdleJob, DeviceAssumption DEF IInv, Types, Owned, Off
<1>10. RestoreFits' BY <1>3, <1>4, IdleJob DEF RestoreFits
<1>11. LoginFits' BY <1>4, <1>5, <1>7, IdleJob DEF IInv, LoginFits
<1>12. Ages' /\ EndingFits'
  BY <1>2, <1>5, <1>6, <1>7 DEF IInv, Ages, EndingFits
<1>13. StaleFits' BY <1>5, <1>7 DEF IInv, StaleFits
<1>14. SessionWhole' BY <1>1, <1>5, <1>6, <1>7 DEF SessionWhole, Whole
<1> QED BY <1>8, <1>9, <1>10, <1>11, <1>12, <1>13, <1>14 DEF IInv

-----------------------------------------------------------------------------
(* The ways a session ends, and the return from the background.            *)

LEMMA TimerStep == IInv /\ Timer => IInv'
<1> SUFFICES ASSUME IInv, Timer PROVE IInv'
  OBVIOUS
<1>1. \A s \in Slots : job[s].kind # "restore"
  BY NoRestore DEF Timer, SignedIn
<1>2. Ages' BY NothingStored DEF Timer, EndSession, Forget, Wiped, IInv, Ages
<1> QED
  BY <1>1, <1>2, EndStep
     DEF Timer, EndSession, Forget, Wiped, server, IInv, Types

LEMMA LogoutStep == IInv /\ Logout => IInv'
<1> SUFFICES ASSUME IInv, Logout PROVE IInv'
  OBVIOUS
<1>1. \A s \in Slots : job[s].kind # "restore" BY NoRestore DEF Logout
<1>2. 0 \in Age BY DeviceAssumption DEF Age
<1>3. Ages'
  BY NothingStored, DeviceAssumption DEF Logout, Forget, Wiped, IInv, Types, Age, Ages
<1> QED
  BY <1>1, <1>2, <1>3, EndStep DEF Logout, Forget, Wiped, IInv, Types

LEMMA RefusedStep ==
  ASSUME IInv, NEW s \in Slots, FetchRefused(s)
  PROVE  IInv'
<1>1. /\ job[s].kind = "fetch" /\ job' = [job EXCEPT ![s] = NoJob]
      /\ UNCHANGED <<app, idle, seen, owner, quiet, late>>
  BY DEF FetchRefused
<1>2. CASE /\ Forget({token}) \/ Forget({token, job[s].token})
           /\ ending' \in BOOLEAN
  <2>1. \A r \in Slots : job[r].kind # "restore" BY <1>1, NoRestore
  <2>2. app # "off" BY <1>1, Running
  <2>3. Ages' BY <1>1, <1>2, NothingStored DEF Forget, Wiped, IInv, Ages
  <2>4. job' \in [Slots -> Jobs] /\ \A r \in Slots : job'[r] \in {job[r], NoJob}
    BY <1>1, IdleJob DEF IInv, Types
  <2>5. /\ user' = {} /\ token' = None /\ disk' = NoSession /\ stale' = FALSE
        /\ ended' = ended \cup ({token} \ {None})
    BY <1>2 DEF Forget, Wiped
  <2> QED BY <1>1, <1>2, <2>1, <2>2, <2>3, <2>4, <2>5, EndStep DEF IInv, Types
<1>3. CASE UNCHANGED <<memory, disk, chores, ended, stale, calls>>
  BY <1>1, <1>3, DropStep
<1> QED BY <1>2, <1>3 DEF FetchRefused, EndSession, IInv, Types

LEMMA ResumeStep == IInv /\ Resume => IInv'
<1> SUFFICES ASSUME IInv, Resume PROVE IInv'
  OBVIOUS
<1>1. app = "back" /\ app' = "front" /\ quiet' = 0 /\ UNCHANGED <<job, server, late>>
  BY DEF Resume
<1>2. 0 \in Age BY DeviceAssumption DEF Age
<1>3. CASE SignedIn /\ Away /\ EndSession /\ UNCHANGED <<idle, seen>>
  <2>1. \A s \in Slots : job[s].kind # "restore"
    BY <1>3, NoRestore DEF SignedIn
  <2>2. Ages'
    BY <1>1, <1>3, NothingStored, DeviceAssumption
       DEF EndSession, Forget, Wiped, IInv, Types, Age, Ages
  <2> QED
    BY <1>1, <1>2, <1>3, <2>1, <2>2, EndStep
       DEF EndSession, Forget, Wiped, server, IInv, Types
<1>4. CASE /\ SignedIn /\ Away => ending
           /\ IF SignedIn /\ ~Away THEN Recorded ELSE UNCHANGED <<idle, seen>>
           /\ stale' = (stale \/ quiet >= Limit)
           /\ UNCHANGED <<memory, disk, chores, ended>>
  <2>1. Same BY <1>1, <1>4 DEF Same, memory, server, IInv, Types
  <2>2. idle' \in {0, idle} /\ seen' \in {0, seen}
    BY <1>4 DEF Recorded
  <2>3. Ages'
    BY <1>1, <1>4, <2>2, DeviceAssumption DEF memory, IInv, Types, Age, Ages
  <2>4. stale' \in BOOLEAN BY <1>4 DEF IInv, Types
  <2>5. SignedIn /\ ~Away /\ ~late => ~stale'
    BY <1>1, <1>4, DeviceAssumption
       DEF SignedIn, Away, IInv, Types, Age, Ages, StaleFits
  <2>6. ~SignedIn \/ Away => idle' = idle BY <1>4
  <2>7. ASSUME ~late, user # {} \/ Busy("restore")
        PROVE  ~stale' \/ idle' = Limit
    <3>1. CASE SignedIn /\ ~Away BY <3>1, <2>5, <2>7
    <3>2. CASE Away
      BY <3>2, <2>6, DeviceAssumption DEF Away, IInv, Types, Age
    <3>3. CASE ~SignedIn /\ ~Away
      BY <3>3, <2>6, <2>7, <1>1, <1>4, DeviceAssumption
         DEF Away, IInv, Types, Age, Ages, StaleFits
    <3> QED BY <3>1, <3>2, <3>3
  <2>8. StaleFits' BY <1>1, <1>4, <2>7 DEF StaleFits, Busy, memory
  <2> QED BY <1>1, <1>2, <2>1, <2>2, <2>3, <2>4, <2>8, ClockStep DEF IInv, Types
<1> QED BY <1>3, <1>4 DEF Resume

-----------------------------------------------------------------------------
(* The theorems.                                                           *)

LEMMA NextStep == IInv /\ [Next]_vars => IInv'
<1> SUFFICES ASSUME IInv, [Next]_vars PROVE IInv'
  OBVIOUS
<1>1. CASE Open \/ Kill \/ Background \/ Resume \/ Touch \/ Tick
  BY <1>1, OpenStep, KillStep, BackgroundStep, ResumeStep, TouchStep, TickStep
<1>2. CASE Timer \/ Logout \/ Chore
  BY <1>2, TimerStep, LogoutStep, ChoreStep
<1>3. CASE \E s \in Slots :
             \/ RestoreAnswer(s) \/ LoginAnswer(s) \/ LoginFails(s)
             \/ StartFetch(s) \/ FetchOk(s) \/ FetchRefused(s) \/ FetchDone(s)
             \/ \E a \in Accounts : StartLogin(s, a)
  <2> PICK s \in Slots :
        \/ RestoreAnswer(s) \/ LoginAnswer(s) \/ LoginFails(s)
        \/ StartFetch(s) \/ FetchOk(s) \/ FetchRefused(s) \/ FetchDone(s)
        \/ \E a \in Accounts : StartLogin(s, a)
    BY <1>3
  <2>1. CASE LoginFails(s) \/ FetchDone(s)
    BY <2>1, DropStep DEF LoginFails, FetchDone, server
  <2> QED
    BY <2>1, RestoreStep, LoginStep, StartFetchStep, FetchStep, RefusedStep,
       StartLoginStep
<1>4. CASE \E t \in Tokens : SignOutArrives(t) \/ SignOutLost(t) \/ Revoke(t)
  BY <1>4, ServerStep
<1>5. CASE UNCHANGED vars BY <1>5, StutterStep
<1> QED BY <1>1, <1>2, <1>3, <1>4, <1>5 DEF Next

\* The invariant the two properties follow from holds in every state.
THEOREM SessionInvariant == Spec => []IInv
BY InitHolds, NextStep, PTL DEF Spec

\* What was signed out, refused or ended never comes back, in whatever order
\* sign-outs, refusals, restarts and answers of AuthContext fall.
THEOREM SessionStaysWhole == Spec => []SessionWhole
<1>1. IInv => SessionWhole BY DEF IInv
<1> QED BY <1>1, SessionInvariant, PTL

\* Nobody is shown an account after INACTIVITY_TIMEOUT_MS without them, on any
\* of the three clocks.
THEOREM NoUnattendedSession == Spec => []IdleLimit
<1>1. IInv => IdleLimit
  <2> SUFFICES ASSUME IInv, app = "front", user # {}, ~late, quiet >= Limit \/ stale
               PROVE  TimerDue
    BY DeviceAssumption DEF IdleLimit, IInv, Types, Age
  <2>1. SignedIn /\ ~ending BY Active
  <2>2. idle >= Limit
    BY DeviceAssumption DEF IInv, Types, Age, Ages, StaleFits
  <2> QED BY <2>1, <2>2 DEF TimerDue
<1> QED BY <1>1, SessionInvariant, PTL

=============================================================================
