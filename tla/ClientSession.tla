--------------------------- MODULE ClientSession ---------------------------
(***************************************************************************)
(* The session of the mobile application: what AuthContext keeps in memory *)
(* and on the device, and the five minutes after which an unattended       *)
(* session ends.                                                           *)
(*                                                                         *)
(* Sources: src/Public/App/src/context/AuthContext.js, services/api.js,    *)
(* components/InactivityWatcher.js, screens/ProfileScreen.js.              *)
(*                                                                         *)
(* Time passes in ticks, Limit of which are INACTIVITY_TIMEOUT_MS; ages    *)
(* are counted to Limit.  The check that runs every second and the steps   *)
(* between two storage calls take less than a tick.                        *)
(***************************************************************************)
EXTENDS Naturals

CONSTANTS
  Accounts,    \* the people who sign in on this device
  Tokens,      \* bound: access tokens the server issues
  Slots,       \* bound: requests in flight at once
  Limit,       \* ticks in INACTIVITY_TIMEOUT_MS
  None

ASSUME DeviceAssumption ==
  /\ Limit \in Nat \ {0}
  /\ None \notin Nat \cup Accounts \cup Tokens

VARIABLES
  app,         \* "off", "front" or "back"
  user,        \* accounts whose data the user record in memory holds
  token,       \* token in memory
  idle,        \* age of lastActiveRef
  ending,      \* isLoggingOutRef
  disk,        \* SESSION on the device
  seen,        \* age of LAST_ACTIVE_AT on the device, or None
  job,         \* requests to the server in flight
  chores,      \* storage calls a sign-in or sign-out has not made yet
  owner,       \* whom the server issued each token to
  revoked,     \* tokens the server refuses
  calls,       \* sign-out calls on their way to the server
  quiet,       \* history: age of the last thing the person did
  stale,       \* history: came back after Limit, not signed in since
  ended,       \* history: tokens whose session this device ended
  late         \* history: an answer of another session was written

memory == <<user, token, ending>>
server == <<owner, revoked, calls>>
vars == <<app, memory, idle, disk, seen, job, chores, server,
          quiet, stale, ended, late>>

\* A session on disk carries the lastActiveAt it was written with.
NoSession == [users |-> {}, token |-> None, age |-> 0]
NoJob == [kind |-> "none"]

Init ==
  /\ app = "off"
  /\ user = {} /\ token = None /\ ending = FALSE /\ idle = 0
  /\ disk = NoSession /\ seen = None
  /\ job = [s \in Slots |-> NoJob] /\ chores = {}
  /\ owner = [t \in Tokens |-> None] /\ revoked = {} /\ calls = {}
  /\ quiet = 0 /\ stale = FALSE /\ ended = {} /\ late = FALSE

Busy(kind) == \E s \in Slots : job[s].kind = kind
SignedIn == user # {} /\ token # None
Older(age) == IF age = None \/ age = Limit THEN age ELSE age + 1

(***************************************************************************)
(* Ending a session.                                                       *)
(***************************************************************************)
\* Mutant: a sign-out that leaves SESSION on the device.
Unwiped == disk

\* What both sign-outs leave on the device at once; LAST_ACTIVE_AT goes next.
Wiped == NoSession

Forget(told) ==
  /\ user' = {} /\ token' = None
  /\ disk' = Wiped
  /\ chores' = chores \cup {[do |-> "clear", token |-> t] : t \in told}
  /\ ended' = ended \cup ({token} \ {None})
  /\ stale' = FALSE

\* handleInactivityLogout: once per session, whatever called it.
EndSession == ~ending /\ ending' = TRUE /\ Forget({token})

\* The check every second: signs out an unattended session.
TimerDue == app = "front" /\ SignedIn /\ ~ending /\ idle >= Limit

Timer ==
  /\ app # "off" /\ SignedIn /\ idle >= Limit
  /\ EndSession
  /\ UNCHANGED <<app, idle, seen, job, server, quiet, late>>

\* logout: tells the server first, then wipes, then tells it again.
Logout ==
  /\ app = "front" /\ user # {} /\ ~TimerDue
  /\ Forget({token})
  /\ calls' = calls \cup ({token} \ {None})
  /\ quiet' = 0
  /\ UNCHANGED <<app, idle, ending, seen, job, owner, revoked, late>>

\* The storage call that is left, and after a sign-out the call to the server.
Chore ==
  \E c \in chores :
    /\ chores' = chores \ {c}
    /\ IF c.do = "clear"
       THEN seen' = None /\ calls' = calls \cup ({c.token} \ {None})
       ELSE seen' = idle /\ UNCHANGED calls
    /\ UNCHANGED <<app, memory, idle, disk, job, owner, revoked, quiet, stale,
                   ended, late>>

(***************************************************************************)
(* Starting the application and signing in.                                *)
(***************************************************************************)
Elapsed == IF seen = None THEN disk.age ELSE seen
\* Mutant: a start that trusts the session whatever its age.
RestorableAlways == disk.token # None

Restorable == Elapsed < Limit

\* restoreSession up to the question it asks the server.
Open ==
  /\ app = "off" /\ app' = "front"
  /\ idle' = 0 /\ quiet' = 0 /\ stale' = (quiet >= Limit)
  /\ \/ disk.token = None /\ UNCHANGED <<disk, seen, job>>
     \/ disk.token # None /\ ~Restorable
        /\ disk' = NoSession /\ seen' = None /\ UNCHANGED job
     \/ disk.token # None /\ Restorable
        /\ \E s \in Slots : job' = [job EXCEPT ![s] =
             [kind |-> "restore", token |-> disk.token, users |-> disk.users]]
        /\ UNCHANGED <<disk, seen>>
  /\ UNCHANGED <<memory, chores, server, ended, late>>

\* The answer: the session goes on, is refused, or goes on because nobody answers.
RestoreAnswer(s) ==
  /\ job[s].kind = "restore" /\ job' = [job EXCEPT ![s] = NoJob]
  /\ LET t == job[s].token IN
     \/ /\ t \notin revoked
        /\ user' = job[s].users \cup {owner[t]} /\ token' = t /\ ending' = FALSE
        /\ seen' = idle /\ UNCHANGED disk
     \/ /\ user' = job[s].users /\ token' = t
        /\ UNCHANGED <<ending, seen, disk>>
     \/ /\ t \in revoked
        /\ disk' = NoSession /\ seen' = None /\ UNCHANGED memory
     \/ \* the account is suspended: LAST_ACTIVE_AT stays behind
        disk' = NoSession /\ UNCHANGED <<memory, seen>>
  /\ UNCHANGED <<app, idle, chores, server, quiet, stale, ended, late>>

StartLogin(s, a) ==
  /\ app = "front" /\ user = {} /\ job[s] = NoJob
  /\ ~Busy("restore") /\ ~Busy("login")
  /\ \E t \in Tokens : owner[t] = None
  /\ job' = [job EXCEPT ![s] = [kind |-> "login", who |-> a]]
  /\ quiet' = 0
  /\ UNCHANGED <<app, memory, idle, disk, seen, chores, server, stale, ended, late>>

\* login, loginWithWallet, register and registerWithWallet end alike.
LoginAnswer(s) ==
  /\ job[s].kind = "login" /\ job' = [job EXCEPT ![s] = NoJob]
  /\ \E t \in Tokens :
       /\ owner[t] = None /\ owner' = [owner EXCEPT ![t] = job[s].who]
       /\ user' = {job[s].who} /\ token' = t /\ ending' = FALSE
       /\ disk' = [users |-> {job[s].who}, token |-> t, age |-> 0]
  /\ idle' = 0 /\ quiet' = 0 /\ stale' = FALSE
  /\ chores' = chores \cup {[do |-> "stamp", token |-> None]}
  /\ UNCHANGED <<app, seen, revoked, calls, ended, late>>

LoginFails(s) ==
  /\ job[s].kind = "login" /\ job' = [job EXCEPT ![s] = NoJob]
  /\ UNCHANGED <<app, memory, idle, disk, seen, chores, server, quiet, stale,
                 ended, late>>

(***************************************************************************)
(* The person, the device and time.                                        *)
(***************************************************************************)
\* recordActivity; LAST_ACTIVE_AT is written again after ten seconds at least.
Recorded ==
  /\ idle' = 0
  /\ \/ seen' = 0
     \/ idle = 0 /\ UNCHANGED seen

Touch ==
  /\ app = "front" /\ user # {} /\ ~TimerDue
  /\ Recorded /\ quiet' = 0
  /\ UNCHANGED <<app, memory, disk, job, chores, server, stale, ended, late>>

Background ==
  /\ app = "front" /\ app' = "back"
  /\ seen' = IF SignedIn THEN idle ELSE seen
  /\ UNCHANGED <<memory, idle, disk, job, chores, server, quiet, stale, ended, late>>

\* The listener asks how long the session was left before it counts the return.
Away == idle >= Limit

Resume ==
  /\ app = "back" /\ app' = "front" /\ quiet' = 0
  /\ \/ /\ SignedIn /\ Away /\ EndSession
        /\ UNCHANGED <<idle, seen>>
     \/ /\ SignedIn /\ Away => ending
        /\ IF SignedIn /\ ~Away THEN Recorded ELSE UNCHANGED <<idle, seen>>
        /\ stale' = (stale \/ quiet >= Limit)
        /\ UNCHANGED <<memory, disk, chores, ended>>
  /\ UNCHANGED <<job, server, late>>

\* The process ends, with everything in memory; the device keeps its storage.
Kill ==
  /\ app # "off" /\ app' = "off"
  /\ user' = {} /\ token' = None /\ ending' = FALSE /\ idle' = 0
  /\ job' = [s \in Slots |-> NoJob] /\ chores' = {}
  /\ UNCHANGED <<disk, seen, server, quiet, stale, ended, late>>

Tick ==
  /\ chores = {} /\ ~TimerDue
  /\ idle' = Older(idle) /\ quiet' = Older(quiet) /\ seen' = Older(seen)
  /\ disk' = [disk EXCEPT !.age = Older(@)]
  /\ <<idle, quiet, seen, disk>>' # <<idle, quiet, seen, disk>>
  /\ UNCHANGED <<app, memory, job, chores, server, stale, ended, late>>

(***************************************************************************)
(* Requests of a screen, made with the token of the render they started in.*)
(***************************************************************************)
StartFetch(s) ==
  /\ app = "front" /\ SignedIn /\ ~TimerDue /\ job[s] = NoJob
  /\ job' = [job EXCEPT ![s] =
       [kind |-> "fetch", token |-> token, served |-> token \notin revoked]]
  /\ UNCHANGED <<app, memory, idle, disk, seen, chores, server, quiet, stale,
                 ended, late>>

\* updateUser: merges what the server said into the user of now, and writes it
\* to SESSION with the token of then.
FetchOk(s) ==
  /\ job[s].kind = "fetch" /\ job[s].served
  /\ job' = [job EXCEPT ![s] = NoJob]
  /\ LET t == job[s].token IN
       /\ user' = user \cup {owner[t]}
       /\ disk' = [users |-> user', token |-> t, age |-> idle]
       /\ late' = (late \/ t # token)
  /\ UNCHANGED <<app, token, ending, idle, seen, chores, server, quiet, stale, ended>>

\* A 401 ends whatever session there is (setUnauthorizedHandler); the screens of
\* the vault then call logout of the render they started in.
FetchRefused(s) ==
  /\ job[s].kind = "fetch" /\ job[s].token \in revoked
  /\ job' = [job EXCEPT ![s] = NoJob]
  /\ \/ /\ user # {} \/ token # None
        /\ EndSession
        /\ UNCHANGED calls
     \/ /\ ending' = (ending \/ user # {} \/ token # None)
        /\ Forget({token, job[s].token})
        /\ calls' = calls \cup {job[s].token}
     \/ /\ ending \/ (user = {} /\ token = None)
        /\ UNCHANGED <<memory, disk, chores, ended, stale, calls>>
  /\ UNCHANGED <<app, idle, seen, owner, revoked, quiet, late>>

\* An answer that changes no session, a failure or a timeout.
FetchDone(s) ==
  /\ job[s].kind = "fetch" /\ job' = [job EXCEPT ![s] = NoJob]
  /\ UNCHANGED <<app, memory, idle, disk, seen, chores, server, quiet, stale,
                 ended, late>>

(***************************************************************************)
(* The server.                                                             *)
(***************************************************************************)
SignOutArrives(t) ==
  /\ t \in calls /\ calls' = calls \ {t} /\ revoked' = revoked \cup {t}
  /\ UNCHANGED <<app, memory, idle, disk, seen, job, chores, owner, quiet, stale,
                 ended, late>>

SignOutLost(t) ==
  /\ t \in calls /\ calls' = calls \ {t}
  /\ UNCHANGED <<app, memory, idle, disk, seen, job, chores, owner, revoked, quiet,
                 stale, ended, late>>

\* A password reset, a sign-out on another device, the token's expiry.
Revoke(t) ==
  /\ owner[t] # None /\ t \notin revoked /\ revoked' = revoked \cup {t}
  /\ UNCHANGED <<app, memory, idle, disk, seen, job, chores, owner, calls, quiet,
                 stale, ended, late>>

Next ==
  \/ Open \/ Kill \/ Background \/ Resume \/ Touch \/ Tick \/ Timer \/ Logout \/ Chore
  \/ \E s \in Slots :
       \/ RestoreAnswer(s) \/ LoginAnswer(s) \/ LoginFails(s)
       \/ StartFetch(s) \/ FetchOk(s) \/ FetchRefused(s) \/ FetchDone(s)
       \/ \E a \in Accounts : StartLogin(s, a)
  \/ \E t \in Tokens : SignOutArrives(t) \/ SignOutLost(t) \/ Revoke(t)

Spec == Init /\ [][Next]_vars

-----------------------------------------------------------------------------
Whole(accounts, t) ==
  IF t = None THEN accounts = {} ELSE accounts = {owner[t]} /\ t \notin ended

\* The session is whole: memory and the device each hold nothing, or the data of
\* one account with a token of that account whose session was not ended; and
\* while the application runs the device keeps the session memory holds, so that
\* whatever the order of sign-outs, refusals, restarts and answers, what was
\* signed out never comes back.  Answers of another session are the exception:
\* updateUser (AuthContext.js:525) writes them with the token they started with.
SessionWhole ==
  ~late =>
    /\ Whole(user, token) /\ Whole(disk.users, disk.token)
    /\ app # "off" /\ ~Busy("restore") => disk.token = token

\* No account is shown to somebody who was not there for five minutes: not in
\* the foreground, not after a return from the background, and not after the
\* process was killed and started again (three checks of one limit, on three
\* clocks: lastActiveRef, the listener's, LAST_ACTIVE_AT).
IdleLimit ==
  app = "front" /\ user # {} /\ ~late => (quiet < Limit /\ ~stale) \/ TimerDue

=============================================================================
