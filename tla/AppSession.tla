----------------------------- MODULE AppSession -----------------------------
(***************************************************************************)
(* Who is logged in to an app (src/store/authStore.ts of courier-app and   *)
(* of customer-app).                                                       *)
(*                                                                         *)
(* The session is a token and a user, each under a key of its own in the   *)
(* store of the device.  They are read one after the other when the app    *)
(* starts and written one after the other at a login and a logout; the     *)
(* courier's app stops waiting for the store after eight seconds.  The     *)
(* phone may kill the app at any point.                                    *)
(***************************************************************************)
EXTENDS Naturals, FiniteSets

CONSTANTS
  Accounts,
  Couriers,    \* the accounts with the role COURIER
  NoOne,
  MaxJobs      \* logins and logouts under way at once (a bound)

VARIABLES
  app,       \* "courier" or "customer": stays
  device,    \* the store of the device: [token, user]
  session,   \* state of the store in memory: [token, user]
  hydrated,  \* may screens be shown?
  hydrate,   \* the hydration: the step it is at, the token it has read
  jobs,      \* logins and logouts under way: [kind, account, at]
  torn       \* have the two writes of one job been parted?  (history)

vars == <<app, device, session, hydrated, hydrate, jobs, torn>>

Both(a) == [token |-> a, user |-> a]
Start == [at |-> "token", token |-> NoOne]

Init ==
  /\ app \in {"courier", "customer"}
  /\ device \in {Both(a) : a \in (IF app = "courier" THEN Couriers ELSE Accounts) \cup {NoOne}}
  /\ session = Both(NoOne)
  /\ hydrated = FALSE
  /\ hydrate = Start
  /\ jobs = {}
  /\ torn = FALSE

-----------------------------------------------------------------------------
(* hydrate *)

Finish(s) == session' = s /\ hydrated' = TRUE

ReadToken ==
  /\ hydrate.at = "token"
  /\ hydrate' = [at |-> "user", token |-> device.token]
  /\ UNCHANGED <<app, device, session, hydrated, jobs, torn>>

(* Mutation: what is read after the time is used as well. *)
ReadUserAnyway ==
  /\ hydrate.at = "user"
  /\ hydrate' = [Start EXCEPT !.at = "done"]
  /\ Finish([token |-> hydrate.token, user |-> device.user])
  /\ UNCHANGED <<app, device, jobs, torn>>

(* hydrated is true before only if the time was up: then nothing is set. *)
ReadUser ==
  /\ hydrate.at = "user"
  /\ hydrate' = [Start EXCEPT !.at = "done"]
  /\ IF hydrated THEN UNCHANGED <<session, hydrated>>
     ELSE Finish([token |-> hydrate.token, user |-> device.user])
  /\ UNCHANGED <<app, device, jobs, torn>>

ReadFails ==
  /\ hydrate.at # "done"
  /\ hydrate' = [Start EXCEPT !.at = "done"]
  /\ IF hydrated THEN UNCHANGED <<session, hydrated>> ELSE Finish(Both(NoOne))
  /\ UNCHANGED <<app, device, jobs, torn>>

TimeIsUp ==
  /\ app = "courier"
  /\ ~hydrated
  /\ Finish(Both(NoOne))
  /\ UNCHANGED <<app, device, hydrate, jobs, torn>>

-----------------------------------------------------------------------------
(* Screens *)

Begin(job) ==
  /\ hydrated
  /\ Cardinality(jobs) < MaxJobs
  /\ job \notin jobs
  /\ jobs' = jobs \cup {job}
  /\ UNCHANGED <<app, device, session, hydrated, hydrate, torn>>

(* The answer to a login or a registration.  Each of the two screens waits *)
(* for its own; the courier's login refuses other roles, and who registers *)
(* there is a courier.                                                     *)
LogIn(kind, a) ==
  /\ session.token = NoOne
  /\ app = "courier" => a \in Couriers
  /\ \A job \in jobs : job.kind # kind
  /\ Begin([kind |-> kind, account |-> a, at |-> "token"])

(* The button does not wait, and a second press makes a second job. *)
LogOut ==
  /\ session.token # NoOne
  /\ \E n \in {"logout", "logoutAgain"} :
       Begin([kind |-> n, account |-> NoOne, at |-> "token"])

(* setSession and logout: token, user, memory. *)
Parted(job) ==
  torn \/ \E other \in jobs \ {job} : other.at # "token" \/ job.at # "token"

WriteToken(job) ==
  /\ job.at = "token"
  /\ device' = [device EXCEPT !.token = job.account]
  /\ jobs' = (jobs \ {job}) \cup {[job EXCEPT !.at = "user"]}
  /\ torn' = Parted(job)
  /\ UNCHANGED <<app, session, hydrated, hydrate>>

WriteUser(job) ==
  /\ job.at = "user"
  /\ device' = [device EXCEPT !.user = job.account]
  /\ jobs' = (jobs \ {job}) \cup {[job EXCEPT !.at = "memory"]}
  /\ torn' = Parted(job)
  /\ UNCHANGED <<app, session, hydrated, hydrate>>

SetMemory(job) ==
  /\ job.at = "memory"
  /\ session' = Both(job.account)
  /\ jobs' = jobs \ {job}
  /\ UNCHANGED <<app, device, hydrated, hydrate, torn>>

WriteFails(job) ==
  /\ job.at \in {"token", "user"}
  /\ jobs' = jobs \ {job}
  /\ torn' = (torn \/ job.at = "user")
  /\ UNCHANGED <<app, device, session, hydrated, hydrate>>

(* The app is killed and started again. *)
Restart ==
  /\ session' = Both(NoOne)
  /\ hydrated' = FALSE
  /\ hydrate' = Start
  /\ jobs' = {}
  /\ torn' = (torn \/ \E job \in jobs : job.at = "user")
  /\ UNCHANGED <<app, device>>

Next ==
  \/ ReadToken \/ ReadUser \/ ReadFails \/ TimeIsUp \/ LogOut \/ Restart
  \/ \E kind \in {"login", "register"}, a \in Accounts : LogIn(kind, a)
  \/ \E job \in jobs :
       WriteToken(job) \/ WriteUser(job) \/ SetMemory(job) \/ WriteFails(job)

Spec == Init /\ [][Next]_vars

-----------------------------------------------------------------------------

Pair == [token : Accounts \cup {NoOne}, user : Accounts \cup {NoOne}]

TypeOK ==
  /\ device \in Pair /\ session \in Pair
  /\ {hydrated, torn} \subseteq BOOLEAN
  /\ hydrate.at \in {"token", "user", "done"}
  /\ \A job \in jobs : job.at \in {"token", "user", "memory"}

(* The token the app sends is that of the user it shows, on the screens    *)
(* and in what a later start will read, however the reads of a late        *)
(* hydration overlap with a login.  It can only be otherwise after the two *)
(* writes of one login or logout were parted, by the end of the app, a     *)
(* failing store or a second job.                                          *)
SessionIsWhole ==
  \/ torn
  \/ /\ session.token = session.user
     /\ \/ device.token = device.user
        \/ \E job \in jobs : job.at = "user"

=============================================================================
