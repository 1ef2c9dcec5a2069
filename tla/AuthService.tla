----------------------------- MODULE AuthService -----------------------------
(***************************************************************************)
(* The auth service and one email address: registration and activation,    *)
(* login with its lockout, and refresh tokens that are rotated on a chain. *)
(* Every handler is a request whose SQL statements and Redis commands are  *)
(* steps of their own, so that requests interleave between any two; each   *)
(* statement is atomic.  The access token carries the plan's device limit  *)
(* from which the slots of DeviceSlots are then taken.                     *)
(*                                                                         *)
(* services/auth/internal/auth/service.go.  Passwords are right or wrong;  *)
(* the audit log and the content of mails are left out.                    *)
(***************************************************************************)
EXTENDS DeviceSlots

CONSTANTS
    Requests,         \* each issues one token at most, under its own name
    NoToken,
    Plans,            \* values of users.devices_max
    LoginMaxFailures,
    MaxInFlight,      \* bound: requests and Acquires under way at once
    MaxFaults         \* bound: calls that fail, requests that die

ASSUME AuthAssumption ==
    /\ NoToken \notin Requests
    /\ Plans \subseteq Nat /\ 0 \in Plans
    /\ LoginMaxFailures \in Nat \ {0}
    /\ MaxInFlight \in Nat \ {0} /\ MaxFaults \in Nat

VARIABLES
    user,      \* the row of the address, status "none" without one
    link,      \* the activation token and whether it was mailed
    failures,  \* failures within the window, as members of its sorted set
    token,     \* refresh_tokens
    given,     \* tokens that clients were answered with
    req,       \* what each request is doing
    astray,    \* history: logins with a rotation that never got its chain
    struck,    \* history: logins of which a replay was found when all was quiet
    faults

accountVars == <<user, link, failures>>
tokenVars == <<token, given, astray, struck>>
vars == <<slotVars, accountVars, tokenVars, req, faults>>

\* login is the request the token descends from, which the code does not keep.
Absent == [state |-> "none", revoked |-> FALSE, chain |-> NoToken, login |-> NoToken,
           max |-> 0]
Idle == [kind |-> "none", step |-> "idle", token |-> NoToken, max |-> 0]
Answered == [Idle EXCEPT !.step = "done"]
InFlight == {r \in Requests : req[r].step \notin {"idle", "done"}}
Steps == {"idle", "insert_user", "mint", "mail", "consume", "start_trial", "check_lock",
          "verify", "record", "clear", "read_user", "insert_token", "swap", "revoke",
          "stitch", "done"}

AuthTypeOK ==
    /\ SlotsTypeOK
    /\ user \in [status : {"none", "pending_activation", "trialing", "active"},
                 devices_max : Plans]
    /\ link \in {"none", "minted", "mailed", "used", "expired"}
    /\ failures \in Nat
    /\ token \in [Requests -> [state : {"none", "live", "used", "expired"}, revoked : BOOLEAN,
                               chain : Requests \cup {NoToken},
                               login : Requests \cup {NoToken}, max : Nat]]
    /\ given \subseteq {t \in Requests : token[t].state # "none"}
    /\ req \in [Requests -> [kind : {"none", "register", "activate", "login", "refresh"},
                             step : Steps, token : Requests \cup {NoToken}, max : Nat]]
    /\ astray \subseteq Requests /\ struck \subseteq Requests
    /\ faults \in 0 .. MaxFaults

\* The address is new, or has been a customer for a while.
Init ==
    /\ SlotsInit
    /\ user \in {[status |-> "none", devices_max |-> 0]}
                 \cup {[status |-> "active", devices_max |-> n] : n \in Plans}
    /\ link = "none"
    /\ failures = 0
    /\ token = [t \in Requests |-> Absent]
    /\ given = {}
    /\ req = [r \in Requests |-> Idle]
    /\ astray = {} /\ struck = {}
    /\ faults = 0

At(r, s) == req[r].step = s
GoesTo(r, s) == req' = [req EXCEPT ![r].step = s]
Answers(r) == req' = [req EXCEPT ![r] = Answered]
Fault == faults < MaxFaults /\ faults' = faults + 1

Arrives(r, kind, first, t) ==
    /\ At(r, "idle")
    /\ Cardinality(InFlight) + Cardinality(Attempting) < MaxInFlight
    /\ req' = [req EXCEPT ![r] = [kind |-> kind, step |-> first, token |-> t, max |-> 0]]
    /\ UNCHANGED <<slotVars, accountVars, tokenVars, faults>>

---------------------------------------------------------------------------
(* Register and Activate.                                                  *)

RegisterArrives(r) == Arrives(r, "register", "insert_user", NoToken)

\* INSERT .. ON CONFLICT DO NOTHING; a known address is mailed a hint instead.
InsertsUser(r) ==
    /\ At(r, "insert_user")
    /\ IF user.status = "none"
       THEN /\ user' = [status |-> "pending_activation", devices_max |-> 0]
            /\ GoesTo(r, "mint")
       ELSE Answers(r) /\ UNCHANGED user
    /\ UNCHANGED <<slotVars, link, failures, tokenVars, faults>>

MintsLink(r) ==
    /\ At(r, "mint")
    /\ link' = "minted"
    /\ GoesTo(r, "mail")
    /\ UNCHANGED <<slotVars, user, failures, tokenVars, faults>>

MailsLink(r) ==
    /\ At(r, "mail")
    /\ link' = IF link = "minted" THEN "mailed" ELSE link
    /\ Answers(r)
    /\ UNCHANGED <<slotVars, user, failures, tokenVars, faults>>

ActivateArrives(r) ==
    link \in {"mailed", "used", "expired"} /\ Arrives(r, "activate", "consume", NoToken)

\* The link is good once, for 48 hours.
ConsumesLink(r) ==
    /\ At(r, "consume")
    /\ IF link = "mailed"
       THEN link' = "used" /\ GoesTo(r, "start_trial")
       ELSE Answers(r) /\ UNCHANGED link
    /\ UNCHANGED <<slotVars, user, failures, tokenVars, faults>>

StartsTrial(r) ==
    /\ At(r, "start_trial")
    /\ user' = IF user.status = "pending_activation"
               THEN [user EXCEPT !.status = "trialing"] ELSE user
    /\ Answers(r)
    /\ UNCHANGED <<slotVars, link, failures, tokenVars, faults>>

---------------------------------------------------------------------------
(* Login.                                                                  *)

LoginArrives(r) == Arrives(r, "login", "check_lock", NoToken)

\* A lockout that cannot be looked up ends the request: see Dies.
ChecksLock(r) ==
    /\ At(r, "check_lock")
    /\ IF failures >= LoginMaxFailures THEN Answers(r) ELSE GoesTo(r, "verify")
    /\ UNCHANGED <<slotVars, accountVars, tokenVars, faults>>

Verifies(r, right) ==
    /\ At(r, "verify")
    /\ IF user.status = "none" \/ ~right THEN GoesTo(r, "record")
       ELSE IF user.status = "pending_activation" THEN Answers(r)
       ELSE GoesTo(r, "clear")
    /\ UNCHANGED <<slotVars, accountVars, tokenVars, faults>>

\* A member is a second: another failure of the same second is the same member,
\* and an error is ignored.
RecordsFailure(r) ==
    /\ At(r, "record")
    /\ failures' \in {failures, failures + 1}
    /\ Answers(r)
    /\ UNCHANGED <<slotVars, user, link, tokenVars, faults>>

ClearsFailures(r) ==
    /\ At(r, "clear")
    /\ failures' \in {0} \cup (IF faults < MaxFaults THEN {failures} ELSE {})
    /\ faults' = IF failures' = 0 THEN faults ELSE faults + 1
    /\ GoesTo(r, "read_user")
    /\ UNCHANGED <<slotVars, user, link, tokenVars>>

---------------------------------------------------------------------------
(* issueTokens.                                                            *)

ReadsUser(r) ==
    /\ At(r, "read_user")
    /\ req' = [req EXCEPT ![r].step = "insert_token", ![r].max = user.devices_max]
    /\ UNCHANGED <<slotVars, accountVars, tokenVars, faults>>

\* The token starts a chain of its own.  A login is answered with it.
InsertsToken(r) ==
    /\ At(r, "insert_token")
    /\ token' = [token EXCEPT ![r] =
                   [state |-> "live", revoked |-> FALSE, chain |-> r,
                    login |-> IF req[r].kind = "login" THEN r ELSE token[req[r].token].login,
                    max |-> req[r].max]]
    /\ IF req[r].kind = "login"
       THEN Answers(r) /\ given' = given \cup {r}
       ELSE GoesTo(r, "stitch") /\ UNCHANGED given
    /\ UNCHANGED <<slotVars, accountVars, astray, struck, faults>>

---------------------------------------------------------------------------
(* Refresh.                                                                *)

\* A client may present any token it was ever given, as often as it likes.
RefreshArrives(r, t) == t \in given /\ Arrives(r, "refresh", "swap", t)

\* Mutant of Swaps: the UPDATE does not ask for used = false.
SwapsAgain(r) ==
    LET t == req[r].token IN
    /\ At(r, "swap")
    /\ IF token[t].state # "expired" /\ ~token[t].revoked
       THEN token' = [token EXCEPT ![t].state = "used"] /\ GoesTo(r, "read_user")
       ELSE GoesTo(r, "revoke") /\ UNCHANGED token
    /\ UNCHANGED <<slotVars, accountVars, given, astray, struck, faults>>

\* UPDATE .. SET used = true .. RETURNING, the atomic compare-and-set.
Swaps(r) ==
    LET t == req[r].token IN
    /\ At(r, "swap")
    /\ IF token[t].state = "live" /\ ~token[t].revoked
       THEN token' = [token EXCEPT ![t].state = "used"] /\ GoesTo(r, "read_user")
       ELSE GoesTo(r, "revoke") /\ UNCHANGED token
    /\ UNCHANGED <<slotVars, accountVars, given, astray, struck, faults>>

\* An UPDATE that fails while its rows are read looks like one without rows.
SwapIsMisread(r) ==
    /\ At(r, "swap") /\ Fault
    /\ GoesTo(r, "revoke")
    /\ UNCHANGED <<slotVars, accountVars, tokenVars>>

\* A rotation of the login is between its UPDATE and its answer.
Rotating(l) ==
    \E q \in InFlight : /\ req[q].step \in {"read_user", "insert_token", "stitch"}
                        /\ req[q].kind = "refresh" /\ token[req[q].token].login = l

\* Taken for a replay: the chain the token is on is revoked.
Revokes(r) ==
    LET t == req[r].token IN
    /\ At(r, "revoke")
    /\ token' = [u \in Requests |->
                   IF token[u].state # "none" /\ token[u].chain = token[t].chain
                   THEN [token[u] EXCEPT !.revoked = TRUE] ELSE token[u]]
    /\ struck' = struck \cup ({token[t].login} \ (astray \cup {l \in Requests : Rotating(l)}))
    /\ Answers(r)
    /\ UNCHANGED <<slotVars, accountVars, given, astray, faults>>

RevokeFails(r) ==
    /\ At(r, "revoke") /\ Fault
    /\ Answers(r)
    /\ UNCHANGED <<slotVars, accountVars, tokenVars>>

\* Mutant of Stitches: the new token stays on the chain it was issued with.
StitchesNothing(r) ==
    /\ At(r, "stitch")
    /\ given' = given \cup {r}
    /\ Answers(r)
    /\ UNCHANGED <<slotVars, accountVars, token, astray, struck, faults>>

\* The new token is put on the chain the UPDATE returned, and answered.
Stitches(r) ==
    /\ At(r, "stitch")
    /\ token' = [token EXCEPT ![r].chain = token[req[r].token].chain]
    /\ given' = given \cup {r}
    /\ Answers(r)
    /\ UNCHANGED <<slotVars, accountVars, astray, struck, faults>>

\* The error of that statement is ignored.
StitchFails(r) ==
    /\ At(r, "stitch") /\ Fault
    /\ given' = given \cup {r}
    /\ astray' = astray \cup {token[r].login}
    /\ Answers(r)
    /\ UNCHANGED <<slotVars, accountVars, token, struck>>

---------------------------------------------------------------------------

\* A statement fails, or the service stops: the client is not given a token.
Dies(r) ==
    /\ r \in InFlight /\ Fault
    /\ Answers(r)
    /\ UNCHANGED <<slotVars, accountVars, tokenVars>>

\* Time ends what has an expiry, and the window moves on.
Expires ==
    /\ \/ \E t \in Requests :
             /\ token[t].state = "live"
             /\ token' = [token EXCEPT ![t].state = "expired"]
             /\ UNCHANGED <<link, failures>>
       \/ link = "mailed" /\ link' = "expired" /\ UNCHANGED <<token, failures>>
       \/ failures > 0 /\ failures' = failures - 1 /\ UNCHANGED <<token, link>>
    /\ UNCHANGED <<slotVars, user, given, astray, struck, req, faults>>

\* Billing, which is another service, writes the plan into the row.
PlanChanges ==
    /\ user.status \in {"trialing", "active"}
    /\ \E n \in Plans : user' = [status |-> "active", devices_max |-> n]
    /\ UNCHANGED <<slotVars, link, failures, tokenVars, req, faults>>

\* A device asks for a slot with the limit in an access token it was given.
AsksForSlot(d) ==
    /\ Cardinality(InFlight) + Cardinality(Attempting) < MaxInFlight
    /\ \E t \in given : AcquireStarts(d, token[t].max)
    /\ UNCHANGED <<accountVars, tokenVars, req, faults>>

Next ==
    \/ \E r \in Requests :
          \/ RegisterArrives(r) \/ InsertsUser(r) \/ MintsLink(r) \/ MailsLink(r)
          \/ ActivateArrives(r) \/ ConsumesLink(r) \/ StartsTrial(r)
          \/ LoginArrives(r) \/ ChecksLock(r) \/ RecordsFailure(r) \/ ClearsFailures(r)
          \/ \E right \in BOOLEAN : Verifies(r, right)
          \/ ReadsUser(r) \/ InsertsToken(r)
          \/ \E t \in Requests : RefreshArrives(r, t)
          \/ Swaps(r) \/ SwapIsMisread(r) \/ Revokes(r) \/ RevokeFails(r)
          \/ Stitches(r) \/ StitchFails(r) \/ Dies(r)
    \/ Expires \/ PlanChanges
    \/ \E d \in Devices : AsksForSlot(d)
    \/ SlotsNext /\ UNCHANGED <<accountVars, tokenVars, req, faults>>

Spec == Init /\ [][Next]_vars

---------------------------------------------------------------------------
(* What the service promises.                                              *)

Usable(t) == token[t].state = "live" /\ ~token[t].revoked

\* A login has one token that can be exchanged at most, however many requests
\* present the same one at once and wherever they fail (Refresh's
\* compare-and-set, docs/security/audit-2026-05.md:123).
OneUsableToken ==
    \A t, u \in Requests : Usable(t) /\ Usable(u) /\ token[t].login = token[u].login => t = u

\* A used token that comes back ends the session: no client is left with a
\* token of that login that works, then or later (service.go:10, 230), unless the
\* replay met a rotation between its statements or a stitch had failed.
ReplayEndsSession ==
    \A t \in given : token[t].login \in struck => ~Usable(t)

\* The same without the exceptions, which the code does not keep: "any replay
\* revokes the chain" (service.go:193).
AnyReplayEndsSession ==
    [][\A r \in Requests :
         Revokes(r) => \A t \in given' : token'[t].login = token[req[r].token].login
                                            => ~(token'[t].state = "live" /\ ~token'[t].revoked)]_vars

\* However Acquires of several devices interleave with each other, heartbeats,
\* releases and expiry, no more devices hold a slot than the largest limit an
\* access token of the user allows (devices.go:55).
SlotsWithinPlan ==
    Cardinality(Holders) <= 1 \/ \E t \in given : Cardinality(Holders) <= token[t].max
=============================================================================
