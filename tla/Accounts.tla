------------------------------- MODULE Accounts -------------------------------
(***************************************************************************)
(* The account of one email address: the user record, the sessions and the *)
(* index of sessions in Cloudflare KV, and the account at Firebase.        *)
(*                                                                         *)
(* Every handler is a request that makes its remote calls one after        *)
(* another, so that requests interleave between any two calls; writes the  *)
(* code awaits together (Promise.all, allSettled) land in any order.  KV   *)
(* has no transactions: a handler writes back the record it read.          *)
(*                                                                         *)
(* apps/web/src/lib/auth/*.ts, lib/accessGuard.ts, app/api/auth/*,         *)
(* app/api/privacy/delete, app/api/admin/users.                            *)
(***************************************************************************)
EXTENDS Integers, FiniteSets

CONSTANTS
    Requests,      \* each creates one session at most, under its own name
    Old,           \* a session from before
    NoSid,         \* the request carries no session cookie
    FirebaseUids,  \* uids Firebase gives out
    LegacyUid,     \* the random id of a record from before Firebase
    GoogleUid,     \* google:<sub>
    NoUid,
    NoRecord, NotRead,
    TrialDays,     \* TRIAL_MS
    GrantDays,     \* the days an admin gives
    Today,         \* the requests are of one day
    MaxInFlight,   \* bound: requests under way at once
    MaxFaults      \* bound: requests that die, calls that fail

ASSUME AccountsAssumption ==
    /\ Old \notin Requests /\ NoSid \notin Requests \cup {Old}
    /\ LegacyUid \notin FirebaseUids /\ GoogleUid \notin FirebaseUids \cup {LegacyUid}
    /\ NoUid \notin FirebaseUids \cup {LegacyUid, GoogleUid}
    /\ TrialDays \in Nat \ {0} /\ GrantDays \in Nat \ {0}
    /\ Today \in Nat /\ MaxInFlight \in Nat \ {0} /\ MaxFaults \in Nat

VARIABLES
    fb,        \* the uid of the address's Firebase account
    verified,  \* Firebase's emailVerified
    used,      \* uids given out
    mail,      \* links in the user's mailbox: "verify", "reset"
    rec,       \* user:<email>
    session,   \* session:<sid>, as the uid in it
    index,     \* user_sessions:<uid>:<sid>
    blobs,     \* uids that have a settings:<uid>
    handle,    \* preverify:<token>, as the uid its refresh token is for
    req,       \* what each request is doing
    issued,    \* session cookies browsers were given
    proven,    \* history: Firebase accounts shown to be of the owner of the address
    adopted,   \* history: others that a login put in a record of another uid
    faults

vars == <<fb, verified, used, mail, rec, session, index, blobs, handle, req, issued,
          proven, adopted, faults>>
firebase == <<fb, verified, used, mail>>
store == <<rec, session, index, blobs, handle>>
owned == <<proven, adopted>>

Sids == Requests \cup {Old}
Uids == FirebaseUids \cup {LegacyUid, GoogleUid}
Record == [uid : Uids, hash : BOOLEAN, legacy : BOOLEAN, trial : Int, sub : Nat]
ASSUME RecordAssumption == {NoRecord, NotRead} \cap Record = {} /\ NoRecord # NotRead

SignIns == {"login", "google", "postVerify", "verify", "reset"}
WithSession == {"change", "delete", "revoke", "logout", "put"}
Kinds == SignIns \cup WithSession \cup {"signup", "adminDelete", "adminAccess"}
Op == [op : {"putSession", "putIndex", "read", "delSession", "delIndex"},
       sid : Sids, uid : Uids \cup {NoUid}]
      \cup [op : {"delUser", "delBlob"}, uid : Uids]

Blank == [kind |-> "none", step |-> "idle", sid |-> NoSid, on |-> NoSid, uid |-> NoUid,
          fuid |-> NoUid, verified |-> FALSE, migrated |-> FALSE, user |-> NotRead,
          stale |-> FALSE, todo |-> {}, must |-> {}]
Request == [kind : Kinds \cup {"none"},
            step : {"idle", "done", "session", "signin", "migrate", "migrateSignup", "lookup",
                    "find", "signupFirebase", "create", "mail", "flag", "align", "touch",
                    "issue", "reauth", "fbDelete", "list", "target", "sweep", "access", "write"},
            sid : Sids \cup {NoSid}, on : Sids \cup {NoSid},
            uid : Uids \cup {NoUid}, fuid : Uids \cup {NoUid},
            verified : BOOLEAN, migrated : BOOLEAN, user : Record \cup {NoRecord, NotRead},
            stale : BOOLEAN, todo : SUBSET Op, must : SUBSET Sids]

TypeOK ==
    /\ fb \in FirebaseUids \cup {NoUid}
    /\ verified \in BOOLEAN
    /\ used \subseteq FirebaseUids
    /\ mail \subseteq {"verify", "reset"}
    /\ rec \in Record \cup {NoRecord}
    /\ session \in [Sids -> Uids \cup {NoUid}]
    /\ index \subseteq Uids \X Sids
    /\ blobs \subseteq Uids
    /\ handle \in [Requests -> FirebaseUids \cup {NoUid}]
    /\ req \in [Requests -> Request]
    /\ issued \subseteq Sids
    /\ proven \subseteq FirebaseUids /\ adopted \subseteq FirebaseUids
    /\ faults \in 0 .. MaxFaults

(* createUserFromFirebase: a fresh record whose trial starts today.        *)
CreateUserFromFirebase(u) ==
    [uid |-> u, hash |-> FALSE, legacy |-> FALSE, trial |-> Today, sub |-> 0]

(* Access needs a trial or a subscription that has not ended.              *)
AccessState(user) ==
    IF Today < user.sub THEN "subscribed"
    ELSE IF Today < user.trial + TrialDays THEN "trial"
    ELSE "expired"

(* Nobody yet; or a user from before Firebase, of Firebase or of Google,   *)
(* with a session, whose trial began long ago or today.                    *)
Init ==
    /\ \E u \in {NoUid, LegacyUid, GoogleUid} \cup FirebaseUids, start \in {0, Today} :
         /\ fb = IF u \in FirebaseUids THEN u ELSE NoUid
         /\ verified = (u \in FirebaseUids)
         /\ used = {u} \cap FirebaseUids
         /\ rec = IF u = NoUid THEN NoRecord
                  ELSE [uid |-> u, hash |-> u = LegacyUid, legacy |-> FALSE, trial |-> start, sub |-> 0]
         /\ session = [s \in Sids |-> IF s = Old THEN u ELSE NoUid]
         /\ index = {<<u, Old>>} \cap (Uids \X Sids)
         /\ issued = IF u = NoUid THEN {} ELSE {Old}
         /\ proven = {u} \cap FirebaseUids
    /\ adopted = {}
    /\ mail = {}
    /\ blobs = {}
    /\ handle = [r \in Requests |-> NoUid]
    /\ req = [r \in Requests |-> Blank]
    /\ faults = 0

Active(r) == req[r].step \notin {"idle", "done"}
At(r, kind, step) == req[r].kind = kind /\ req[r].step = step
Goto(r, step) == req' = [req EXCEPT ![r].step = step]
(* The answer: what the handler held is gone.                              *)
Answered(r) ==
    [Blank EXCEPT !.step = "done", !.must = req[r].must]
Answer(r) == req' = [req EXCEPT ![r] = Answered(r)]

(* kv.put of the record; whoever read it before holds a stale copy.        *)
PutUser(r, user, next) ==
    /\ rec' = user
    /\ req' = [q \in Requests |->
                 IF q = r THEN next
                 ELSE IF req[q].user = NotRead THEN req[q]
                 ELSE [req[q] EXCEPT !.stale = TRUE]]

----------------------------------------------------------------------------
(* A request arrives.                                                      *)

FirstStep(kind) ==
    CASE kind \in {"signup", "google", "adminDelete", "adminAccess"} -> "find"
      [] kind \in {"login"} -> "signin"
      [] kind \in {"postVerify", "verify", "reset"} -> "lookup"
      [] kind \in WithSession -> "session"

Arrives(r, kind) ==
    /\ req[r].step = "idle"
    /\ Cardinality({q \in Requests : Active(q)}) < MaxInFlight
    /\ \E s \in IF kind \in WithSession THEN issued ELSE {NoSid} :
       \E o \in IF kind = "revoke" THEN issued ELSE {NoSid} :
         req' = [req EXCEPT ![r] =
                   [Blank EXCEPT !.kind = kind, !.step = FirstStep(kind), !.sid = s, !.on = o,
                                 !.fuid = IF kind = "google" THEN GoogleUid ELSE NoUid]]
    /\ UNCHANGED <<firebase, store, issued, owned, faults>>

----------------------------------------------------------------------------
(* signup                                                                  *)

SignupFinds(r) ==
    /\ At(r, "signup", "find")
    /\ IF rec # NoRecord THEN Answer(r) ELSE Goto(r, "signupFirebase")
    /\ UNCHANGED <<firebase, store, issued, owned, faults>>

(* firebaseSignup.                                                         *)
NewAccount(u) ==
    /\ u \notin used
    /\ fb' = u
    /\ verified' = FALSE
    /\ used' = used \cup {u}
    /\ mail' = {}

SignupAtFirebase(r) ==
    /\ At(r, "signup", "signupFirebase")
    /\ \/ fb # NoUid /\ Answer(r) /\ UNCHANGED firebase
       \/ /\ fb = NoUid
          /\ \E u \in FirebaseUids :
               /\ NewAccount(u)
               /\ req' = [req EXCEPT ![r].step = "create", ![r].fuid = u]
    /\ UNCHANGED <<store, issued, owned, faults>>

SignupCreates(r) ==
    /\ At(r, "signup", "create")
    /\ PutUser(r, CreateUserFromFirebase(req[r].fuid), [req[r] EXCEPT !.step = "mail"])
    /\ UNCHANGED <<firebase, session, index, blobs, handle, issued, owned, faults>>

(* The mail may not be sent; the handle for another is stored either way.  *)
SignupMails(r) ==
    /\ At(r, "signup", "mail")
    /\ mail' \in {mail, IF fb = req[r].fuid THEN mail \cup {"verify"} ELSE mail}
    /\ handle' = [handle EXCEPT ![r] = req[r].fuid]
    /\ Answer(r)
    /\ UNCHANGED <<fb, verified, used, rec, session, index, blobs, issued, owned, faults>>

----------------------------------------------------------------------------
(* How each sign-in learns which Firebase account it is for.               *)

LoginAtFirebase(r) ==
    /\ At(r, "login", "signin")
    /\ \/ fb # NoUid /\ req' = [req EXCEPT ![r].step = "lookup", ![r].fuid = fb]
       \/ fb # NoUid /\ Answer(r)
       \/ fb = NoUid /\ Goto(r, "migrate")
    /\ UNCHANGED <<firebase, store, issued, owned, faults>>

(* migrateLegacyToFirebase: the hash in KV, then a new Firebase account     *)
(* with the password that the address had before.                          *)
MigrateFinds(r) ==
    /\ At(r, "login", "migrate")
    /\ \/ rec # NoRecord /\ rec.hash /\ Goto(r, "migrateSignup")
       \/ Answer(r)
    /\ UNCHANGED <<firebase, store, issued, owned, faults>>

MigrateSignsUp(r) ==
    /\ At(r, "login", "migrateSignup")
    /\ \/ fb # NoUid /\ Answer(r) /\ UNCHANGED <<firebase, proven>>
       \/ /\ fb = NoUid
          /\ \E u \in FirebaseUids :
               /\ NewAccount(u) /\ proven' = proven \cup {u}
               /\ req' = [req EXCEPT ![r].step = "lookup", ![r].fuid = u, ![r].migrated = TRUE]
    /\ UNCHANGED <<store, issued, adopted, faults>>

(* A lookup that fails counts as unverified.                               *)
LoginLooksUp(r) ==
    /\ At(r, "login", "lookup")
    /\ \E v \in {FALSE, verified /\ fb = req[r].fuid} :
         req' = [req EXCEPT ![r].step = "find", ![r].verified = v]
    /\ UNCHANGED <<firebase, store, issued, owned, faults>>

(* The handle's refresh token, and whether the address is verified by now. *)
PostVerifyLooksUp(r) ==
    /\ At(r, "postVerify", "lookup")
    /\ \/ /\ fb # NoUid /\ verified
          /\ \E t \in Requests :
               /\ handle[t] = fb
               /\ req' = [req EXCEPT ![r].step = "find", ![r].fuid = fb, ![r].on = t]
       \/ Answer(r)
    /\ UNCHANGED <<firebase, store, issued, owned, faults>>

(* firebaseApplyOobCode.                                                   *)
VerifyApplies(r) ==
    /\ At(r, "verify", "lookup")
    /\ \/ /\ "verify" \in mail
          /\ verified' = TRUE /\ mail' = mail \ {"verify"} /\ proven' = proven \cup {fb}
          /\ req' = [req EXCEPT ![r].step = "find", ![r].fuid = fb]
       \/ Answer(r) /\ UNCHANGED <<verified, mail, proven>>
    /\ UNCHANGED <<fb, used, store, issued, adopted, faults>>

(* firebaseConfirmPasswordReset, then a sign-in with the new password,     *)
(* which only who holds the mailbox knows.                                 *)
ResetConfirms(r) ==
    /\ At(r, "reset", "lookup")
    /\ \/ /\ "reset" \in mail
          /\ mail' = mail \ {"reset"} /\ proven' = proven \cup {fb}
          /\ Goto(r, "signin")
       \/ Answer(r) /\ UNCHANGED <<mail, proven>>
    /\ UNCHANGED <<fb, verified, used, store, issued, adopted, faults>>

ResetSignsIn(r) ==
    /\ At(r, "reset", "signin")
    /\ \/ /\ fb # NoUid /\ proven' = proven \cup {fb}
          /\ req' = [req EXCEPT ![r].step = "find", ![r].fuid = fb]
       \/ Answer(r) /\ UNCHANGED proven
    /\ UNCHANGED <<firebase, store, issued, adopted, faults>>

----------------------------------------------------------------------------
(* The rest of every sign-in: the record, then the session.                *)

(* The record's uid is brought in line with Firebase's.                    *)
Aligns(kind) == kind \in {"login", "postVerify", "reset"}

(* The aligned record is built anew around the trial.                      *)
AlignedAnew(r) ==
    [CreateUserFromFirebase(req[r].fuid) EXCEPT !.legacy = TRUE, !.trial = req[r].user.trial]

Aligned(r) ==
    [req[r].user EXCEPT !.uid = req[r].fuid, !.hash = FALSE,
                        !.legacy = @ \/ req[r].kind # "postVerify"]

FindUserByEmail(r) ==
    /\ req[r].kind \in SignIns /\ req[r].step = "find"
    /\ req' = [req EXCEPT ![r].user = rec, ![r].stale = FALSE,
                 ![r].step = IF rec = NoRecord THEN "create"
                             ELSE IF Aligns(req[r].kind) /\ rec.uid # req[r].fuid THEN "align"
                             ELSE "touch"]
    /\ UNCHANGED <<firebase, store, issued, owned, faults>>

CreatesUser(r) ==
    /\ req[r].kind \in SignIns /\ req[r].step = "create"
    /\ LET user == CreateUserFromFirebase(req[r].fuid)
       IN  PutUser(r, user, [req[r] EXCEPT !.user = user,
                               !.step = IF req[r].migrated THEN "flag" ELSE "touch"])
    /\ UNCHANGED <<firebase, session, index, blobs, handle, issued, owned, faults>>

FlagsUser(r) ==
    /\ At(r, "login", "flag")
    /\ LET user == [req[r].user EXCEPT !.legacy = TRUE]
       IN  PutUser(r, user, [req[r] EXCEPT !.user = user, !.step = "touch"])
    /\ UNCHANGED <<firebase, session, index, blobs, handle, issued, owned, faults>>

AlignsUser(r) ==
    /\ req[r].kind \in SignIns /\ req[r].step = "align"
    /\ PutUser(r, Aligned(r), [req[r] EXCEPT !.user = Aligned(r), !.step = "touch"])
    /\ adopted' = adopted \cup ({req[r].fuid} \ proven)
    /\ UNCHANGED <<firebase, session, index, blobs, handle, issued, proven, faults>>

(* The gate is not asked.                                                  *)
NeverRefused(r) == FALSE

(* A password login needs a verified address or a migrated record.         *)
Refused(r) == req[r].kind = "login" /\ ~req[r].verified /\ ~req[r].user.legacy

LoginRefused(r) ==
    /\ req[r].kind \in SignIns /\ req[r].step = "touch" /\ Refused(r)
    /\ handle' = [handle EXCEPT ![r] = req[r].fuid]
    /\ Answer(r)
    /\ UNCHANGED <<firebase, rec, session, index, blobs, issued, owned, faults>>

(* createSession puts both keys at once; the session is not indexed.       *)
SessionPutsAlone(r, u) == {[op |-> "putSession", sid |-> r, uid |-> u]}

SessionPuts(r, u) ==
    {[op |-> "putSession", sid |-> r, uid |-> u], [op |-> "putIndex", sid |-> r, uid |-> u]}

TouchLastLogin(r) ==
    /\ req[r].kind \in SignIns /\ req[r].step = "touch" /\ ~Refused(r)
    /\ LET next == [Blank EXCEPT !.kind = req[r].kind, !.step = "issue", !.on = req[r].on,
                                 !.fuid = req[r].fuid,
                                 !.todo = SessionPuts(r, req[r].user.uid)]
       IN  \/ PutUser(r, req[r].user, next) /\ UNCHANGED faults
           \/ /\ faults < MaxFaults /\ faults' = faults + 1
              /\ req' = [req EXCEPT ![r] = next] /\ UNCHANGED rec
    /\ UNCHANGED <<firebase, session, index, blobs, handle, issued, owned>>

(* Both puts done: a handle the browser held is dropped and the cookie set. *)
SessionIssued(r) ==
    /\ req[r].step = "issue" /\ req[r].todo = {}
    /\ handle' \in CASE req[r].kind = "google" -> {handle}
                     [] req[r].kind = "postVerify" -> {[handle EXCEPT ![req[r].on] = NoUid]}
                     [] OTHER -> {handle} \cup {[handle EXCEPT ![t] = NoUid] : t \in Requests}
    /\ issued' = issued \cup {r}
    /\ Answer(r)
    /\ UNCHANGED <<firebase, rec, session, index, blobs, owned, faults>>

----------------------------------------------------------------------------
(* Requests that come with a session.                                      *)

ReadsSession(r) ==
    /\ req[r].kind \in WithSession /\ req[r].step = "session"
    /\ LET u == session[req[r].sid]
           next == CASE req[r].kind \in {"change", "delete"} -> "reauth"
                     [] req[r].kind = "revoke" -> "target"
                     [] req[r].kind = "put" -> "access"
                     [] req[r].kind = "logout" -> "sweep"
       IN  IF req[r].kind = "logout"
           THEN req' = [req EXCEPT ![r].step = next,
                          ![r].todo = {[op |-> "read", sid |-> req[r].sid, uid |-> NoUid]}]
           ELSE IF u = NoUid THEN Answer(r)
           ELSE req' = [req EXCEPT ![r].step = next, ![r].uid = u]
    /\ UNCHANGED <<firebase, store, issued, owned, faults>>

(* The password is asked for again; change-password also sets the new one. *)
Reauthenticates(r) ==
    /\ req[r].step = "reauth"
    /\ \/ Answer(r)
       \/ /\ fb # NoUid
          /\ req' = [req EXCEPT ![r].fuid = fb,
                       ![r].step = IF req[r].kind = "delete" THEN "fbDelete" ELSE "list"]
    /\ UNCHANGED <<firebase, store, issued, owned, faults>>

DeletesAtFirebase(r) ==
    /\ At(r, "delete", "fbDelete")
    /\ IF fb # req[r].fuid THEN Answer(r) /\ UNCHANGED firebase
       ELSE /\ fb' = NoUid /\ verified' = FALSE /\ mail' = {} /\ used' = used
            /\ Goto(r, "list")
    /\ UNCHANGED <<store, issued, owned, faults>>

(* listSessionsForUser.                                                    *)
ListSessionsForUser(u) == {s \in Sids : <<u, s>> \in index}

(* destroySession reads the session first, to find its index entry.        *)
DestroyReads(sids) == {[op |-> "read", sid |-> s, uid |-> NoUid] : s \in sids}

ListsSessions(r) ==
    /\ req[r].step = "list"
    /\ LET u == req[r].uid
           mine == ListSessionsForUser(u)
       IN  req' = [req EXCEPT ![r] = [Blank EXCEPT !.kind = req[r].kind, !.step = "sweep",
             !.must = {s \in issued \ {req[r].sid} : session[s] = u},
             !.todo =
               IF req[r].kind = "change" THEN DestroyReads(mine \ {req[r].sid})
               ELSE DestroyReads(mine \cup {req[r].sid})
                    \cup {[op |-> "delUser", uid |-> u], [op |-> "delBlob", uid |-> u]}]]
    /\ UNCHANGED <<firebase, store, issued, owned, faults>>

(* Only a session of one's own uid can be revoked.                         *)
ReadsTarget(r) ==
    /\ At(r, "revoke", "target")
    /\ IF session[req[r].on] # req[r].uid THEN Answer(r)
       ELSE req' = [req EXCEPT ![r] = [Blank EXCEPT !.kind = "revoke", !.step = "sweep",
                                               !.todo = DestroyReads({req[r].on})]]
    /\ UNCHANGED <<firebase, store, issued, owned, faults>>

SweepEnds(r) ==
    /\ req[r].step = "sweep" /\ req[r].todo = {}
    /\ Answer(r)
    /\ UNCHANGED <<firebase, store, issued, owned, faults>>

(* requireActiveAccess, then the settings PUT.                             *)
ChecksAccess(r) ==
    /\ At(r, "put", "access")
    /\ IF rec = NoRecord \/ (rec # NoRecord /\ AccessState(rec) = "expired")
       THEN Answer(r) ELSE Goto(r, "write")
    /\ UNCHANGED <<firebase, store, issued, owned, faults>>

PutsSettings(r) ==
    /\ At(r, "put", "write")
    /\ blobs' = blobs \cup {req[r].uid}
    /\ Answer(r)
    /\ UNCHANGED <<firebase, rec, session, index, handle, issued, owned, faults>>

----------------------------------------------------------------------------
(* The admin's requests.                                                   *)

AdminFinds(r) ==
    /\ req[r].kind \in {"adminDelete", "adminAccess"} /\ req[r].step = "find"
    /\ IF rec = NoRecord THEN Answer(r)
       ELSE IF req[r].kind = "adminDelete"
       THEN req' = [req EXCEPT ![r].step = "sweep",
              ![r].todo = {[op |-> "delUser", uid |-> rec.uid], [op |-> "delBlob", uid |-> rec.uid]}]
       ELSE req' = [req EXCEPT ![r].step = "access", ![r].user = rec, ![r].stale = FALSE]
    /\ UNCHANGED <<firebase, store, issued, owned, faults>>

(* What the admin's four actions make of the record they read.             *)
ExtendTrial(user) == [user EXCEPT !.trial = Today + GrantDays - TrialDays]
ResetTrial(user) == [user EXCEPT !.trial = Today]
GrantSubscription(user) ==
    [user EXCEPT !.sub = (IF @ > Today THEN @ ELSE Today) + GrantDays]
CancelSubscription(user) == [user EXCEPT !.sub = 0]

AdminWrites(r) ==
    /\ At(r, "adminAccess", "access")
    /\ \E user \in {ExtendTrial(req[r].user), ResetTrial(req[r].user),
                    GrantSubscription(req[r].user), CancelSubscription(req[r].user)} :
         PutUser(r, user, Answered(r))
    /\ UNCHANGED <<firebase, session, index, blobs, handle, issued, owned, faults>>

----------------------------------------------------------------------------
(* Writes that are under way together land in any order.                   *)

Done(r, o) == req' = [req EXCEPT ![r].todo = @ \ {o}]

PutsSession(r, o) ==
    /\ o.op = "putSession"
    /\ session' = [session EXCEPT ![o.sid] = o.uid]
    /\ Done(r, o)
    /\ UNCHANGED <<rec, index, blobs>>

PutsIndex(r, o) ==
    /\ o.op = "putIndex"
    /\ index' = index \cup {<<o.uid, o.sid>>}
    /\ Done(r, o)
    /\ UNCHANGED <<rec, session, blobs>>

(* Only the index entry is deleted.                                        *)
DestroyForgetsSession(s, u) ==
    IF u = NoUid THEN {} ELSE {[op |-> "delIndex", sid |-> s, uid |-> u]}

(* The deletes that follow destroySession's read.                          *)
DestroySession(s, u) ==
    {[op |-> "delSession", sid |-> s, uid |-> NoUid]}
    \cup (IF u = NoUid THEN {} ELSE {[op |-> "delIndex", sid |-> s, uid |-> u]})

ReadsToDestroy(r, o) ==
    /\ o.op = "read"
    /\ req' = [req EXCEPT ![r].todo = (@ \ {o}) \cup DestroySession(o.sid, session[o.sid])]
    /\ UNCHANGED <<rec, session, index, blobs>>

DeletesSession(r, o) ==
    /\ o.op = "delSession"
    /\ session' = [session EXCEPT ![o.sid] = NoUid]
    /\ Done(r, o)
    /\ UNCHANGED <<rec, index, blobs>>

DeletesIndex(r, o) ==
    /\ o.op = "delIndex"
    /\ index' = index \ {<<o.uid, o.sid>>}
    /\ Done(r, o)
    /\ UNCHANGED <<rec, session, blobs>>

DeletesUser(r, o) ==
    /\ o.op = "delUser"
    /\ PutUser(r, NoRecord, [req[r] EXCEPT !.todo = @ \ {o}])
    /\ UNCHANGED <<session, index, blobs>>

DeletesBlob(r, o) ==
    /\ o.op = "delBlob"
    /\ blobs' = blobs \ {o.uid}
    /\ Done(r, o)
    /\ UNCHANGED <<rec, session, index>>

Lands(r) ==
    /\ \E o \in req[r].todo :
         \/ PutsSession(r, o) \/ PutsIndex(r, o) \/ ReadsToDestroy(r, o)
         \/ DeletesSession(r, o) \/ DeletesIndex(r, o) \/ DeletesUser(r, o) \/ DeletesBlob(r, o)
    /\ UNCHANGED <<firebase, handle, issued, owned, faults>>

(* allSettled does not mind a delete that fails.                           *)
DeleteFails(r) ==
    /\ faults < MaxFaults /\ faults' = faults + 1
    /\ req[r].step = "sweep"
    /\ \E o \in req[r].todo : Done(r, o)
    /\ UNCHANGED <<firebase, store, issued, owned>>

(* A call throws or the isolate goes: what was not done is not done.       *)
Dies(r) ==
    /\ faults < MaxFaults /\ faults' = faults + 1
    /\ Active(r)
    /\ req' = [req EXCEPT ![r] = [Blank EXCEPT !.step = "done"]]
    /\ UNCHANGED <<firebase, store, issued, owned>>

----------------------------------------------------------------------------
(* Around the requests.                                                    *)

(* resend-verification, with a handle, and forgot-password.                *)
SendsLink(link) ==
    /\ fb # NoUid /\ link \notin mail
    /\ link = "verify" => \E t \in Requests : handle[t] = fb
    /\ mail' = mail \cup {link}
    /\ UNCHANGED <<fb, verified, used, store, req, issued, owned, faults>>

(* The link of the mail without a continueUrl ends at Firebase's own page. *)
VerifiesAtFirebase ==
    /\ "verify" \in mail
    /\ mail' = mail \ {"verify"} /\ verified' = TRUE
    /\ proven' = proven \cup {fb}
    /\ UNCHANGED <<fb, used, store, req, issued, adopted, faults>>

Step(r) ==
    \/ SignupFinds(r) \/ SignupAtFirebase(r) \/ SignupCreates(r) \/ SignupMails(r)
    \/ LoginAtFirebase(r) \/ MigrateFinds(r) \/ MigrateSignsUp(r) \/ LoginLooksUp(r)
    \/ PostVerifyLooksUp(r) \/ VerifyApplies(r) \/ ResetConfirms(r) \/ ResetSignsIn(r)
    \/ FindUserByEmail(r) \/ CreatesUser(r) \/ FlagsUser(r) \/ AlignsUser(r)
    \/ LoginRefused(r) \/ TouchLastLogin(r) \/ SessionIssued(r)
    \/ ReadsSession(r) \/ Reauthenticates(r) \/ DeletesAtFirebase(r) \/ ListsSessions(r)
    \/ ReadsTarget(r) \/ SweepEnds(r) \/ ChecksAccess(r) \/ PutsSettings(r)
    \/ AdminFinds(r) \/ AdminWrites(r) \/ Lands(r)

Next ==
    \/ \E r \in Requests : Step(r) \/ DeleteFails(r) \/ Dies(r)
    \/ \E r \in Requests, kind \in Kinds : Arrives(r, kind)
    \/ \E link \in {"verify", "reset"} : SendsLink(link)
    \/ VerifiesAtFirebase

Spec == Init /\ [][Next]_vars

----------------------------------------------------------------------------
Live == {s \in Sids : session[s] # NoUid}
BeingDeleted(s) == \E q \in Requests : [op |-> "delSession", sid |-> s, uid |-> NoUid] \in req[q].todo

(* "Revoke every OTHER session" (change-password:82), "EVERY session"      *)
(* (privacy/delete:94): when the handler answers, every session of the     *)
(* user's uid whose cookie had been handed out when it listed them is gone *)
(* or about to go, though sessions are listed from another key than the    *)
(* one that makes them valid.                                              *)
OthersSignedOut ==
    faults = 0 =>
      \A r \in Requests :
        req[r].step = "done" =>
          \A s \in req[r].must : session[s] = NoUid \/ BeingDeleted(s)

(* A session that is valid can be found by its user's uid once nothing is  *)
(* under way: the devices page shows every one.                            *)
SessionsAreListed ==
    faults = 0 /\ (\A r \in Requests : ~Active(r)) =>
      \A s \in Live : <<session[s], s>> \in index

(* "New signups must click the link before they can sign in"               *)
(* (login/route.ts:83): a session that rests on a Firebase account is      *)
(* issued only when the account was shown to be of the owner of the        *)
(* address, by a link or by the password the address had before, or when   *)
(* a login once put it in a record of another uid.  No order of sign-ups,  *)
(* deletions and stale writes of the record lets another account pass.     *)
Entering == {r \in Requests : req[r].step = "issue" /\ req[r].kind # "google"}
SessionsAreProven == \A r \in Entering : req[r].fuid \in proven \cup adopted

(* "New signups never have this flag" (users.ts:30): the exception of      *)
(* SessionsAreProven is for users of before Firebase, and they have proved *)
(* their password.                                                         *)
OnlyProvenPass == \A r \in Entering : req[r].fuid \in proven

(* Of the requests that rewrite the whole record, only a cancellation, a   *)
(* deletion, or one that read it before another wrote it, takes away       *)
(* access the user has today.                                              *)
HasAccess == rec # NoRecord /\ AccessState(rec) # "expired"
AccessEndsByDesign ==
    [][HasAccess /\ ~HasAccess' =>
         \/ rec' = NoRecord
         \/ rec' = CancelSubscription(rec)
         \/ \E r \in Requests : req[r].stale /\ req'[r] # req[r]]_vars

(* "Revoke EVERY session, not just this device's" (privacy/delete:94): a   *)
(* deletion goes on to destroy every session that is valid when it lists   *)
(* them, unless another request is about to.                               *)
DeletionRevokesEverySession ==
    [][\A r \in Requests :
         At(r, "delete", "list") /\ req'[r].step = "sweep" =>
           \A s \in issued \cap Live :
             DestroyReads({s}) \subseteq req'[r].todo \/ BeingDeleted(s)]_vars
=============================================================================
