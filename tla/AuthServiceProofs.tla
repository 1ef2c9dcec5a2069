-------------------------- MODULE AuthServiceProofs --------------------------
(***************************************************************************)
(* AuthService, for every set of requests and devices, every plan and any  *)
(* number of failures: a login has one refresh token that works at most,   *)
(* a replay ends it, and the devices that hold a slot stay within the      *)
(* largest limit the user was ever given.                                  *)
(***************************************************************************)
EXTENDS AuthService, FiniteSetTheorems, TLAPS

(* What the requests carry.                                                *)

Known(t) == token[t].state # "none"

\* A request's locals fit the step it is at, and its own token is there from
\* the INSERT on and given to the client with the answer.
Carries(r) ==
    /\ req[r].kind = "refresh" => req[r].token \in given
    /\ At(r, "check_lock") \/ At(r, "verify") \/ At(r, "record") \/ At(r, "clear")
         => req[r].kind = "login"
    /\ At(r, "swap") \/ At(r, "revoke") \/ At(r, "stitch") => req[r].kind = "refresh"
    /\ At(r, "read_user") \/ At(r, "insert_token") => req[r].kind \in {"login", "refresh"}
    /\ ~At(r, "stitch") /\ ~At(r, "done") => ~Known(r)
    /\ At(r, "stitch") => /\ Known(r)
                          /\ token[r].login = token[req[r].token].login
    /\ r \in given => At(r, "done")

\* A login's token is its first and stays in the table.
Descends(t) == Known(t) => token[t].login \in Requests /\ Known(token[t].login)

---------------------------------------------------------------------------
(* One token of a login is usable or on its way through a rotation.        *)

Rotates(q) == req[q].kind = "refresh" /\ (At(q, "read_user") \/ At(q, "insert_token"))
Holds(q) == Usable(q) \/ Rotates(q)
LoginOf(q) == IF Rotates(q) THEN token[req[q].token].login ELSE token[q].login

OneHolder ==
    \A p, q \in Requests : Holds(p) /\ Holds(q) /\ LoginOf(p) = LoginOf(q) => p = q

\* Unless a stitch failed, what the clients of a login were given is one chain.
OneChain ==
    \A t, u \in given :
       token[t].login = token[u].login /\ token[t].login \notin astray
         => token[t].chain = token[u].chain

\* A login that was ended has no usable token in a client's hands, and no
\* rotation that would make one.
IsOver(l) ==
    /\ Known(l)
    /\ \A t \in given : token[t].login = l => ~Usable(t)
    /\ \A q \in Requests : Rotates(q) \/ At(q, "stitch") => token[req[q].token].login # l

Ended == \A l \in struck : IsOver(l)

TokensInv ==
    /\ \A r \in Requests : Carries(r) /\ Descends(r)
    /\ OneHolder
    /\ OneChain
    /\ Ended

---------------------------------------------------------------------------
(* An Acquire whose transaction will go through knows that there is room.  *)

Within(n) == n <= 1 \/ \E t \in given : n <= token[t].max
Room(d) == d \in Holders \/ Cardinality(Holders) < attempt[d].max

SlotsInv ==
    /\ Within(Cardinality(Holders))
    /\ \A d \in Attempting :
          /\ Within(attempt[d].max)
          /\ attempt[d].step = "exec" /\ ~attempt[d].dirty => Room(d)

AuthInv == AuthTypeOK /\ TokensInv /\ SlotsInv

---------------------------------------------------------------------------
(* Type correctness.                                                       *)

RequestType == [kind : {"none", "register", "activate", "login", "refresh"},
                step : Steps, token : Requests \cup {NoToken}, max : Nat]
TokenType == [state : {"none", "live", "used", "expired"}, revoked : BOOLEAN,
              chain : Requests \cup {NoToken}, login : Requests \cup {NoToken}, max : Nat]
AttemptType == [step : {"idle", "watched", "purged", "count", "exec"},
                age : 0 .. MaxDelay, max : Nat, dirty : BOOLEAN]

\* What every action does not touch keeps its type.
TokenTypes ==
    /\ token \in [Requests -> TokenType]
    /\ given \subseteq {t \in Requests : Known(t)}
    /\ astray \subseteq Requests /\ struck \subseteq Requests
AccountTypes ==
    /\ user \in [status : {"none", "pending_activation", "trialing", "active"},
                 devices_max : Plans]
    /\ link \in {"none", "minted", "mailed", "used", "expired"}
    /\ failures \in Nat
RequestTypes == req \in [Requests -> RequestType]
FaultTypes == faults \in 0 .. MaxFaults

LEMMA TypeParts ==
    AuthTypeOK <=> SlotsTypeOK /\ AccountTypes /\ TokenTypes /\ RequestTypes /\ FaultTypes
BY DEF AuthTypeOK, AccountTypes, TokenTypes, RequestTypes, FaultTypes, RequestType, TokenType, Known

LEMMA AnswersTypes ==
    ASSUME RequestTypes, NEW r \in Requests, Answers(r) PROVE RequestTypes'
BY DEF RequestTypes, Answers, Answered, Idle, RequestType, Steps

LEMMA GoesToTypes ==
    ASSUME RequestTypes, NEW r \in Requests, NEW s \in Steps, GoesTo(r, s) PROVE RequestTypes'
BY DEF RequestTypes, GoesTo, RequestType

LEMMA FaultIsTyped == ASSUME FaultTypes, Fault PROVE FaultTypes'
BY AuthAssumption DEF FaultTypes, Fault

---------------------------------------------------------------------------
(* What an action that leaves some of the state alone preserves.           *)

Typed == TokenTypes /\ RequestTypes

LEMMA SlotsKept ==
    ASSUME SlotsTypeOK, SlotsInv, UNCHANGED slotVars,
           given \subseteq given', \A t \in given : token'[t].max = token[t].max
    PROVE  SlotsTypeOK' /\ SlotsInv'
<1>1. slots' = slots /\ attempt' = attempt /\ keyTTL' = keyTTL
  BY DEF slotVars
<1>2. SlotsTypeOK'
  BY <1>1 DEF SlotsTypeOK
<1>3. Holders' = Holders /\ Attempting' = Attempting
  BY <1>1 DEF Holders, Attempting
<1>4. \A d \in Attempting : Room(d)' <=> Room(d)
  BY <1>1, <1>3 DEF Room
<1>5. Within(Cardinality(Holders))'
  BY <1>3 DEF SlotsInv, Within
<1>6. \A d \in Attempting : Within(attempt[d].max)'
  BY <1>1 DEF SlotsInv, Within
<1> QED
  BY <1>1, <1>2, <1>3, <1>4, <1>5, <1>6 DEF SlotsInv

LEMMA TokensKept ==
    ASSUME Typed, TokensInv, UNCHANGED tokenVars, UNCHANGED req
    PROVE  Typed' /\ TokensInv'
<1>1. token' = token /\ given' = given /\ astray' = astray /\ struck' = struck /\ req' = req
  BY DEF tokenVars
<1>2. Typed'
  BY <1>1 DEF Typed, TokenTypes, RequestTypes, Known
<1>3. \A r \in Requests : Carries(r)' /\ Descends(r)'
  BY <1>1 DEF TokensInv, Carries, Descends, At, Known
<1>4. OneHolder'
  BY <1>1 DEF TokensInv, OneHolder, Holds, LoginOf, Rotates, Usable, At
<1>5. OneChain'
  BY <1>1 DEF TokensInv, OneChain
<1>6. Ended'
  BY <1>1 DEF TokensInv, Ended, IsOver, Known, Usable, Rotates, At
<1> QED
  BY <1>2, <1>3, <1>4, <1>5, <1>6 DEF TokensInv

\* A request moves on without a write to the table, and not into a rotation.
LEMMA Moves ==
    ASSUME Typed, TokensInv, UNCHANGED tokenVars, NEW r \in Requests, NEW v \in RequestType,
           req' = [req EXCEPT ![r] = v],
           v.kind = "refresh" => v.token \in given,
           v.step \in {"check_lock", "verify", "record", "clear"} => v.kind = "login",
           v.step \in {"swap", "revoke"} => v.kind = "refresh",
           v.step # "stitch",
           v.step \in {"read_user", "insert_token"} =>
              \/ v.kind = "login"
              \/ v.kind = "refresh" /\ Rotates(r) /\ v.token = req[r].token,
           v.step = "done" \/ ~Known(r)
    PROVE  Typed' /\ TokensInv'
<1>1. token' = token /\ given' = given /\ astray' = astray /\ struck' = struck
  BY DEF tokenVars
<1>2. \A q \in Requests : req'[q] = IF q = r THEN v ELSE req[q]
  BY DEF Typed, RequestTypes
<1>3. Typed'
  <2>1. TokenTypes'
    BY <1>1 DEF Typed, TokenTypes, Known
  <2>2. RequestTypes'
    BY DEF Typed, RequestTypes
  <2> QED
    BY <2>1, <2>2 DEF Typed
<1>4. \A q \in Requests : Descends(q)'
  BY <1>1 DEF TokensInv, Descends, Known
<1>5. \A q \in Requests : Carries(q)'
  <2>1. ASSUME NEW q \in Requests, q # r PROVE Carries(q)'
    BY <1>1, <1>2, <2>1 DEF TokensInv, Carries, At, Known
  <2>2. Carries(r)'
    <3>1. req'[r] = v /\ Carries(r) /\ (r \in given => Known(r))
      BY <1>2 DEF TokensInv, Typed, TokenTypes
    <3> QED
      BY <1>1, <3>1 DEF Carries, At, Known
  <2> QED
    BY <2>1, <2>2
<1>6. \A q \in Requests : Rotates(q)' => Rotates(q) /\ req'[q].token = req[q].token
  BY <1>2 DEF Rotates, At
<1>7. OneHolder'
  <2>1. \A q \in Requests : Usable(q)' => Usable(q) /\ ~Rotates(q)
    BY <1>1, <1>2 DEF Usable, TokensInv, Carries, Known, Rotates, At
  <2>2. \A q \in Requests : Holds(q)' => Holds(q) /\ LoginOf(q)' = LoginOf(q)
    BY <1>1, <1>6, <2>1 DEF Holds, LoginOf
  <2> QED
    BY <2>2 DEF TokensInv, OneHolder
<1>8. OneChain'
  BY <1>1 DEF TokensInv, OneChain
<1>9. Ended'
  <2>1. \A q \in Requests : At(q, "stitch")' => At(q, "stitch") /\ req'[q].token = req[q].token
    BY <1>2 DEF At
  <2> QED
    BY <1>1, <1>6, <2>1 DEF TokensInv, Ended, IsOver, Known, Usable
<1> QED
  BY <1>3, <1>4, <1>5, <1>7, <1>8, <1>9 DEF TokensInv

LEMMA AnswersKeeps ==
    ASSUME Typed, TokensInv, UNCHANGED tokenVars, NEW r \in Requests, Answers(r)
    PROVE  Typed' /\ TokensInv'
<1>1. Answered = [kind |-> "none", step |-> "done", token |-> NoToken, max |-> 0]
  BY DEF Answered, Idle
<1>2. Answered \in RequestType
  BY <1>1 DEF RequestType, Steps
<1> QED
  BY <1>1, <1>2, Moves DEF Answers

LEMMA GoesToKeeps ==
    ASSUME Typed, TokensInv, UNCHANGED tokenVars, NEW r \in Requests, NEW s \in Steps,
           GoesTo(r, s), ~Known(r),
           s \in {"check_lock", "verify", "record", "clear", "read_user"} => req[r].kind = "login",
           s \in {"swap", "revoke"} => req[r].kind = "refresh",
           s \notin {"insert_token", "stitch"}
    PROVE  Typed' /\ TokensInv'
<1> DEFINE v == [req[r] EXCEPT !.step = s]
<1>1. req[r] \in RequestType
  BY DEF Typed, RequestTypes
<1>2. v \in RequestType
  BY <1>1 DEF RequestType
<1>3. v.step = s /\ v.kind = req[r].kind /\ v.token = req[r].token
  BY <1>1 DEF RequestType
<1>4. req' = [req EXCEPT ![r] = v]
  BY DEF GoesTo
<1>5. req[r].kind = "refresh" => req[r].token \in given
  BY DEF TokensInv, Carries
<1> HIDE DEF v
<1> QED
  BY <1>2, <1>3, <1>4, <1>5, Moves

---------------------------------------------------------------------------
(* Registration, activation, and a login up to its token.                  *)

\* What a request's statement preserves is shown in these parts.
LEMMA Parts ==
    AuthInv <=> /\ SlotsTypeOK /\ SlotsInv
                /\ AccountTypes /\ FaultTypes
                /\ Typed /\ TokensInv
BY TypeParts DEF AuthInv, Typed

LEMMA SlotsAside ==
    ASSUME AuthInv, UNCHANGED slotVars, UNCHANGED tokenVars PROVE SlotsTypeOK' /\ SlotsInv'
<1>1. token' = token /\ given' = given
  BY DEF tokenVars
<1> QED
  BY <1>1, SlotsKept, Parts

\* A statement that writes none of the tokens, and answers or moves on.
LEMMA Aside ==
    ASSUME AuthInv, NEW r \in Requests, UNCHANGED slotVars, UNCHANGED tokenVars,
           AccountTypes', FaultTypes',
           \/ Answers(r)
           \/ \E s \in Steps :
                 /\ GoesTo(r, s)
                 /\ ~At(r, "stitch") /\ ~At(r, "done")
                 /\ s \in {"check_lock", "verify", "record", "clear", "read_user"}
                       => req[r].kind = "login"
                 /\ s \in {"swap", "revoke"} => req[r].kind = "refresh"
                 /\ s \notin {"insert_token", "stitch"}
    PROVE  AuthInv'
<1>1. SlotsTypeOK' /\ SlotsInv'
  BY SlotsAside
<1>2. Typed' /\ TokensInv'
  <2>1. Typed /\ TokensInv
    BY Parts
  <2>2. CASE Answers(r)
    BY <2>1, <2>2, AnswersKeeps
  <2>3. CASE ~Answers(r)
    <3>1. ~At(r, "stitch") /\ ~At(r, "done") => ~Known(r)
      BY <2>1 DEF TokensInv, Carries
    <3> QED
      BY <2>1, <2>3, <3>1, GoesToKeeps
  <2> QED
    BY <2>2, <2>3
<1>3. (SlotsTypeOK /\ SlotsInv)' /\ (AccountTypes /\ FaultTypes)' /\ (Typed /\ TokensInv)'
  BY <1>1, <1>2
<1> QED
  BY <1>3, Parts, PTL

LEMMA ArrivesInv ==
    ASSUME AuthInv, NEW r \in Requests, NEW kind \in {"register", "activate", "login", "refresh"},
           NEW first \in Steps, NEW t \in Requests \cup {NoToken}, Arrives(r, kind, first, t),
           kind = "refresh" => first = "swap" /\ t \in given,
           kind = "login" => first = "check_lock",
           kind \in {"register", "activate"} => first \in {"insert_user", "consume"}
    PROVE  AuthInv'
<1> DEFINE v == [kind |-> kind, step |-> first, token |-> t, max |-> 0]
<1>1. v \in RequestType
  BY DEF RequestType
<1>2. /\ req' = [req EXCEPT ![r] = v] /\ At(r, "idle")
      /\ UNCHANGED <<slotVars, accountVars, tokenVars, faults>>
  BY DEF Arrives
<1>3. Typed /\ TokensInv /\ AccountTypes /\ FaultTypes
  BY Parts
<1>4. ~Known(r)
  BY <1>2, <1>3 DEF TokensInv, Carries, At
<1>5. v.kind = kind /\ v.step = first /\ v.token = t
  OBVIOUS
<1> HIDE DEF v
<1>6. Typed' /\ TokensInv'
  BY <1>1, <1>2, <1>3, <1>4, <1>5, Moves
<1>7. SlotsTypeOK' /\ SlotsInv'
  BY <1>2, SlotsAside
<1>8. AccountTypes' /\ FaultTypes'
  BY <1>2, <1>3 DEF AccountTypes, FaultTypes, accountVars
<1> QED
  BY <1>6, <1>7, <1>8, Parts, PTL

LEMMA ArrivalsInv ==
    ASSUME AuthInv, NEW r \in Requests,
           \/ RegisterArrives(r) \/ ActivateArrives(r) \/ LoginArrives(r)
           \/ \E t \in Requests : RefreshArrives(r, t)
    PROVE  AuthInv'
<1>1. CASE RegisterArrives(r)
  BY <1>1, ArrivesInv DEF RegisterArrives, Steps
<1>2. CASE ActivateArrives(r)
  BY <1>2, ArrivesInv DEF ActivateArrives, Steps
<1>3. CASE LoginArrives(r)
  BY <1>3, ArrivesInv DEF LoginArrives, Steps
<1>4. ASSUME NEW t \in Requests, RefreshArrives(r, t) PROVE AuthInv'
  BY <1>4, ArrivesInv DEF RefreshArrives, Steps
<1> QED
  BY <1>1, <1>2, <1>3, <1>4

LEMMA InsertsUserInv ==
    ASSUME AuthInv, NEW r \in Requests, InsertsUser(r) PROVE AuthInv'
<1>1. AccountTypes /\ FaultTypes /\ Carries(r)
  BY Parts DEF TokensInv
<1>2. AccountTypes' /\ FaultTypes'
  BY <1>1, AuthAssumption DEF InsertsUser, AccountTypes, FaultTypes, accountVars
<1>3. /\ UNCHANGED slotVars /\ UNCHANGED tokenVars
      /\ ~At(r, "stitch") /\ ~At(r, "done")
  BY DEF InsertsUser, At
<1> QED
  BY <1>1, <1>2, <1>3, Aside DEF InsertsUser, Carries, At, Steps

LEMMA MintsLinkInv ==
    ASSUME AuthInv, NEW r \in Requests, MintsLink(r) PROVE AuthInv'
<1>1. AccountTypes /\ FaultTypes /\ Carries(r)
  BY Parts DEF TokensInv
<1>2. AccountTypes' /\ FaultTypes'
  BY <1>1, AuthAssumption DEF MintsLink, AccountTypes, FaultTypes, accountVars
<1>3. /\ UNCHANGED slotVars /\ UNCHANGED tokenVars
      /\ ~At(r, "stitch") /\ ~At(r, "done")
  BY DEF MintsLink, At
<1> QED
  BY <1>1, <1>2, <1>3, Aside DEF MintsLink, Carries, At, Steps

LEMMA MailsLinkInv ==
    ASSUME AuthInv, NEW r \in Requests, MailsLink(r) PROVE AuthInv'
<1>1. AccountTypes /\ FaultTypes /\ Carries(r)
  BY Parts DEF TokensInv
<1>2. AccountTypes' /\ FaultTypes'
  BY <1>1, AuthAssumption DEF MailsLink, AccountTypes, FaultTypes, accountVars
<1>3. /\ UNCHANGED slotVars /\ UNCHANGED tokenVars
      /\ ~At(r, "stitch") /\ ~At(r, "done")
  BY DEF MailsLink, At
<1> QED
  BY <1>1, <1>2, <1>3, Aside DEF MailsLink, Carries, At, Steps

LEMMA ConsumesLinkInv ==
    ASSUME AuthInv, NEW r \in Requests, ConsumesLink(r) PROVE AuthInv'
<1>1. AccountTypes /\ FaultTypes /\ Carries(r)
  BY Parts DEF TokensInv
<1>2. AccountTypes' /\ FaultTypes'
  BY <1>1, AuthAssumption DEF ConsumesLink, AccountTypes, FaultTypes, accountVars
<1>3. /\ UNCHANGED slotVars /\ UNCHANGED tokenVars
      /\ ~At(r, "stitch") /\ ~At(r, "done")
  BY DEF ConsumesLink, At
<1> QED
  BY <1>1, <1>2, <1>3, Aside DEF ConsumesLink, Carries, At, Steps

LEMMA StartsTrialInv ==
    ASSUME AuthInv, NEW r \in Requests, StartsTrial(r) PROVE AuthInv'
<1>1. AccountTypes /\ FaultTypes /\ Carries(r)
  BY Parts DEF TokensInv
<1>2. AccountTypes' /\ FaultTypes'
  BY <1>1, AuthAssumption DEF StartsTrial, AccountTypes, FaultTypes, accountVars
<1>3. /\ UNCHANGED slotVars /\ UNCHANGED tokenVars
      /\ ~At(r, "stitch") /\ ~At(r, "done")
  BY DEF StartsTrial, At
<1> QED
  BY <1>1, <1>2, <1>3, Aside DEF StartsTrial, Carries, At, Steps

LEMMA ChecksLockInv ==
    ASSUME AuthInv, NEW r \in Requests, ChecksLock(r) PROVE AuthInv'
<1>1. AccountTypes /\ FaultTypes /\ Carries(r)
  BY Parts DEF TokensInv
<1>2. AccountTypes' /\ FaultTypes'
  BY <1>1 DEF ChecksLock, AccountTypes, FaultTypes, accountVars
<1>3. /\ UNCHANGED slotVars /\ UNCHANGED tokenVars
      /\ ~At(r, "stitch") /\ ~At(r, "done")
  BY DEF ChecksLock, At
<1> QED
  BY <1>1, <1>2, <1>3, Aside DEF ChecksLock, Carries, At, Steps

LEMMA RecordsFailureInv ==
    ASSUME AuthInv, NEW r \in Requests, RecordsFailure(r) PROVE AuthInv'
<1>1. AccountTypes /\ FaultTypes /\ Carries(r)
  BY Parts DEF TokensInv
<1>2. AccountTypes' /\ FaultTypes'
  BY <1>1, AuthAssumption DEF RecordsFailure, AccountTypes, FaultTypes, accountVars
<1>3. /\ UNCHANGED slotVars /\ UNCHANGED tokenVars
      /\ ~At(r, "stitch") /\ ~At(r, "done")
  BY DEF RecordsFailure, At
<1> QED
  BY <1>1, <1>2, <1>3, Aside DEF RecordsFailure, Carries, At, Steps

LEMMA ClearsFailuresInv ==
    ASSUME AuthInv, NEW r \in Requests, ClearsFailures(r) PROVE AuthInv'
<1>1. AccountTypes /\ FaultTypes /\ Carries(r)
  BY Parts DEF TokensInv
<1>2. AccountTypes' /\ FaultTypes'
  BY <1>1, AuthAssumption DEF ClearsFailures, AccountTypes, FaultTypes, accountVars
<1>3. /\ UNCHANGED slotVars /\ UNCHANGED tokenVars
      /\ ~At(r, "stitch") /\ ~At(r, "done")
  BY DEF ClearsFailures, At
<1> QED
  BY <1>1, <1>2, <1>3, Aside DEF ClearsFailures, Carries, At, Steps

LEMMA VerifiesInv ==
    ASSUME AuthInv, NEW r \in Requests, NEW right \in BOOLEAN, Verifies(r, right) PROVE AuthInv'
<1>1. AccountTypes /\ FaultTypes /\ Carries(r)
  BY Parts DEF TokensInv
<1>2. AccountTypes' /\ FaultTypes'
  BY <1>1 DEF Verifies, AccountTypes, FaultTypes, accountVars
<1>3. /\ UNCHANGED slotVars /\ UNCHANGED tokenVars
      /\ ~At(r, "stitch") /\ ~At(r, "done")
  BY DEF Verifies, At
<1> QED
  BY <1>1, <1>2, <1>3, Aside DEF Verifies, Carries, At, Steps

\* The UPDATE that swaps is taken for one that found nothing.
LEMMA SwapIsMisreadInv ==
    ASSUME AuthInv, NEW r \in Requests, SwapIsMisread(r) PROVE AuthInv'
<1>1. AccountTypes /\ FaultTypes /\ Carries(r)
  BY Parts DEF TokensInv
<1>2. AccountTypes' /\ FaultTypes'
  BY <1>1, AuthAssumption DEF SwapIsMisread, AccountTypes, FaultTypes, accountVars, Fault
<1>3. /\ UNCHANGED slotVars /\ UNCHANGED tokenVars
      /\ ~At(r, "stitch") /\ ~At(r, "done")
  BY DEF SwapIsMisread, At
<1> QED
  BY <1>1, <1>2, <1>3, Aside DEF SwapIsMisread, Carries, At, Steps

\* The two that only answer.
LEMMA GivesUpInv ==
    ASSUME AuthInv, NEW r \in Requests, RevokeFails(r) \/ Dies(r) PROVE AuthInv'
<1>1. /\ Answers(r) /\ Fault
      /\ UNCHANGED slotVars /\ UNCHANGED accountVars /\ UNCHANGED tokenVars
  BY DEF RevokeFails, Dies
<1>2. AccountTypes' /\ FaultTypes'
  BY <1>1, Parts, FaultIsTyped DEF AccountTypes, accountVars
<1> QED
  BY <1>1, <1>2, Aside

---------------------------------------------------------------------------
(* issueTokens.                                                            *)

LEMMA ReadsUserInv ==
    ASSUME AuthInv, NEW r \in Requests, ReadsUser(r) PROVE AuthInv'
<1> DEFINE v == [req[r] EXCEPT !.step = "insert_token", !.max = user.devices_max]
<1>1. req[r] \in RequestType /\ user.devices_max \in Nat
  BY Parts, AuthAssumption DEF Typed, RequestTypes, AccountTypes
<1>2. v \in RequestType
  BY <1>1 DEF RequestType, Steps
<1>3. v.step = "insert_token" /\ v.kind = req[r].kind /\ v.token = req[r].token
  BY <1>1 DEF RequestType
<1>4. req' = [req EXCEPT ![r] = v] /\ At(r, "read_user")
  BY DEF ReadsUser
<1> HIDE DEF v
<1>5. UNCHANGED slotVars /\ UNCHANGED accountVars /\ UNCHANGED tokenVars /\ UNCHANGED faults
  BY DEF ReadsUser
<1>6. Carries(r) /\ Typed /\ TokensInv /\ AccountTypes /\ FaultTypes
  BY Parts DEF TokensInv
<1>7. /\ ~Known(r)
      /\ v.kind = "login" \/ (v.kind = "refresh" /\ Rotates(r))
      /\ v.kind = "refresh" => v.token \in given
  <2>1. req[r].step = "read_user"
    BY <1>4 DEF At
  <2>2. ~Known(r) /\ req[r].kind \in {"login", "refresh"}
    BY <1>6, <2>1 DEF Carries, At
  <2>3. req[r].kind = "refresh" => req[r].token \in given /\ Rotates(r)
    BY <1>6, <2>1 DEF Carries, At, Rotates
  <2> QED
    BY <1>3, <2>2, <2>3
<1>8. Typed' /\ TokensInv'
  BY <1>2, <1>3, <1>4, <1>5, <1>6, <1>7, Moves
<1>9. SlotsTypeOK' /\ SlotsInv'
  BY <1>5, SlotsAside
<1>10. AccountTypes' /\ FaultTypes'
  BY <1>5, <1>6 DEF AccountTypes, FaultTypes, accountVars
<1> QED
  BY <1>8, <1>9, <1>10, Parts, PTL

LEMMA InsertsTokenInv ==
    ASSUME AuthInv, NEW r \in Requests, InsertsToken(r) PROVE AuthInv'
<1> DEFINE login == req[r].kind = "login"
           of == IF login THEN r ELSE token[req[r].token].login
           v == [state |-> "live", revoked |-> FALSE, chain |-> r, login |-> of, max |-> req[r].max]
           w == IF login THEN Answered ELSE [req[r] EXCEPT !.step = "stitch"]
<1>1. Typed /\ TokensInv /\ SlotsTypeOK /\ SlotsInv /\ AccountTypes /\ FaultTypes
  BY Parts
<1>2. /\ At(r, "insert_token") /\ token' = [token EXCEPT ![r] = v]
      /\ req' = [req EXCEPT ![r] = w]
      /\ given' = IF login THEN given \cup {r} ELSE given
      /\ UNCHANGED <<slotVars, accountVars, astray, struck, faults>>
  BY DEF InsertsToken, Answers, GoesTo
<1>3. /\ ~Known(r) /\ r \notin given /\ ~Usable(r)
      /\ ~login => req[r].kind = "refresh" /\ req[r].token \in given /\ Rotates(r)
      /\ login => ~Rotates(r)
  BY <1>1, <1>2 DEF TokensInv, Carries, At, Usable, Known, Rotates
<1>4. req[r] \in RequestType
  BY <1>1 DEF Typed, RequestTypes
<1>5. of \in Requests /\ (~login => Known(of) /\ req[r].token \in Requests /\ Known(req[r].token))
  BY <1>1, <1>3 DEF TokensInv, Descends, Typed, TokenTypes, Known
<1>6. v \in TokenType
  BY <1>4, <1>5 DEF TokenType, RequestType
<1>7. v.state = "live" /\ v.revoked = FALSE /\ v.login = of /\ v.chain = r
  OBVIOUS
<1>8. /\ w \in RequestType
      /\ w.step = IF login THEN "done" ELSE "stitch"
      /\ w.kind = IF login THEN "none" ELSE "refresh"
      /\ ~login => w.token = req[r].token
  <2>1. CASE login
    BY <2>1 DEF Answered, Idle, RequestType, Steps
  <2>2. CASE ~login
    BY <2>2, <1>3, <1>4 DEF RequestType, Steps
  <2> QED
    BY <2>1, <2>2
<1> HIDE DEF v, w, of, login
<1>9. /\ \A q \in Requests : token'[q] = IF q = r THEN v ELSE token[q]
      /\ \A q \in Requests : req'[q] = IF q = r THEN w ELSE req[q]
  BY <1>1, <1>2 DEF Typed, TokenTypes, RequestTypes
<1>10. given \subseteq Requests /\ \A t \in given : Known(t) /\ t # r
  BY <1>1, <1>3 DEF Typed, TokenTypes
<1>11. \A q \in Requests : Known(q) => q # r /\ Known(q)'
  BY <1>3, <1>9 DEF Known
<1>12. Known(r)'
  BY <1>7, <1>9 DEF Known
<1>13. Typed'
  <2>1. TokenTypes'
    BY <1>1, <1>2, <1>6, <1>10, <1>11, <1>12 DEF Typed, TokenTypes
  <2>2. RequestTypes'
    BY <1>1, <1>2, <1>8 DEF Typed, RequestTypes
  <2> QED
    BY <2>1, <2>2 DEF Typed
<1>14. \A q \in Requests : Descends(q)'
  <2>1. ASSUME NEW q \in Requests, q # r PROVE Descends(q)'
    BY <1>1, <1>9, <1>11, <2>1 DEF TokensInv, Descends, Known
  <2>2. Descends(r)'
    BY <1>5, <1>7, <1>9, <1>11, <1>12 DEF Descends, of
  <2> QED
    BY <2>1, <2>2
<1>15. \A q \in Requests : Carries(q)'
  <2>1. ASSUME NEW q \in Requests, q # r PROVE Carries(q)'
    <3>1. token'[q] = token[q] /\ req'[q] = req[q] /\ Carries(q) /\ (q \in given' => q \in given)
      BY <1>1, <1>2, <1>9, <2>1 DEF TokensInv
    <3>2. given \subseteq given'
      BY <1>2
    <3>3. At(q, "stitch") => token'[req[q].token] = token[req[q].token]
      BY <1>9, <1>10, <3>1 DEF Carries
    <3> QED
      BY <3>1, <3>2, <3>3 DEF Carries, At, Known
  <2>2. Carries(r)'
    <3>1. req'[r] = w /\ token'[r] = v
      BY <1>9
    <3>2. ~login => token'[req[r].token] = token[req[r].token] /\ req[r].token \in given'
      BY <1>2, <1>3, <1>9, <1>10
    <3>3. ~login => token'[r].login = token'[req'[r].token].login
      BY <1>7, <1>8, <3>1, <3>2 DEF of
    <3>4. r \in given' => login
      BY <1>2, <1>3
    <3> QED
      BY <1>8, <1>12, <3>1, <3>2, <3>3, <3>4 DEF Carries, At
  <2> QED
    BY <2>1, <2>2
<1>16. ASSUME NEW q \in Requests, q # r
       PROVE  /\ Rotates(q)' <=> Rotates(q)
              /\ Usable(q)' <=> Usable(q)
              /\ Holds(q) => LoginOf(q)' = LoginOf(q)
  <2>1. req'[q] = req[q] /\ token'[q] = token[q]
    BY <1>9, <1>16
  <2>2. Rotates(q) => token'[req[q].token] = token[req[q].token]
    BY <1>1, <1>9, <1>10 DEF Rotates, TokensInv, Carries
  <2> QED
    BY <2>1, <2>2 DEF Rotates, Usable, LoginOf, At
<1>17. ~Rotates(r)' /\ LoginOf(r)' = of
  BY <1>7, <1>8, <1>9 DEF Rotates, LoginOf, At
<1>18. OneHolder'
  <2>1. ASSUME NEW q \in Requests, q # r, Holds(q) PROVE LoginOf(q) # of
    <3>1. CASE login
      <4>1. of = r
        BY <3>1 DEF of
      <4>2. Rotates(q) => token[req[q].token].login # r
        BY <1>1, <1>3, <1>10 DEF Rotates, TokensInv, Carries, Descends
      <4>3. Usable(q) => token[q].login # r
        BY <1>1, <1>3 DEF TokensInv, Descends, Usable, Known
      <4> QED
        BY <2>1, <4>1, <4>2, <4>3 DEF Holds, LoginOf
    <3>2. CASE ~login
      <4>1. Holds(r) /\ LoginOf(r) = of
        BY <1>3, <3>2 DEF Holds, LoginOf, of
      <4> QED
        BY <1>1, <2>1, <4>1 DEF TokensInv, OneHolder
    <3> QED
      BY <3>1, <3>2
  <2>2. ASSUME NEW q \in Requests, q # r, Holds(q)' PROVE Holds(q) /\ LoginOf(q)' # of
    BY <1>16, <2>1, <2>2 DEF Holds
  <2>3. \A p, q \in Requests :
           p # r /\ q # r /\ Holds(p)' /\ Holds(q)' /\ LoginOf(p)' = LoginOf(q)' => p = q
    BY <1>1, <1>16, <2>2 DEF TokensInv, OneHolder
  <2> QED
    BY <1>17, <2>2, <2>3 DEF OneHolder
<1>19. OneChain'
  <2>1. ASSUME NEW t \in given PROVE token'[t] = token[t] /\ (login => token[t].login # r)
    BY <1>1, <1>3, <1>9, <1>10 DEF TokensInv, Descends
  <2>2. login => of = r
    BY DEF of
  <2>3. token'[r] = v /\ astray' = astray
    BY <1>2, <1>9
  <2> QED
    BY <1>1, <1>2, <1>7, <2>1, <2>2, <2>3 DEF TokensInv, OneChain
<1>20. Ended'
  <2> SUFFICES ASSUME NEW l \in struck
               PROVE /\ Known(l)'
                     /\ \A t \in given' : token'[t].login = l => ~Usable(t)'
                     /\ \A q \in Requests :
                           Rotates(q)' \/ At(q, "stitch")' => token'[req'[q].token].login # l
    BY <1>2 DEF Ended, IsOver
  <2>1. l \in Requests /\ Known(l) /\ l # r
    BY <1>1, <1>11 DEF TokensInv, Ended, IsOver, Typed, TokenTypes
  <2>2. ASSUME NEW t \in given', token'[t].login = l PROVE ~Usable(t)'
    <3>1. CASE t \in given
      BY <1>1, <1>9, <1>10, <2>2, <3>1 DEF TokensInv, Ended, IsOver, Usable
    <3>2. CASE t \notin given
      BY <1>2, <1>7, <1>9, <2>1, <2>2, <3>2 DEF of
    <3> QED
      BY <3>1, <3>2
  <2>3. ASSUME NEW q \in Requests, Rotates(q)' \/ At(q, "stitch")'
        PROVE  token'[req'[q].token].login # l
    <3>1. CASE q # r
      <4>1. Rotates(q) \/ At(q, "stitch")
        BY <1>9, <2>3, <3>1 DEF Rotates, At
      <4>2. token[req[q].token].login # l
        BY <1>1, <4>1 DEF TokensInv, Ended, IsOver
      <4>3. req[q].token \in given
        BY <1>1, <4>1 DEF TokensInv, Carries, Rotates
      <4> QED
        BY <1>9, <1>10, <3>1, <4>2, <4>3
    <3>2. CASE q = r
      <4>1. ~login
        BY <1>8, <1>9, <2>3, <3>2 DEF Rotates, At
      <4>2. token[req[r].token].login # l
        BY <1>1, <1>3, <4>1 DEF TokensInv, Ended, IsOver
      <4> QED
        BY <1>3, <1>8, <1>9, <1>10, <3>2, <4>1, <4>2
    <3> QED
      BY <3>1, <3>2
  <2> QED
    BY <1>11, <2>1, <2>2, <2>3
<1>21. TokensInv'
  BY <1>14, <1>15, <1>18, <1>19, <1>20 DEF TokensInv
<1>22. SlotsTypeOK' /\ SlotsInv'
  BY <1>1, <1>2, <1>9, <1>10, SlotsKept
<1>23. AccountTypes' /\ FaultTypes'
  BY <1>1, <1>2 DEF AccountTypes, FaultTypes, accountVars
<1> QED
  BY <1>13, <1>21, <1>22, <1>23, Parts, PTL

---------------------------------------------------------------------------
(* Refresh: the UPDATE that swaps, the revocation and the stitch.          *)

\* The parts a rotation does not touch: slots, the account, and every limit.
LEMMA RotationKeeps ==
    ASSUME AuthInv, UNCHANGED slotVars, UNCHANGED accountVars, faults' \in 0 .. MaxFaults,
           given \subseteq given', \A t \in given : token'[t].max = token[t].max,
           Typed', TokensInv'
    PROVE  AuthInv'
<1>1. SlotsTypeOK' /\ SlotsInv'
  BY SlotsKept, Parts
<1>2. AccountTypes' /\ FaultTypes'
  BY Parts DEF AccountTypes, FaultTypes, accountVars
<1> QED
  BY <1>1, <1>2, Parts, PTL

LEMMA SwapsInv ==
    ASSUME AuthInv, NEW r \in Requests, Swaps(r) PROVE AuthInv'
<1> DEFINE t == req[r].token
           w == [req[r] EXCEPT !.step = "read_user"]
           v == [token[t] EXCEPT !.state = "used"]
<1>1. Typed /\ TokensInv /\ AccountTypes /\ FaultTypes /\ Carries(r)
  BY Parts DEF TokensInv
<1>2. /\ At(r, "swap") /\ UNCHANGED slotVars /\ UNCHANGED accountVars
      /\ given' = given /\ astray' = astray /\ struck' = struck /\ faults' = faults
  BY DEF Swaps
<1>3. req[r].kind = "refresh" /\ t \in given /\ ~Known(r)
  BY <1>1, <1>2 DEF Carries, At
<1>4. CASE ~Usable(t)
  <2>1. GoesTo(r, "revoke") /\ UNCHANGED tokenVars
    BY <1>2, <1>4 DEF Swaps, Usable, tokenVars
  <2>2. AccountTypes' /\ FaultTypes'
    BY <1>1, <1>2 DEF AccountTypes, FaultTypes, accountVars
  <2> QED
    BY <1>2, <1>3, <2>1, <2>2, Aside DEF At, Steps
<1>5. CASE Usable(t)
  <2>1. /\ token' = [token EXCEPT ![t] = v]
        /\ req' = [req EXCEPT ![r] = w]
    BY <1>2, <1>5 DEF Swaps, Usable, GoesTo
  <2>2. t \in Requests /\ Known(t) /\ t # r /\ req[r] \in RequestType /\ token[t] \in TokenType
    BY <1>1, <1>3 DEF Typed, TokenTypes, RequestTypes
  <2>3. v \in TokenType
    BY <2>2 DEF TokenType
  <2>4. /\ v.state = "used" /\ v.chain = token[t].chain
        /\ v.login = token[t].login /\ v.max = token[t].max
    BY <2>2 DEF TokenType
  <2>5. w \in RequestType
    BY <2>2 DEF RequestType, Steps
  <2>6. w.step = "read_user" /\ w.kind = "refresh" /\ w.token = t
    BY <1>3, <2>2 DEF RequestType
  <2> HIDE DEF v, w
  <2>7. /\ \A q \in Requests : token'[q] = IF q = t THEN v ELSE token[q]
        /\ \A q \in Requests : req'[q] = IF q = r THEN w ELSE req[q]
    BY <1>1, <2>1, <2>2 DEF Typed, TokenTypes, RequestTypes
  <2>8. \A q \in Requests : /\ Known(q)' <=> Known(q)
                            /\ token'[q].login = token[q].login
                            /\ token'[q].chain = token[q].chain
                            /\ token'[q].max = token[q].max
                            /\ Usable(q)' <=> Usable(q) /\ q # t
    BY <2>2, <2>4, <2>7 DEF Known, Usable
  <2>9. /\ given \subseteq Requests
        /\ \A q \in Requests : req[q].kind = "refresh" => req[q].token \in Requests
    BY <1>1 DEF Typed, TokenTypes, TokensInv, Carries
  <2>10. Typed'
    <3>1. TokenTypes'
      BY <1>1, <1>2, <2>1, <2>3, <2>8 DEF Typed, TokenTypes
    <3>2. RequestTypes'
      BY <1>1, <2>1, <2>5 DEF Typed, RequestTypes
    <3> QED
      BY <3>1, <3>2 DEF Typed
  <2>11. \A q \in Requests : Descends(q)'
    BY <1>1, <2>8 DEF TokensInv, Descends
  <2>12. \A q \in Requests : Carries(q)'
    <3>1. ASSUME NEW q \in Requests, q # r PROVE Carries(q)'
      <4>1. req'[q] = req[q] /\ Carries(q)
        BY <1>1, <2>7, <3>1 DEF TokensInv
      <4>2. At(q, "stitch") => token'[req[q].token].login = token[req[q].token].login
        BY <2>8, <2>9, <4>1 DEF Carries
      <4> QED
        BY <1>2, <2>8, <4>1, <4>2 DEF Carries, At
    <3>2. Carries(r)'
      BY <1>1, <1>2, <1>3, <2>6, <2>7, <2>8 DEF Carries, At
    <3> QED
      BY <3>1, <3>2
  <2>13. Rotates(r)' /\ LoginOf(r)' = token[t].login /\ Holds(t) /\ LoginOf(t) = token[t].login
    BY <1>1, <1>5, <2>2, <2>6, <2>7, <2>8 DEF Rotates, LoginOf, Holds, At, TokensInv, Carries
  <2>14. \A q \in Requests \ {r} :
            Holds(q)' => q # t /\ Holds(q) /\ LoginOf(q)' = LoginOf(q)
    <3> SUFFICES ASSUME NEW q \in Requests, q # r, Holds(q)'
                 PROVE  q # t /\ Holds(q) /\ LoginOf(q)' = LoginOf(q)
      OBVIOUS
    <3>1. Rotates(q)' <=> Rotates(q)
      BY <2>7 DEF Rotates, At
    <3>2. q # t
      <4>1. ~Rotates(t)
        BY <1>1, <2>2 DEF Rotates, At, TokensInv, Carries
      <4> QED
        BY <2>2, <2>8, <3>1, <4>1 DEF Holds
    <3>3. LoginOf(q)' = LoginOf(q)
      BY <2>7, <2>8, <2>9, <3>1 DEF LoginOf, Rotates
    <3> QED
      BY <2>8, <3>1, <3>2, <3>3 DEF Holds
  <2>15. OneHolder'
    <3>1. \A q \in Requests \ {r} : Holds(q)' => LoginOf(q)' # token[t].login
      BY <1>1, <2>2, <2>13, <2>14 DEF TokensInv, OneHolder
    <3>2. \A p, q \in Requests \ {r} :
             Holds(p)' /\ Holds(q)' /\ LoginOf(p)' = LoginOf(q)' => p = q
      BY <1>1, <2>14 DEF TokensInv, OneHolder
    <3> QED
      BY <2>13, <3>1, <3>2 DEF OneHolder
  <2>16. OneChain'
    BY <1>1, <1>2, <2>8, <2>9 DEF TokensInv, OneChain
  <2>17. Ended'
    <3> SUFFICES ASSUME NEW l \in struck
                 PROVE  /\ Known(l)'
                        /\ \A u \in given : token'[u].login = l => ~Usable(u)'
                        /\ \A q \in Requests :
                              Rotates(q)' \/ At(q, "stitch")' => token'[req'[q].token].login # l
      BY <1>2 DEF Ended, IsOver
    <3>1. l \in Requests
      BY <1>1 DEF Typed, TokenTypes
    <3>2. token[t].login # l
      BY <1>1, <1>3, <1>5 DEF TokensInv, Ended, IsOver
    <3>3. ASSUME NEW q \in Requests, Rotates(q)' \/ At(q, "stitch")'
          PROVE  token'[req'[q].token].login # l
      <4>1. CASE q = r
        BY <2>2, <2>6, <2>7, <2>8, <3>2, <4>1
      <4>2. CASE q # r
        <5>1. req'[q] = req[q] /\ (Rotates(q) \/ At(q, "stitch"))
          BY <2>7, <3>3, <4>2 DEF Rotates, At
        <5>2. req[q].token \in Requests
          BY <1>1, <2>9, <5>1 DEF Rotates, TokensInv, Carries
        <5> QED
          BY <1>1, <2>8, <5>1, <5>2 DEF TokensInv, Ended, IsOver
      <4> QED
        BY <4>1, <4>2
    <3> QED
      BY <1>1, <2>8, <2>9, <3>1, <3>3 DEF TokensInv, Ended, IsOver
  <2>18. TokensInv'
    BY <2>11, <2>12, <2>15, <2>16, <2>17 DEF TokensInv
  <2> QED
    BY <1>1, <1>2, <2>8, <2>9, <2>10, <2>18, RotationKeeps DEF FaultTypes
<1> QED
  BY <1>4, <1>5

\* Tokens only stop being usable, and requests only end.
LEMMA Weakens ==
    ASSUME Typed, TokensInv, token' \in [Requests -> TokenType], given' = given, astray' = astray,
           \A q \in Requests : /\ Known(q)' <=> Known(q)
                               /\ token'[q].login = token[q].login
                               /\ token'[q].chain = token[q].chain
                               /\ Usable(q)' => Usable(q),
           \A q \in Requests : req'[q] = req[q] \/ req'[q] = Answered
    PROVE  /\ \A q \in Requests : Carries(q)' /\ Descends(q)'
           /\ OneHolder' /\ OneChain'
           /\ \A l \in struck : IsOver(l)'
<1>1. given \subseteq Requests /\ \A t \in given : Known(t)
  BY DEF Typed, TokenTypes
<1>2. Answered.step = "done" /\ Answered.kind = "none"
  BY DEF Answered, Idle
<1>3. \A q \in Requests : Descends(q)'
  BY DEF TokensInv, Descends
<1>4. ASSUME NEW q \in Requests PROVE Carries(q)'
  <2>1. CASE req'[q] = Answered
    BY <1>2, <2>1 DEF Carries, At
  <2>2. CASE req'[q] = req[q]
    <3>1. Carries(q)
      BY DEF TokensInv
    <3>2. At(q, "stitch") => req[q].token \in Requests
      BY <1>1, <3>1 DEF Carries
    <3> QED
      BY <2>2, <3>1, <3>2 DEF Carries, At
  <2> QED
    BY <2>1, <2>2
<1>5. ASSUME NEW q \in Requests
      PROVE  /\ Rotates(q)' \/ At(q, "stitch")' =>
                  /\ req'[q] = req[q] /\ req[q].token \in Requests
                  /\ Rotates(q)' => Rotates(q)
                  /\ At(q, "stitch")' => At(q, "stitch")
  <2>1. Rotates(q)' \/ At(q, "stitch")' => req'[q] = req[q]
    BY <1>2 DEF Rotates, At
  <2>2. Rotates(q) \/ At(q, "stitch") => req[q].kind = "refresh"
    BY DEF TokensInv, Carries, Rotates
  <2>3. req[q].kind = "refresh" => req[q].token \in Requests
    BY <1>1 DEF TokensInv, Carries
  <2> QED
    BY <2>1, <2>2, <2>3 DEF Rotates, At
<1>6. ASSUME NEW q \in Requests, Holds(q)' PROVE Holds(q) /\ LoginOf(q)' = LoginOf(q)
  <2>1. CASE Rotates(q)'
    BY <1>5, <2>1 DEF Holds, LoginOf
  <2>2. CASE ~Rotates(q)'
    <3>1. Usable(q) /\ Known(q)
      BY <1>6, <2>2 DEF Holds, Usable, Known
    <3>2. ~Rotates(q)
      BY <3>1 DEF TokensInv, Carries, Rotates, At
    <3> QED
      BY <2>2, <3>1, <3>2 DEF Holds, LoginOf
  <2> QED
    BY <2>1, <2>2
<1>7. OneHolder'
  BY <1>6 DEF TokensInv, OneHolder
<1>8. OneChain'
  BY <1>1 DEF TokensInv, OneChain
<1>9. ASSUME NEW l \in struck PROVE IsOver(l)'
  <2>1. l \in Requests /\ Known(l)
    BY DEF Typed, TokenTypes, TokensInv, Ended, IsOver
  <2>2. \A t \in given' : token'[t].login = l => ~Usable(t)'
    BY <1>1 DEF TokensInv, Ended, IsOver
  <2>3. \A q \in Requests : Rotates(q)' \/ At(q, "stitch")' => token'[req'[q].token].login # l
    BY <1>5 DEF TokensInv, Ended, IsOver
  <2> QED
    BY <2>1, <2>2, <2>3 DEF IsOver
<1> QED
  BY <1>3, <1>4, <1>7, <1>8, <1>9

LEMMA RevokesInv ==
    ASSUME AuthInv, NEW r \in Requests, Revokes(r) PROVE AuthInv'
<1> DEFINE t == req[r].token
           hit(u) == token[u].state # "none" /\ token[u].chain = token[t].chain
<1>1. Typed /\ TokensInv /\ FaultTypes /\ Carries(r)
  BY Parts DEF TokensInv
<1>2. /\ At(r, "revoke") /\ Answers(r) /\ UNCHANGED slotVars /\ UNCHANGED accountVars
      /\ given' = given /\ astray' = astray /\ faults' = faults
      /\ token' = [u \in Requests |->
                      IF hit(u) THEN [token[u] EXCEPT !.revoked = TRUE] ELSE token[u]]
      /\ struck' = struck \cup ({token[t].login} \ (astray \cup {l \in Requests : Rotating(l)}))
  BY DEF Revokes
<1>3. t \in given /\ t \in Requests /\ Known(t)
  BY <1>1, <1>2 DEF Carries, At, Typed, TokenTypes
<1>4. ASSUME NEW u \in Requests
      PROVE  /\ token'[u] \in TokenType
             /\ Known(u)' <=> Known(u)
             /\ token'[u].login = token[u].login
             /\ token'[u].chain = token[u].chain
             /\ token'[u].max = token[u].max
             /\ Usable(u)' => Usable(u) /\ ~hit(u)
  <2>1. token[u] \in TokenType
    BY <1>1 DEF Typed, TokenTypes
  <2>2. CASE hit(u)
    <3> DEFINE v == [token[u] EXCEPT !.revoked = TRUE]
    <3>1. v \in TokenType /\ v.state = token[u].state /\ v.chain = token[u].chain
          /\ v.login = token[u].login /\ v.max = token[u].max
      BY <2>1 DEF TokenType
    <3>2. v.revoked
      BY <2>1 DEF TokenType
    <3>3. token'[u] = v
      BY <1>2, <2>2
    <3> HIDE DEF v
    <3> QED
      BY <3>1, <3>2, <3>3 DEF Known, Usable
  <2>3. CASE ~hit(u)
    <3>1. token'[u] = token[u]
      BY <1>2, <2>3
    <3> QED
      BY <2>1, <2>3, <3>1 DEF Known, Usable
  <2> QED
    BY <2>2, <2>3
<1> HIDE DEF t
<1>5. token' \in [Requests -> TokenType]
  <2>1. DOMAIN token' = Requests /\ token' = [u \in Requests |-> token'[u]]
    BY <1>2
  <2> QED
    BY <1>4, <2>1
<1>6. \A q \in Requests : req'[q] = req[q] \/ req'[q] = Answered
  BY <1>1, <1>2 DEF Answers, Typed, RequestTypes
<1>7. /\ \A q \in Requests : Carries(q)' /\ Descends(q)'
      /\ OneHolder' /\ OneChain'
      /\ \A l \in struck : IsOver(l)'
  BY <1>1, <1>2, <1>4, <1>5, <1>6, Weakens
<1>8. PICK l : l = token[t].login
  OBVIOUS
<1>9. l \in Requests
  BY <1>1, <1>3, <1>8 DEF TokensInv, Descends
<1>10. ASSUME l \notin astray, ~Rotating(l)
      PROVE  IsOver(l)'
  <2>1. l \in Requests /\ Known(l)
    BY <1>1, <1>3, <1>8 DEF TokensInv, Descends
  <2>2. ASSUME NEW u \in given, token[u].login = l PROVE ~Usable(u)'
    <3>1. u \in Requests /\ Known(u)
      BY <1>1 DEF Typed, TokenTypes
    <3>2. token[u].chain = token[t].chain
      BY <1>1, <1>3, <1>10, <1>8, <2>2 DEF TokensInv, OneChain
    <3> QED
      BY <1>4, <3>1, <3>2 DEF Known
  <2>3. ASSUME NEW q \in Requests, Rotates(q)' \/ At(q, "stitch")'
        PROVE  /\ req[q].token \in Requests /\ req'[q].token = req[q].token
               /\ token[req[q].token].login # l
    <3>1. req'[q] = req[q]
      BY <1>6, <2>3 DEF Rotates, At, Answered, Idle
    <3>2. Rotates(q) \/ At(q, "stitch")
      BY <2>3, <3>1 DEF Rotates, At
    <3>3. /\ q \in InFlight /\ req[q].kind = "refresh"
          /\ req[q].step \in {"read_user", "insert_token", "stitch"}
      BY <1>1, <3>2 DEF InFlight, TokensInv, Carries, Rotates, At
    <3>4. req[q].token \in Requests
      BY <1>1, <3>3 DEF TokensInv, Carries, Typed, TokenTypes
    <3> QED
      BY <1>10, <3>1, <3>3, <3>4 DEF Rotating
  <2>4. given \subseteq Requests
    BY <1>1 DEF Typed, TokenTypes
  <2>5. token'[l].state # "none"
    BY <1>4, <2>1 DEF Known
  <2>6. \A u \in given' : token'[u].login = l => ~Usable(u)'
    BY <1>2, <1>4, <2>2, <2>4
  <2>7. \A q \in Requests : Rotates(q)' \/ At(q, "stitch")' => token'[req'[q].token].login # l
    BY <1>4, <2>3
  <2> QED
    BY <2>5, <2>6, <2>7 DEF IsOver, Known
<1>11. Ended'
  <2>1. /\ struck' \subseteq struck \cup {l}
        /\ l \in struck' => l \in struck \/ (l \notin astray /\ ~Rotating(l))
    BY <1>2, <1>8, <1>9
  <2> QED
    BY <1>7, <1>10, <2>1 DEF Ended
<1>12. struck' \subseteq Requests
  BY <1>1, <1>2, <1>3 DEF Typed, TokenTypes, TokensInv, Descends
<1>13. Typed'
  <2>1. RequestTypes'
    BY <1>1, <1>2, AnswersTypes DEF Typed
  <2>2. TokenTypes'
    BY <1>1, <1>2, <1>4, <1>5, <1>12 DEF Typed, TokenTypes
  <2> QED
    BY <2>1, <2>2 DEF Typed
<1>14. TokensInv'
  BY <1>7, <1>11 DEF TokensInv
<1>15. given \subseteq Requests
  BY <1>1 DEF Typed, TokenTypes
<1> QED
  BY <1>1, <1>2, <1>4, <1>13, <1>14, <1>15, RotationKeeps DEF FaultTypes

\* A rotation is over: its token is given, on the chain of the one it came from
\* or on a login that is counted as astray.
LEMMA Finishes ==
    ASSUME AuthInv, NEW r \in Requests, NEW c \in Requests \cup {NoToken},
           At(r, "stitch"), Answers(r), UNCHANGED slotVars, UNCHANGED accountVars,
           faults' \in 0 .. MaxFaults,
           token' = [token EXCEPT ![r].chain = c],
           given' = given \cup {r}, struck' = struck,
           \/ astray' = astray /\ c = token[req[r].token].chain
           \/ astray' = astray \cup {token[r].login} /\ c = token[r].chain
    PROVE  AuthInv'
<1> DEFINE v == [token[r] EXCEPT !.chain = c]
<1>1. Typed /\ TokensInv /\ Carries(r)
  BY Parts DEF TokensInv
<1>2. PICK t : t = req[r].token
  OBVIOUS
<1>3. PICK l : l = token[r].login
  OBVIOUS
<1>4. /\ t \in given /\ t \in Requests /\ Known(t) /\ Known(r) /\ r \notin given /\ t # r
      /\ l = token[t].login /\ l \in Requests /\ Known(l)
  <2>1. /\ t \in given /\ Known(r) /\ r \notin given /\ l = token[t].login
    BY <1>1, <1>2, <1>3 DEF Carries, At
  <2> QED
    BY <1>1, <1>3, <2>1 DEF Typed, TokenTypes, TokensInv, Descends
<1>5. token[r] \in TokenType
  BY <1>1 DEF Typed, TokenTypes
<1>6. v \in TokenType /\ v.state = token[r].state /\ v.login = l /\ v.max = token[r].max
      /\ v.chain = c /\ v.revoked = token[r].revoked
  BY <1>3, <1>5 DEF TokenType
<1>7. token' = [token EXCEPT ![r] = v]
  OBVIOUS
<1> HIDE DEF v
<1>8. /\ \A q \in Requests : token'[q] = IF q = r THEN v ELSE token[q]
      /\ \A q \in Requests : req'[q] = IF q = r THEN Answered ELSE req[q]
  BY <1>1, <1>7 DEF Answers, Typed, TokenTypes, RequestTypes
<1>9. Answered.step = "done" /\ Answered.kind = "none"
  BY DEF Answered, Idle
<1>10. ASSUME NEW q \in Requests
       PROVE  /\ Known(q)' <=> Known(q)
              /\ token'[q].login = token[q].login
              /\ token'[q].max = token[q].max
              /\ q # r => token'[q].chain = token[q].chain
              /\ Usable(q)' <=> Usable(q)
  BY <1>3, <1>6, <1>8 DEF Known, Usable
<1>11. given \subseteq Requests /\ \A q \in given : Known(q)
  BY <1>1 DEF Typed, TokenTypes
<1>12. Typed'
  <2>1. RequestTypes'
    BY <1>1, AnswersTypes DEF Typed
  <2>2. token' \in [Requests -> TokenType]
    BY <1>1, <1>6, <1>7 DEF Typed, TokenTypes
  <2>3. astray' \subseteq Requests
    BY <1>1, <1>3, <1>4 DEF Typed, TokenTypes
  <2>4. given' \subseteq {q \in Requests : Known(q)'}
    BY <1>4, <1>10, <1>11
  <2> QED
    BY <1>1, <2>1, <2>2, <2>3, <2>4 DEF Typed, TokenTypes
<1>13. \A q \in Requests : Descends(q)'
  BY <1>1, <1>10 DEF TokensInv, Descends
<1>14. ASSUME NEW q \in Requests PROVE Carries(q)'
  <2>1. CASE q = r
    BY <1>8, <1>9, <2>1 DEF Carries, At
  <2>2. CASE q # r
    <3>1. Carries(q) /\ req'[q] = req[q] /\ (q \in given' <=> q \in given)
      BY <1>1, <1>8, <2>2 DEF TokensInv
    <3>2. At(q, "stitch") => req[q].token \in Requests
      BY <1>11, <3>1 DEF Carries
    <3> QED
      BY <1>10, <3>1, <3>2 DEF Carries, At
  <2> QED
    BY <2>1, <2>2
<1>15. ASSUME NEW q \in Requests
       PROVE  Rotates(q)' \/ At(q, "stitch")' =>
                 /\ q # r /\ req'[q] = req[q] /\ req[q].token \in Requests
                 /\ Rotates(q)' => Rotates(q)
                 /\ At(q, "stitch")' => At(q, "stitch")
  <2>1. Rotates(q)' \/ At(q, "stitch")' => q # r
    BY <1>8, <1>9 DEF Rotates, At
  <2>2. Rotates(q) \/ At(q, "stitch") => req[q].token \in Requests
    BY <1>1, <1>11 DEF TokensInv, Carries, Rotates
  <2> QED
    BY <1>8, <2>1, <2>2 DEF Rotates, At
<1>16. ASSUME NEW q \in Requests, Holds(q)' PROVE Holds(q) /\ LoginOf(q)' = LoginOf(q)
  <2>1. CASE Rotates(q)'
    BY <1>10, <1>15, <2>1 DEF Holds, LoginOf
  <2>2. CASE ~Rotates(q)'
    <3>1. Usable(q) /\ Known(q)
      BY <1>10, <1>16, <2>2 DEF Holds, Usable, Known
    <3>2. ~Rotates(q)
      <4>1. q # r => ~Rotates(q)
        BY <1>8, <2>2 DEF Rotates, At
      <4> QED
        BY <4>1 DEF Rotates, At
    <3> QED
      BY <1>10, <2>2, <3>1, <3>2 DEF Holds, LoginOf
  <2> QED
    BY <2>1, <2>2
<1>17. OneHolder'
  BY <1>1, <1>16 DEF TokensInv, OneHolder
<1>18. OneChain'
  <2>1. ASSUME NEW u \in given, token[u].login \notin astray'
        PROVE  token[u].login = l => token[u].chain = c
    BY <1>1, <1>2, <1>3, <1>4, <2>1 DEF TokensInv, OneChain
  <2>2. \A u \in given : token'[u].login = token[u].login /\ token'[u].chain = token[u].chain
    BY <1>4, <1>10, <1>11
  <2>3. token'[r].login = l /\ token'[r].chain = c
    BY <1>6, <1>8
  <2>4. \A u \in given : token[u].login \notin astray' => token[u].login \notin astray
    OBVIOUS
  <2> QED
    BY <1>1, <2>1, <2>2, <2>3, <2>4 DEF TokensInv, OneChain
<1>19. l \notin struck
  BY <1>1, <1>2, <1>4 DEF TokensInv, Ended, IsOver
<1>20. ASSUME NEW k \in struck PROVE IsOver(k)'
  <2>1. k \in Requests /\ Known(k) /\ k # l
    BY <1>1, <1>19 DEF Typed, TokenTypes, TokensInv, Ended, IsOver
  <2>2. \A q \in given' : token'[q].login = k => ~Usable(q)'
    BY <1>1, <1>3, <1>10, <1>11, <2>1 DEF TokensInv, Ended, IsOver
  <2>3. \A q \in Requests : Rotates(q)' \/ At(q, "stitch")' => token'[req'[q].token].login # k
    BY <1>1, <1>10, <1>15 DEF TokensInv, Ended, IsOver
  <2> QED
    BY <1>10, <2>1, <2>2, <2>3 DEF IsOver
<1>21. TokensInv'
  BY <1>13, <1>14, <1>17, <1>18, <1>20 DEF TokensInv, Ended
<1> QED
  BY <1>10, <1>11, <1>12, <1>21, RotationKeeps

LEMMA StitchesInv ==
    ASSUME AuthInv, NEW r \in Requests, Stitches(r) PROVE AuthInv'
<1>1. Typed /\ TokensInv /\ FaultTypes /\ Carries(r)
  BY Parts DEF TokensInv
<1>2. token[req[r].token].chain \in Requests \cup {NoToken}
  BY <1>1 DEF Stitches, Carries, At, Typed, TokenTypes, TokenType
<1> QED
  BY <1>1, <1>2, Finishes DEF Stitches, FaultTypes

LEMMA StitchFailsInv ==
    ASSUME AuthInv, NEW r \in Requests, StitchFails(r) PROVE AuthInv'
<1>1. Typed /\ FaultTypes /\ FaultTypes'
  BY Parts, FaultIsTyped DEF StitchFails
<1>2. token[r] \in TokenType
  BY <1>1 DEF Typed, TokenTypes
<1>3. /\ token[r].chain \in Requests \cup {NoToken}
      /\ token[r] = [token[r] EXCEPT !.chain = token[r].chain]
  BY <1>2 DEF TokenType
<1>4. token' = token
  BY DEF StitchFails
<1>5. token' = [token EXCEPT ![r].chain = token[r].chain]
  BY <1>1, <1>3, <1>4 DEF Typed, TokenTypes
<1> QED
  BY <1>1, <1>3, <1>5, Finishes DEF StitchFails, FaultTypes

---------------------------------------------------------------------------
(* Time, and billing.                                                      *)

LEMMA ExpiresInv == ASSUME AuthInv, Expires PROVE AuthInv'
<1>1. Typed /\ TokensInv /\ AccountTypes /\ FaultTypes
  BY Parts
<1>2. UNCHANGED <<slotVars, user, given, astray, struck, req, faults>>
  BY DEF Expires
<1>3. ASSUME NEW t \in Requests, token[t].state = "live",
             token' = [token EXCEPT ![t].state = "expired"], UNCHANGED <<link, failures>>
      PROVE  AuthInv'
  <2> DEFINE v == [token[t] EXCEPT !.state = "expired"]
  <2>1. token[t] \in TokenType
    BY <1>1 DEF Typed, TokenTypes
  <2>2. /\ v \in TokenType /\ v.state = "expired" /\ v.chain = token[t].chain
        /\ v.login = token[t].login /\ v.max = token[t].max
    BY <2>1 DEF TokenType
  <2>3. token' = [token EXCEPT ![t] = v]
    BY <1>3
  <2> HIDE DEF v
  <2>4. \A q \in Requests : token'[q] = IF q = t THEN v ELSE token[q]
    BY <1>1, <2>3 DEF Typed, TokenTypes
  <2>5. \A q \in Requests : /\ Known(q)' <=> Known(q)
                            /\ token'[q].login = token[q].login
                            /\ token'[q].chain = token[q].chain
                            /\ token'[q].max = token[q].max
                            /\ Usable(q)' => Usable(q)
    BY <1>3, <2>2, <2>4 DEF Known, Usable
  <2>6. token' \in [Requests -> TokenType]
    BY <1>1, <2>2, <2>3 DEF Typed, TokenTypes
  <2>7. Typed'
    BY <1>1, <1>2, <2>5, <2>6 DEF Typed, TokenTypes, RequestTypes
  <2>8. TokensInv'
    BY <1>1, <1>2, <2>5, <2>6, Weakens DEF TokensInv, Ended
  <2>9. given \subseteq Requests
    BY <1>1 DEF Typed, TokenTypes
  <2>10. UNCHANGED accountVars
    BY <1>2, <1>3 DEF accountVars
  <2> QED
    BY <1>1, <1>2, <2>5, <2>7, <2>8, <2>9, <2>10, RotationKeeps DEF FaultTypes
<1>4. ASSUME UNCHANGED token, \/ link = "mailed" /\ link' = "expired" /\ UNCHANGED failures
                              \/ failures > 0 /\ failures' = failures - 1 /\ UNCHANGED link
      PROVE  AuthInv'
  <2>1. AccountTypes' /\ FaultTypes'
    BY <1>1, <1>2, <1>4 DEF AccountTypes, FaultTypes
  <2>2. UNCHANGED tokenVars
    BY <1>2, <1>4 DEF tokenVars
  <2>3. SlotsTypeOK' /\ SlotsInv'
    BY <1>2, <2>2, SlotsAside
  <2>4. Typed' /\ TokensInv'
    BY <1>1, <1>2, <2>2, TokensKept
  <2> QED
    BY <2>1, <2>3, <2>4, Parts, PTL
<1> QED
  BY <1>3, <1>4 DEF Expires

LEMMA PlanChangesInv == ASSUME AuthInv, PlanChanges PROVE AuthInv'
<1>1. Typed /\ TokensInv /\ AccountTypes /\ FaultTypes
  BY Parts
<1>2. UNCHANGED <<slotVars, link, failures, tokenVars, req, faults>>
  BY DEF PlanChanges
<1>3. AccountTypes' /\ FaultTypes'
  BY <1>1, <1>2 DEF PlanChanges, AccountTypes, FaultTypes
<1>4. SlotsTypeOK' /\ SlotsInv'
  BY <1>2, SlotsAside
<1>5. Typed' /\ TokensInv'
  BY <1>1, <1>2, TokensKept
<1> QED
  BY <1>3, <1>4, <1>5, Parts, PTL

---------------------------------------------------------------------------
(* The slots of DeviceSlots.                                               *)

LEMMA HoldersFinite ==
    ASSUME NEW H, H \subseteq Devices
    PROVE  /\ IsFiniteSet(H) /\ Cardinality(H) \in Nat
           /\ \A G \in SUBSET H : Cardinality(G) <= Cardinality(H)
           /\ \A d \in Devices \ H : Cardinality(H \cup {d}) = Cardinality(H) + 1
<1>1. IsFiniteSet(H)
  BY FS_Subset, SlotsAssumption
<1> QED
  BY <1>1, FS_Subset, FS_CardinalityType, FS_AddElement

LEMMA WithinLess ==
    ASSUME TokenTypes, NEW m \in Nat, NEW n \in Nat, m <= n, Within(n) PROVE Within(m)
<1>1. \A t \in given : token[t].max \in Nat
  BY DEF TokenTypes, TokenType
<1> QED
  BY <1>1 DEF Within

\* A write makes every transaction under way fail, and without one the devices
\* that hold a slot are the same.
LEMMA LeavesKeeps ==
    ASSUME SlotsTypeOK, SlotsInv, UNCHANGED tokenVars,
           NEW s \in [Devices -> {NoSlot} \cup 0 .. MaxAge], NEW wrote \in BOOLEAN,
           NEW watchers \in [Devices -> AttemptType], Leaves(s, wrote, watchers),
           keyTTL' \in 0 .. 2 * SlotTTL,
           \A d \in Devices : watchers[d].step # "idle" =>
              /\ attempt[d].step # "idle" /\ watchers[d].max = attempt[d].max
              /\ watchers[d].step = "exec" => attempt[d].step = "exec"
              /\ attempt[d].dirty => watchers[d].dirty,
           ~wrote => {d \in Devices : s[d] # NoSlot} = Holders,
           Within(Cardinality({d \in Devices : s[d] # NoSlot}))
    PROVE  SlotsTypeOK' /\ SlotsInv'
<1>1. slots' = s /\ given' = given /\ token' = token
  BY DEF Leaves, tokenVars
<1>2. Holders' = {d \in Devices : s[d] # NoSlot}
  BY <1>1 DEF Holders
<1>3. ASSUME NEW d \in Devices
      PROVE  /\ attempt'[d] \in AttemptType
             /\ attempt'[d].step = watchers[d].step /\ attempt'[d].max = watchers[d].max
             /\ watchers[d].dirty => attempt'[d].dirty
             /\ wrote /\ attempt'[d].step # "idle" => attempt'[d].dirty
  <2>1. watchers[d] \in AttemptType
    OBVIOUS
  <2>2. CASE wrote /\ watchers[d].step # "idle"
    <3>1. attempt'[d] = [watchers[d] EXCEPT !.dirty = TRUE]
      BY <2>2 DEF Leaves
    <3> QED
      BY <2>1, <3>1 DEF AttemptType
  <2>3. CASE ~(wrote /\ watchers[d].step # "idle")
    <3>1. attempt'[d] = watchers[d]
      BY <2>3 DEF Leaves
    <3> QED
      BY <2>1, <2>3, <3>1
  <2> QED
    BY <2>2, <2>3
<1>4. SlotsTypeOK'
  <2>1. attempt' = [d \in Devices |-> attempt'[d]]
    BY DEF Leaves
  <2>2. attempt' \in [Devices -> AttemptType]
    BY <1>3, <2>1
  <2> QED
    BY <1>1, <2>2 DEF SlotsTypeOK, AttemptType
<1>5. Within(Cardinality(Holders))'
  BY <1>1, <1>2 DEF Within
<1>6. ASSUME NEW d \in Attempting'
      PROVE  /\ Within(attempt[d].max)'
             /\ attempt'[d].step = "exec" /\ ~attempt'[d].dirty => Room(d)'
  <2>1. d \in Devices /\ attempt'[d].step # "idle"
    BY DEF Attempting
  <2>2. d \in Attempting /\ attempt'[d].max = attempt[d].max
    BY <1>3, <2>1 DEF Attempting
  <2>3. Within(attempt[d].max)'
    BY <1>1, <2>2 DEF SlotsInv, Within
  <2>4. ASSUME attempt'[d].step = "exec", ~attempt'[d].dirty PROVE Room(d)'
    <3>1. ~wrote /\ ~watchers[d].dirty /\ watchers[d].step = "exec"
      BY <1>3, <2>1, <2>4
    <3>2. attempt[d].step = "exec" /\ ~attempt[d].dirty
      BY <2>1, <3>1
    <3>3. Room(d) /\ Holders' = Holders
      BY <1>2, <2>2, <3>1, <3>2 DEF SlotsInv
    <3> QED
      BY <2>2, <3>3 DEF Room
  <2> QED
    BY <2>3, <2>4
<1> QED
  BY <1>4, <1>5, <1>6 DEF SlotsInv

\* An attempt goes on by itself: to EXEC only when there is room.
LEMMA AttemptKeeps ==
    ASSUME SlotsTypeOK, SlotsInv, UNCHANGED tokenVars, UNCHANGED <<slots, keyTTL>>,
           NEW d \in Devices, NEW a \in AttemptType, attempt' = [attempt EXCEPT ![d] = a],
           a.step # "idle" => Within(a.max),
           a.step = "exec" /\ ~a.dirty => d \in Holders \/ Cardinality(Holders) < a.max
    PROVE  SlotsTypeOK' /\ SlotsInv'
<1>1. given' = given /\ token' = token /\ slots' = slots /\ keyTTL' = keyTTL
  BY DEF tokenVars
<1>2. attempt \in [Devices -> AttemptType]
  BY DEF SlotsTypeOK, AttemptType
<1>3. \A e \in Devices : attempt'[e] = IF e = d THEN a ELSE attempt[e]
  BY <1>2
<1>4. SlotsTypeOK'
  BY <1>1, <1>2 DEF SlotsTypeOK, AttemptType
<1>5. Holders' = Holders
  BY <1>1 DEF Holders
<1>6. Within(Cardinality(Holders))'
  BY <1>1, <1>5 DEF SlotsInv, Within
<1>7. ASSUME NEW e \in Attempting'
      PROVE  /\ Within(attempt[e].max)'
             /\ attempt'[e].step = "exec" /\ ~attempt'[e].dirty => Room(e)'
  <2>1. e \in Devices /\ attempt'[e].step # "idle"
    BY DEF Attempting
  <2>2. CASE e = d
    BY <1>1, <1>3, <1>5, <2>1, <2>2 DEF Within, Room
  <2>3. CASE e # d
    <3>1. e \in Attempting /\ attempt'[e] = attempt[e]
      BY <1>3, <2>1, <2>3 DEF Attempting
    <3> QED
      BY <1>1, <1>5, <3>1 DEF SlotsInv, Within, Room
  <2> QED
    BY <2>2, <2>3
<1> QED
  BY <1>4, <1>6, <1>7 DEF SlotsInv

LEMMA NoAttemptIsTyped ==
    NoAttempt \in AttemptType /\ NoAttempt.step = "idle"
BY SlotsAssumption DEF NoAttempt, AttemptType

LEMMA TickKeeps ==
    ASSUME SlotsTypeOK, SlotsInv, UNCHANGED tokenVars, Tick PROVE SlotsTypeOK' /\ SlotsInv'
<1> DEFINE gone == Holders # {} /\ keyTTL = 1
           aged == [d \in Devices |->
                      IF gone \/ d \notin Holders THEN NoSlot
                      ELSE IF slots[d] < MaxAge THEN slots[d] + 1 ELSE MaxAge]
           older == [d \in Devices |->
                       IF d \in Attempting THEN [attempt[d] EXCEPT !.age = @ + 1] ELSE NoAttempt]
<1>1. /\ \A d \in Attempting : attempt[d].age < MaxDelay
      /\ Leaves(aged, gone, older)
      /\ keyTTL' = IF keyTTL > 0 THEN keyTTL - 1 ELSE 0
  BY DEF Tick
<1>2. /\ slots \in [Devices -> {NoSlot} \cup 0 .. MaxAge] /\ keyTTL \in 0 .. 2 * SlotTTL
      /\ attempt \in [Devices -> AttemptType]
  BY DEF SlotsTypeOK, AttemptType
<1>3. MaxAge \in Nat \ {0} /\ MaxDelay \in Nat /\ SlotTTL \in Nat
  BY SlotsAssumption DEF MaxAge
<1>4. aged \in [Devices -> {NoSlot} \cup 0 .. MaxAge]
  BY <1>2, <1>3 DEF Holders, NoSlot
<1>5. ASSUME NEW d \in Devices
      PROVE  /\ older[d] \in AttemptType
             /\ older[d].step # "idle" =>
                  /\ attempt[d].step # "idle" /\ older[d].max = attempt[d].max
                  /\ older[d].step = attempt[d].step
                  /\ attempt[d].dirty => older[d].dirty
  <2>1. CASE d \in Attempting
    <3> DEFINE v == [attempt[d] EXCEPT !.age = @ + 1]
    <3>1. attempt[d] \in AttemptType /\ attempt[d].age < MaxDelay /\ attempt[d].step # "idle"
      BY <1>1, <1>2, <2>1 DEF Attempting
    <3>2. v \in AttemptType /\ v.step = attempt[d].step /\ v.max = attempt[d].max
      BY <1>3, <3>1 DEF AttemptType
    <3>3. v.dirty = attempt[d].dirty
      BY <3>1 DEF AttemptType
    <3>4. older[d] = v
      BY <2>1
    <3> HIDE DEF v, older
    <3> QED
      BY <3>1, <3>2, <3>3, <3>4
  <2>2. CASE d \notin Attempting
    BY <2>2, NoAttemptIsTyped
  <2> QED
    BY <2>1, <2>2
<1>6. older \in [Devices -> AttemptType]
  BY <1>5
<1>7. ~gone => {d \in Devices : aged[d] # NoSlot} = Holders
  BY <1>2, <1>3 DEF Holders, NoSlot
<1>8. gone => {d \in Devices : aged[d] # NoSlot} = {}
  OBVIOUS
<1>9. Within(Cardinality({d \in Devices : aged[d] # NoSlot}))
  <2>1. CASE gone
    <3>1. Cardinality({d \in Devices : aged[d] # NoSlot}) = 0
      BY <1>8, <2>1, FS_EmptySet
    <3> QED
      BY <3>1 DEF Within
  <2>2. CASE ~gone
    <3>1. {d \in Devices : aged[d] # NoSlot} = Holders
      BY <1>7, <2>2
    <3> QED
      BY <3>1 DEF SlotsInv
  <2> QED
    BY <2>1, <2>2
<1>10. keyTTL' \in 0 .. 2 * SlotTTL
  BY <1>1, <1>2, <1>3
<1>11. gone \in BOOLEAN
  OBVIOUS
<1> HIDE DEF gone, aged, older
<1> QED
  BY <1>1, <1>4, <1>5, <1>6, <1>7, <1>9, <1>10, <1>11, LeavesKeeps

\* Members go or stay, and so does what is within the plan.
LEMMA FewerKeeps ==
    ASSUME SlotsTypeOK, SlotsInv, TokenTypes, NEW H \in SUBSET Holders
    PROVE  Within(Cardinality(H))
<1>1. Holders \subseteq Devices
  BY DEF Holders
<1>2. /\ Cardinality(H) \in Nat /\ Cardinality(Holders) \in Nat
      /\ Cardinality(H) <= Cardinality(Holders)
  BY <1>1, HoldersFinite
<1> QED
  BY <1>2, WithinLess DEF SlotsInv

LEMMA KeyTTLIsTyped ==
    ASSUME SlotsTypeOK, NEW s PROVE KeyTTL(s) \in 0 .. 2 * SlotTTL
BY SlotsAssumption DEF KeyTTL, SlotsTypeOK

LEMMA PurgesKeeps ==
    ASSUME SlotsTypeOK, SlotsInv, TokenTypes, UNCHANGED tokenVars, NEW d \in Devices, Purges(d)
    PROVE  SlotsTypeOK' /\ SlotsInv'
<1> DEFINE w == [attempt EXCEPT ![d].step = "purged"]
           v == [attempt[d] EXCEPT !.step = "purged"]
<1>1. PICK stale \in {{}, {e \in Holders : slots[e] - attempt[d].age >= SlotTTL}} :
         LET s == [e \in Devices |-> IF e \in stale THEN NoSlot ELSE slots[e]] IN
         /\ attempt[d].step = "watched"
         /\ Leaves(s, stale # {}, w)
         /\ keyTTL' = KeyTTL(s)
  BY DEF Purges
<1> DEFINE s == [e \in Devices |-> IF e \in stale THEN NoSlot ELSE slots[e]]
<1>2. /\ slots \in [Devices -> {NoSlot} \cup 0 .. MaxAge] /\ attempt \in [Devices -> AttemptType]
  BY DEF SlotsTypeOK, AttemptType
<1>3. s \in [Devices -> {NoSlot} \cup 0 .. MaxAge]
  BY <1>2
<1>4. {e \in Devices : s[e] # NoSlot} = Holders \ stale
  BY DEF Holders
<1>5. attempt[d] \in AttemptType
  BY <1>2
<1>6. /\ v \in AttemptType /\ v.step = "purged" /\ v.max = attempt[d].max
      /\ v.dirty = attempt[d].dirty
  BY <1>5 DEF AttemptType
<1>7. \A e \in Devices : w[e] = IF e = d THEN v ELSE attempt[e]
  BY <1>2
<1>8. w \in [Devices -> AttemptType]
  <2>1. w = [attempt EXCEPT ![d] = v]
    OBVIOUS
  <2> HIDE DEF v, w
  <2> QED
    BY <1>2, <1>6, <2>1
<1>9. Leaves(s, stale # {}, w) /\ keyTTL' \in 0 .. 2 * SlotTTL /\ attempt[d].step = "watched"
  BY <1>1, KeyTTLIsTyped
<1>10. Within(Cardinality({e \in Devices : s[e] # NoSlot}))
  BY <1>4, FewerKeeps
<1>11. (stale # {}) \in BOOLEAN /\ (~(stale # {}) => {e \in Devices : s[e] # NoSlot} = Holders)
  BY <1>4
<1> HIDE DEF v, w, s
<1> QED
  BY <1>3, <1>6, <1>7, <1>8, <1>9, <1>10, <1>11, LeavesKeeps

LEMMA LooksForOwnSlotKeeps ==
    ASSUME SlotsTypeOK, SlotsInv, UNCHANGED tokenVars, NEW d \in Devices, LooksForOwnSlot(d)
    PROVE  SlotsTypeOK' /\ SlotsInv'
<1> DEFINE v == [attempt[d] EXCEPT !.step = IF d \in Holders THEN "exec" ELSE "count"]
<1>1. attempt[d] \in AttemptType /\ d \in Attempting
  BY DEF SlotsTypeOK, AttemptType, LooksForOwnSlot, Attempting
<1>2. /\ v \in AttemptType /\ v.max = attempt[d].max
      /\ v.step = (IF d \in Holders THEN "exec" ELSE "count")
  BY <1>1 DEF AttemptType
<1>3. attempt' = [attempt EXCEPT ![d] = v] /\ UNCHANGED <<slots, keyTTL>>
  BY DEF LooksForOwnSlot
<1>4. Within(v.max)
  BY <1>1, <1>2 DEF SlotsInv
<1> HIDE DEF v
<1> QED
  BY <1>2, <1>3, <1>4, AttemptKeeps

LEMMA CountsKeeps ==
    ASSUME SlotsTypeOK, SlotsInv, UNCHANGED tokenVars, NEW d \in Devices, Counts(d)
    PROVE  SlotsTypeOK' /\ SlotsInv'
<1>1. attempt[d] \in AttemptType /\ d \in Attempting /\ UNCHANGED <<slots, keyTTL>>
  BY DEF SlotsTypeOK, AttemptType, Counts, Attempting
<1>2. CASE Cardinality(Holders) >= attempt[d].max
  <2>1. attempt' = [attempt EXCEPT ![d] = NoAttempt]
    BY <1>2 DEF Counts
  <2> QED
    BY <1>1, <2>1, AttemptKeeps, NoAttemptIsTyped
<1>3. CASE ~(Cardinality(Holders) >= attempt[d].max)
  <2> DEFINE v == [attempt[d] EXCEPT !.step = "exec"]
  <2>1. attempt' = [attempt EXCEPT ![d] = v]
    BY <1>3 DEF Counts
  <2>2. v \in AttemptType /\ v.max = attempt[d].max
    BY <1>1 DEF AttemptType
  <2>3. Holders \subseteq Devices
    BY DEF Holders
  <2>4. Cardinality(Holders) < v.max
    BY <1>1, <1>3, <2>2, <2>3, HoldersFinite DEF AttemptType
  <2>5. Within(v.max)
    BY <1>1, <2>2 DEF SlotsInv
  <2> HIDE DEF v
  <2> QED
    BY <1>1, <2>1, <2>2, <2>4, <2>5, AttemptKeeps
<1> QED
  BY <1>2, <1>3

LEMMA AcquireFailsKeeps ==
    ASSUME SlotsTypeOK, SlotsInv, UNCHANGED tokenVars, NEW d \in Devices, AcquireFails(d)
    PROVE  SlotsTypeOK' /\ SlotsInv'
BY AttemptKeeps, NoAttemptIsTyped DEF AcquireFails

LEMMA TakesKeeps ==
    ASSUME SlotsTypeOK, SlotsInv, TokenTypes, UNCHANGED tokenVars, NEW d \in Devices, Takes(d)
    PROVE  SlotsTypeOK' /\ SlotsInv'
<1> DEFINE s == [slots EXCEPT ![d] = attempt[d].age]
           w == [attempt EXCEPT ![d] = NoAttempt]
           H == {e \in Devices : s[e] # NoSlot}
<1>1. /\ slots \in [Devices -> {NoSlot} \cup 0 .. MaxAge] /\ attempt \in [Devices -> AttemptType]
      /\ MaxAge \in Nat /\ MaxDelay \in Nat /\ MaxDelay <= MaxAge
  BY SlotsAssumption DEF SlotsTypeOK, AttemptType, MaxAge
<1>2. attempt[d].age \in 0 .. MaxDelay /\ attempt[d].max \in Nat
  BY <1>1 DEF AttemptType
<1>3. s \in [Devices -> {NoSlot} \cup 0 .. MaxAge] /\ w \in [Devices -> AttemptType]
  BY <1>1, <1>2, NoAttemptIsTyped
<1>4. H = Holders \cup {d} /\ Holders \subseteq Devices
  BY <1>1, <1>2 DEF Holders, NoSlot
<1>5. Room(d) /\ Within(attempt[d].max) /\ Within(Cardinality(Holders))
  BY DEF Takes, SlotsInv, Attempting
<1>6. Within(Cardinality(H))
  <2>1. CASE d \in Holders
    <3>1. H = Holders
      BY <1>4, <2>1
    <3> QED
      BY <1>5, <3>1
  <2>2. CASE d \notin Holders
    <3>1. Cardinality(H) = Cardinality(Holders) + 1 /\ Cardinality(Holders) \in Nat
      BY <1>4, <2>2, HoldersFinite
    <3>2. Cardinality(H) \in Nat /\ Cardinality(H) <= attempt[d].max
      BY <1>2, <1>5, <2>2, <3>1 DEF Room
    <3> QED
      BY <1>2, <1>5, <3>2, WithinLess
  <2> QED
    BY <2>1, <2>2
<1>7. Leaves(s, TRUE, w) /\ keyTTL' \in 0 .. 2 * SlotTTL
  <2>1. Leaves(s, TRUE, w) /\ keyTTL' = 2 * SlotTTL
    BY DEF Takes
  <2>2. keyTTL' \in 0 .. 2 * SlotTTL
    BY <2>1, SlotsAssumption
  <2> QED
    BY <2>1, <2>2
<1>8. \A e \in Devices : w[e].step # "idle" => w[e] = attempt[e]
  BY <1>1, NoAttemptIsTyped
<1> HIDE DEF s, w
<1> QED
  BY <1>3, <1>6, <1>7, <1>8, LeavesKeeps

LEMMA HeartbeatKeeps ==
    ASSUME SlotsTypeOK, SlotsInv, UNCHANGED tokenVars, NEW d \in Devices, Heartbeat(d)
    PROVE  SlotsTypeOK' /\ SlotsInv'
<1> DEFINE s == [slots EXCEPT ![d] = 0]
<1>1. /\ slots \in [Devices -> {NoSlot} \cup 0 .. MaxAge] /\ attempt \in [Devices -> AttemptType]
      /\ MaxAge \in Nat /\ keyTTL \in 0 .. 2 * SlotTTL
  BY SlotsAssumption DEF SlotsTypeOK, AttemptType, MaxAge
<1>2. s \in [Devices -> {NoSlot} \cup 0 .. MaxAge]
  BY <1>1
<1>3. {e \in Devices : s[e] # NoSlot} = Holders
  BY <1>1 DEF Holders, NoSlot, Heartbeat
<1>4. Leaves(s, slots[d] # 0, attempt) /\ keyTTL' \in 0 .. 2 * SlotTTL
  BY <1>1 DEF Heartbeat
<1>5. Within(Cardinality({e \in Devices : s[e] # NoSlot}))
  BY <1>3 DEF SlotsInv
<1>6. (slots[d] # 0) \in BOOLEAN
  OBVIOUS
<1> HIDE DEF s
<1> QED
  BY <1>1, <1>2, <1>3, <1>4, <1>5, <1>6, LeavesKeeps

LEMMA ReleaseKeeps ==
    ASSUME SlotsTypeOK, SlotsInv, TokenTypes, UNCHANGED tokenVars, NEW d \in Devices, Release(d)
    PROVE  SlotsTypeOK' /\ SlotsInv'
<1> DEFINE s == [slots EXCEPT ![d] = NoSlot]
<1>1. slots \in [Devices -> {NoSlot} \cup 0 .. MaxAge] /\ attempt \in [Devices -> AttemptType]
  BY DEF SlotsTypeOK, AttemptType
<1>2. s \in [Devices -> {NoSlot} \cup 0 .. MaxAge]
  BY <1>1
<1>3. {e \in Devices : s[e] # NoSlot} \subseteq Holders
  BY <1>1 DEF Holders
<1>4. Leaves(s, TRUE, attempt) /\ keyTTL' \in 0 .. 2 * SlotTTL
  BY KeyTTLIsTyped DEF Release
<1>5. Within(Cardinality({e \in Devices : s[e] # NoSlot}))
  BY <1>3, FewerKeeps
<1> HIDE DEF s
<1> QED
  BY <1>1, <1>2, <1>4, <1>5, LeavesKeeps

\* A device asks with the limit of a token the user was given.
LEMMA AcquireStartsKeeps ==
    ASSUME SlotsTypeOK, SlotsInv, TokenTypes, UNCHANGED tokenVars,
           NEW d \in Devices, NEW t \in given, AcquireStarts(d, token[t].max)
    PROVE  SlotsTypeOK' /\ SlotsInv'
<1> DEFINE max == token[t].max
           m == IF max <= 0 THEN 1 ELSE max
           v == [step |-> "watched", age |-> 0, max |-> m, dirty |-> FALSE]
<1>1. max \in Nat
  BY DEF TokenTypes, TokenType
<1>2. v \in AttemptType /\ v.step = "watched" /\ v.max = m
  BY <1>1, SlotsAssumption DEF AttemptType
<1>3. Within(m)
  BY <1>1 DEF Within
<1>4. attempt' = [attempt EXCEPT ![d] = v] /\ UNCHANGED <<slots, keyTTL>>
  BY DEF AcquireStarts
<1> HIDE DEF v, m
<1> QED
  BY <1>2, <1>3, <1>4, AttemptKeeps

LEMMA SlotsNextInv ==
    ASSUME AuthInv, UNCHANGED <<accountVars, tokenVars, req, faults>>,
           SlotsNext \/ \E d \in Devices : AsksForSlot(d)
    PROVE  AuthInv'
<1>1. Typed /\ TokenTypes /\ TokensInv /\ AccountTypes /\ FaultTypes /\ SlotsTypeOK /\ SlotsInv
  BY Parts DEF Typed
<1>2. UNCHANGED tokenVars
  OBVIOUS
<1>3. SlotsTypeOK' /\ SlotsInv'
  <2>1. CASE Tick
    BY <1>1, <1>2, <2>1, TickKeeps
  <2>2. ASSUME NEW d \in Devices,
               \/ Purges(d) \/ LooksForOwnSlot(d) \/ Counts(d) \/ Takes(d) \/ AcquireFails(d)
               \/ Heartbeat(d) \/ Release(d)
        PROVE  SlotsTypeOK' /\ SlotsInv'
    BY <1>1, <1>2, <2>2, PurgesKeeps, LooksForOwnSlotKeeps, CountsKeeps, TakesKeeps,
       AcquireFailsKeeps, HeartbeatKeeps, ReleaseKeeps
  <2>3. ASSUME NEW d \in Devices, AsksForSlot(d) PROVE SlotsTypeOK' /\ SlotsInv'
    BY <1>1, <1>2, <2>3, AcquireStartsKeeps DEF AsksForSlot
  <2> QED
    BY <2>1, <2>2, <2>3 DEF SlotsNext
<1>4. Typed' /\ TokensInv'
  BY <1>1, TokensKept
<1>5. AccountTypes' /\ FaultTypes'
  BY <1>1 DEF AccountTypes, FaultTypes, accountVars
<1> QED
  BY <1>3, <1>4, <1>5, Parts, PTL

---------------------------------------------------------------------------

LEMMA InitAuth == Init => AuthInv
<1> SUFFICES ASSUME Init PROVE AuthInv
  OBVIOUS
<1>1. /\ \A d \in Devices : slots[d] = NoSlot /\ attempt[d] = NoAttempt
      /\ slots = [d \in Devices |-> NoSlot] /\ attempt = [d \in Devices |-> NoAttempt] /\ keyTTL = 0
      /\ link = "none" /\ failures = 0 /\ given = {} /\ astray = {} /\ struck = {} /\ faults = 0
      /\ user.status \in {"none", "active"}
      /\ token = [t \in Requests |-> Absent] /\ req = [r \in Requests |-> Idle]
  BY DEF Init, SlotsInit
<1>2. SlotsTypeOK
  BY <1>1, NoAttemptIsTyped, SlotsAssumption DEF SlotsTypeOK, AttemptType, NoSlot, MaxAge
<1>3. AccountTypes /\ FaultTypes
  BY AuthAssumption DEF Init, AccountTypes, FaultTypes
<1>4. Absent \in TokenType /\ Absent.state = "none" /\ Idle \in RequestType
      /\ Idle.step = "idle" /\ Idle.kind = "none"
  BY DEF Absent, TokenType, Idle, RequestType, Steps
<1>5. Typed
  BY <1>1, <1>4 DEF Typed, TokenTypes, RequestTypes
<1>6. \A r \in Requests : ~Known(r) /\ ~Usable(r) /\ At(r, "idle") /\ req[r].kind = "none"
  BY <1>1, <1>4 DEF Known, Usable, At
<1>7. \A r \in Requests : Carries(r) /\ Descends(r)
  BY <1>1, <1>6 DEF Carries, Descends, At
<1>8. OneHolder
  BY <1>6 DEF OneHolder, Holds, Rotates
<1>9. OneChain /\ Ended
  BY <1>1 DEF OneChain, Ended
<1>10. Holders = {} /\ Attempting = {}
  BY <1>1, NoAttemptIsTyped DEF Holders, Attempting
<1>11. SlotsInv
  BY <1>10, FS_EmptySet DEF SlotsInv, Within
<1> QED
  BY <1>2, <1>3, <1>5, <1>7, <1>8, <1>9, <1>11, Parts DEF TokensInv

LEMMA StepAuth == AuthInv /\ [Next]_vars => AuthInv'
<1> SUFFICES ASSUME AuthInv, [Next]_vars PROVE AuthInv'
  OBVIOUS
<1>1. ASSUME NEW r \in Requests,
             \/ RegisterArrives(r) \/ ActivateArrives(r) \/ LoginArrives(r)
             \/ \E t \in Requests : RefreshArrives(r, t)
      PROVE  AuthInv'
  BY <1>1, ArrivalsInv
<1>2. ASSUME NEW r \in Requests,
             \/ InsertsUser(r) \/ MintsLink(r) \/ MailsLink(r) \/ ConsumesLink(r) \/ StartsTrial(r)
             \/ ChecksLock(r) \/ RecordsFailure(r) \/ ClearsFailures(r)
             \/ \E right \in BOOLEAN : Verifies(r, right)
      PROVE  AuthInv'
  BY <1>2, InsertsUserInv, MintsLinkInv, MailsLinkInv, ConsumesLinkInv, StartsTrialInv,
     ChecksLockInv, RecordsFailureInv, ClearsFailuresInv, VerifiesInv
<1>3. ASSUME NEW r \in Requests,
             \/ ReadsUser(r) \/ InsertsToken(r)
             \/ Swaps(r) \/ SwapIsMisread(r) \/ Revokes(r) \/ RevokeFails(r)
             \/ Stitches(r) \/ StitchFails(r) \/ Dies(r)
      PROVE  AuthInv'
  BY <1>3, ReadsUserInv, InsertsTokenInv, SwapsInv, SwapIsMisreadInv, RevokesInv, GivesUpInv,
     StitchesInv, StitchFailsInv
<1>4. CASE Expires \/ PlanChanges
  BY <1>4, ExpiresInv, PlanChangesInv
<1>5. CASE \E d \in Devices : AsksForSlot(d)
  <2>1. UNCHANGED <<accountVars, tokenVars, req, faults>>
    BY <1>5 DEF AsksForSlot
  <2> QED
    BY <1>5, <2>1, SlotsNextInv
<1>6. CASE SlotsNext /\ UNCHANGED <<accountVars, tokenVars, req, faults>>
  BY <1>6, SlotsNextInv
<1>7. CASE UNCHANGED vars
  <2>1. Typed /\ TokensInv /\ AccountTypes /\ FaultTypes
    BY Parts
  <2>2. UNCHANGED slotVars /\ UNCHANGED accountVars /\ UNCHANGED tokenVars /\ UNCHANGED req
        /\ UNCHANGED faults
    BY <1>7 DEF vars
  <2>3. SlotsTypeOK' /\ SlotsInv'
    BY <2>2, SlotsAside
  <2>4. Typed' /\ TokensInv'
    BY <2>1, <2>2, TokensKept
  <2>5. AccountTypes' /\ FaultTypes'
    BY <2>1, <2>2 DEF AccountTypes, FaultTypes, accountVars
  <2> QED
    BY <2>3, <2>4, <2>5, Parts, PTL
<1> QED
  BY <1>1, <1>2, <1>3, <1>4, <1>5, <1>6, <1>7 DEF Next

(* Rows, tokens, requests and slots have the shapes the tables give them.  *)
THEOREM TypeCorrect == Spec => []AuthTypeOK
<1>1. AuthInv => AuthTypeOK
  BY DEF AuthInv
<1> QED
  BY <1>1, InitAuth, StepAuth, PTL DEF Spec

(* A login has at most one refresh token that can be exchanged, however    *)
(* many requests present the same one at once and wherever they fail.      *)
THEOREM OnlyOneWorks == Spec => []OneUsableToken
<1>1. AuthInv => OneUsableToken
  <2> SUFFICES ASSUME AuthInv, NEW t \in Requests, NEW u \in Requests,
                      Usable(t), Usable(u), token[t].login = token[u].login
               PROVE  t = u
    BY DEF OneUsableToken
  <2>1. TokensInv
    BY DEF AuthInv
  <2>2. ~Rotates(t) /\ ~Rotates(u)
    BY <2>1 DEF TokensInv, Carries, Rotates, At, Usable, Known
  <2> QED
    BY <2>1, <2>2 DEF TokensInv, OneHolder, Holds, LoginOf
<1> QED
  BY <1>1, InitAuth, StepAuth, PTL DEF Spec

(* A replay that is noticed ends the session for good, unless it met a     *)
(* rotation half done or a stitch had failed.                              *)
THEOREM ReplayIsFinal == Spec => []ReplayEndsSession
<1>1. AuthInv => ReplayEndsSession
  BY DEF AuthInv, TokensInv, Ended, IsOver, ReplayEndsSession
<1> QED
  BY <1>1, InitAuth, StepAuth, PTL DEF Spec

(* The devices that hold a slot are no more than the largest limit in an   *)
(* access token of the user, or than one.                                  *)
THEOREM PlanIsKept == Spec => []SlotsWithinPlan
<1>1. AuthInv => SlotsWithinPlan
  BY DEF AuthInv, SlotsInv, Within, SlotsWithinPlan
<1> QED
  BY <1>1, InitAuth, StepAuth, PTL DEF Spec
==============================================================================
