--------------------------- MODULE Notifications ---------------------------
(***************************************************************************)
(* Device tokens and the delivery of a notice: notifications.service.ts.   *)
(*                                                                         *)
(* A token is known in two places: the device_tokens row (unique by token) *)
(* and users.fcm_token, kept for old clients and used when a user has no   *)
(* row.  Logging in, logging out and sending are each several calls to the *)
(* database.  Firebase and the phones are external: which tokens are dead  *)
(* and who is logged in on which phone.                                    *)
(***************************************************************************)
EXTENDS Integers, FiniteSets

CONSTANTS Users, Tokens, Requests, Env

EnvBehaviours == {
    "noLogout",  \* the next user logs in on a phone nobody logged out of
    "overlap",   \* the app sends a request about a phone before the last one is answered
    "lostWrite" }\* the last write of a logout fails, and nobody hears of it

None == "none"

VARIABLES
    row,         \* device_tokens: the user of each token
    fcm,         \* users.fcm_token
    holder,      \* external: who is logged in on the phone of the token
    dead,        \* external: tokens Firebase does not know any more
    notice,      \* the push status of the last notice each request sent
    reached,     \* the phones that notice arrived at
    req          \* the open requests

vars == <<row, fcm, holder, dead, notice, reached, req>>
tables == <<row, fcm>>
phones == <<holder, dead>>
sent == <<notice, reached>>

Idle == [at |-> "idle"]
Device(at, u, t) == [at |-> at, user |-> u, token |-> t]
Send(at, u, tokens, failed, gone) ==
    [at |-> at, user |-> u, tokens |-> tokens, failed |-> failed, gone |-> gone]

DeviceSteps == {"saveRow", "saveUser", "deleteRow", "deleteRead", "deleteUser"}
SendSteps == {"rows", "fallback", "push", "purge", "purgeUsers", "status"}
PushStatus == {"NONE", "PENDING", "NO_TOKEN", "SENT", "PARTIAL", "FAILED"}

TypeOK ==
    /\ row \in [Tokens -> Users \cup {None}] /\ fcm \in [Users -> Tokens \cup {None}]
    /\ holder \in [Tokens -> Users \cup {None}] /\ dead \subseteq Tokens
    /\ notice \in [Requests -> PushStatus] /\ reached \in [Requests -> SUBSET Tokens]
    /\ \A r \in Requests :
        \/ req[r] = Idle
        \/ req[r].at \in DeviceSteps /\ req[r].user \in Users /\ req[r].token \in Tokens
        \/ /\ req[r].at \in SendSteps /\ req[r].user \in Users
           /\ req[r].gone \subseteq req[r].failed /\ req[r].failed \subseteq req[r].tokens
           /\ req[r].tokens \subseteq Tokens

Init ==
    /\ row = [t \in Tokens |-> None] /\ fcm = [u \in Users |-> None]
    /\ holder = [t \in Tokens |-> None] /\ dead = {}
    /\ notice = [r \in Requests |-> "NONE"] /\ reached = [r \in Requests |-> {}]
    /\ req = [r \in Requests |-> Idle]

\* No request about the phone is open.
Settled(t) == \A r \in Requests : req[r].at \in DeviceSteps => req[r].token # t

-----------------------------------------------------------------------------
(* The phones                                                                *)

LogIn(r, u, t) ==
    /\ req[r] = Idle /\ t \notin dead /\ ("overlap" \in Env \/ Settled(t))
    /\ holder[t] = None \/ ("noLogout" \in Env /\ holder[t] # u)
    /\ holder' = [holder EXCEPT ![t] = u]
    /\ req' = [req EXCEPT ![r] = Device("saveRow", u, t)]
    /\ UNCHANGED <<tables, dead, sent>>

LogOut(r, t) ==
    /\ req[r] = Idle /\ holder[t] # None /\ ("overlap" \in Env \/ Settled(t))
    /\ holder' = [holder EXCEPT ![t] = None]
    /\ req' = [req EXCEPT ![r] = Device("deleteRow", holder[t], t)]
    /\ UNCHANGED <<tables, dead, sent>>

\* The app is removed: the token never works again, and nobody says so to the service.
Uninstall(t) ==
    /\ t \notin dead /\ dead' = dead \cup {t}
    /\ holder' = [holder EXCEPT ![t] = None]
    /\ UNCHANGED <<tables, sent, req>>

-----------------------------------------------------------------------------
(* saveDeviceToken and deleteDeviceToken                                     *)

\* The upsert creates the row or gives it to the user.
SaveRow(r) ==
    /\ req[r].at = "saveRow" /\ row' = [row EXCEPT ![req[r].token] = req[r].user]
    /\ req' = [req EXCEPT ![r].at = "saveUser"]
    /\ UNCHANGED <<fcm, phones, sent>>

\* A failure of this write is only logged.
SaveUser(r) ==
    /\ req[r].at = "saveUser"
    /\ fcm' \in {[fcm EXCEPT ![req[r].user] = req[r].token], fcm}
    /\ req' = [req EXCEPT ![r] = Idle]
    /\ UNCHANGED <<row, phones, sent>>

\* Mutant: the rows of the user that are not the latest stay.
DeletedLatest(u, t) == row[t] = u /\ fcm[u] = t

Deleted(u, t) == row[t] = u

DeleteRow(r) ==
    /\ req[r].at = "deleteRow"
    /\ row' = IF Deleted(req[r].user, req[r].token)
              THEN [row EXCEPT ![req[r].token] = None] ELSE row
    /\ req' = [req EXCEPT ![r].at = "deleteRead"]
    /\ UNCHANGED <<fcm, phones, sent>>

Clears(u, t) == fcm[u] = t

DeleteRead(r) ==
    /\ req[r].at = "deleteRead"
    /\ req' = [req EXCEPT ![r] = IF Clears(req[r].user, req[r].token)
                                 THEN [req[r] EXCEPT !.at = "deleteUser"] ELSE Idle]
    /\ UNCHANGED <<tables, phones, sent>>

DeleteUser(r) ==
    /\ req[r].at = "deleteUser"
    /\ \/ fcm' = [fcm EXCEPT ![req[r].user] = None]
       \/ "lostWrite" \in Env /\ fcm' = fcm
    /\ req' = [req EXCEPT ![r] = Idle]
    /\ UNCHANGED <<row, phones, sent>>

-----------------------------------------------------------------------------
(* sendToUser, once for each user an event handler or a broadcast is for     *)

CreateNotice(r, u) ==
    /\ req[r] = Idle /\ req' = [req EXCEPT ![r] = Send("rows", u, {}, {}, {})]
    /\ notice' = [notice EXCEPT ![r] = "PENDING"] /\ reached' = [reached EXCEPT ![r] = {}]
    /\ UNCHANGED <<tables, phones>>

SendRows(r) ==
    /\ req[r].at = "rows"
    /\ LET tokens == {t \in Tokens : row[t] = req[r].user}
       IN  req' = [req EXCEPT ![r] =
               Send(IF tokens = {} THEN "fallback" ELSE "push", req[r].user, tokens, {}, {})]
    /\ UNCHANGED <<tables, phones, sent>>

SendFallback(r) ==
    /\ req[r].at = "fallback"
    /\ LET tokens == {fcm[req[r].user]} \ {None}
       IN  /\ req' = [req EXCEPT ![r] =
                  IF tokens = {} THEN Idle ELSE Send("push", req[r].user, tokens, {}, {})]
           /\ notice' = IF tokens = {} THEN [notice EXCEPT ![r] = "NO_TOKEN"] ELSE notice
    /\ UNCHANGED <<tables, phones, reached>>

\* Only the errors not-registered and invalid-token count; the others are logged.
DeadTokens(failed) == failed \cap dead

\* Firebase answers for every token: a dead one fails, another may.
Push(r, failed) ==
    /\ req[r].at = "push" /\ dead \cap req[r].tokens \subseteq failed /\ failed \subseteq req[r].tokens
    /\ reached' = [reached EXCEPT ![r] = req[r].tokens \ failed]
    /\ req' = [req EXCEPT ![r] =
                   Send("purge", req[r].user, req[r].tokens, failed, DeadTokens(failed))]
    /\ UNCHANGED <<tables, phones, notice>>

\* Whatever throws, at Firebase or in the database, is logged: the notice stays as it is.
Throw(r) ==
    /\ req[r].at \in SendSteps /\ req' = [req EXCEPT ![r] = Idle]
    /\ UNCHANGED <<tables, phones, sent>>

Purge(r) ==
    /\ req[r].at = "purge"
    /\ row' = [t \in Tokens |-> IF t \in req[r].gone THEN None ELSE row[t]]
    /\ req' = [req EXCEPT ![r].at = "purgeUsers"]
    /\ UNCHANGED <<fcm, phones, sent>>

PurgeUsers(r) ==
    /\ req[r].at = "purgeUsers"
    /\ fcm' = [u \in Users |-> IF fcm[u] \in req[r].gone THEN None ELSE fcm[u]]
    /\ req' = [req EXCEPT ![r].at = "status"]
    /\ UNCHANGED <<row, phones, sent>>

\* Mutant: failures that purge nothing are not counted.
StatusOfDead(tokens, failed) ==
    IF failed \cap dead = {} THEN "SENT" ELSE IF failed # tokens THEN "PARTIAL" ELSE "FAILED"

Status(tokens, failed) ==
    IF failed = {} THEN "SENT" ELSE IF failed # tokens THEN "PARTIAL" ELSE "FAILED"

SetStatus(r) ==
    /\ req[r].at = "status"
    /\ notice' = [notice EXCEPT ![r] = Status(req[r].tokens, req[r].failed)]
    /\ req' = [req EXCEPT ![r] = Idle]
    /\ UNCHANGED <<tables, phones, reached>>

-----------------------------------------------------------------------------
Next ==
    \/ \E t \in Tokens : Uninstall(t)
    \/ \E r \in Requests :
        \/ \E u \in Users : CreateNotice(r, u) \/ \E t \in Tokens : LogIn(r, u, t)
        \/ \E t \in Tokens : LogOut(r, t)
        \/ SaveRow(r) \/ SaveUser(r) \/ DeleteRow(r) \/ DeleteRead(r) \/ DeleteUser(r)
        \/ SendRows(r) \/ SendFallback(r) \/ Throw(r)
        \/ \E failed \in SUBSET Tokens : Push(r, failed)
        \/ Purge(r) \/ PurgeUsers(r) \/ SetStatus(r)

Spec == Init /\ [][Next]_vars

-----------------------------------------------------------------------------
(* Properties *)

\* When the app has had its answers, the row of a working phone names who is logged in
\* on it, so that a user is reached on every phone they use and on no other; nor does
\* the old field point to a phone the user left, where somebody else would read.
TokensFollowPhones ==
    \A t \in Tokens \ dead : Settled(t) =>
        row[t] = holder[t] /\ \A u \in Users : fcm[u] = t => holder[t] = u

\* The status a notice ends with tells whether it arrived anywhere, whichever of the
\* tokens were dead and whatever threw on the way.
StatusIsTrue ==
    \A r \in Requests :
        /\ notice[r] \in {"SENT", "PARTIAL"} => reached[r] # {}
        /\ notice[r] \in {"NO_TOKEN", "FAILED"} => reached[r] = {}
=============================================================================
