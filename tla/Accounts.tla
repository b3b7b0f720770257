------------------------------- MODULE Accounts --------------------------------
(***************************************************************************)
(* One account and the sessions of its user: a member of an organisation,  *)
(* a user who has registered, the superadmin (AuthService and              *)
(* UserManagementService of apps/identity) or a user of a subcontractor    *)
(* (apps/portal/service.py), chosen in the initial state.                  *)
(*                                                                         *)
(* A request reads the account, then flushes what it changed, which takes  *)
(* the lock of the row, mails the user where the code does, and at last    *)
(* commits.  Lookups by e-mail find the one row there is: Registers shows  *)
(* that there is one.                                                      *)
(***************************************************************************)
EXTENDS Naturals, FiniteSetsExt, Session

CONSTANTS
    Tokens,         \* bound: rows of refresh tokens of one login, numbered
    Requests,       \* slots for requests in flight at the same time
    NoTxn           \* a slot without a request

ASSUME TokensAssumption == Tokens \subseteq Nat /\ IsFiniteSet(Tokens) /\ Tokens # {}

\* A request is not one of the other values told may have.
ASSUME RequestsAssumption == Requests \intersect {"nowhere", "stored", "replaced"} = {}

VARIABLES
    kind,       \* whose account it is
    account,    \* its row in table users or subcontractor_users
    token,      \* the rows of table refresh_tokens
    hash,       \* their column token_hash: the first row with that token
    tenant,     \* whether the organisation is active
    txn,        \* per slot, the request in flight
    told,       \* where the password is that was mailed last
    unsent,     \* history: the mail with the password in the row failed
    crossed,    \* history: a password was set by a request that had read another
    raced       \* history: two requests revoked one token

vars == <<kind, account, token, hash, tenant, txn, told, unsent, crossed, raced>>

-----------------------------------------------------------------------------

Columns == [must : BOOLEAN, active : BOOLEAN]

\* What hashed_password is the hash of: nothing, there is no row; a password the
\* user was given; one of the user's own.
Password == {"none", "given", "own"}

Token == {"none", "live", "revoked"}

\* sets is the password a request sets, "none" for no password; late tells that
\* another one was stored since the request has read the row, or found none;
\* touches is for an UPDATE of nothing that is here; unsent tells that the mail
\* failed.
Txn == [loaded : Columns, assigned : Columns, creates : BOOLEAN, sets : Password,
        late : BOOLEAN, touches : BOOLEAN, mails : BOOLEAN, unsent : BOOLEAN,
        flushed : BOOLEAN, revokes : SUBSET Tokens, issues : SUBSET Tokens]

\* A mailed password is on its way with a request, or in the row, or no longer.
Told == {"nowhere", "stored", "replaced"} \union Requests

Kind == {"staff", "registered", "superadmin", "portal"}

TypeOK ==
    /\ kind \in Kind
    /\ account \in [password : Password, must : BOOLEAN, active : BOOLEAN]
    /\ token \in [Tokens -> Token]
    /\ hash \in [Tokens -> Tokens]
    /\ tenant \in BOOLEAN
    /\ txn \in [Requests -> Txn \union {NoTxn}]
    /\ told \in Told
    /\ unsent \in BOOLEAN
    /\ crossed \in BOOLEAN
    /\ raced \in BOOLEAN

\* The superadmin is there from the startup of the program.
Seeded(k) ==
    [password |-> IF k = "superadmin" THEN "own" ELSE "none",
     must |-> FALSE, active |-> k = "superadmin"]

Init ==
    /\ kind \in Kind
    /\ account = Seeded(kind)
    /\ token = [x \in Tokens |-> "none"]
    /\ hash = [x \in Tokens |-> x]
    /\ tenant = TRUE
    /\ txn = [r \in Requests |-> NoTxn]
    /\ told = "nowhere"
    /\ unsent = FALSE
    /\ crossed = FALSE
    /\ raced = FALSE

-----------------------------------------------------------------------------

Users == Kind \ {"portal"}

Exists(kinds) == kind \in kinds /\ account.password # "none"

Begin(r, t) ==
    /\ txn[r] = NoTxn
    /\ txn' = [txn EXCEPT ![r] = t]
    /\ UNCHANGED <<kind, account, token, tenant, told, unsent, crossed, raced>>

\* A request that has only read.
Read ==
    LET columns == [must |-> account.must, active |-> account.active] IN
    [loaded |-> columns, assigned |-> columns, creates |-> FALSE, sets |-> "none",
     late |-> FALSE, touches |-> FALSE, mails |-> FALSE, unsent |-> FALSE, flushed |-> FALSE,
     revokes |-> {}, issues |-> {}]

Insert(r, password, mails) ==
    /\ account.password = "none"
    /\ Begin(r, [Read EXCEPT !.assigned = [must |-> password = "given", active |-> TRUE],
                             !.creates = TRUE, !.sets = password, !.mails = mails])
    /\ UNCHANGED hash

RegisterAccount(r) == kind = "registered" /\ Insert(r, "own", FALSE)

CreateUser(r) == kind = "staff" /\ Insert(r, "given", TRUE)

\* Together with the tenant.
CreateTenantAdmin(r) == kind = "staff" /\ Insert(r, "given", TRUE)

\* The password is in the request and not mailed.
CreatePortalUser(r) == kind = "portal" /\ Insert(r, "given", FALSE)

\* Faulty variant: the flag stays as it was.
SetOwnFlagged(r) ==
    /\ account.active
    /\ Begin(r, [Read EXCEPT !.sets = "own"])
    /\ UNCHANGED hash

\* The dependency of the endpoint lets active users in, and the user knows the
\* current password.
SetOwn(r) ==
    /\ account.active
    /\ Begin(r, [Read EXCEPT !.assigned.must = FALSE, !.sets = "own"])
    /\ UNCHANGED hash

ChangePassword(r) == Exists(Users) /\ SetOwn(r)

PortalChangePassword(r) == Exists({"portal"}) /\ SetOwn(r)

SetGiven(r, mails) ==
    /\ Begin(r, [Read EXCEPT !.assigned.must = TRUE, !.sets = "given", !.mails = mails])
    /\ UNCHANGED hash

\* Faulty variant: the mail goes out before the UPDATE.
ResetUserPasswordMailFirst(r) ==
    /\ Exists({"staff"})
    /\ txn[r] = NoTxn
    /\ txn' = [txn EXCEPT ![r] = [Read EXCEPT !.assigned.must = TRUE, !.sets = "given"]]
    /\ told' = r
    /\ UNCHANGED <<kind, account, token, hash, tenant, unsent, crossed, raced>>

ResetUserPassword(r) == Exists({"staff"}) /\ SetGiven(r, TRUE)

\* The password is in the response.
ResetPortalUserPassword(r) == Exists({"portal"}) /\ SetGiven(r, FALSE)

SetActive(r, active) == Begin(r, [Read EXCEPT !.assigned.active = active]) /\ UNCHANGED hash

UpdateUser(r, active) == Exists({"staff"}) /\ SetActive(r, active)

\* Not one's own, while a PATCH of one's own does the same.
DeactivateUser(r) == Exists(Users) /\ SetActive(r, FALSE)

UpdatePortalUser(r, active) == Exists({"portal"}) /\ SetActive(r, active)

-----------------------------------------------------------------------------
(* Sessions.  Those of the portal are not in the database. *)

\* Notes the time of the login in the row of the account.
PortalLogin(r) ==
    /\ Exists({"portal"})
    /\ account.active
    /\ Begin(r, [Read EXCEPT !.touches = TRUE])
    /\ UNCHANGED hash

Unused ==
    {x \in Tokens : token[x] = "none"} \
        UNION {txn[r].issues : r \in {y \in Requests : txn[y] # NoTxn}}

\* The rows that have the token of row x.
SameHash(x) == {y \in Tokens : token[y] # "none" /\ hash[y] = hash[x]}

Live(x) == {y \in SameHash(x) : token[y] = "live"}

\* A token says who it is for and in which second it was made: one made in the
\* second of the last one is that one again.
NewHash(x, same) ==
    LET made == Tokens \ Unused IN
    hash' = [hash EXCEPT ![x] = IF same /\ made # {} THEN hash[Max(made)] ELSE x]

\* The row of the account is only read.
SessionStep(r, revokes, issues) ==
    /\ Exists(Users)
    /\ Begin(r, [Read EXCEPT !.flushed = TRUE, !.revokes = revokes, !.issues = issues])

\* The login whose tokens these are; another one has tokens of its own.  A user who
\* has registered is in no organisation and cannot log in.
Login(r) ==
    /\ account.active
    /\ \/ kind = "superadmin"
       \/ kind = "staff" /\ tenant
    /\ Unused = Tokens
    /\ SessionStep(r, {}, {Min(Tokens)})
    /\ NewHash(Min(Tokens), FALSE)

\* Faulty variant: the token can be used again.
RefreshKeeping(r, x, same) ==
    /\ Live(x) = {x}
    /\ account.active
    /\ Unused # {}
    /\ SessionStep(r, {}, {Min(Unused)})
    /\ NewHash(Min(Unused), same)

\* With two rows the lookup raises.  When the user is not active the revocation is
\* rolled back with the rest; the tenant is not looked at.
Refresh(r, x, same) ==
    /\ Live(x) = {x}
    /\ account.active
    /\ Unused # {}
    /\ SessionStep(r, {x}, {Min(Unused)})
    /\ NewHash(Min(Unused), same)

\* A token that is revoked already is left as it is; this lookup raises with two
\* rows, revoked or not.
Logout(r, x) ==
    /\ SameHash(x) = {x}
    /\ SessionStep(r, Live(x), {})
    /\ UNCHANGED hash

-----------------------------------------------------------------------------

Writes(t) == t.assigned # t.loaded \/ t.sets # "none" \/ t.touches

Holds(r) == txn[r] # NoTxn /\ txn[r].flushed /\ Writes(txn[r])

\* One request at a time gets past its UPDATE or INSERT of the row, and a second
\* INSERT is refused by the unique index.  The mail is sent next.  When it fails,
\* send_email says so to callers that do not look, and the request goes on.
Flush(r, fails) ==
    LET t == txn[r] IN
    /\ t # NoTxn
    /\ ~t.flushed
    /\ \A other \in Requests : ~Holds(other)
    /\ t.creates => account.password = "none"
    /\ fails => t.mails
    /\ txn' = [txn EXCEPT ![r].flushed = TRUE, ![r].unsent = fails]
    /\ told' = IF t.mails /\ ~fails THEN r ELSE told
    /\ UNCHANGED <<kind, account, token, hash, tenant, unsent, crossed, raced>>

Commit(r) ==
    LET t == txn[r]
        sets == t # NoTxn /\ t.sets # "none"
        new(column) == Flushed(t.loaded[column], t.assigned[column], account[column])
    IN
    /\ t # NoTxn
    /\ t.flushed
    /\ account' = [password |-> IF sets THEN t.sets ELSE account.password,
                   must |-> new("must"), active |-> new("active")]
    /\ token' = [x \in Tokens |->
          IF x \in t.revokes THEN "revoked" ELSE IF x \in t.issues THEN "live" ELSE token[x]]
    /\ txn' = [o \in Requests |->
          IF o = r THEN NoTxn
          ELSE IF txn[o] # NoTxn /\ sets THEN [txn[o] EXCEPT !.late = @ \/ Writes(txn[o])]
          ELSE txn[o]]
    /\ told' = IF ~sets THEN told
               ELSE IF told = r THEN "stored"
               ELSE IF told = "stored" THEN "replaced" ELSE told
    /\ unsent' = IF sets THEN t.unsent ELSE unsent
    /\ crossed' = (crossed \/ (sets /\ t.late))
    /\ raced' = (raced \/ \E x \in t.revokes : token[x] # "live")
    /\ UNCHANGED <<kind, hash, tenant>>

\* After the mail as well.
Rollback(r) ==
    /\ txn[r] # NoTxn
    /\ txn' = [txn EXCEPT ![r] = NoTxn]
    /\ told' = IF told = r THEN "nowhere" ELSE told
    /\ hash' = [x \in Tokens |-> IF x \in txn[r].issues THEN x ELSE hash[x]]
    /\ UNCHANGED <<kind, account, token, tenant, unsent, crossed, raced>>

Suspend ==
    /\ tenant' = FALSE
    /\ UNCHANGED <<kind, account, token, hash, txn, told, unsent, crossed, raced>>

Activate ==
    /\ tenant' = TRUE
    /\ UNCHANGED <<kind, account, token, hash, txn, told, unsent, crossed, raced>>

\* The endpoints of the accounts, those of the sessions, of the portal and of
\* tenants.
UserStep(r) ==
    \/ CreateUser(r)
    \/ ResetUserPassword(r)
    \/ \E active \in BOOLEAN : UpdateUser(r, active)
    \/ DeactivateUser(r)

AuthStep(r) ==
    \/ RegisterAccount(r)
    \/ ChangePassword(r)
    \/ Login(r)
    \/ \E x \in Tokens : Logout(r, x) \/ \E same \in BOOLEAN : Refresh(r, x, same)

\* Nothing in the portal works for a suspended tenant (get_current_tenant).
PortalStep(r) ==
    /\ tenant
    /\ \/ CreatePortalUser(r)
       \/ PortalLogin(r)
       \/ PortalChangePassword(r)
       \/ ResetPortalUserPassword(r)
       \/ \E active \in BOOLEAN : UpdatePortalUser(r, active)

TenantStep == Suspend \/ Activate

Next ==
    \/ \E r \in Requests :
          \/ UserStep(r) \/ AuthStep(r) \/ PortalStep(r) \/ CreateTenantAdmin(r)
          \/ (\E fails \in BOOLEAN : Flush(r, fails)) \/ Commit(r) \/ Rollback(r)
    \/ TenantStep

Spec == Init /\ [][Next]_vars

-----------------------------------------------------------------------------
(* Properties *)

\* Who has to change the password is who was given it, unless a password was set
\* by a request that had read another one: the flag is a column of its own, and
\* an UPDATE leaves it out when the request has found it as it wants it
\* (change_password, reset_user_password).
GivenMustChange ==
    ~crossed => (account.must <=> account.password = "given")

\* While the password in the row is one that was given, and not one whose mail
\* failed, the user was not last mailed one that is no longer there, however many
\* resets are under way: mails go out behind the UPDATE, in the order in which the
\* resets will commit (reset_user_password, create_user).  After a mail that failed
\* the last one to arrive may well hold a password that is gone: the new one is
\* stored all the same.
MailedOpens == account.password = "given" /\ ~unsent => told # "replaced"

\* A login has one refresh token that can be used, however often it was renewed
\* and also within a second, unless a token was renewed twice at the same time, or
\* renewed and given up (refresh, logout).
OneLiveToken ==
    Cardinality({x \in Tokens : token[x] = "live"}) <= 1 \/ raced

================================================================================
