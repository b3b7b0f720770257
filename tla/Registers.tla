------------------------------ MODULE Registers --------------------------------
(***************************************************************************)
(* The registers that hold one row for each key, each kept so by a SELECT  *)
(* before the INSERT: codes of projects, sites, vendors, warehouses and    *)
(* cost codes, the members of a project, the daily report of a site and    *)
(* day, the numbers of punch items, permissions, accounts, tenants, portal *)
(* users and devices; and the assignments of a BOQ item to a contract,     *)
(* where there is no SELECT.                                               *)
(*                                                                         *)
(* All rows here are of one key of one register, chosen in the initial     *)
(* state.  Only some registers have a unique index beneath; under READ     *)
(* COMMITTED the SELECT does not see what others have not committed.       *)
(***************************************************************************)
EXTENDS Naturals, FiniteSets, Session

CONSTANTS
    Rows,           \* ids rows of the key may get
    Requests,       \* slots for requests in flight at the same time
    NoTxn           \* a slot without a request

VARIABLES
    register,       \* which register it is
    row,            \* the rows of the key
    txn,            \* per slot, the request in flight
    raced           \* history: a row was added by a request that had read the
                    \* register before another change of it

vars == <<register, row, txn, raced>>

-----------------------------------------------------------------------------

\* Registers with a unique index, among them the accounts of users by e-mail.
Unique == {"account", "tenant", "portal_user", "device"}

Register == Unique \union
    {"project", "site", "member", "daily_report", "vendor", "warehouse", "cost_code",
     "punch_item", "permission", "assignment"}

\* A row is kept when it is deleted or its member removed.
Row == {"none", "live", "inactive", "deleted"}

Txn == [target : Rows, from : Row, to : Row, seen : SUBSET Rows]

TypeOK ==
    /\ register \in Register
    /\ row \in [Rows -> Row]
    /\ txn \in [Requests -> Txn \union {NoTxn}]
    /\ raced \in BOOLEAN

Init ==
    /\ register \in Register
    /\ row = [x \in Rows |-> "none"]
    /\ txn = [r \in Requests |-> NoTxn]
    /\ raced = FALSE

-----------------------------------------------------------------------------

Rowed(states) == {x \in Rows : row[x] \in states}

\* The rows a lookup by key finds.
Listed == Rowed({"live", "inactive"})

Begin(r, x, to) ==
    /\ txn[r] = NoTxn
    /\ txn' = [txn EXCEPT ![r] = [target |-> x, from |-> row[x], to |-> to, seen |-> Listed]]
    /\ UNCHANGED <<register, row, raced>>

\* An id of its own for the new row.
Insert(r, x) ==
    /\ row[x] = "none"
    /\ \A other \in Requests : txn[other] # NoTxn => txn[other].target # x
    /\ Begin(r, x, "live")

\* What most of the handlers do: refuse when the SELECT finds a row.
InsertOnce(r, x) == Listed = {} /\ Insert(r, x)

CreateProject(r, x) == register = "project" /\ InsertOnce(r, x)

CreateSite(r, x) == register = "site" /\ InsertOnce(r, x)

CreateVendor(r, x) == register = "vendor" /\ InsertOnce(r, x)

CreateWarehouse(r, x) == register = "warehouse" /\ InsertOnce(r, x)

CreateCostCode(r, x) == register = "cost_code" /\ InsertOnce(r, x)

CreateDpr(r, x) == register = "daily_report" /\ InsertOnce(r, x)

\* Punch items are counted, the next number is one more: a number is free when
\* nobody has it, as none is deleted.
CreatePunchItem(r, x) == register = "punch_item" /\ InsertOnce(r, x)

AssignBoqItems(r, x) == register = "assignment" /\ Insert(r, x)

CreateTenant(r, x) == register = "tenant" /\ InsertOnce(r, x)

CreatePortalUser(r, x) == register = "portal_user" /\ InsertOnce(r, x)

\* Accounts come from registering, from an administrator, and with a tenant.
RegisterAccount(r, x) == register = "account" /\ InsertOnce(r, x)

CreateUser(r, x) == register = "account" /\ InsertOnce(r, x)

CreateTenantAdmin(r, x) == register = "account" /\ InsertOnce(r, x)

\* A device, and the permissions of a user, are updated when there is a row.
RegisterDevice(r, x) ==
    /\ register = "device"
    /\ InsertOnce(r, x) \/ (Listed = {x} /\ Begin(r, x, "live"))

UpdatePermissions(r, x) ==
    /\ register = "permission"
    /\ InsertOnce(r, x) \/ (Listed = {x} /\ Begin(r, x, "live"))

DeleteProject(r, x) == register = "project" /\ row[x] = "live" /\ Begin(r, x, "deleted")

DeleteSite(r, x) == register = "site" /\ row[x] = "live" /\ Begin(r, x, "deleted")

\* The one DELETE of the code; the row is gone.
UnregisterDevice(r, x) == register = "device" /\ row[x] = "live" /\ Begin(r, x, "none")

\* Faulty variant: a member who was removed gets a new row.
AddMemberAnew(r, x) ==
    /\ register = "member"
    /\ Rowed({"live"}) = {}
    /\ Insert(r, x)

\* A member who was removed is taken up again; with two rows of either kind the
\* lookup raises.
AddMember(r, x) ==
    /\ register = "member"
    /\ Rowed({"live"}) = {}
    /\ InsertOnce(r, x) \/ (Rowed({"inactive"}) = {x} /\ Begin(r, x, "live"))

RemoveMember(r, x) == register = "member" /\ x \in Listed /\ Begin(r, x, "inactive")

-----------------------------------------------------------------------------

\* Faulty variant: no table has a unique index.
AdmitsAny(t) == TRUE

\* A unique index refuses the second row of the key.
Admits(t) == register \in Unique /\ t.from = "none" => Rowed({"none"}) = Rows

Commit(r) ==
    LET t == txn[r] IN
    /\ t # NoTxn
    /\ Admits(t)
    /\ row' = [row EXCEPT ![t.target] = Flushed(t.from, t.to, @)]
    /\ txn' = [txn EXCEPT ![r] = NoTxn]
    /\ raced' = (raced \/ (t.from = "none" /\ Listed # t.seen))
    /\ UNCHANGED register

\* Also what the index refuses.
Rollback(r) ==
    /\ txn[r] # NoTxn
    /\ txn' = [txn EXCEPT ![r] = NoTxn]
    /\ UNCHANGED <<register, row, raced>>

Next ==
    \E r \in Requests :
        \/ \E x \in Rows :
              \/ CreateProject(r, x) \/ DeleteProject(r, x)
              \/ CreateSite(r, x) \/ DeleteSite(r, x)
              \/ AddMember(r, x) \/ RemoveMember(r, x)
              \/ CreateDpr(r, x) \/ CreatePunchItem(r, x) \/ AssignBoqItems(r, x)
              \/ CreateVendor(r, x) \/ CreateWarehouse(r, x) \/ CreateCostCode(r, x)
              \/ UpdatePermissions(r, x)
              \/ RegisterAccount(r, x) \/ CreateUser(r, x) \/ CreateTenantAdmin(r, x)
              \/ CreateTenant(r, x) \/ CreatePortalUser(r, x)
              \/ RegisterDevice(r, x) \/ UnregisterDevice(r, x)
        \/ Commit(r)
        \/ Rollback(r)

Spec == Init /\ [][Next]_vars

-----------------------------------------------------------------------------
(* Properties *)

\* A key has one row, counting the members who were removed: with a unique index
\* always, otherwise unless a row was added by a request that had looked before
\* another one's row was there (create_project, create_site, create_vendor,
\* create_warehouse, create_cost_code, create_dpr, create_punch_item, add_member,
\* update_permissions).  With two rows every lookup by key raises.  Assignments of
\* an item to a contract are not kept to one (assign_boq_items).
OneRowPerKey ==
    \/ Cardinality(Listed) <= 1
    \/ raced /\ register \notin Unique
    \/ register = "assignment"

================================================================================
