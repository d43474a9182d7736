------------------------------ MODULE Accounts ------------------------------
(***************************************************************************)
(* The user registry (internal/users) over the store's list of users: what *)
(* a start seeds, and what admins save.  A save finds the account by name, *)
(* hashes a password (which takes a while) and upserts the record; the     *)
(* store recognises a record by its id or by its name.                     *)
(*                                                                         *)
(* A password is its version: 0 is the one of the configuration or the     *)
(* default, a new one is given by each save that sets one.                 *)
(***************************************************************************)
EXTENDS RecordOps, FiniteSets

CONSTANTS
    Names,          \* the names admins save
    AdminNames,     \* the values Auth.BootstrapAdminUsername takes
    Savers,         \* goroutines of POST /api/admin/users
    MaxAccountSaves, MaxStarts,
    None

\* What an instance must respect; the module that makes it assumes this.
AccountsAssumption ==
    /\ "viewer" \notin AdminNames   \* see README: the two seeds would collide
    /\ MaxAccountSaves \in Nat /\ MaxStarts \in Nat

VARIABLES
    users,      \* the store's list of users
    saver,      \* what each save has read
    accountSaves, starts

vars == <<users, saver, accountSaves, starts>>

\* The ids admin-1 and user-1; newUserID draws the others.
AdminId == 1
ViewerId == 2
FreshId(save) == 2 + save

Account(id, name, role, version, disabled) ==
    [id |-> id, name |-> name, role |-> role, version |-> version, disabled |-> disabled]

Named(name) == Find(users, LAMBDA u : u.name = name)

\* Nothing is seeded when the admin's name is there; otherwise both the admin and
\* the viewer are upserted, with their ids.
Bootstrapped(list, name) ==
    IF Find(list, LAMBDA u : u.name = name) # <<>> THEN list
    ELSE UpsertUser(UpsertUser(list, Account(AdminId, name, "admin", 0, FALSE)),
                    Account(ViewerId, "viewer", "general_user", 0, FALSE))

Init ==
    /\ \E name \in AdminNames : users = Bootstrapped(<<>>, name)
    /\ saver = [a \in Savers |-> None]
    /\ accountSaves = 0 /\ starts = 0

\* Save, up to the look-up by name.  Trimming and the checks of the name's form
\* are left out: Names are well formed.
SaveRead(a, name) ==
    /\ saver[a] = None
    /\ accountSaves < MaxAccountSaves
    /\ accountSaves' = accountSaves + 1
    /\ saver' = [saver EXCEPT ![a] = [name |-> name, found |-> Named(name), save |-> accountSaves']]
    /\ UNCHANGED <<users, starts>>

\* The record that is upserted: a new one with a fresh id (a new account needs a
\* password), or the copy that was read with what the request says.
Saved(job, role, password, disabled) ==
    IF job.found = <<>>
    THEN Account(FreshId(job.save), job.name, role, job.save, disabled)
    ELSE [job.found[1] EXCEPT !.role = role, !.disabled = disabled,
                              !.version = IF password THEN job.save ELSE @]

SaveWrite(a, role, password, disabled) ==
    /\ saver[a] # None
    /\ saver[a].found = <<>> => password
    /\ users' = UpsertUser(users, Saved(saver[a], role, password, disabled))
    /\ saver' = [saver EXCEPT ![a] = None]
    /\ UNCHANGED <<accountSaves, starts>>

\* The server is started again, perhaps with another admin name configured.
Start(name) ==
    /\ starts < MaxStarts
    /\ starts' = starts + 1
    /\ users' = Bootstrapped(users, name)
    /\ saver' = [a \in Savers |-> None]
    /\ UNCHANGED accountSaves

Next ==
    \/ \E a \in Savers, name \in Names : SaveRead(a, name)
    \/ \E a \in Savers, role \in {"admin", "general_user"}, password, disabled \in BOOLEAN :
           SaveWrite(a, role, password, disabled)
    \/ \E name \in AdminNames : Start(name)

Spec == Init /\ [][Next]_vars

-----------------------------------------------------------------------------
(* Properties.                                                             *)

\* Names and ids each denote one account, although a save looks one up and writes
\* it in two steps and two saves may create the same name: sessions find their
\* user by id, logins by name.
UniqueAccounts ==
    \A i, j \in DOMAIN users :
        i # j => users[i].id # users[j].id /\ users[i].name # users[j].name

\* docs/deployment-windows.md: "Bootstrap is create-only, so changing these values
\* later does not rotate an existing admin password": a start changes no account
\* that is there.
BootstrapCreateOnly ==
    [][starts' # starts => \A i \in DOMAIN users : i \in DOMAIN users' /\ users'[i] = users[i]]_vars

=============================================================================
