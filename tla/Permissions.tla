---------------------------- MODULE Permissions ----------------------------
(***************************************************************************)
(* The permissions of the platform: the catalogue, what each role is given *)
(* by the seed, what a user is left with after the overrides of his own,   *)
(* and what the gateway asks for.                                          *)
(***************************************************************************)

\* A permission is module:action.
Of(module, actions) == {<<module, a>> : a \in actions}

PLATFORM == Of("platform", {"maintenance", "feature-flags", "tenants"})

Permission ==
    PLATFORM
    \cup Of("org", {"manage", "read"})
    \cup Of("branch", {"create", "edit", "close", "read", "list"})
    \cup Of("employee", {"hire", "fire", "manage-permissions", "read", "list"})
    \cup Of("invoice", {"create", "read", "edit", "delete", "list", "approve",
                        "read-own"})
    \cup Of("sale", {"create", "read", "edit", "delete", "list"})
    \cup Of("finance", {"read", "export", "manage"})
    \cup Of("report", {"read", "export"})
    \cup Of("payment", {"create", "read"})
    \cup Of("profile", {"manage"})

UserRole ==
    {"SUPER_ADMIN", "BUSINESS_OWNER", "ACCOUNTANT", "EMPLOYEE", "CUSTOMER"}

\* What an owner does not get.
NotOfOwner ==
    PLATFORM \cup Of("invoice", {"read-own"}) \cup Of("payment", {"create", "read"})

ROLE_PERMISSIONS ==
    [r \in UserRole |->
        CASE r = "SUPER_ADMIN" -> Permission
          [] r = "BUSINESS_OWNER" -> Permission \ NotOfOwner
          [] r = "ACCOUNTANT" ->
                Of("org", {"read"}) \cup Of("invoice", {"read", "list"})
                \cup Of("sale", {"read", "list"})
                \cup Of("finance", {"read", "export"})
                \cup Of("report", {"read", "export"})
                \cup Of("profile", {"manage"})
          [] r = "EMPLOYEE" ->
                Of("invoice", {"create", "read", "edit", "list"})
                \cup Of("sale", {"create", "read", "edit", "list"})
                \cup Of("profile", {"manage"})
          [] r = "CUSTOMER" ->
                Of("invoice", {"read-own"})
                \cup Of("payment", {"create", "read"})
                \cup Of("profile", {"manage"})]

\* The rows of RolePermission after the seed.  It adds what is missing and
\* takes nothing away.
Seed(rows) ==
    rows \cup UNION {{<<r, p>> : p \in ROLE_PERMISSIONS[r]} : r \in UserRole}

findCodesByRole(rows, role) == {p \in Permission : <<role, p>> \in rows}

\* An override is granted or withdrawn; a user has one for a permission at most.
Override(permission, granted) ==
    [permission |-> permission, granted |-> granted]

getEffectivePermissions(rows, role, overrides) ==
    {p \in findCodesByRole(rows, role) :
        Override(p, FALSE) \notin overrides}
    \cup {p \in Permission : Override(p, TRUE) \in overrides}

-----------------------------------------------------------------------------

\* What ConfigController asks for of everything under its wildcard, also of
\* what has a permission of its own (platform:feature-flags).
AdminRoles      == {"SUPER_ADMIN"}
AdminPermission == <<"platform", "maintenance">>

\* Seeded, the guards admit the roles they name and no other; an override can
\* take the permission from one of those, and gives it to no one else.
IsAdmitted(role, overrides) ==
    /\ role \in AdminRoles
    /\ AdminPermission \in getEffectivePermissions(Seed({}), role, overrides)

\* The roles mean what is said of them, freshly seeded or seeded again.
RolesAgree ==
    /\ \A r \in UserRole :
        /\ IsAdmitted(r, {}) <=> r \in AdminRoles
        /\ ~IsAdmitted(r, {Override(AdminPermission, FALSE)})
        /\ IsAdmitted(r, {Override(AdminPermission, TRUE)}) <=> r \in AdminRoles
        /\ r \notin AdminRoles => findCodesByRole(Seed({}), r) \cap PLATFORM = {}
        /\ findCodesByRole(Seed(Seed({})), r) = ROLE_PERMISSIONS[r]
    /\ \A p \in ROLE_PERMISSIONS["ACCOUNTANT"] :
        p[2] \in {"read", "list", "export"} \/ p[1] = "profile"
    /\ ROLE_PERMISSIONS["EMPLOYEE"]
            \subseteq ROLE_PERMISSIONS["BUSINESS_OWNER"]
    /\ ROLE_PERMISSIONS["ACCOUNTANT"]
            \subseteq ROLE_PERMISSIONS["BUSINESS_OWNER"]

=============================================================================
