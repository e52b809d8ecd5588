---------------------------- MODULE PlatformApi -----------------------------
(* The endpoints of the modules account, admin, settings, subscription, apps  *)
(* and notifications and their cache tags. All but the notifications are      *)
(* answered by the account service, so two modules show the same rows under   *)
(* tags of their own.                                                         *)
EXTENDS ApiEndpoints

Tag(type, id) == {<<type, id>>}
Me == Tag("account/user", "CURRENT_USER")

AccountUser ==
    Table({View("account", "getCurrentUser", Old("User"),
                Me \cup Tag("account/profile", "any"), {}),
           View("account", "getUserPermissions", Old("Permission"),
                Me \cup Tag("account/permissions", "any"), {}),
           View("account", "getUserMenus", Old("Menu"),
                Me \cup Tag("account/menus", "any"), {})},
          {Call("account", "updateUserProfile", Old("User"),
                Me \cup Tag("account/profile", "any"))})

\* Whoever signs in or out, the rows of the current user are those of another.
SignCalls ==
    {Call("account", name, Old("User") \cup Old("Permission") \cup Old("Menu"), Me) :
       name \in {"register", "login", "revokeToken"}}

AccountMenus ==
    Table({View("account", "getMenuDisplaysByModuleAndUser", Old("Menu"),
                Tag("account/menus", "any"), {}),
           View("account", "getMyModules", Old("ModuleAccess"),
                Tag("account/modules", "any"), {})}, SignCalls)

\* A view, or a call, whose tags are named after the module and whose rows are
\* those of the account service: no tag of it is a row.
Listing(api, name, type, rows) ==
    View(api, name, AllRows(rows), Old(type) \cup ListTag(type), {})
Detailing(api, name, type, rows) == View(api, name, Old(rows), Old(type), {})

AdminUsers ==
    Table({ListView("admin", "getUsers", "admin/User")},
          {UpdateCall("admin", "updateUserInfo", "admin/User"),
           CreateCall("admin", "createUserForOrganization", "admin/User")})

SettingsUsers ==
    Table({Listing("settings", "getOrganizationUsers", "settings/User", "admin/User")},
          {Call("settings", "updateOrganizationUser", Old("admin/User"),
                Old("settings/User") \cup ListTag("settings/User")),
           Call("settings", "createUserForOrganization", New("admin/User"),
                ListTag("settings/User"))})

AdminRoles ==
    Table({ListView("admin", "getAllRoles", "admin/Role"),
           DetailView("admin", "getRoleById", "admin/Role")},
          {CreateCall("admin", "createRole", "admin/Role"),
           UpdateCall("admin", "updateRole", "admin/Role"),
           UpdateCall("admin", "addPermissionsToRole", "admin/Role"),
           Removing(Call("admin", "deleteRole", Old("admin/Role"), ListTag("admin/Role")))})

MenuTags == ListTag("admin/MenuDisplay") \cup Tag("admin/MenuDisplay", "ROLE_LIST")

MenuView(name, tag) ==
    View("admin", name, AllRows("admin/MenuDisplay"), Tag("admin/MenuDisplay", tag),
         AllRows("admin/MenuDisplay"))

MenuViews ==
    {MenuView("getAllMenuDisplays", "LIST"), MenuView("getMenuDisplaysByModule", "MODULE"),
     MenuView("getMenuDisplaysByRoleIds", "ROLE_LIST")}

\* Assigning displays to a role changes the displays; the tags are those of the
\* lists.
MenuCalls ==
    {Call("admin", "createMenuDisplay", New("admin/MenuDisplay"), MenuTags),
     Call("admin", "updateMenuDisplay", Old("admin/MenuDisplay"),
          Old("admin/MenuDisplay") \cup MenuTags),
     Removing(Call("admin", "deleteMenuDisplay", Old("admin/MenuDisplay"),
                   Old("admin/MenuDisplay") \cup MenuTags))}
    \cup {Call("admin", name, Old("admin/MenuDisplay"), MenuTags \cup ListTag("admin/Role")) :
            name \in {"assignMenuDisplaysToRole", "unassignMenuDisplaysFromRole"}}

AdminMenus == Table(MenuViews, MenuCalls)

\* The modules of a plan are rows of their own, with a tag of the plan.
PlanModuleCall(name, rows) ==
    Call("admin", name, rows, Old("admin/PlanModule") \cup Old("admin/Plan"))

AdminPlans ==
    Table({ListView("admin", "getSubscriptionPlans", "admin/Plan"),
           ListView("admin", "getSubscriptionPlansWithPagination", "admin/Plan"),
           DetailView("admin", "getSubscriptionPlanById", "admin/Plan"),
           View("admin", "getPlanModules", AllRows("admin/PlanModule"),
                Old("admin/PlanModule"), {})},
          {CreateCall("admin", "createSubscriptionPlan", "admin/Plan"),
           UpdateCall("admin", "updateSubscriptionPlan", "admin/Plan"),
           DeleteCall("admin", "deleteSubscriptionPlan", "admin/Plan"),
           PlanModuleCall("addModuleToPlan", New("admin/PlanModule")),
           Removing(PlanModuleCall("removeModuleFromPlan", Old("admin/PlanModule")))})

AdminModules ==
    Table({ListView("admin", "getModules", "admin/Module"),
           DetailView("admin", "getModuleById", "admin/Module")},
          {CreateCall("admin", "createModule", "admin/Module"),
           UpdateCall("admin", "updateModule", "admin/Module")})

AdminOrganizations ==
    ReadOnly("admin", "admin/Organization", "getOrganizations", "getOrganizationById")

AdminSubscriptions ==
    Table({ListView("admin", "getSubscriptions", "admin/Subscription"),
           DetailView("admin", "getSubscriptionById", "admin/Subscription")},
          {UpdateCall("admin", name, "admin/Subscription") :
             name \in {"activateSubscription", "rejectSubscription", "expireSubscription"}})

\* The plans and modules another module shows: rows of the account service that
\* the administration edits under its own tags.
SubscriptionPlans ==
    Table({Listing("subscription", "getSubscriptionPlans", "subscription/Plan", "admin/Plan"),
           Detailing("subscription", "getSubscriptionPlanById", "subscription/Plan", "admin/Plan"),
           View("subscription", "getPlanModules", AllRows("admin/PlanModule"),
                Old("subscription/PlanModule"), {})}, {})

SubscriptionModules ==
    Table({View("subscription", "getAvailableModules", AllRows("admin/Module"),
                ListTag("subscription/Module"), {})}, {})

Subscribing ==
    Table({}, {Call("subscription", name, New("admin/Subscription"),
                    ListTag("subscription/Subscription") \cup ListTag("admin/Subscription")) :
                 name \in {"subscribe", "subscribeCustomPlan"}})

AppModules ==
    Table({View("apps", "getAllModules", AllRows("admin/Module"),
                ListTag("subscription/Module"), {}),
           Detailing("apps", "getModuleById", "subscription/Module", "admin/Module")}, {})

Members == AllRows("settings/Member")
MemberTag == Tag("settings/Department", "members")
DepartmentTags == Old("settings/Department") \cup ListTag("settings/Department")

DepartmentViews ==
    {ListView("settings", "getDepartments", "settings/Department"),
     DetailView("settings", "getDepartmentById", "settings/Department"),
     View("settings", "getDepartmentMembers", Members, MemberTag, {}),
     View("settings", "getDepartmentStatistics", AllRows("settings/Department") \cup Members,
          Tag("settings/Department", "STATISTICS"), {})}

Assigning(name, rows) == Call("settings", name, rows, DepartmentTags \cup MemberTag)

DepartmentCalls ==
    {CreateCall("settings", "createDepartment", "settings/Department"),
     UpdateCall("settings", "updateDepartment", "settings/Department"),
     DeleteCall("settings", "deleteDepartment", "settings/Department"),
     Assigning("assignUserToDepartment", New("settings/Member")),
     Assigning("bulkAssignUsersToDepartment", New("settings/Member")),
     Removing(Assigning("removeUserFromDepartment", Old("settings/Member")))}

SettingsDepartments == Table(DepartmentViews, DepartmentCalls)

ModuleTag == Old("settings/Module")
ModuleUsers == Tag("settings/ModuleUsers", "old")

\* Who may use a module. Revoking leaves out the list of modules.
ModuleAccess ==
    {Call("settings", "assignUserToModule", New("settings/ModuleUser"),
          ModuleTag \cup ModuleUsers \cup ListTag("settings/Module")),
     Removing(Call("settings", "revokeUserAccessToModule", Old("settings/ModuleUser"),
                   ModuleTag \cup ModuleUsers)),
     Call("settings", "requestMoreModules", New("settings/Module"),
          ListTag("settings/Module") \cup Tag("subscription/Subscription", "ACTIVE"))}

SettingsModules ==
    Table({ListView("settings", "getAccessibleModulesForOrganization", "settings/Module"),
           View("settings", "getModuleRoles", Old("settings/ModuleRole"), ModuleTag, {}),
           View("settings", "getModuleUsers", AllRows("settings/ModuleUser"), ModuleUsers, {})},
          ModuleAccess)

SettingsOrganization ==
    Table({View("settings", "getMyOrganization", Old("settings/Organization"),
                Tag("settings/Organization", "ME"), {})}, {})

\* markAllNotificationsAsRead names the list and no row.
Notifications ==
    Table({ListView("notifications", "getNotifications", "Notification"),
           DetailView("notifications", "getNotificationById", "Notification")},
          {UpdateCall("notifications", "markNotificationAsRead", "Notification"),
           Call("notifications", "markAllNotificationsAsRead", Old("Notification"),
                ListTag("Notification")),
           UpdateCall("notifications", "archiveNotification", "Notification"),
           DeleteCall("notifications", "deleteNotification", "Notification")})

PlatformTable ==
    Merged({AccountUser, AccountMenus, AdminUsers, AdminRoles, AdminMenus, AdminPlans,
            AdminModules, AdminOrganizations, AdminSubscriptions, SettingsUsers,
            SettingsDepartments, SettingsModules, SettingsOrganization, SubscriptionPlans,
            SubscriptionModules, Subscribing, AppModules, Notifications})
=============================================================================
