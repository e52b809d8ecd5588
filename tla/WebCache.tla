------------------------------ MODULE WebCache ------------------------------
(* The response cache of src/serp_web with the endpoints of its modules: in a *)
(* scene somebody shows some views and makes some calls. Every page works with *)
(* the endpoints of its own module.                                           *)
EXTENDS SalesApi, LogisticsApi, PurchaseApi, CrmApi, PtmApi, DiscussApi, PlatformApi,
        RtkQueryCache

AllEndpoints ==
    Merged({SalesTable, LogisticsTable, PurchaseTable, CrmTable, PtmTable, DiscussTable,
            PlatformTable})

Scene(views, calls) == [views |-> views, calls |-> calls]

\* A view and a call that writes rows of it.
PairScenes ==
    UNION {{Scene({q}, {c}) : q \in {v \in AllEndpoints.views : Touches(c, v)}} :
             c \in AllEndpoints.calls}

Named(table, names) ==
    {e \in table.views \cup table.calls : e.name \in names}

Repeated(table, names, turns) == {Again(c, turn) : c \in Named(table, names), turn \in turns}

\* Calls under way together: edits of one task, its deletion and its list; edits
\* of an event, where mocks and service meet; edits of a note; an order.
EditScenes ==
    {Scene(Named(PtmTasks, {"getTask"}), Repeated(PtmTasks, {"updateTask"}, 1 .. 2)),
     Scene(Named(PtmTasks, {"getTask", "getTasks"}),
           Named(PtmTasks, {"updateTask", "deleteTask"})),
     Scene(Named(PtmEvents, {"getScheduleEvents"}),
           Repeated(PtmEvents, {"updateScheduleEvent"}, 1 .. 2)
             \cup Named(PtmEvents, {"createScheduleEvent"})),
     Scene(Named(PtmNotes, {"getNote"}),
           Repeated(PtmNotes, {"updateNote"}, 1 .. 2) \cup Named(PtmNotes, {"deleteNote"})),
     Scene(Named(SalesOrders, {"getOrders", "getOrder"}),
           Named(SalesOrders, {"updateOrder", "approveOrder"}))}

-----------------------------------------------------------------------------

\* The browser ends every request, with an answer or with an error.
WebSpec == Spec /\ WF_vars(\E q \in scene.views : Answer(q) \/ QueryEnds(q))
                /\ WF_vars(\E c \in scene.calls : Serve(c) \/ CallEnds(c))

-----------------------------------------------------------------------------
(* Where the tags leave a gap. *)

Gap(api, calls, shownBy, views) == {<<api, c, shownBy, v>> : c \in calls, v \in views}

SalesGaps ==
    Gap("sales", {"createOrder", "deleteOrder", "addProductToOrder", "deleteProductFromOrder",
                  "approveOrder", "cancelOrder"},
        "sales", {"getInventoryItems", "getInventoryItem"})

LogisticsGaps ==
    Gap("logistics", {"importShipment"},
        "logistics", {"getInventoryItem", "getOrders", "getOrder"})

CrmGap(calls, views) == Gap("crm", calls, "crm", views)

CrmGaps ==
    CrmGap({"bulkDeleteActivities"}, {"getActivity"})
    \cup CrmGap({"bulkDeleteCustomers"}, {"getCustomer"})
    \cup CrmGap({"bulkDeleteLeads", "convertLead"}, {"getLead"})
    \cup CrmGap({"bulkDeleteOpportunities"}, {"getOpportunity"})
    \cup CrmGap({"createCustomer", "updateCustomer", "deleteCustomer", "bulkDeleteCustomers"},
                {"getCRMMetrics"})
    \cup CrmGap({"createLead", "updateLead", "deleteLead", "bulkDeleteLeads", "convertLead"},
                {"getCRMMetrics", "getLeadSourceMetrics"})
    \cup CrmGap({"createOpportunity", "updateOpportunity", "deleteOpportunity",
                 "bulkDeleteOpportunities", "convertLead"},
                {"getCRMMetrics", "getPipelineMetrics", "getSalesMetrics"})

PtmGap(calls, views) == Gap("ptm", calls, "ptm", views)
PlanDetails == {"getActivePlanDetail", "getPlanWithEvents"}
PlanTaskLists == {"getScheduleTasks", "getScheduleTasks of a plan"}
RelatedTaskLists == {"getBlockedTasks", "getBlockingTasks"}

PtmGaps ==
    PtmGap({"createTask", "createFromTemplate", "updateTask", "deleteTask"},
           {"getTask of the parent", "getTaskTree", "getProjects", "getProject",
            "getProjectTasks"} \cup RelatedTaskLists)
    \cup PtmGap({"deleteTask"}, {"getTask of the subtask"})
    \cup PtmGap({"quickAddTask"}, {"getTasks", "getSubtasks", "getTaskTree", "getProjectTasks"})
    \cup PtmGap({"promoteSubtask", "addDependency", "removeDependency"},
                {"getTasks", "getTask", "getSubtasks", "getTaskTree", "getProjectTasks"}
                  \cup RelatedTaskLists)
    \cup PtmGap({"reparentTasks"},
                {"getTask", "getTask of the parent", "getTaskTree", "getProjectTasks"}
                  \cup RelatedTaskLists)
    \cup PtmGap({"createScheduleEvent", "deleteScheduleEvent"}, PlanDetails)
    \cup PtmGap({"updateScheduleEvent", "completeScheduleEvent"},
                PlanDetails \cup {"getScheduleEvents"} \cup PlanTaskLists)
    \cup PtmGap({"splitScheduleEvent"}, PlanDetails \cup {"getScheduleEvents"})
    \cup PtmGap({"getOrCreateActivePlan", "applyProposedPlan", "revertToPlan"},
                {"getActivePlanDetail", "getScheduleTasks"})
    \cup PtmGap({"triggerReschedule"}, {"getSchedulePlans"})
    \cup PtmGap({"applyProposedPlan", "revertToPlan", "discardProposedPlan"},
                {"getSchedulePlans", "getPlanById", "getPlanWithEvents"})
    \cup PtmGap({"updateScheduleTask"}, {"getPlanWithEvents"})
    \cup PtmGap({"updateNote", "deleteNote"}, {"getNotesByTask", "getNotesByProject"})

DiscussGap(calls, views) == Gap("discuss", calls, "discuss", views)

DiscussGaps ==
    DiscussGap({"sendMessage", "sendMessageWithFiles"}, {"getThreadReplies", "searchMessages"})
    \cup DiscussGap({"sendReply"},
                    {"getMessagesBefore", "getThreadReplies", "searchMessages", "getUnreadCount",
                     "getChannels", "getChannel"})
    \cup DiscussGap({"editMessage", "deleteMessage", "addReaction", "removeReaction"},
                    {"getMessagesBefore", "getThreadReplies", "searchMessages"})
    \cup DiscussGap({"deleteAttachment"},
                    {"getMessagesBefore", "getAttachment", "getMessageAttachments",
                     "getAttachmentDownloadUrl"})
    \cup DiscussGap({"deleteChannel"}, {"getUnreadCount", "getChannel"})
    \cup DiscussGap({"updateMyPresence"}, {"getChannelPresence", "getUserPresence"})

\* Two modules show the rows of the account service under tags of their own.
AdminGaps ==
    Gap("admin", {"deleteRole"}, "admin", {"getRoleById"})
    \cup Gap("admin", {"createMenuDisplay", "assignMenuDisplaysToRole",
                       "unassignMenuDisplaysFromRole"}, "admin", {"getMenuDisplaysByModule"})
    \cup Gap("admin", {"updateUserInfo", "createUserForOrganization"},
             "settings", {"getOrganizationUsers"})
    \cup Gap("admin", {"createSubscriptionPlan", "updateSubscriptionPlan",
                       "deleteSubscriptionPlan"},
             "subscription", {"getSubscriptionPlans"})
    \cup Gap("admin", {"updateSubscriptionPlan", "deleteSubscriptionPlan"},
             "subscription", {"getSubscriptionPlanById"})
    \cup Gap("admin", {"addModuleToPlan", "removeModuleFromPlan"},
             "subscription", {"getPlanModules"})
    \cup Gap("admin", {"createModule", "updateModule"}, "subscription", {"getAvailableModules"})
    \cup Gap("admin", {"createModule", "updateModule"}, "apps", {"getAllModules"})
    \cup Gap("admin", {"updateModule"}, "apps", {"getModuleById"})

OtherGaps ==
    Gap("account", {"register", "login", "revokeToken"},
        "account", {"getMenuDisplaysByModuleAndUser"})
    \cup Gap("settings", {"updateOrganizationUser", "createUserForOrganization"},
             "admin", {"getUsers"})
    \cup Gap("settings", {"createDepartment", "updateDepartment", "deleteDepartment",
                          "assignUserToDepartment", "bulkAssignUsersToDepartment",
                          "removeUserFromDepartment"}, "settings", {"getDepartmentStatistics"})
    \cup Gap("notifications", {"markAllNotificationsAsRead"},
             "notifications", {"getNotificationById"})

KnownGaps ==
    SalesGaps \cup LogisticsGaps \cup CrmGaps \cup PtmGaps \cup DiscussGaps \cup AdminGaps
      \cup OtherGaps

-----------------------------------------------------------------------------

\* When no request is under way and the last fetch of a view succeeded, the view
\* is out of date only if a call was applied whose tags are known to miss it.
\* (invalidatesTags and providesTags of every endpoint, against the rows the
\* services write before they answer and those they show.)
StaleOnlyAtKnownGaps ==
    ~Busy(entry, phase) =>
      \A q \in scene.views : Good(q) /\ ~Fresh(q) =>
        \E c \in scene.calls : Applied(c) /\ <<c.api, c.name, q.api, q.name>> \in KnownGaps
=============================================================================
