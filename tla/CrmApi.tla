------------------------------- MODULE CrmApi -------------------------------
(* The endpoints of modules/crm/api/crmApi.ts and their cache tags. What a    *)
(* call writes is what the crm service does.                                  *)
EXTENDS ApiEndpoints

LOCAL C == "crm"

CrmCustomers == Crud(C, "Customer", "getCustomers", "getCustomer",
                     "createCustomer", "updateCustomer", "deleteCustomer")

\* A conversion names three lists, and not the lead it converts.
ConvertLead ==
    Call(C, "convertLead", Old("Lead") \cup New("Customer") \cup New("Opportunity"),
         ListTag("Lead") \cup ListTag("Customer") \cup ListTag("Opportunity"))

CrmLeads ==
    LET crud == Crud(C, "Lead", "getLeads", "getLead", "createLead", "updateLead", "deleteLead")
    IN  Table(crud.views, crud.calls \cup {ConvertLead})

CrmOpportunities ==
    Crud(C, "Opportunity", "getOpportunities", "getOpportunity",
         "createOpportunity", "updateOpportunity", "deleteOpportunity")

CrmActivities == Crud(C, "Activity", "getActivities", "getActivity",
                      "createActivity", "updateActivity", "deleteActivity")

\* The figures of the dashboard: nothing ever invalidates an Analytics tag.
Figures(name, types, tag) ==
    View(C, name, UNION {AllRows(t) : t \in types}, {<<"Analytics", tag>>}, {})

CrmAnalytics ==
    Table({Figures("getCRMMetrics", {"Customer", "Lead", "Opportunity"}, "METRICS"),
           Figures("getPipelineMetrics", {"Opportunity"}, "PIPELINE"),
           Figures("getSalesMetrics", {"Opportunity"}, "SALES"),
           Figures("getLeadSourceMetrics", {"Lead"}, "LEAD_SOURCES")}, {})

\* A bulk deletion names the list alone.
BulkDelete(name, type) == Removing(Call(C, name, Old(type), ListTag(type)))

CrmBulk == Table({}, {BulkDelete("bulkDeleteCustomers", "Customer"),
                      BulkDelete("bulkDeleteLeads", "Lead"),
                      BulkDelete("bulkDeleteOpportunities", "Opportunity"),
                      BulkDelete("bulkDeleteActivities", "Activity")})

CrmTable == Merged({CrmCustomers, CrmLeads, CrmOpportunities, CrmActivities,
                    CrmAnalytics, CrmBulk})
=============================================================================
