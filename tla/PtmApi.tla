------------------------------- MODULE PtmApi -------------------------------
(* The endpoints of modules/ptm/api and their cache tags: tasks, projects,    *)
(* schedules, notes, dependencies. Part of the endpoints work on mocks        *)
(* (USE_MOCK_DATA), part on the services. "old" is a subtask of the task      *)
(* "parent" and has the subtask "child"; "inUse" is which plan is active.     *)
(* A call writes what its service writes before it answers: what consumers of *)
(* events and the reschedule worker write later no tag could name.            *)
EXTENDS ApiEndpoints

LOCAL P == "ptm"
LOCAL Task == "ptm/Task"
LOCAL Plan == "ptm/Plan"
LOCAL Event == "ptm/Event"
LOCAL Note == "ptm/Note"

ParentTask == {Row(Task, "parent")}
Subtask == {Row(Task, "child")}
TaskRows == AllRows(Task) \cup ParentTask \cup Subtask
TaskTag(id) == {<<Task, id>>}
PlanTag(id) == {<<"ptm/Schedule", id>>}
TaskLists == ListTag(Task) \cup PlanTag("LIST")

TaskViews ==
    {View(P, "getTasks", TaskRows, ListTag(Task), TaskRows),
     DetailView(P, "getTask", Task),
     View(P, "getTask of the parent", ParentTask, ParentTask, {}),
     View(P, "getTask of the subtask", Subtask, Subtask, {}),
     View(P, "getSubtasks", AllRows(Task), TaskTag("SUBTASKS") \cup ListTag(Task), {}),
     View(P, "getTaskTree", TaskRows, ParentTask \cup TaskTag("TREE"), {}),
     Mocked(View(P, "getTaskTemplates", Old("ptm/Template"), TaskTag("TEMPLATES"), {}))}

\* The service keeps the counts of the parent and of the project with a task.
WithTotals(call) == AlsoWriting(call, ParentTask \cup Old("ptm/Project"))

\* updateTask patches the cached task before the service answers.
UpdateTask ==
    [Call(P, "updateTask", Old(Task), Old(Task) \cup TaskLists)
       EXCEPT !.patches = {"getTask"}]

\* The service deletes the subtasks of a task with it.
DeleteTask ==
    [Call(P, "deleteTask", Old(Task) \cup Subtask, Old(Task) \cup TaskLists)
       EXCEPT !.removes = Old(Task) \cup Subtask]

TaskCalls ==
    {WithTotals(Call(P, "createTask", New(Task), TaskLists)),
     WithTotals(Call(P, "createFromTemplate", New(Task), TaskLists)),
     Mocked(Call(P, "quickAddTask", New(Task), TaskLists)),
     WithTotals(UpdateTask), WithTotals(DeleteTask),
     Mocked(UpdateCall(P, "promoteSubtask", Task))}

\* One request per task, the errors of which are not looked at: any part of the
\* tasks is moved, and the call is a success.
ReparentTasks ==
    [Call(P, "reparentTasks", Old(Task) \cup ParentTask, ListTag(Task))
       EXCEPT !.partial = TRUE]

PtmTasks == Table(TaskViews, TaskCalls \cup {ReparentTasks})

DependencyRows == AllRows("ptm/Dependency")
DependencyTags == Old("ptm/Dependency") \cup ListTag("ptm/Dependency")
TaskAndDependencies == DependencyTags \cup Old(Task) \cup ListTag(Task)

\* The tasks at the other ends of the dependencies: a new one has none yet.
RelatedTasks == DependencyRows \cup (TaskRows \ New(Task))

\* The mocks keep the dependencies of a task in the task too.
PtmDependencies ==
    Table({Mocked(View(P, "getTaskDependencies", DependencyRows, DependencyTags, {})),
           Mocked(View(P, "getBlockedTasks", RelatedTasks, TaskTag("BLOCKED"), {})),
           Mocked(View(P, "getBlockingTasks", RelatedTasks, TaskTag("BLOCKING"), {}))},
          {Mocked(AlsoWriting(c, Old(Task))) :
             c \in {Call(P, "addDependency", New("ptm/Dependency"), TaskAndDependencies),
                    Removing(Call(P, "removeDependency", Old("ptm/Dependency"),
                                  TaskAndDependencies))}})

PtmProjects ==
    LET crud == Crud(P, "ptm/Project", "getProjects", "getProject",
                     "createProject", "updateProject", "deleteProject")
    IN  Table(crud.views \cup
                {View(P, "getProjectTasks", TaskRows, TaskTag("PROJECT"), TaskRows)},
              crud.calls)

ActivePlan == {Row(Plan, "inUse")}
PlanTaskRows == AllRows("ptm/ScheduleTask")
PlanContent == AllRows(Event) \cup PlanTaskRows

\* The history is of archived plans, which no new plan is.
PlanViews ==
    {View(P, "getSchedulePlans", AllRows(Plan), PlanTag("LIST"), {}),
     View(P, "getActiveSchedulePlan", ActivePlan, PlanTag("ACTIVE"), {}),
     View(P, "getActivePlanDetail", ActivePlan \cup PlanContent, PlanTag("ACTIVE_DETAIL"), {}),
     View(P, "getPlanHistory", Old(Plan), PlanTag("HISTORY"), {}),
     View(P, "getPlanById", Old(Plan), PlanTag("PLAN"), {}),
     View(P, "getPlanWithEvents", Old(Plan) \cup PlanContent, PlanTag("PLAN_EVENTS"), {})}

Schedule(tags) == UNION {PlanTag(t) : t \in tags}

\* Applying and reverting archive the plan that was active; to revert is to copy
\* an archived plan.
PlanCalls ==
    {Call(P, "getOrCreateActivePlan", New(Plan) \cup ActivePlan, Schedule({"ACTIVE", "LIST"})),
     Call(P, "triggerReschedule", New(Plan), Schedule({"HISTORY", "ACTIVE"})),
     Call(P, "applyProposedPlan", Old(Plan) \cup ActivePlan,
          Schedule({"ACTIVE", "HISTORY", "EVENTS"})),
     Call(P, "revertToPlan", AllRows(Plan) \cup ActivePlan, Schedule({"ACTIVE", "HISTORY"})),
     Call(P, "discardProposedPlan", Old(Plan), Schedule({"HISTORY"})),
     Call(P, "createSchedulePlan", New(Plan), Schedule({"LIST", "ACTIVE"}))}

PtmPlans == Table(PlanViews, PlanCalls)

\* The calendar is read from the mocks; moving, completing and splitting an
\* event goes to the service, where moving pins the task of the event and
\* completing may complete it.
EventTags == PlanTag("EVENTS")

EventCall(name, writes) == Call(P, name, writes, EventTags)
WithPlanTask(call) == AlsoWriting(call, Old("ptm/ScheduleTask"))

EventViews == {Mocked(View(P, "getScheduleEvents", AllRows(Event), EventTags, {}))}

UpdateScheduleEvent ==
    [EventCall("updateScheduleEvent", Old(Event)) EXCEPT !.patches = {"getScheduleEvents"}]

EventCalls ==
    {Mocked(EventCall("createScheduleEvent", New(Event))), WithPlanTask(UpdateScheduleEvent),
     WithPlanTask(EventCall("completeScheduleEvent", Old(Event))),
     EventCall("splitScheduleEvent", AllRows(Event)),
     Mocked(Removing(EventCall("deleteScheduleEvent", Old(Event))))}

PtmEvents == Table(EventViews, EventCalls)

TellingEvents(call) == [call EXCEPT !.invalidates = @ \cup EventTags]

PtmFocusTime ==
    LET crud == Crud(P, "ptm/FocusTime", "getFocusTimeBlocks", "-", "createFocusTimeBlock",
                     "updateFocusTimeBlock", "deleteFocusTimeBlock")
    IN  Table({View(P, "getFocusTimeBlocks", AllRows("ptm/FocusTime"),
                    ListTag("ptm/FocusTime"), {})},
              {TellingEvents(c) : c \in crud.calls})

PtmAvailability ==
    Table({View(P, "getAvailabilityCalendar", Old("ptm/Availability"),
                ListTag("ptm/Availability"), {})},
          {TellingEvents(Call(P, name, Old("ptm/Availability"), ListTag("ptm/Availability"))) :
             name \in {"setAvailabilityCalendar", "replaceAvailabilityCalendar"}})

PlanTaskTag(id) == {<<"ptm/ScheduleTask", id>>}

\* Without a planId the service shows the tasks of the active plan.
PlanTaskViews ==
    {View(P, "getScheduleTasks", PlanTaskRows \cup ActivePlan, PlanTaskTag("PLAN_ACTIVE"),
          PlanTaskRows),
     View(P, "getScheduleTasks of a plan", PlanTaskRows, PlanTaskTag("PLAN"), PlanTaskRows)}

PtmScheduleTasks ==
    Table(PlanTaskViews,
          {Call(P, "updateScheduleTask", Old("ptm/ScheduleTask"),
                Old("ptm/ScheduleTask") \cup PlanTaskTag("PLAN_ACTIVE")
                  \cup PlanTag("ACTIVE_DETAIL") \cup EventTags)})

NoteTag(id) == {<<Note, id>>}

\* deleteNote names TASK_* and PROJECT_*, which are tags of no view.
NoteCalls ==
    {Call(P, "createNote", New(Note), NoteTag("TASK") \cup NoteTag("PROJECT")),
     [Call(P, "updateNote", Old(Note), Old(Note)) EXCEPT !.patches = {"getNote"}],
     Removing(Call(P, "deleteNote", Old(Note),
                   Old(Note) \cup NoteTag("TASK_*") \cup NoteTag("PROJECT_*")))}

NoteViews ==
    {View(P, "getNotesByTask", AllRows(Note), NoteTag("TASK"), {}),
     View(P, "getNotesByProject", AllRows(Note), NoteTag("PROJECT"), {}),
     DetailView(P, "getNote", Note)}

PtmNotes == Table({Mocked(v) : v \in NoteViews}, {Mocked(c) : c \in NoteCalls})

PtmTable ==
    Merged({PtmTasks, PtmDependencies, PtmProjects, PtmPlans, PtmEvents, PtmFocusTime,
            PtmAvailability, PtmScheduleTasks, PtmNotes})
=============================================================================
