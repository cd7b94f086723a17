------------------------------ MODULE OrmModels -------------------------------
(***************************************************************************)
(* infrastructure/database/models.py: the tables the program expects, in   *)
(* the terms of SchemaRevisions (foreign keys, the columns some revision   *)
(* adds or drops, AUTOINCREMENT).                                          *)
(***************************************************************************)
EXTENDS SchemaRevisions, TLC

Table(keys, cols, auto) == [keys |-> keys, cols |-> cols, auto |-> auto]

\* UserModel, CategoryModel, ProjectModel, ProjectMemberModel.
ProjectTables ==
    "users"           :> Table(NoKeys, {"language", "can_create_projects"}, FALSE) @@
    "categories"      :> Table(OfUser, {}, FALSE) @@
    "projects"        :> Table([user_id |-> "users", parent_project_id |-> "projects"], {"code"}, TRUE) @@
    "project_members" :> Table([project_id |-> "projects", user_id |-> "users"],
                               {"daily_hours", "engagement_percent"}, TRUE)

\* TeamWorkweekModel, TeamDayOffModel, MemberDayOffModel, TeamExtraWorkdayModel.
CalendarTables ==
    "team_workweeks"      :> Table(OfProject, {}, TRUE) @@
    "team_days_off"       :> Table(OfProject, {}, TRUE) @@
    "member_days_off"     :> Table(OfUser, {"off_percent", "hours"}, TRUE) @@
    "team_extra_workdays" :> Table(OfProject, {}, TRUE)

\* MilestoneModel, TaskModel, WorkLogModel, TaskDependencyModel, InboxItemModel.
WorkTables ==
    "milestones" :> Table([user_id |-> "users", project_id |-> "projects"], {"project_id"}, FALSE) @@
    "tasks"      :> Table([user_id |-> "users", category_id |-> "categories", parent_task_id |-> "tasks",
                           milestone_id |-> "milestones", project_id |-> "projects",
                           assignee_user_id |-> "users"],
                          {"remaining_hours", "archived_at", "project_id", "assignee_user_id",
                           "allocation_percent"}, FALSE) @@
    "work_logs"  :> Table(OfUserAndTask, {"source", "duration_seconds", "tracker_first_day"}, FALSE) @@
    "task_dependencies" :> Table([predecessor_task_id |-> "tasks", successor_task_id |-> "tasks"], {}, FALSE) @@
    "inbox_items" :> Table([user_id |-> "users", converted_task_id |-> "tasks"], {}, FALSE)

\* FederatedIdentityModel, RefreshSessionModel, BackchannelLogoutDeliveryModel,
\* LoginTransactionModel, MachineOperationLogModel.
SignInTables ==
    "federated_identities" :> Table(OfUser, {}, FALSE) @@
    "refresh_sessions"     :> Table(OfUser, {}, FALSE) @@
    "auth_backchannel_logout_deliveries" :> Table(NoKeys, {}, FALSE) @@
    "auth_login_transactions" :> Table(NoKeys, {"silent", "purpose", "continued_user_id",
                                                "continued_session_id"}, FALSE) @@
    "machine_operation_logs"  :> Table(OfUser, {}, TRUE)

Models == ProjectTables @@ CalendarTables @@ WorkTables @@ SignInTables
==============================================================================
