--------------------------- MODULE SchemaRevisions ---------------------------
(***************************************************************************)
(* migrations/versions/0001 to 0036: what each Alembic revision does to    *)
(* the tables, upwards and downwards, statement by statement.              *)
(*                                                                         *)
(* A table is the foreign keys it has (column |-> table), those of its     *)
(* columns that some revision adds or drops or that a database from before *)
(* Alembic may lack, and whether SQLite may reuse the id of a deleted row  *)
(* (AUTOINCREMENT forbids it).  The columns that come and go with their    *)
(* table, types and indexes are left out, and so are the statements that   *)
(* fill or rewrite what no property follows (0004, 0009, 0016, 0019, the   *)
(* _unname_adjustments of 0013, the imported calendars of 0015's way down, *)
(* the assignees of 0024).                                                 *)
(***************************************************************************)
EXTENDS Sequences, Naturals

NoKeys == <<>>

\* op.create_table, without and with sqlite_autoincrement.
Create(t, keys, cols)     == [op |-> "create", table |-> t, keys |-> keys, cols |-> cols, auto |-> FALSE]
CreateAuto(t, keys, cols) == [op |-> "create", table |-> t, keys |-> keys, cols |-> cols, auto |-> TRUE]

\* op.drop_table.
Drop(t) == [op |-> "drop", table |-> t]

\* op.add_column, or a batch that only adds columns with plain defaults.
Add(t, cols) == [op |-> "alter", table |-> t, add |-> cols, cut |-> {}, keys |-> NoKeys, auto |-> "as_is"]

\* A batch that does more: SQLite copies the rows into a new table, which has
\* AUTOINCREMENT only when table_kwargs asks for it.  A dropped column goes
\* with its foreign key.
Rebuild(t, add, cut, keys)     == [op |-> "alter", table |-> t, add |-> add, cut |-> cut, keys |-> keys, auto |-> "off"]
RebuildAuto(t, add, cut, keys) == [op |-> "alter", table |-> t, add |-> add, cut |-> cut, keys |-> keys, auto |-> "on"]

\* A statement that changes rows.
Rows(what) == [op |-> "rows", what |-> what]

OfUser == [user_id |-> "users"]
OfUserAndTask == [user_id |-> "users", task_id |-> "tasks"]
OfProject == [project_id |-> "projects"]
OfEvent == [event_id |-> "calendar_events"]
OfCalendar == [calendar_id |-> "calendars"]

------------------------------------------------------------------------------
Rev01Work == <<
    Create("users", NoKeys, {"language"}),
    Create("categories", OfUser, {}),
    Create("milestones", OfUser, {}),
    Create("tasks", [user_id |-> "users", category_id |-> "categories", milestone_id |-> "milestones",
                     parent_task_id |-> "tasks"], {}),
    Create("work_logs", OfUserAndTask, {}),
    Create("task_dependencies", [predecessor_task_id |-> "tasks", successor_task_id |-> "tasks"], {}),
    Create("inbox_items", [user_id |-> "users", converted_task_id |-> "tasks"], {}) >>

Rev01Auth == <<
    Create("federated_identities", OfUser, {}),
    Create("auth_sessions", OfUser, {"idp_session_id"}),
    Create("auth_backchannel_logout_deliveries", NoKeys, {}),
    Create("auth_login_transactions", NoKeys, {}) >>

Rev01Down == <<
    Drop("auth_login_transactions"), Drop("auth_backchannel_logout_deliveries"), Drop("auth_sessions"),
    Drop("federated_identities"), Drop("inbox_items"), Drop("task_dependencies"), Drop("work_logs"),
    Drop("tasks"), Drop("milestones"), Drop("categories"), Drop("users") >>

Rev01 == [up |-> Rev01Work \o Rev01Auth, down |-> Rev01Down]

Rev02 == [up   |-> << Create("time_entries", OfUserAndTask, {}) >>,
          down |-> << Drop("time_entries") >>]

Rev03 == [up   |-> << CreateAuto("calendar_events", OfUserAndTask, {}),
                      Create("calendar_event_exceptions", OfEvent, {}),
                      Create("calendar_event_moves", OfEvent, {}),
                      CreateAuto("business_calendars", OfUser, {}),
                      Create("business_calendar_holidays", [calendar_id |-> "business_calendars"], {}) >>,
          down |-> << Drop("business_calendar_holidays"), Drop("business_calendars"),
                      Drop("calendar_event_moves"), Drop("calendar_event_exceptions"), Drop("calendar_events") >>]

Rev04 == [up   |-> << Add("tasks", {"remaining_hours"}) >>,
          down |-> << Rebuild("tasks", {}, {"remaining_hours"}, NoKeys) >>]

Rev05 == [up   |-> << CreateAuto("closing_periods", OfUser, {}),
                      Rebuild("work_logs", {"source", "closing_period_id", "duration_seconds"}, {},
                              [closing_period_id |-> "closing_periods"]) >>,
          down |-> << Rebuild("work_logs", {}, {"source", "closing_period_id", "duration_seconds"}, NoKeys),
                      Drop("closing_periods") >>]

AlarmColumns == {"alarm_enabled", "alarm_15_min", "alarm_5_min", "alarm_1_min", "alarm_at_start"}

Rev06 == [up   |-> << Rebuild("calendar_events", AlarmColumns, {}, NoKeys) >>,
          down |-> << Rebuild("calendar_events", {}, AlarmColumns, NoKeys) >>]

Rev07 == [up   |-> << CreateAuto("projects", [user_id |-> "users", parent_project_id |-> "projects"], {}),
                      Rebuild("tasks", {"project_id"}, {}, OfProject),
                      Rebuild("milestones", {"project_id"}, {}, OfProject) >>,
          down |-> << Rebuild("milestones", {}, {"project_id"}, NoKeys),
                      Rebuild("tasks", {}, {"project_id"}, NoKeys),
                      Drop("projects") >>]

Rev08 == [up   |-> << Add("calendar_events", {"event_type"}),
                      Create("calendar_event_completions", OfEvent, {}) >>,
          down |-> << Drop("calendar_event_completions"),
                      Rebuild("calendar_events", {}, {"event_type"}, NoKeys) >>]

Rev09 == [up   |-> << CreateAuto("calendars", OfUser, {}),
                      CreateAuto("calendar_view_presets", OfUser, {}),
                      RebuildAuto("calendar_events", {"calendar_id"}, {}, OfCalendar) >>,
          down |-> << RebuildAuto("calendar_events", {}, {"calendar_id"}, NoKeys),
                      Drop("calendar_view_presets"), Drop("calendars") >>]

LayerColumns == {"workdays", "day_off_reason", "counts_as_day_off"}

Rev10 == [up   |-> << Rebuild("calendars", LayerColumns, {}, NoKeys),
                      Create("calendar_days_off", OfCalendar, {}),
                      Rows("make_layers") >>,
          down |-> << Drop("calendar_days_off"), Rows("delete_layers"),
                      Rebuild("calendars", {}, LayerColumns, NoKeys) >>]

Rev11 == [up   |-> << Add("projects", {"code"}) >>,
          down |-> << Rebuild("projects", {}, {"code"}, NoKeys) >>]

Rev12 == [up   |-> << CreateAuto("push_subscriptions", OfUser, {}),
                      Create("push_preferences", OfUser, {}),
                      CreateAuto("push_dispatches", OfUser, {}) >>,
          down |-> << Drop("push_dispatches"), Drop("push_preferences"), Drop("push_subscriptions") >>]

\* Mutant: the tables go before their holidays are copied.
Rev13DropsFirst == << Drop("business_calendar_holidays"), Rows("copy_legacy_holidays"), Drop("business_calendars") >>

Rev13Up == << Rows("copy_legacy_holidays"), Drop("business_calendar_holidays"), Drop("business_calendars") >>

Rev13Down == << CreateAuto("business_calendars", OfUser, {}),
                Create("business_calendar_holidays", [calendar_id |-> "business_calendars"], {}),
                Rows("business_calendars_from_layers") >>

Rev13 == [up |-> Rev13Up, down |-> Rev13Down]

Rev14 == [up   |-> << Add("calendars", {"scope"}) >>,
          down |-> << Rebuild("calendars", {}, {"scope"}, NoKeys) >>]

Rev15 == [up   |-> << Create("calendar_imports", OfCalendar, {}),
                      Create("calendar_imported_occurrences", OfCalendar, {}) >>,
          down |-> << Drop("calendar_imported_occurrences"), Drop("calendar_imports") >>]

\* Only renames layers that still have the first name.
Rev16 == [up |-> <<>>, down |-> <<>>]

Rev17 == [up   |-> << Add("time_entries", {"client_ref"}) >>,
          down |-> << Rebuild("time_entries", {}, {"client_ref"}, NoKeys) >>]

Rev18 == [up   |-> << CreateAuto("tracking_rules", OfUserAndTask, {}),
                      Create("tracking_rule_books", OfUser, {}) >>,
          down |-> << Drop("tracking_rule_books"), Drop("tracking_rules") >>]

\* Down, the index on client_ref becomes unique again, if the rows allow it.
Rev19 == [up   |-> << Add("time_entries", {"auto_mode"}),
                      CreateAuto("auto_time_entry_receipts", OfUser, {}),
                      CreateAuto("time_entry_carvings", OfUser, {}) >>,
          down |-> << Drop("time_entry_carvings"), Drop("auto_time_entry_receipts"),
                      Rebuild("time_entries", {}, {"auto_mode"}, NoKeys),
                      Rows("unique_client_ref") >>]

Rev20 == [up   |-> << Add("tasks", {"archived_at"}) >>,
          down |-> << Rebuild("tasks", {}, {"archived_at"}, NoKeys) >>]

Rev21 == [up   |-> << CreateAuto("work_breaks", OfUser, {}) >>,
          down |-> << Drop("work_breaks") >>]

Rev22 == [up   |-> << CreateAuto("pc_activity_days", OfUser, {}),
                      CreateAuto("pc_activity_spans", [user_id |-> "users", day_id |-> "pc_activity_days"], {}) >>,
          down |-> << Drop("pc_activity_spans"), Drop("pc_activity_days") >>]

WindowColumns == {"started_at", "ended_at", "task_id"}

Rev23 == [up   |-> << Add("auto_time_entry_receipts", WindowColumns) >>,
          down |-> << Rebuild("auto_time_entry_receipts", {}, WindowColumns, NoKeys) >>]

Rev24 == [up   |-> << CreateAuto("project_members", [project_id |-> "projects", user_id |-> "users"], {}),
                      Rebuild("tasks", {"assignee_user_id"}, {}, [assignee_user_id |-> "users"]),
                      Rows("owners_manage") >>,
          down |-> << Rebuild("tasks", {}, {"assignee_user_id"}, NoKeys),
                      Drop("project_members") >>]

Rev25 == [up   |-> << Add("work_logs", {"tracker_first_day"}) >>,
          down |-> << Rebuild("work_logs", {}, {"tracker_first_day"}, NoKeys) >>]

\* Mutant: the way down forgets tasks.allocation_percent.
Rev26ForgetsTasks ==
    [up   |-> << Add("project_members", {"daily_hours", "engagement_percent"}),
                 Add("tasks", {"allocation_percent"}),
                 CreateAuto("team_workweeks", OfProject, {}),
                 CreateAuto("team_days_off", OfProject, {}),
                 CreateAuto("member_days_off", OfUser, {}) >>,
     down |-> << Drop("member_days_off"), Drop("team_days_off"), Drop("team_workweeks"),
                 Rebuild("project_members", {}, {"daily_hours", "engagement_percent"}, NoKeys) >>]

Rev26 == [up   |-> << Add("project_members", {"daily_hours", "engagement_percent"}),
                      Add("tasks", {"allocation_percent"}),
                      CreateAuto("team_workweeks", OfProject, {}),
                      CreateAuto("team_days_off", OfProject, {}),
                      CreateAuto("member_days_off", OfUser, {}) >>,
          down |-> << Drop("member_days_off"), Drop("team_days_off"), Drop("team_workweeks"),
                      Rebuild("tasks", {}, {"allocation_percent"}, NoKeys),
                      Rebuild("project_members", {}, {"daily_hours", "engagement_percent"}, NoKeys) >>]

Rev27 == [up   |-> << Add("member_days_off", {"off_percent"}) >>,
          down |-> << Rebuild("member_days_off", {}, {"off_percent"}, NoKeys) >>]

Rev28 == [up   |-> << Add("member_days_off", {"hours"}),
                      CreateAuto("team_extra_workdays", OfProject, {}) >>,
          down |-> << Drop("team_extra_workdays"),
                      Rebuild("member_days_off", {}, {"hours"}, NoKeys) >>]

Rev29 == [up   |-> << Rebuild("auth_login_transactions", {"silent"}, {}, NoKeys) >>,
          down |-> << Rebuild("auth_login_transactions", {}, {"silent"}, NoKeys) >>]

ProjectWorkLogs == CreateAuto("project_work_logs", [user_id |-> "users", project_id |-> "projects"], {})

Rev30 == [up |-> << ProjectWorkLogs >>, down |-> << Drop("project_work_logs") >>]

Rev31 == [up |-> << Drop("project_work_logs") >>, down |-> << ProjectWorkLogs >>]

Rev32 == [up   |-> << Rebuild("users", {"can_create_projects"}, {}, NoKeys), Rows("managers_may_create") >>,
          down |-> << Rebuild("users", {}, {"can_create_projects"}, NoKeys) >>]

Rev33 == [up   |-> << CreateAuto("machine_operation_logs", OfUser, {}) >>,
          down |-> << Drop("machine_operation_logs") >>]

JtiColumns == {"current_jti", "previous_jti", "rotated_at"}

Rev34 == [up   |-> << Create("refresh_sessions", OfUser, JtiColumns), Drop("auth_sessions") >>,
          down |-> << Create("auth_sessions", OfUser, {"idp_session_id"}), Drop("refresh_sessions") >>]

\* Mutant: work_logs lets go of closing_periods only after they are gone.
Rev35KeepsTheKey ==
    << Drop("push_dispatches"), Drop("push_preferences"), Drop("push_subscriptions"),
       Drop("calendar_event_completions"), Drop("calendar_event_moves"), Drop("calendar_event_exceptions"),
       Drop("calendar_events"), Drop("calendar_view_presets"), Drop("calendar_imported_occurrences"),
       Drop("calendar_imports"), Drop("calendar_days_off"), Drop("calendars"),
       Drop("tracking_rule_books"), Drop("tracking_rules"), Drop("pc_activity_spans"), Drop("pc_activity_days"),
       Drop("work_breaks"), Drop("auto_time_entry_receipts"), Drop("time_entry_carvings"),
       Drop("time_entries"), Drop("closing_periods"),
       Rebuild("work_logs", {}, {"closing_period_id"}, NoKeys) >>

Rev35Up == << Rebuild("work_logs", {}, {"closing_period_id"}, NoKeys),
    Drop("push_dispatches"), Drop("push_preferences"), Drop("push_subscriptions"),
    Drop("calendar_event_completions"), Drop("calendar_event_moves"), Drop("calendar_event_exceptions"),
    Drop("calendar_events"), Drop("calendar_view_presets"), Drop("calendar_imported_occurrences"),
    Drop("calendar_imports"), Drop("calendar_days_off"), Drop("calendars"),
    Drop("tracking_rule_books"), Drop("tracking_rules"), Drop("pc_activity_spans"), Drop("pc_activity_days"),
    Drop("work_breaks"), Drop("auto_time_entry_receipts"), Drop("time_entry_carvings"),
    Drop("time_entries"), Drop("closing_periods") >>

Rev35DownTracker == <<
    CreateAuto("closing_periods", OfUser, {}),
    Create("time_entries", OfUserAndTask, {"client_ref", "auto_mode"}),
    CreateAuto("time_entry_carvings", OfUser, {}),
    CreateAuto("auto_time_entry_receipts", OfUser, WindowColumns),
    CreateAuto("work_breaks", OfUser, {}),
    CreateAuto("pc_activity_days", OfUser, {}),
    CreateAuto("pc_activity_spans", [user_id |-> "users", day_id |-> "pc_activity_days"], {}),
    CreateAuto("tracking_rules", OfUserAndTask, {}),
    Create("tracking_rule_books", OfUser, {}) >>

Rev35DownScheduler == <<
    Create("calendars", OfUser, LayerColumns \cup {"scope"}),
    Create("calendar_days_off", OfCalendar, {}),
    Create("calendar_imports", OfCalendar, {}),
    Create("calendar_imported_occurrences", OfCalendar, {}),
    CreateAuto("calendar_view_presets", OfUser, {}),
    CreateAuto("calendar_events", [calendar_id |-> "calendars", task_id |-> "tasks", user_id |-> "users"],
               AlarmColumns \cup {"event_type", "calendar_id"}),
    Create("calendar_event_exceptions", OfEvent, {}),
    Create("calendar_event_moves", OfEvent, {}),
    Create("calendar_event_completions", OfEvent, {}) >>

Rev35DownPush == <<
    CreateAuto("push_subscriptions", OfUser, {}),
    Create("push_preferences", OfUser, {}),
    CreateAuto("push_dispatches", OfUser, {}),
    Rebuild("work_logs", {"closing_period_id"}, {}, [closing_period_id |-> "closing_periods"]) >>

Rev35 == [up |-> Rev35Up, down |-> Rev35DownTracker \o Rev35DownScheduler \o Rev35DownPush]

Rev36 == [up   |-> << Rebuild("refresh_sessions", {}, JtiColumns, NoKeys),
                      Add("auth_login_transactions", {"purpose", "continued_user_id", "continued_session_id"}) >>,
          down |-> << Rebuild("auth_login_transactions", {},
                              {"purpose", "continued_user_id", "continued_session_id"}, NoKeys),
                      Add("refresh_sessions", JtiColumns) >>]

Revision == << Rev01, Rev02, Rev03, Rev04, Rev05, Rev06, Rev07, Rev08, Rev09, Rev10, Rev11, Rev12,
               Rev13, Rev14, Rev15, Rev16, Rev17, Rev18, Rev19, Rev20, Rev21, Rev22, Rev23, Rev24,
               Rev25, Rev26, Rev27, Rev28, Rev29, Rev30, Rev31, Rev32, Rev33, Rev34, Rev35, Rev36 >>

Newest == Len(Revision)
==============================================================================
