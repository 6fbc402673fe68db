------------------------------- MODULE Schema -------------------------------
(***************************************************************************)
(* The tables with their foreign keys: as the models declare them          *)
(* (app/models/) and as the migration makes them (alembic/versions/).      *)
(* "must": ON DELETE CASCADE; "may": nullable, ON DELETE SET NULL; of two  *)
(* columns for the same parent, one stands for both.  "key": the unique    *)
(* columns next to the primary key.  The other columns are left out.       *)
(***************************************************************************)
EXTENDS Naturals, Sequences, FiniteSets

Refs(must, may) == [must |-> must, may |-> may, key |-> {}]
Keyed(key, refs) == [refs EXCEPT !.key = key]
Root == Refs({}, {})
Of(parents) == Refs(parents, {})

OfTournament == Of({"tournaments"})
OfSport == Of({"sports"})
OfFixture == Of({"fixtures"})
OfSubscription == Of({"push_subscriptions"})

-----------------------------------------------------------------------------
(* models/core.py *)
CoreTables ==
  [tournaments |-> Keyed({"slug"}, Root),
   sports |-> Keyed({"tournament", "slug"}, OfTournament),
   departments |-> Keyed({"tournament", "abbreviation"}, OfTournament),
   venues |-> OfTournament,
   sport_rules |-> Keyed({"sport"}, OfSport),
   competition_stages |-> OfSport,
   teams |-> Keyed({"sport", "department"}, Of({"tournaments", "sports", "departments"})),
   participants |-> Refs({"tournaments"}, {"departments"})]

EntryTables ==
  [team_members |-> Keyed({"team", "participant"}, Of({"teams", "participants"})),
   groups |-> Refs({"sports"}, {"competition_stages"}),
   group_members |-> Keyed({"group", "team"}, Of({"groups", "teams"}))]

(* models/fixtures.py *)
MatchTables ==
  [fixtures |-> Refs({"tournaments", "sports"},
                     {"competition_stages", "groups", "teams", "venues", "users"}),
   fixture_participants |-> Refs({"fixtures"}, {"teams", "participants"}),
   live_match_states |-> Keyed({"fixture"}, OfFixture)]

RecordTables ==
  [match_periods |-> OfFixture, set_scores |-> OfFixture,
   match_events |-> Refs({"fixtures"}, {"teams", "participants", "users"}),
   race_heats |-> OfFixture,
   race_entries |-> Refs({"race_heats"}, {"teams", "participants"}),
   race_results |-> Of({"race_entries"})]

(* models/standings.py; the group of a table may be NULL, and cascades.    *)
TableTables ==
  [standings |-> Keyed({"sport", "group"}, Of({"sports", "groups"})),
   standing_rows |-> Of({"standings", "teams"}),
   brackets |-> OfSport,
   bracket_nodes |-> Refs({"brackets"}, {"fixtures", "bracket_nodes"}),
   medals |-> Refs({"tournaments", "departments"}, {"sports"}),
   department_points |->
     Keyed({"tournament", "department"}, Of({"tournaments", "departments"}))]

(* models/content.py *)
ContentTables ==
  [announcements |-> Refs({"tournaments"}, {"sports", "departments", "fixtures", "users"}),
   sponsors |-> OfTournament,
   uploaded_files |-> Refs({}, {"users"})]

(* models/auth.py *)
AuthTables ==
  [roles |-> Keyed({"name"}, Root),
   users |-> Keyed({"email"}, Root),
   user_roles |-> Keyed({"user", "role"}, Of({"users", "roles"})),
   refresh_tokens |-> Keyed({"jti"}, Of({"users"})),
   audit_logs |-> Refs({}, {"users"})]

(* models/notifications.py *)
PushTables ==
  [push_subscriptions |-> Keyed({"endpoint"}, Root),
   notification_events |-> Keyed({"idempotency_key"}, Root),
   notification_templates |-> Keyed({"key"}, Root),
   notification_preferences |-> Keyed({"subscription", "topic", "target"}, OfSubscription),
   notification_deliveries |->
     Keyed({"event", "subscription"}, Of({"notification_events", "push_subscriptions"}))]

Joined(fs) ==
  [t \in UNION {DOMAIN fs[i] : i \in DOMAIN fs} |->
     fs[CHOOSE i \in DOMAIN fs : t \in DOMAIN fs[i]][t]]

Declared ==
  Joined(<<CoreTables, EntryTables, MatchTables, RecordTables, TableTables,
           ContentTables, AuthTables, PushTables>>)

-----------------------------------------------------------------------------
(* upgrade(), in its order *)
CreateRoots == <<
  <<"notification_events", Keyed({"idempotency_key"}, Root)>>,
  <<"notification_templates", Keyed({"key"}, Root)>>,
  <<"push_subscriptions", Keyed({"endpoint"}, Root)>>,
  <<"roles", Keyed({"name"}, Root)>>,
  <<"tournaments", Keyed({"slug"}, Root)>>,
  <<"users", Keyed({"email"}, Root)>>,
  <<"audit_logs", Refs({}, {"users"})>>,
  <<"departments", Keyed({"tournament", "abbreviation"}, OfTournament)>> >>

CreateAccounts == <<
  <<"notification_deliveries",
    Keyed({"event", "subscription"}, Of({"notification_events", "push_subscriptions"}))>>,
  <<"notification_preferences", Keyed({"subscription", "topic", "target"}, OfSubscription)>>,
  <<"refresh_tokens", Keyed({"jti"}, Of({"users"}))>>,
  <<"sponsors", OfTournament>>, <<"sports", Keyed({"tournament", "slug"}, OfTournament)>>,
  <<"uploaded_files", Refs({}, {"users"})>>,
  <<"user_roles", Keyed({"user", "role"}, Of({"roles", "users"}))>>,
  <<"venues", OfTournament>> >>

CreateSports == <<
  <<"brackets", OfSport>>, <<"competition_stages", OfSport>>,
  <<"department_points",
    Keyed({"tournament", "department"}, Of({"departments", "tournaments"}))>>,
  <<"medals", Refs({"departments", "tournaments"}, {"sports"})>>,
  <<"participants", Refs({"tournaments"}, {"departments"})>>,
  <<"sport_rules", Keyed({"sport"}, OfSport)>>,
  <<"teams", Keyed({"sport", "department"}, Of({"departments", "sports", "tournaments"}))>>,
  <<"groups", Refs({"sports"}, {"competition_stages"})>> >>

CreateMatches == <<
  <<"team_members", Keyed({"team", "participant"}, Of({"participants", "teams"}))>>,
  <<"fixtures", Refs({"sports", "tournaments"},
                     {"users", "venues", "groups", "competition_stages", "teams"})>>,
  <<"group_members", Keyed({"group", "team"}, Of({"groups", "teams"}))>>,
  <<"standings", Keyed({"sport", "group"}, Of({"groups", "sports"}))>>,
  <<"announcements", Refs({"tournaments"}, {"users", "departments", "fixtures", "sports"})>>,
  <<"bracket_nodes", Refs({"brackets"}, {"bracket_nodes", "fixtures"})>>,
  <<"fixture_participants", Refs({"fixtures"}, {"participants", "teams"})>> >>

CreateRecords == <<
  <<"live_match_states", Keyed({"fixture"}, OfFixture)>>,
  <<"match_events", Refs({"fixtures"}, {"users", "participants", "teams"})>>,
  <<"match_periods", OfFixture>>, <<"race_heats", OfFixture>>, <<"set_scores", OfFixture>>,
  <<"standing_rows", Of({"standings", "teams"})>>,
  <<"race_entries", Refs({"race_heats"}, {"participants", "teams"})>>,
  <<"race_results", Of({"race_entries"})>> >>

CreatesEarly ==   \* mutant: fixtures before the tables they refer to
  CreateRoots \o CreateAccounts \o CreateMatches \o CreateSports \o CreateRecords

Creates == CreateRoots \o CreateAccounts \o CreateSports \o CreateMatches \o CreateRecords

(* downgrade(), in its order *)
DropRecords == <<
  "race_results", "race_entries", "standing_rows", "set_scores", "race_heats",
  "match_periods", "match_events", "live_match_states", "fixture_participants",
  "bracket_nodes", "announcements", "standings", "group_members", "fixtures",
  "team_members", "groups", "teams", "sport_rules", "participants", "medals",
  "department_points", "competition_stages" >>

DropAccounts == <<
  "brackets", "venues", "user_roles", "uploaded_files", "sports", "sponsors",
  "refresh_tokens", "notification_preferences", "notification_deliveries",
  "departments", "audit_logs", "users", "tournaments", "roles",
  "push_subscriptions", "notification_templates", "notification_events" >>

Drops == DropRecords \o DropAccounts

-----------------------------------------------------------------------------
(* The tables whose rows may go with one of a table in S.                  *)
Cascaded(schema, S) ==
  LET reach[n \in Nat] ==
        IF n = 0 THEN S
        ELSE LET near == reach[n - 1]
             IN near \cup {t \in DOMAIN schema : schema[t].must \cap near # {}}
  IN reach[Cardinality(DOMAIN schema)]
=============================================================================
