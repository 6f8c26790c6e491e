------------------------------ MODULE ModelSetup ------------------------------
(***************************************************************************)
(* Which model answers an agent: the provider records and role bindings.    *)
(* They live in config.json (config.rs), in the running daemon's CONFIG     *)
(* (daemon.py, llm_providers.py) and in the Settings view, which edits a    *)
(* copy; the keys are in the OS keychain (secrets.rs) and in CONFIG.        *)
(*                                                                         *)
(* A record is a function from the fields that it states to their values,   *)
(* its nested dicts flattened: the presets state most, a saved entry only   *)
(* what differs.  A save reaches the daemon first and config.json second; a   *)
(* start reads config.json again.                                          *)
(*                                                                         *)
(* Keys, saves and questions reach the daemon as lines of one pipe, which   *)
(* its main thread reads in turn (stdin).  A question is answered by a      *)
(* thread that takes the keys once and reads the rest of CONFIG later.      *)
(* save_secret and clear_secret change the keychain first and push the keys *)
(* afterwards, in the app's main thread, where no other command runs until  *)
(* they are done; the push fails when the daemon is dead.                   *)
(***************************************************************************)
EXTENDS Integers, Sequences, Functions

CONSTANTS
    Presets,         \* _preset_records(): the shipped record of each id
    Additions,       \* the records that the user may add, by id
    Edits,           \* the <<field, value>> that the user may type
    DefaultProvider, \* _DEFAULT_PROVIDER
    KnownSecretKeys, \* the keys that are collected whatever config.json says
    OldKeys,         \* the key of each provider that is not shipped any more, by id
    OldInstalls,     \* the <<llm_provider, llm_model>> that an older release may have saved
    PipeRoom,        \* bound: lines that stdin holds
    MaxChanges       \* bound: saves of settings and changes of keys

Null == "null"

\* A preset has a kind, and states each field whose value can be null
\* (_preset_records): base_url and api_key_ref.
StatedIfNull(id, field, value) == value = Null => field \in DOMAIN Presets[id]
ASSUME SetupAssumption ==
    /\ DefaultProvider \in DOMAIN Presets /\ MaxChanges \in Nat /\ PipeRoom \in Nat \ {0}
    /\ Null \notin DOMAIN Presets \cup DOMAIN Additions \cup DOMAIN OldKeys
    /\ \A old \in OldInstalls: old[1] \in DOMAIN Presets \cup DOMAIN OldKeys
    /\ \A id \in DOMAIN Presets:
          /\ "kind" \in DOMAIN Presets[id] /\ Presets[id]["kind"] # ""
          /\ \A edit \in Edits: StatedIfNull(id, edit[1], edit[2])
          /\ id \in DOMAIN Additions =>
                \A f \in DOMAIN Additions[id]: StatedIfNull(id, f, Additions[id][f])

Roles == {"reasoning", "fast"}
Unbound == [role \in Roles |-> Null]
Kinds == {"anthropic", "openai_compat", "google"}
ProviderIds == DOMAIN Presets \cup DOMAIN Additions \cup DOMAIN OldKeys

\* The agents, by what their prompt files require of a record.
Agents == {"explain", "chat", "extract"}
ModelRole == [explain |-> "reasoning", chat |-> "fast", extract |-> "reasoning"]
Requires == [explain |-> {}, chat |-> {"tool_use"}, extract |-> {"part_facts"}]

VARIABLES
    disk,     \* config.json: providers, roles, legacy llm_provider and llm_model, onboarded
    keychain, \* the keys that are saved
    config,   \* CONFIG: providers, roles, legacy, model, secrets
    alive,    \* the daemon runs
    stdin,    \* the lines that it has not read
    pushing,  \* the push of keys that the main thread owes the daemon
    question, \* the question to an agent: how far it is, and the keys it took or how it went
    view,     \* what the app shows, or "off"
    settings, \* the Settings view: open, its records and roles, its copy of disk
    saving,   \* the save under way: what it writes, whether it is reloaded, the next view
    checked,  \* _preflight_checked
    claimed,  \* the records that claimed part_facts at some time of the session
    cleared,  \* ghost: the keys that clear_secret was done with and nobody saved since
    changes   \* how many saves of settings and changes of keys there were

keyVars == <<keychain, pushing, cleared>>
daemonVars == <<config, alive, stdin, question, checked, claimed>>
viewVars == <<view, settings, saving, changes>>
setupVars == <<disk, keyVars, daemonVars, viewVars>>

NoSave == [is |-> "none"]
NoPush == [is |-> "none"]
\* without is ghost: the keys cleared before the question was put.
NoQuestion ==
    [is |-> "none", agent |-> Null, id |-> Null, result |-> "none", secrets |-> {},
     used |-> {}, without |-> {}]
Closed == [open |-> FALSE, records |-> <<>>, roles |-> Unbound, copy |-> <<>>]
NoConfig ==
    [providers |-> <<>>, roles |-> Unbound, legacy |-> Null, model |-> Null, secrets |-> {}]

-------------------------------------------------------------------------------
(* Records *)

Over(new, old) ==
    [x \in DOMAIN new \cup DOMAIN old |-> IF x \in DOMAIN new THEN new[x] ELSE old[x]]
Only(x, value) == [y \in {x} |-> value]

Given(record, field) == IF field \in DOMAIN record THEN record[field] ELSE Null

\* _merge_over_preset.  Mutant: the preset laid over the entry.
ShippedWins(id, entry) == IF id \in DOMAIN Presets THEN Over(Presets[id], entry) ELSE entry
MergeOverPreset(id, entry) == IF id \in DOMAIN Presets THEN Over(entry, Presets[id]) ELSE entry

\* provider_delta.  Mutant: the whole record.
WholeRecord(id, record) == record
ProviderDelta(id, record) ==
    IF id \in DOMAIN Presets
    THEN Restrict(record, {f \in DOMAIN record: record[f] # Given(Presets[id], f)})
    ELSE record

\* _resolve_provider_records.
ProviderRecords(providers) ==
    [id \in DOMAIN Presets \cup DOMAIN providers |->
        IF id \in DOMAIN providers THEN MergeOverPreset(id, providers[id]) ELSE Presets[id]]

\* A record read and written by Rust's ProviderRecord: kind is a String with
\* a default, an Option that is None is left out.  Mutant: read as it is.
EntryAsItIs(entry) == entry
RoundTripped(entry) ==
    [f \in {"kind"} \cup {g \in DOMAIN entry: entry[g] # Null} |->
        IF f \in DOMAIN entry THEN entry[f] ELSE ""]

Written(file) ==
    [file EXCEPT !.providers = [id \in DOMAIN file.providers |-> RoundTripped(file.providers[id])]]

\* migrate_legacy_config: a config without roles has them bound to its
\* llm_provider, and its llm_model is laid over that record as the reasoning
\* model, in place of an entry of the same id.
LegacyOf(setup) == IF setup.legacy # Null THEN setup.legacy ELSE DefaultProvider
RolesBound(setup) ==
    IF setup.roles # Unbound THEN setup.roles ELSE [role \in Roles |-> LegacyOf(setup)]
OverrideRecord(id, model) ==
    IF id \in DOMAIN Presets THEN Over(Only("reasoning", model), Presets[id])
    ELSE [kind |-> "anthropic", base_url |-> Null, api_key_ref |-> OldKeys[id],
          reasoning |-> model, tool_use |-> "yes", part_facts |-> "yes"]
Migrated(setup) ==
    IF setup.roles # Unbound \/ setup.model = Null THEN setup.providers
    ELSE Over(Only(LegacyOf(setup), OverrideRecord(LegacyOf(setup), setup.model)),
              setup.providers)
RecordsOf(setup) == ProviderRecords(Migrated(setup))

KeyMissing(record, secrets) ==
    Given(record, "api_key_ref") # Null /\ record.api_key_ref \notin secrets

\* roles_ready.  Mutant: the reasoning role only.
ReasoningReady(setup) ==
    LET records == RecordsOf(setup)
        id == RolesBound(setup)["reasoning"]
    IN  id \in DOMAIN records /\ ~KeyMissing(records[id], setup.secrets)
RolesReady(setup) ==
    LET records == RecordsOf(setup)
    IN  \A role \in Roles:
            LET id == RolesBound(setup)[role]
            IN  /\ id \in DOMAIN records
                /\ Given(records[id], role) # Null
                /\ ~KeyMissing(records[id], setup.secrets)

\* The key of _preflight_checked.  Mutant: by the record alone.
CheckedByRecord(id, agent) == id
CheckKey(id, agent) == <<id, agent>>

Capable(agent, id, record) ==
    \/ CheckKey(id, agent) \in checked
    \/ \A r \in Requires[agent]: Given(record, r) = "yes"

\* resolve, down to the client that _build_provider_from_record makes.
Resolved(setup, agent) ==
    LET role == ModelRole[agent]
        id == RolesBound(setup)[role]
        records == RecordsOf(setup)
        record == records[id]
    IN  IF id \notin DOMAIN records THEN "unknown provider"
        ELSE IF Given(record, role) = Null THEN "no model"
        ELSE IF ~Capable(agent, id, record) THEN "not capable"
        ELSE IF KeyMissing(record, setup.secrets) THEN "no key"
        ELSE IF Given(record, "kind") \notin Kinds THEN "unknown kind"
        ELSE IF record.kind = "openai_compat" /\ "base_url" \notin DOMAIN record
             THEN "raises KeyError"
        ELSE "answers"

\* collect_known_secrets.
Collected(file, keys) ==
    keys \cap (KnownSecretKeys \cup {Given(file.providers[id], "api_key_ref"):
                                       id \in DOMAIN file.providers})

Claiming(setup) ==
    LET records == RecordsOf(setup)
    IN  {id \in DOMAIN records: Given(records[id], "part_facts") = "yes"}

-------------------------------------------------------------------------------
\* A new app, or one in which the first set-up was skipped and that was quit then.
SetupInit ==
    /\ \E onboarded \in BOOLEAN:
          disk = [providers |-> <<>>, roles |-> Unbound, legacy |-> Null, model |-> Null,
                  onboarded |-> onboarded]
    /\ keychain = {} /\ pushing = NoPush /\ cleared = {}
    /\ config = NoConfig /\ alive = FALSE /\ stdin = <<>> /\ question = NoQuestion
    /\ view = "off" /\ settings = Closed /\ saving = NoSave
    /\ checked = {} /\ claimed = {} /\ changes = 0

\* The config.json of a release that knew llm_provider and llm_model only.
OlderInstall(id, model) ==
    /\ view = "off" /\ changes = 0 /\ disk.legacy = Null
    /\ disk' = [disk EXCEPT !.legacy = id, !.model = model]
    /\ UNCHANGED <<keyVars, daemonVars, viewVars>>

\* dispatch_to_daemon: a line is written when the main thread is free, once
\* there is room for it.
Dispatch(line) ==
    /\ alive /\ pushing = NoPush /\ Len(stdin) < PipeRoom
    /\ stdin' = Append(stdin, line)

\* build_configure_request.  A key that the keychain does not give is left out
\* (collect_secrets_for): all of them, when it cannot be read.
SecretsLine(keys) == [is |-> "secrets", secrets |-> Collected(disk, keys)]

\* spawn_daemon and _apply_env_config: the keys are the first line.
Start ==
    /\ view = "off"
    /\ view' = IF disk.onboarded THEN "work" ELSE "welcome"
    /\ config' = [providers |-> disk.providers, roles |-> disk.roles, legacy |-> disk.legacy,
                  model |-> disk.model, secrets |-> {}]
    /\ alive' = TRUE
    /\ \E readable \in {keychain, {}}: stdin' = <<SecretsLine(readable)>>
    /\ checked' = {} /\ claimed' = Claiming(config')
    /\ UNCHANGED <<disk, keyVars, question, settings, saving, changes>>

\* The daemon ends and nobody starts it again before the app is.
DaemonGone ==
    /\ config' = NoConfig /\ alive' = FALSE /\ stdin' = <<>> /\ question' = NoQuestion
    /\ checked' = {} /\ claimed' = {}

DaemonDies ==
    /\ alive /\ DaemonGone
    /\ UNCHANGED <<disk, keyVars, viewVars>>

Quit ==
    /\ view # "off" /\ pushing = NoPush
    /\ view' = "off" /\ settings' = Closed /\ saving' = NoSave
    /\ DaemonGone
    /\ UNCHANGED <<disk, keyVars, changes>>

-------------------------------------------------------------------------------
(* The views *)

\* updateConfig: read config.json, lay the patch over it, save it.
UpdateConfig(patched, next) ==
    /\ saving = NoSave /\ changes < MaxChanges /\ changes' = changes + 1
    /\ saving' = [is |-> "answered", file |-> patched, reload |-> FALSE, next |-> next]

ChooseGuided ==
    /\ view \in {"welcome", "work"} /\ saving = NoSave
    /\ view' = "guided"
    /\ UNCHANGED <<disk, keyVars, daemonVars, settings, saving, changes>>

\* bindBothRolesTo: daemon.configure, and updateConfig when it is answered.
BindBothRolesTo(id) ==
    /\ view = "guided"
    /\ saving = NoSave /\ changes < MaxChanges /\ changes' = changes + 1
    /\ Dispatch([is |-> "bind", id |-> id])
    /\ saving' = [is |-> "sent", reload |-> FALSE, next |-> "guided"]
    /\ UNCHANGED <<disk, keyVars, config, alive, question, checked, claimed, view,
                   settings>>

\* handleFinishSetup waits for dismissOnboarding.
FinishSetup ==
    /\ view \in {"welcome", "guided"}
    /\ UpdateConfig([disk EXCEPT !.onboarded = TRUE], "work")
    /\ UNCHANGED <<disk, keyVars, daemonVars, view, settings>>

\* onChooseManual, onOpenManualSettings do not.
ChooseManual ==
    /\ view \in {"welcome", "guided"}
    /\ UpdateConfig([disk EXCEPT !.onboarded = TRUE], "settings")
    /\ view' = "settings"
    /\ UNCHANGED <<disk, keyVars, daemonVars, settings>>

Navigate ==
    /\ \/ view = "work" /\ view' = "settings"
       \/ view = "settings" /\ view' = "work"
    /\ saving = NoSave /\ settings' = Closed
    /\ UNCHANGED <<disk, keyVars, daemonVars, saving, changes>>

\* Settings' loadConfig, then the editor's load; no line that changes the
\* records waits then.
OpenSettings ==
    /\ view = "settings" /\ ~settings.open /\ alive
    /\ settings' = [open |-> TRUE, records |-> RecordsOf(config),
                    roles |-> RolesBound(config), copy |-> disk]
    /\ UNCHANGED <<disk, keyVars, daemonVars, view, saving, changes>>

-------------------------------------------------------------------------------
(* The provider editor *)

\* saveProviderConfig: daemon.configure, then saveConfig of what it returned.
SaveProviderConfig(records, roles) ==
    /\ settings.open /\ saving = NoSave /\ changes < MaxChanges /\ changes' = changes + 1
    /\ Dispatch([is |-> "providers", records |-> records, roles |-> roles])
    /\ saving' = [is |-> "sent", reload |-> TRUE, next |-> "settings"]
    /\ UNCHANGED <<disk, keyVars, config, alive, question, checked, claimed, view,
                   settings>>

\* recordFromDraft fills every field of the form.
EditRecord(id, edit) ==
    /\ id \in DOMAIN settings.records
    /\ SaveProviderConfig([settings.records EXCEPT ![id] = Over(Only(edit[1], edit[2]), @)],
                          settings.roles)

AddRecord(id) ==
    /\ id \in DOMAIN Additions \ DOMAIN settings.records
    /\ SaveProviderConfig(Over(Only(id, Additions[id]), settings.records), settings.roles)

DeleteRecord(id) ==
    /\ id \in DOMAIN settings.records
    /\ SaveProviderConfig(Restrict(settings.records, DOMAIN settings.records \ {id}),
                          settings.roles)

ChangeRole(role, id) ==
    /\ id \in DOMAIN settings.records
    /\ SaveProviderConfig(settings.records, [settings.roles EXCEPT ![role] = id])

\* save_config_cmd.
WriteConfig ==
    /\ saving.is = "answered" /\ pushing = NoPush
    /\ disk' = Written(saving.file)
    /\ settings' = IF saving.reload
                   THEN [open |-> TRUE, records |-> saving.records, roles |-> saving.roles,
                         copy |-> disk']
                   ELSE settings
    /\ view' = saving.next /\ saving' = NoSave
    /\ UNCHANGED <<keyVars, daemonVars, changes>>

\* The file cannot be written: the view shows the error.
WriteConfigFails ==
    /\ saving.is = "answered" /\ pushing = NoPush
    /\ saving' = NoSave
    /\ view' = IF saving.next = "work" THEN "work" ELSE view
    /\ UNCHANGED <<disk, keyVars, daemonVars, settings, changes>>

-------------------------------------------------------------------------------
(* Keys *)

\* save_secret and clear_secret, down to the keychain; when that fails they
\* are done.  A key is one that is known or that a saved record names
\* (validate_known_key).  The editor saves keys while a save is under way, the
\* guided set-up does not.
MayChange(ref) ==
    /\ view = "settings" \/ (view = "guided" /\ saving = NoSave)
    /\ pushing = NoPush /\ ref # Null
    /\ changes < MaxChanges /\ changes' = changes + 1
    /\ ref \in KnownSecretKeys \cup Collected(disk, {ref})

SaveSecret(ref) ==
    /\ MayChange(ref)
    /\ keychain' = keychain \cup {ref}
    /\ pushing' = [is |-> "push", cleared |-> {}]
    /\ cleared' = cleared \ {ref} /\ question' = [question EXCEPT !.without = @ \ {ref}]
    /\ UNCHANGED <<disk, config, alive, stdin, checked, claimed, view, settings, saving>>

ClearSecret(ref) ==
    /\ MayChange(ref)
    /\ keychain' = keychain \ {ref}
    /\ pushing' = [is |-> "push", cleared |-> {ref}]
    /\ UNCHANGED <<disk, cleared, daemonVars, view, settings, saving>>

\* sync_secrets_to_daemon, with an error when the daemon is dead.
SyncSecrets ==
    /\ pushing # NoPush
    /\ pushing' = NoPush /\ cleared' = cleared \cup pushing.cleared
    /\ \/ ~alive /\ UNCHANGED stdin
       \/ /\ alive /\ Len(stdin) < PipeRoom
          /\ \E readable \in {keychain, {}}: stdin' = Append(stdin, SecretsLine(readable))
    /\ UNCHANGED <<disk, keychain, config, alive, question, checked, claimed, viewVars>>

-------------------------------------------------------------------------------
(* The daemon: one line after the other (daemon_configure) *)

Reads(kind) == alive /\ stdin # <<>> /\ Head(stdin).is = kind /\ stdin' = Tail(stdin)

\* Mutant: the keys that it is told are added to those it has.
Added(old, told) == old \cup told
Replaced(old, told) == told

ReadSecrets ==
    /\ Reads("secrets")
    /\ config' = [config EXCEPT !.secrets = Replaced(@, Head(stdin).secrets)]
    /\ UNCHANGED <<disk, keyVars, alive, question, checked, claimed, viewVars>>

\* The answer has what is kept of the records; the view saves that.
ReadProviders ==
    /\ Reads("providers")
    /\ LET line == Head(stdin)
           entries == [id \in DOMAIN line.records |-> ProviderDelta(id, line.records[id])]
       IN  /\ config' = [config EXCEPT !.providers = entries, !.roles = line.roles]
           /\ saving' = [is |-> "answered", reload |-> TRUE, next |-> saving.next,
                         file |-> [settings.copy EXCEPT !.providers = entries,
                                                        !.roles = line.roles],
                         records |-> line.records, roles |-> line.roles]
    /\ claimed' = claimed \cup Claiming(config')
    /\ UNCHANGED <<disk, keyVars, alive, question, checked, view, settings, changes>>

ReadBind ==
    /\ Reads("bind")
    /\ LET id == Head(stdin).id
           both == [role \in Roles |-> id]
       IN  /\ config' = [config EXCEPT !.roles = both, !.legacy = id]
           /\ saving' = [is |-> "answered", reload |-> FALSE, next |-> saving.next,
                         file |-> [disk EXCEPT !.roles = both, !.legacy = id]]
    /\ claimed' = claimed \cup Claiming(config')
    /\ UNCHANGED <<disk, keyVars, alive, question, checked, view, settings, changes>>

-------------------------------------------------------------------------------
(* A question to an agent; one at a time *)

Ask(agent) ==
    /\ view = "work" /\ question = NoQuestion
    /\ Dispatch([is |-> "ask"])
    /\ question' = [NoQuestion EXCEPT !.is = "sent", !.agent = agent, !.without = cleared]
    /\ UNCHANGED <<disk, keyVars, config, alive, checked, claimed, viewVars>>

\* The route's thread is started,
ReadAsk ==
    /\ Reads("ask")
    /\ question' = [question EXCEPT !.is = "started"]
    /\ UNCHANGED <<disk, keyVars, config, alive, checked, claimed, viewVars>>

\* takes the keys that CONFIG has then,
TakeSecrets ==
    /\ question.is = "started"
    /\ question' = [question EXCEPT !.is = "keyed", !.secrets = config.secrets]
    /\ UNCHANGED <<disk, keyVars, config, alive, stdin, checked, claimed, viewVars>>

\* and resolves the model by the rest of CONFIG later.  A check that passed is
\* remembered, one that asked for nothing is not.
Resolve ==
    LET agent == question.agent
        setup == [config EXCEPT !.secrets = question.secrets]
        id == RolesBound(setup)[ModelRole[agent]]
        result == Resolved(setup, agent)
    IN  /\ question.is = "keyed"
        /\ question' = [question EXCEPT
              !.is = "answered", !.id = id, !.result = result, !.secrets = {},
              !.used = IF result = "answers"
                       THEN {Given(RecordsOf(setup)[id], "api_key_ref")} \cap question.secrets
                       ELSE {}]
        /\ checked' = IF \/ Requires[agent] = {}
                         \/ result \in {"unknown provider", "no model", "not capable"}
                      THEN checked ELSE checked \cup {CheckKey(id, agent)}
        /\ UNCHANGED <<disk, keyVars, config, alive, stdin, claimed, viewVars>>

\* The view has the answer, or the error.
Answered ==
    /\ question.is = "answered" /\ question' = NoQuestion
    /\ UNCHANGED <<disk, keyVars, config, alive, stdin, checked, claimed, viewVars>>

EditorStep(id) ==
    \/ AddRecord(id) \/ DeleteRecord(id)
    \/ \E edit \in Edits: EditRecord(id, edit)
    \/ \E role \in Roles: ChangeRole(role, id)

\* The keys that a record names.
Refs == {Given(r, "api_key_ref") : r \in Range(Presets) \cup Range(Additions)} \cup Range(OldKeys)

ViewStep ==
    \/ ChooseGuided \/ FinishSetup \/ ChooseManual \/ Navigate \/ OpenSettings
    \/ WriteConfig \/ WriteConfigFails
    \/ \E id \in DOMAIN Presets: BindBothRolesTo(id)
    \/ \E id \in ProviderIds: EditorStep(id)

DaemonStep ==
    \/ ReadSecrets \/ ReadProviders \/ ReadBind \/ ReadAsk \/ TakeSecrets \/ Resolve
    \/ Answered \/ DaemonDies

SetupNext ==
    \/ Start \/ Quit \/ ViewStep \/ DaemonStep
    \/ \E old \in OldInstalls: OlderInstall(old[1], old[2])
    \/ SyncSecrets \/ \E ref \in Refs: SaveSecret(ref) \/ ClearSecret(ref)
    \/ \E agent \in Agents: Ask(agent)

SetupSpec == SetupInit /\ [][SetupNext]_setupVars

-------------------------------------------------------------------------------
\* A question that is put after clear_secret is done with a key is not answered
\* with that key, unless the user saved it again: not when lines wait in the
\* pipe, when the push was refused, nor when the app is started anew.
ClearedKeyNotUsed == question.used \cap question.without = {}

\* Types: a binding is of both roles or of none, in the daemon and on disk; a
\* saved record names its kind; the pipe holds what it has room for.
SetupTypeOK ==
    /\ \A roles \in {config.roles, disk.roles}:
          roles = Unbound \/ \A role \in Roles: roles[role] \in ProviderIds
    /\ \A id \in DOMAIN disk.providers: "kind" \in DOMAIN disk.providers[id]
    /\ disk.onboarded \in BOOLEAN /\ changes \in 0..MaxChanges /\ Len(stdin) \in 0..PipeRoom
    /\ view \in {"off", "welcome", "guided", "settings", "work"}

\* What the editor saved is what the daemon resolves, field by field: the
\* delta that is kept, laid over the preset, gives the record back.
SavedAsSent ==
    (alive /\ saving.is = "answered" /\ saving.reload) =>
        LET records == RecordsOf(config)
        IN  \A id \in DOMAIN saving.records: \A f \in DOMAIN saving.records[id]:
                records[id][f] = saving.records[id][f]

\* Neither the daemon nor config.json restates a shipped value, so that a
\* release can change it for everyone who never did.
DefaultsStayMovable ==
    \A providers \in {config.providers, disk.providers}:
        \A id \in DOMAIN providers \cap DOMAIN Presets: \A f \in DOMAIN providers[id]:
            providers[id][f] # Given(Presets[id], f)

\* The capability banner agrees with the calls: while the roles are ready no
\* agent is refused for want of a provider, a model or a key, and while they
\* are not some agent is refused.
ReadyMeansSetUp ==
    alive =>
        LET results == {Resolved(config, agent): agent \in Agents}
            unready == {"unknown provider", "no model", "no key"}
        IN  IF RolesReady(config) THEN results \cap unready = {}
            ELSE results \cap (unready \cup {"not capable"}) # {}

\* A part is looked up only by a model whose record claimed part facts in this
\* session: one agent's check never exempts another.
PartFactsWereClaimed ==
    (question.agent = "extract" /\ question.result \in {"answers", "no key"}) =>
        question.id \in claimed

\* A saved record comes back whole, and nothing is kept of it that is shipped.
DeltasExact == SavedAsSent /\ DefaultsStayMovable

\* Whom the daemon calls a model is whom it may: set up, and claimed able.
ReadinessTruthful == ReadyMeansSetUp /\ PartFactsWereClaimed

\* What the user saved still works after a restart: config.json carries a
\* record through, so no call meets a record without a kind or a field.
SavedRecordsStillWork == question.result \notin {"unknown kind", "raises KeyError"}

\* Setup that was offered stays offered: a later save keeps the mark.
OfferedOnce == [][disk.onboarded => disk'.onboarded]_disk

===============================================================================
