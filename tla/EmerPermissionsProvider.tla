----------------------- MODULE EmerPermissionsProvider -----------------------
(***************************************************************************)
(* The permissions provider (src/daemon/emer-permissions-provider.c): the  *)
(* key file that says whether events may be recorded and uploaded.         *)
(*                                                                         *)
(* The provider keeps a copy of the file in memory.  The setters change    *)
(* the copy and schedule ONE write of it from an idle source; the reader   *)
(* replaces the copy by what is on disk, whether or not a write is still   *)
(* scheduled.  The definitions below are the state changes of those        *)
(* functions.  EmerDaemon, which is told of each change by a signal,       *)
(* extends this module and composes them with its own state.               *)
(***************************************************************************)
EXTENDS Naturals

CONSTANTS
    NoFile,               \* the config file is missing, or cannot be parsed
    InitialConfigs,       \* what the config file may hold at the first start
    ConfigEdits,          \* what an administrator may write to the file
    OstreeIsStaging,      \* the OSTree URL contains "staging"
    UrlNamesEnvironment,  \* the server URL contains "${environment}"
    Faults                \* the operations that may fail, by name

\* A key of the file is "true", "false" or not there at all.
Key == {"true", "false", "absent"}

Environment == {"dev", "test", "production"}

Config == [daemon : Key, uploading : Key, environment : Environment]

ASSUME ProviderAssumption ==
    /\ NoFile \notin Config
    /\ InitialConfigs \subseteq Config \cup {NoFile}
    /\ ConfigEdits \subseteq Config \cup {NoFile}
    /\ OstreeIsStaging \in BOOLEAN
    /\ UrlNamesEnvironment \in BOOLEAN

VARIABLES
    permissions,          \* the key file in memory
    configFile,           \* the key file on disk
    writeScheduled        \* write_config_file_idle_id # 0

\* History variable: since the file was last read or written, a write of it has
\* failed or an administrator has edited it.  No step depends on it.
VARIABLE diverged

providerVars == <<permissions, configFile, writeScheduled, diverged>>

ProviderTypeOK ==
    /\ permissions \in Config
    /\ configFile \in Config \cup {NoFile}
    /\ writeScheduled \in BOOLEAN
    /\ diverged \in BOOLEAN

-----------------------------------------------------------------------------
(* What the copy in memory says.  g_key_file_get_boolean returns FALSE for *)
(* a key that is not there; the uploading getter then overrides it.        *)

DaemonEnabled(config) == config.daemon = "true"

UploadingEnabled(config) == config.uploading # "false"

KeyOf(enabled) == IF enabled THEN "true" ELSE "false"

\* FALLBACK_CONFIG_FILE_DATA
Fallback ==
    [daemon |-> "true", uploading |-> "false", environment |-> "production"]

\* The copy in memory after read_config_file_sync.
Loaded == IF configFile = NoFile THEN Fallback ELSE configFile

\* emer_permissions_provider_get_environment: "production" becomes "dev" on a
\* system that follows a staging OSTree.
EnvironmentRead ==
    IF OstreeIsStaging /\ Loaded.environment = "production"
    THEN [Loaded EXCEPT !.environment = "dev"]
    ELSE Loaded

-----------------------------------------------------------------------------
(* The operations.                                                         *)

GetEnvironment ==
    /\ permissions' = EnvironmentRead
    /\ writeScheduled' = (writeScheduled \/ configFile = NoFile
                                         \/ EnvironmentRead # Loaded)
    /\ diverged' = FALSE
    /\ UNCHANGED configFile

\* emer_permissions_provider_get_server_url
GetServerUrl ==
    IF UrlNamesEnvironment THEN GetEnvironment ELSE UNCHANGED providerVars

\* on_set_enabled calls both setters; they notify and schedule the write.
SetBothEnabled(enabled) ==
    /\ permissions' = [permissions EXCEPT !.daemon = KeyOf(enabled),
                                          !.uploading = KeyOf(enabled)]
    /\ writeScheduled' = TRUE
    /\ UNCHANGED <<configFile, diverged>>

\* An error in WriteConfigFileIdle: the write is forgotten.
WriteNothing ==
    /\ writeScheduled
    /\ writeScheduled' = FALSE
    /\ UNCHANGED <<permissions, configFile, diverged>>

\* write_config_file_idle_cb; a write that fails is only logged.
WriteConfigFileIdle ==
    /\ writeScheduled
    /\ \/ /\ configFile' = permissions
          /\ diverged' = FALSE
       \/ /\ "config_write" \in Faults
          /\ diverged' = TRUE
          /\ UNCHANGED configFile
    /\ writeScheduled' = FALSE
    /\ UNCHANGED permissions

\* The file is edited by hand; the provider does not notice.
EditConfigFile ==
    /\ configFile' \in ConfigEdits
    /\ diverged' = TRUE
    /\ UNCHANGED <<permissions, writeScheduled>>

=============================================================================
