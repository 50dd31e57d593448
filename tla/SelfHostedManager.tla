------------------------- MODULE SelfHostedManager -------------------------
(***************************************************************************)
(* scripts/proxyflow.sh: the manager of a self-hosted installation.  It    *)
(* keeps a configuration file, a compose file, a data directory and        *)
(* backups, and drives one container through Docker.  A command is a       *)
(* sequence of steps with one outside effect each; under "set -e" a step   *)
(* that fails ends the command, and the script may be killed at any step.  *)
(*                                                                         *)
(* Not modelled: ports, the texts, status and logs (they only read), and   *)
(* two managers at a time.                                                 *)
(***************************************************************************)
EXTENDS Naturals, Sequences, FiniteSets

CONSTANTS
    None,         \* an absent file, line or container
    Dirs,         \* data directories
    DefaultDir,   \* ${INSTALL_HOME}/data
    Overrides,    \* what the environment of the user's shell may set
    MaxData,      \* bound on changes of the Runtime data
    MaxTokens,    \* bound on generated tokens
    MaxKills      \* bound on killed commands

ASSUME BoundAssumption ==
    /\ MaxData \in Nat /\ MaxTokens \in Nat \ {0} /\ MaxKills \in Nat

Channels == {"stable", "rc"}
Images == Channels \cup {"pin"}    \* :latest, :rc, an image given by the user
Tokens == 1 .. MaxTokens
OrNone(S) == S \cup {None}

ASSUME SettingAssumption ==
    /\ DefaultDir \in Dirs
    /\ Overrides \subseteq [image : {None, "pin"}, channel : OrNone(Channels),
                            dir : OrNone(Dirs)]

VARIABLES
    env,         \* .env: its lines, or None
    composeFile, \* whether compose.yaml is there
    container,   \* the service: image, mounted directory, token, running,
                 \* healthy: whether it answers when it runs
    data,        \* per directory: how often its content changed; 0: no data
    archive,     \* the newest backup
    job,         \* the command in progress
    tokens,      \* tokens generated
    kills        \* commands killed

vars == <<env, composeFile, container, data, archive, job, tokens, kills>>

-----------------------------------------------------------------------------
(* Settings                                                                *)

NoLines == [image |-> None, managed |-> None, channel |-> None,
            dir |-> None, token |-> None]

Line(key) == IF env = None THEN None ELSE env[key]

NoOverride == [image |-> None, channel |-> None, dir |-> None]

First(choices) ==
    choices[CHOOSE i \in DOMAIN choices :
              /\ choices[i] # None
              /\ \A j \in 1 .. i - 1 : choices[j] = None]

\* resolve_update_channel()
Channel(o) ==
    First(<<o.channel, Line("channel"),
            IF Line("managed") = TRUE /\ Line("image") = "rc" THEN "rc" ELSE None,
            "stable">>)

\* Mutant of Settings: a saved pin is not looked at.
SettingsManaged(o) ==
    [image |-> First(<<o.image, Channel(o)>>),
     managed |-> o.image = None,
     channel |-> Channel(o),
     dir |-> First(<<o.dir, Line("dir"), DefaultDir>>),
     token |-> Line("token")]

\* resolve_settings()
Settings(o) ==
    LET pinned == Line("managed") = FALSE /\ Line("image") # None
    IN [image |-> First(<<o.image, IF pinned THEN Line("image") ELSE None, Channel(o)>>),
        managed |-> o.image = None /\ ~pinned,
        channel |-> Channel(o),
        dir |-> First(<<o.dir, Line("dir"), DefaultDir>>),
        token |-> Line("token")]

\* The first n lines of a configuration, in the order of write_environment().
Prefix(lines, n) ==
    LET Written(k, value) == IF k <= n THEN value ELSE None
    IN  [image |-> Written(1, lines.image), managed |-> Written(2, lines.managed),
         channel |-> Written(3, lines.channel), dir |-> Written(4, lines.dir),
         token |-> Written(5, lines.token)]
-----------------------------------------------------------------------------
(* Commands                                                                *)

\* install_proxyflow()
InstallSteps == <<"env", "compose", "pull", "up", "health">>

\* backup_data()
BackupSteps == <<"stop", "tar", "again">>

\* Mutant of UpdateSteps: the configuration is saved before the new image runs.
UpdateSavingFirst == <<"stop", "tar", "again", "env", "compose", "pull", "up", "health">>

\* update_proxyflow(): a backup, the new version, the configuration.
UpdateSteps == <<"stop", "tar", "again", "compose", "pull", "up", "health", "env">>

Plan(cmd) ==
    CASE cmd = "install" -> InstallSteps
      [] cmd = "update" -> UpdateSteps
      [] cmd = "backup" -> BackupSteps
      [] cmd = "start" -> <<"up", "health">>
      [] cmd = "stop" -> <<"halt">>
      [] cmd = "restart" -> <<"bounce", "health">>
      [] cmd = "uninstall" -> <<"down">>
      [] cmd = "purge" -> <<"down", "confirm", "remove_data", "remove_home">>

Commands == {"install", "update", "backup", "start", "stop", "restart",
             "uninstall", "purge"}

\* What .env may hold, what a command has settled on, a container, a backup, a
\* command in progress.
Lines == [image : OrNone(Images), managed : OrNone(BOOLEAN), channel : OrNone(Channels),
          dir : OrNone(Dirs), token : OrNone(Tokens)]
Settled == [image : Images, managed : BOOLEAN, channel : Channels, dir : Dirs,
            token : OrNone(Tokens)]
Container == [image : Images, dir : Dirs, token : Tokens,
              running : BOOLEAN, healthy : BOOLEAN]
Backup == [dir : Dirs, data : 0 .. MaxData, whole : BOOLEAN, live : BOOLEAN]
Job == [cmd : Commands, at : Nat, set : Settled, archived : BOOLEAN,
        stopped : BOOLEAN, wasUp : BOOLEAN, before : 0 .. MaxData]

ASSUME NoneAssumption ==
    /\ None \notin Images /\ None \notin Dirs /\ None \notin BOOLEAN /\ None \notin Nat
    /\ None \notin Lines /\ None \notin Container /\ None \notin Backup /\ None \notin Job

At(step) == job # None /\ Plan(job.cmd)[job.at] = step
Done == job.at = Len(Plan(job.cmd))
Proceed == job' = IF Done THEN None ELSE [job EXCEPT !.at = @ + 1]
Die == job' = None

Running == container # None /\ container.running
Healthy == Running /\ container.healthy

\* Compose refuses a file whose token is not set, whatever it is asked to do.
ComposeWorks == composeFile /\ job.set.token # None

\* A step that hands one request to Docker, which may be refused.
Ask(effect) ==
    \/ ComposeWorks /\ effect /\ Proceed
    \/ UNCHANGED container /\ Die

Files == <<env, composeFile>>
World == <<data, archive>>

\* resolve_settings(), require_installation() and require_docker().  Commands
\* that create no container and touch no directory ignore the shell's settings.
Begin(cmd, o) ==
    /\ job = None
    /\ cmd # "install" => env # None /\ composeFile
    /\ cmd \in {"stop", "restart", "uninstall"} => o = NoOverride
    /\ job' = [cmd |-> cmd, at |-> 1, set |-> Settings(o), archived |-> FALSE, stopped |-> FALSE,
               wasUp |-> cmd \in {"backup", "update"} /\ Running,
               before |-> IF cmd = "update" THEN data[Settings(o).dir] ELSE 0]
    /\ UNCHANGED <<Files, World, container, tokens, kills>>

\* write_environment(): keeps the token or generates one.
WriteEnvironment ==
    /\ At("env")
    /\ \E token \in IF job.set.token # None THEN {job.set.token}
                    ELSE {n \in Tokens : n = tokens + 1} :
          /\ env' = [job.set EXCEPT !.token = token]
          /\ tokens' = IF job.set.token # None THEN tokens ELSE token
          /\ job' = IF Done THEN None ELSE [job EXCEPT !.at = @ + 1, !.set.token = token]
    /\ UNCHANGED <<composeFile, World, container, kills>>

WriteCompose ==
    /\ At("compose")
    /\ composeFile' = TRUE
    /\ Proceed
    /\ UNCHANGED <<env, World, container, tokens, kills>>

Pull ==
    /\ At("pull")
    /\ Ask(UNCHANGED container)
    /\ UNCHANGED <<Files, World, tokens, kills>>

\* compose up -d starts the service, and recreates the container when its image
\* or its configuration changed.
Up ==
    /\ At("up")
    /\ \E healthy \in BOOLEAN :
          Ask(container' = [image |-> job.set.image, dir |-> job.set.dir,
                            token |-> job.set.token, running |-> TRUE,
                            healthy |-> healthy])
    /\ UNCHANGED <<Files, World, tokens, kills>>

\* wait_for_health(): gives up after a minute, which a slow start exceeds, too.
WaitForHealth ==
    /\ At("health")
    /\ ((Healthy /\ Proceed) \/ Die)
    /\ UNCHANGED <<Files, World, container, tokens, kills>>

\* backup_data(): stop the container if compose ps shows it running.  When ps
\* fails the container counts as stopped.
Stop ==
    /\ At("stop")
    /\ \/ /\ ComposeWorks /\ Running
          /\ container' = [container EXCEPT !.running = FALSE]
          /\ job' = [job EXCEPT !.at = @ + 1, !.stopped = TRUE]
       \/ /\ ComposeWorks /\ Running
          /\ Die /\ UNCHANGED container
       \/ /\ ~(ComposeWorks /\ Running)
          /\ Proceed
          /\ UNCHANGED container
    /\ UNCHANGED <<Files, World, tokens, kills>>

Archive(whole) ==
    [dir |-> job.set.dir, data |-> data[job.set.dir], whole |-> whole,
     live |-> Running /\ container.dir = job.set.dir]

\* Mutant of Tar: the script runs under "set -e" here, too, and dies at once.
TarFatal ==
    /\ At("tar")
    /\ \E ok \in BOOLEAN :
          /\ archive' = Archive(ok)
          /\ IF ok THEN job' = [job EXCEPT !.at = @ + 1, !.archived = TRUE] ELSE Die
    /\ UNCHANGED <<Files, data, container, tokens, kills>>

\* tar, whose failure is kept until the service has been started again.
Tar ==
    /\ At("tar")
    /\ \E ok \in BOOLEAN :
          /\ archive' = Archive(ok)
          /\ job' = [job EXCEPT !.at = @ + 1, !.archived = ok]
    /\ UNCHANGED <<Files, data, container, tokens, kills>>

\* Mutant of StartAgain: the status of tar is forgotten.
StartAgainForgetting ==
    /\ At("again")
    /\ \/ /\ job.stopped
          /\ Ask(container' = [container EXCEPT !.running = TRUE])
       \/ ~job.stopped /\ UNCHANGED container /\ Proceed
    /\ UNCHANGED <<Files, World, tokens, kills>>

\* compose start, then the failure of tar.
StartAgain ==
    /\ At("again")
    /\ \/ /\ job.stopped /\ ComposeWorks
          /\ container' = [container EXCEPT !.running = TRUE]
          /\ IF job.archived THEN Proceed ELSE Die
       \/ /\ job.stopped
          /\ Die /\ UNCHANGED container
       \/ /\ ~job.stopped /\ UNCHANGED container
          /\ IF job.archived THEN Proceed ELSE Die
    /\ UNCHANGED <<Files, World, tokens, kills>>

\* stop_proxyflow(), restart_proxyflow(), compose down.
Halt ==
    /\ At("halt")
    /\ Ask(container' = IF container = None THEN None
                        ELSE [container EXCEPT !.running = FALSE])
    /\ UNCHANGED <<Files, World, tokens, kills>>

Bounce ==
    /\ At("bounce")
    /\ Ask(container' = IF container = None THEN None
                        ELSE [container EXCEPT !.running = TRUE])
    /\ UNCHANGED <<Files, World, tokens, kills>>

Down ==
    /\ At("down")
    /\ Ask(container' = None)
    /\ UNCHANGED <<Files, World, tokens, kills>>

\* uninstall --purge: the user confirms or not; then the data directory is
\* removed if it lies elsewhere, and the installation with its backups.
Confirm ==
    /\ At("confirm")
    /\ (Proceed \/ Die)
    /\ UNCHANGED <<Files, World, container, tokens, kills>>

RemoveData ==
    /\ At("remove_data")
    /\ data' = IF job.set.dir = DefaultDir THEN data ELSE [data EXCEPT ![job.set.dir] = 0]
    /\ Proceed
    /\ UNCHANGED <<Files, archive, container, tokens, kills>>

RemoveHome ==
    /\ At("remove_home")
    /\ env' = None /\ composeFile' = FALSE /\ archive' = None
    /\ data' = [data EXCEPT ![DefaultDir] = 0]
    /\ Proceed
    /\ UNCHANGED <<container, tokens, kills>>

\* The script is killed.  What it was writing stays half written.
Kill ==
    /\ job # None /\ kills < MaxKills
    /\ kills' = kills + 1
    /\ Die
    /\ env' \in {env} \cup (IF At("env") THEN {Prefix(job.set, n) : n \in 0 .. 4} ELSE {})
    /\ archive' \in {archive} \cup (IF At("tar") THEN {Archive(FALSE)} ELSE {})
    /\ UNCHANGED <<composeFile, data, container, tokens>>

\* The service changes its data.
Serve ==
    /\ Healthy
    /\ data[container.dir] < MaxData
    /\ data' = [data EXCEPT ![container.dir] = @ + 1]
    /\ UNCHANGED <<Files, archive, container, job, tokens, kills>>
-----------------------------------------------------------------------------
Init ==
    /\ env = None /\ composeFile = FALSE
    /\ container = None
    /\ data = [d \in Dirs |-> 0]
    /\ archive = None /\ job = None
    /\ tokens = 0 /\ kills = 0

Step ==
    \/ WriteEnvironment \/ WriteCompose \/ Pull \/ Up \/ WaitForHealth
    \/ Stop \/ Tar \/ StartAgain
    \/ Halt \/ Bounce \/ Down \/ Confirm \/ RemoveData \/ RemoveHome

Next ==
    \/ \E cmd \in Commands, o \in Overrides : Begin(cmd, o)
    \/ Step \/ Kill \/ Serve

Spec == Init /\ [][Next]_vars
-----------------------------------------------------------------------------
TypeOK ==
    /\ env \in OrNone(Lines) /\ composeFile \in BOOLEAN
    /\ container \in OrNone(Container)
    /\ data \in [Dirs -> 0 .. MaxData]
    /\ archive \in OrNone(Backup)
    /\ job \in OrNone(Job)
    /\ job # None => job.at \in 1 .. Len(Plan(job.cmd))
    /\ tokens \in 0 .. MaxTokens /\ kills \in 0 .. MaxKills

\* "update creates a backup before pulling and recreating the service": when an
\* update replaces the container, a whole archive of the data it found exists.
\* It is "consistent", taken while the service stood still, unless a command
\* was killed: one that was killed while it wrote the configuration may leave
\* no token in it, so that no later command sees the container as running.
UpdateIsBackedUp ==
    [][(At("up") /\ job.cmd = "update" /\ container' # container)
          => /\ archive # None /\ archive.whole /\ archive.dir = job.set.dir
             /\ archive.data >= job.before
             /\ archive.live => kills > 0]_vars

\* A backup or an update that is not killed leaves the service running when it
\* found it running, also when tar, the pull or the new version fails, unless
\* Docker itself refuses to start what was stopped.
ServiceComesBack ==
    [][(/\ job # None /\ job' = None /\ kills' = kills
        /\ job.cmd \in {"backup", "update"} /\ job.wasUp)
          => Running' \/ (At("again") /\ job.stopped /\ container' = container)]_vars

\* An image the user pinned is not replaced by a channel, as long as the lines
\* that say so are in the configuration.
PinStays ==
    [][(Line("managed") = FALSE /\ Line("image") # None /\ env' # None)
          => env'.image \in {"pin", None} /\ env'.managed \in {FALSE, None}]_vars

\* An update saves what it deployed, and only once that is healthy: the channel,
\* the directory and the token in the configuration are those of the service.
SavedIsDeployed ==
    [][(At("env") /\ job.cmd = "update" /\ env' # env /\ kills' = kills)
          => /\ Healthy
             /\ container.image = env'.image
             /\ container.dir = env'.dir /\ container.token = env'.token]_vars

=============================================================================
