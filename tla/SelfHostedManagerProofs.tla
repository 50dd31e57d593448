----------------------- MODULE SelfHostedManagerProofs -----------------------
(***************************************************************************)
(* Proofs about SelfHostedManager, for every set of directories and of     *)
(* overrides of the shell, and any number of commands, tokens and kills.   *)
(***************************************************************************)
EXTENDS SelfHostedManager, TLAPS

Archives == {"backup", "update"}

(* A configuration that is not managed names an image of the user's, and   *)
(* so does the command that found one.                                     *)
Pinned(lines) == lines.managed = FALSE => lines.image = "pin"

PinInv ==
    /\ env # None => Pinned(env)
    /\ job # None => /\ Pinned(job.set)
                     /\ Line("managed") = FALSE => job.set.managed = FALSE

(* Compose can see the container unless a kill has cut the configuration.  *)
InstallInv ==
    /\ container # None => composeFile /\ (kills = 0 => Line("token") # None)
    /\ job # None => job.set.token = Line("token")
    /\ job # None /\ job.cmd = "purge" /\ job.at > 1 => container = None

Archived ==
    /\ archive # None /\ archive.whole /\ archive.dir = job.set.dir
    /\ archive.data >= job.before
    /\ archive.live => kills > 0

(* How far a backup has come. *)
ArchiveInv ==
    job # None /\ job.cmd \in Archives =>
        /\ job.before <= data[job.set.dir]
        /\ job.at = 2 /\ Running => kills > 0
        /\ job.at > 2 /\ job.archived => Archived
        /\ job.at > 3 => job.archived

(* The service runs as before, or was stopped by the backup under way.     *)
ServiceInv ==
    job # None /\ job.cmd \in Archives =>
        /\ job.wasUp => Running \/ (job.stopped /\ job.at \in {2, 3})
        /\ job.stopped /\ job.at \in {2, 3} => container # None
        /\ job.at = 1 => ~job.stopped

(* What an update has started is what it will save. *)
DeployInv ==
    job # None /\ job.cmd = "update" /\ job.at > 6 =>
        /\ Running /\ (job.at > 7 => Healthy)
        /\ container.image = job.set.image
        /\ container.dir = job.set.dir /\ container.token = job.set.token

IInv == TypeOK /\ PinInv /\ InstallInv /\ ArchiveInv /\ ServiceInv /\ DeployInv

-----------------------------------------------------------------------------
(* Commands and settings.                                                  *)

LEMMA Plans ==
    /\ Plan("install") = <<"env", "compose", "pull", "up", "health">>
    /\ Plan("update") = <<"stop", "tar", "again", "compose", "pull", "up", "health", "env">>
    /\ Plan("backup") = <<"stop", "tar", "again">>
    /\ Plan("start") = <<"up", "health">>
    /\ Plan("stop") = <<"halt">>
    /\ Plan("restart") = <<"bounce", "health">>
    /\ Plan("uninstall") = <<"down">>
    /\ Plan("purge") = <<"down", "confirm", "remove_data", "remove_home">>
BY DEF Plan, InstallSteps, BackupSteps, UpdateSteps

\* Where each step is in the plans.
LEMMA Places ==
  ASSUME TypeOK, job # None
  PROVE  /\ At("stop") => job.cmd \in Archives /\ job.at = 1 /\ ~Done
         /\ At("tar") => job.cmd \in Archives /\ job.at = 2 /\ ~Done
         /\ At("again") => job.cmd \in Archives /\ job.at = 3 /\ (Done <=> job.cmd = "backup")
         /\ job.cmd = "update" =>
               /\ At("compose") => job.at = 4 /\ ~Done
               /\ At("pull") => job.at = 5 /\ ~Done
               /\ At("up") => job.at = 6 /\ ~Done
               /\ At("health") => job.at = 7 /\ ~Done
               /\ At("env") => job.at = 8 /\ Done
         /\ At("env") => job.cmd \in {"install", "update"}
         /\ At("compose") \/ At("pull") => job.cmd \in {"install", "update"}
         /\ At("up") => job.cmd \in {"install", "update", "start"}
         /\ At("health") => job.cmd \in {"install", "update", "start", "restart"}
         /\ At("halt") \/ At("bounce") => job.cmd \in {"stop", "restart"}
         /\ At("down") => job.cmd \in {"uninstall", "purge"}
         /\ At("confirm") \/ At("remove_data") => job.cmd = "purge" /\ job.at > 1
         /\ At("remove_home") => job.cmd = "purge" /\ job.at > 1 /\ Done
         /\ Len(Plan(job.cmd)) \in Nat
<1>1. job.cmd \in Commands /\ job.at \in 1 .. Len(Plan(job.cmd))
  BY NoneAssumption DEF TypeOK, OrNone, Job
<1>2. CASE job.cmd = "update"
  <2>1. Plan(job.cmd) = <<"stop", "tar", "again", "compose", "pull", "up", "health", "env">>
    BY <1>2, Plans
  <2>2. Len(Plan(job.cmd)) = 8 /\ job.at \in 1 .. 8
    BY <1>1, <2>1
  <2>3. /\ Plan(job.cmd)[1] = "stop"
        /\ Plan(job.cmd)[2] = "tar"
        /\ Plan(job.cmd)[3] = "again"
        /\ Plan(job.cmd)[4] = "compose"
        /\ Plan(job.cmd)[5] = "pull"
        /\ Plan(job.cmd)[6] = "up"
        /\ Plan(job.cmd)[7] = "health"
        /\ Plan(job.cmd)[8] = "env"
    BY <2>1
  <2>4. ASSUME NEW s, At(s)
        PROVE  \/ s = "stop" /\ job.at = 1
               \/ s = "tar" /\ job.at = 2
               \/ s = "again" /\ job.at = 3
               \/ s = "compose" /\ job.at = 4
               \/ s = "pull" /\ job.at = 5
               \/ s = "up" /\ job.at = 6
               \/ s = "health" /\ job.at = 7
               \/ s = "env" /\ job.at = 8
    BY <2>2, <2>3, <2>4 DEF At
  <2>5. Done <=> job.at = 8
    BY <2>2 DEF Done
  <2>6. QED  BY <1>2, <2>4, <2>5 DEF Archives
<1>3. CASE job.cmd = "backup"
  <2>1. Plan(job.cmd) = <<"stop", "tar", "again">>
    BY <1>3, Plans
  <2>2. Len(Plan(job.cmd)) = 3 /\ job.at \in 1 .. 3
    BY <1>1, <2>1
  <2>3. /\ Plan(job.cmd)[1] = "stop"
        /\ Plan(job.cmd)[2] = "tar"
        /\ Plan(job.cmd)[3] = "again"
    BY <2>1
  <2>4. ASSUME NEW s, At(s)
        PROVE  \/ s = "stop" /\ job.at = 1
               \/ s = "tar" /\ job.at = 2
               \/ s = "again" /\ job.at = 3
    BY <2>2, <2>3, <2>4 DEF At
  <2>5. Done <=> job.at = 3
    BY <2>2 DEF Done
  <2>6. QED  BY <1>3, <2>4, <2>5 DEF Archives
<1>4. CASE job.cmd = "install"
  <2>1. Plan(job.cmd) = <<"env", "compose", "pull", "up", "health">>
    BY <1>4, Plans
  <2>2. Len(Plan(job.cmd)) = 5 /\ job.at \in 1 .. 5
    BY <1>1, <2>1
  <2>3. /\ Plan(job.cmd)[1] = "env"
        /\ Plan(job.cmd)[2] = "compose"
        /\ Plan(job.cmd)[3] = "pull"
        /\ Plan(job.cmd)[4] = "up"
        /\ Plan(job.cmd)[5] = "health"
    BY <2>1
  <2>4. ASSUME NEW s, At(s)
        PROVE  \/ s = "env" /\ job.at = 1
               \/ s = "compose" /\ job.at = 2
               \/ s = "pull" /\ job.at = 3
               \/ s = "up" /\ job.at = 4
               \/ s = "health" /\ job.at = 5
    BY <2>2, <2>3, <2>4 DEF At
  <2>5. Done <=> job.at = 5
    BY <2>2 DEF Done
  <2>6. QED  BY <1>4, <2>4, <2>5 DEF Archives
<1>5. CASE job.cmd = "purge"
  <2>1. Plan(job.cmd) = <<"down", "confirm", "remove_data", "remove_home">>
    BY <1>5, Plans
  <2>2. Len(Plan(job.cmd)) = 4 /\ job.at \in 1 .. 4
    BY <1>1, <2>1
  <2>3. /\ Plan(job.cmd)[1] = "down"
        /\ Plan(job.cmd)[2] = "confirm"
        /\ Plan(job.cmd)[3] = "remove_data"
        /\ Plan(job.cmd)[4] = "remove_home"
    BY <2>1
  <2>4. ASSUME NEW s, At(s)
        PROVE  \/ s = "down" /\ job.at = 1
               \/ s = "confirm" /\ job.at = 2
               \/ s = "remove_data" /\ job.at = 3
               \/ s = "remove_home" /\ job.at = 4
    BY <2>2, <2>3, <2>4 DEF At
  <2>5. Done <=> job.at = 4
    BY <2>2 DEF Done
  <2>6. QED  BY <1>5, <2>4, <2>5 DEF Archives
<1>6. CASE job.cmd = "start"
  <2>1. Plan(job.cmd) = <<"up", "health">>
    BY <1>6, Plans
  <2>2. Len(Plan(job.cmd)) = 2 /\ job.at \in 1 .. 2
    BY <1>1, <2>1
  <2>3. /\ Plan(job.cmd)[1] = "up"
        /\ Plan(job.cmd)[2] = "health"
    BY <2>1
  <2>4. QED  BY <1>6, <2>2, <2>3 DEF At, Done, Archives
<1>7. CASE job.cmd = "restart"
  <2>1. Plan(job.cmd) = <<"bounce", "health">>
    BY <1>7, Plans
  <2>2. Len(Plan(job.cmd)) = 2 /\ job.at \in 1 .. 2
    BY <1>1, <2>1
  <2>3. /\ Plan(job.cmd)[1] = "bounce"
        /\ Plan(job.cmd)[2] = "health"
    BY <2>1
  <2>4. QED  BY <1>7, <2>2, <2>3 DEF At, Done, Archives
<1>8. CASE job.cmd = "stop"
  <2>1. Plan(job.cmd) = <<"halt">>
    BY <1>8, Plans
  <2>2. Len(Plan(job.cmd)) = 1 /\ job.at \in 1 .. 1
    BY <1>1, <2>1
  <2>3. QED  BY <1>8, <2>1, <2>2 DEF At, Done, Archives
<1>9. CASE job.cmd = "uninstall"
  <2>1. Plan(job.cmd) = <<"down">>
    BY <1>9, Plans
  <2>2. Len(Plan(job.cmd)) = 1 /\ job.at \in 1 .. 1
    BY <1>1, <2>1
  <2>3. QED  BY <1>9, <2>1, <2>2 DEF At, Done, Archives
<1>10. QED  BY <1>1, <1>2, <1>3, <1>4, <1>5, <1>6, <1>7, <1>8, <1>9 DEF Commands

\* The first choice that is made.
LEMMA FirstIs ==
  ASSUME NEW choices, NEW n \in Nat, DOMAIN choices = 1 .. n,
         NEW i \in 1 .. n, choices[i] # None, \A j \in 1 .. i - 1 : choices[j] = None
  PROVE  First(choices) = choices[i]
<1> DEFINE P(k) == choices[k] # None /\ \A j \in 1 .. k - 1 : choices[j] = None
<1>1. i \in DOMAIN choices /\ P(i)
  OBVIOUS
<1>2. PICK k \in DOMAIN choices : k = CHOOSE x \in DOMAIN choices : P(x)
  BY <1>1
<1>3. k \in DOMAIN choices /\ P(k)
  BY <1>1, <1>2
<1>4. k \in 1 .. n
  BY <1>3
<1>5. k = i
  <2>1. ~(k < i)
    BY <1>3, <1>4
  <2>2. ~(i < k)
    BY <1>3, <1>4
  <2>3. QED  BY <1>4, <2>1, <2>2
<1>6. QED  BY <1>2, <1>5 DEF First

\* A choice of three, the last of which is always made.
LEMMA FirstOfThree ==
  ASSUME NEW a, NEW b, NEW c, c # None
  PROVE  First(<<a, b, c>>) = IF a # None THEN a ELSE IF b # None THEN b ELSE c
<1> DEFINE choices == <<a, b, c>>
<1>1. DOMAIN choices = 1 .. 3 /\ choices[1] = a /\ choices[2] = b /\ choices[3] = c
  OBVIOUS
<1> HIDE DEF choices
<1>2. PICK i \in 1 .. 3 : choices[i] # None /\ \A j \in 1 .. i - 1 : choices[j] = None
  <2>1. CASE a # None  BY <1>1, <2>1
  <2>2. CASE a = None /\ b # None  BY <1>1, <2>2
  <2>3. CASE a = None /\ b = None  BY <1>1, <2>3
  <2>4. QED  BY <2>1, <2>2, <2>3
<1>3. First(choices) = choices[i]
  BY <1>1, <1>2, FirstIs
<1>4. First(choices) = IF a # None THEN a ELSE IF b # None THEN b ELSE c
  BY <1>1, <1>2, <1>3
<1>5. QED  BY <1>4 DEF choices

\* What a command settles on: an image, and the user's own if one is pinned.
LEMMA SettingsAreSettled ==
  ASSUME TypeOK, env # None => Pinned(env), NEW o \in Overrides
  PROVE  /\ Settings(o) \in Settled /\ Settings(o).token = Line("token")
         /\ Pinned(Settings(o))
         /\ Line("managed") = FALSE => Settings(o).managed = FALSE
<1>1. /\ o.image \in {None, "pin"} /\ o.channel \in OrNone(Channels) /\ o.dir \in OrNone(Dirs)
      /\ None \notin Images /\ None \notin Channels /\ None \notin Dirs /\ None \notin BOOLEAN
  BY SettingAssumption, NoneAssumption DEF Images
<1>2. /\ Line("image") \in OrNone(Images) /\ Line("managed") \in OrNone(BOOLEAN)
      /\ Line("channel") \in OrNone(Channels) /\ Line("dir") \in OrNone(Dirs)
      /\ Line("token") \in OrNone(Tokens)
      /\ Line("managed") = FALSE => Line("image") = "pin"
  BY <1>1 DEF TypeOK, Line, Lines, OrNone, Pinned
<1>3. Channel(o) \in Channels
  <2> DEFINE guess == IF Line("managed") = TRUE /\ Line("image") = "rc" THEN "rc" ELSE None
             choices == <<o.channel, Line("channel"), guess, "stable">>
  <2>1. /\ DOMAIN choices = 1 .. 4
        /\ choices[1] = o.channel /\ choices[2] = Line("channel")
        /\ choices[3] = guess /\ choices[4] = "stable"
    OBVIOUS
  <2>2. guess \in {"rc", None} /\ "stable" # None
    BY <1>1 DEF Channels
  <2>3. PICK i \in 1 .. 4 : choices[i] # None /\ \A j \in 1 .. i - 1 : choices[j] = None
    <3> HIDE DEF choices
    <3>1. CASE choices[1] # None  BY <3>1
    <3>2. CASE choices[1] = None /\ choices[2] # None  BY <3>2
    <3>3. CASE choices[1] = None /\ choices[2] = None /\ choices[3] # None  BY <3>3
    <3>4. CASE choices[1] = None /\ choices[2] = None /\ choices[3] = None  BY <2>1, <2>2, <3>4
    <3>5. QED  BY <3>1, <3>2, <3>3, <3>4
  <2> HIDE DEF choices, guess
  <2>4. First(choices) = choices[i]
    BY <2>1, <2>3, FirstIs
  <2>5. choices[i] \in Channels
    BY <1>1, <1>2, <2>1, <2>2, <2>3 DEF Channels, OrNone
  <2>6. QED  BY <2>4, <2>5 DEF Channel, choices, guess
<1> DEFINE pinned == Line("managed") = FALSE /\ Line("image") # None
           images == <<o.image, IF pinned THEN Line("image") ELSE None, Channel(o)>>
           dirs == <<o.dir, Line("dir"), DefaultDir>>
<1>4. First(images) = IF o.image = "pin" \/ pinned THEN "pin" ELSE Channel(o)
  <2>1. "pin" # None /\ Channel(o) # None
    BY <1>1, <1>3 DEF Images
  <2>2. First(images) = IF o.image # None THEN o.image
                        ELSE IF pinned /\ Line("image") # None THEN Line("image")
                        ELSE Channel(o)
    BY <2>1, FirstOfThree
  <2>3. QED  BY <1>1, <1>2, <2>1, <2>2
<1>5. First(dirs) \in Dirs
  <2>1. DefaultDir # None
    BY <1>1, SettingAssumption
  <2>2. First(dirs) = IF o.dir # None THEN o.dir
                      ELSE IF Line("dir") # None THEN Line("dir") ELSE DefaultDir
    BY <2>1, FirstOfThree
  <2>3. QED  BY <1>1, <1>2, <2>2, SettingAssumption DEF OrNone
<1>6. Settings(o) = [image |-> First(images), managed |-> o.image = None /\ ~pinned,
                     channel |-> Channel(o), dir |-> First(dirs), token |-> Line("token")]
  BY DEF Settings
<1> HIDE DEF images, dirs, pinned
<1>7. First(images) \in Images /\ "pin" # None
  BY <1>1, <1>3, <1>4 DEF Images
<1>8. Settings(o) \in Settled
  BY <1>2, <1>3, <1>5, <1>6, <1>7 DEF Settled
<1>9. /\ Settings(o).managed = (o.image = None /\ ~pinned)
      /\ Settings(o).image = First(images) /\ Settings(o).token = Line("token")
  BY <1>6
<1>10. Line("managed") = FALSE => pinned
  BY <1>2, <1>7 DEF pinned
<1>11. Settings(o).managed = FALSE => o.image = "pin" \/ pinned
  BY <1>1, <1>9
<1>12. Settings(o).managed = FALSE => Settings(o).image = "pin"
  BY <1>4, <1>9, <1>11
<1>13. QED  BY <1>8, <1>9, <1>10, <1>12 DEF Pinned

-----------------------------------------------------------------------------
(* Steps.                                                                  *)

\* How a command goes on.
LEMMA Proceeding ==
  ASSUME TypeOK, job # None, Proceed \/ Die
  PROVE  /\ job' \in OrNone(Job)
         /\ job' # None =>
               /\ ~Done /\ job'.at = job.at + 1 /\ job'.at \in 1 .. Len(Plan(job'.cmd))
               /\ job'.cmd = job.cmd /\ job'.set = job.set /\ job'.archived = job.archived
               /\ job'.stopped = job.stopped /\ job'.wasUp = job.wasUp
               /\ job'.before = job.before
<1>1. job \in Job /\ job.at \in Nat /\ job.at \in 1 .. Len(Plan(job.cmd))
  BY DEF TypeOK, OrNone, Job
<1>2. CASE job' = None
  BY <1>2 DEF OrNone
<1>3. CASE job' # None
  <2>1. ~Done /\ job' = [job EXCEPT !.at = @ + 1]
    BY <1>3 DEF Proceed, Die
  <2>2. job' \in Job
    BY <1>1, <2>1 DEF Job
  <2>3. /\ job'.at = job.at + 1
        /\ job'.cmd = job.cmd /\ job'.set = job.set /\ job'.archived = job.archived
        /\ job'.stopped = job.stopped /\ job'.wasUp = job.wasUp
        /\ job'.before = job.before
    BY <1>1, <2>1 DEF Job
  <2>4. job.at # Len(Plan(job.cmd))
    BY <2>1 DEF Done
  <2>5. QED  BY <1>1, <2>1, <2>2, <2>3, <2>4 DEF OrNone
<1>4. QED  BY <1>2, <1>3

GoesOn ==
    /\ job' \in OrNone(Job)
    /\ job' # None =>
          /\ ~Done /\ job'.at = job.at + 1 /\ job'.at \in 1 .. Len(Plan(job'.cmd))
          /\ job'.cmd = job.cmd /\ job'.set = job.set
          /\ job'.wasUp = job.wasUp /\ job'.before = job.before

\* A step that touches nothing but the container.
LEMMA ContainerStep ==
  ASSUME IInv, job # None, GoesOn, UNCHANGED <<Files, World, tokens, kills>>,
         container' \in OrNone(Container),
         container' # None => container # None \/ ComposeWorks,
         job.cmd = "purge" /\ job' # None => container' = None
  PROVE  TypeOK' /\ PinInv' /\ InstallInv'
<1>1. /\ env' = env /\ composeFile' = composeFile /\ data' = data /\ archive' = archive
      /\ tokens' = tokens /\ kills' = kills
  BY DEF Files, World
<1>2. TypeOK'
  BY <1>1 DEF IInv, TypeOK, GoesOn
<1>3. Line("managed")' = Line("managed") /\ Line("token")' = Line("token")
  BY <1>1 DEF Line
<1>4. PinInv'
  BY <1>1, <1>3 DEF IInv, PinInv, Pinned, GoesOn
<1>5. ComposeWorks => composeFile /\ Line("token") # None
  BY DEF ComposeWorks, IInv, InstallInv
<1>6. InstallInv'
  BY <1>1, <1>3, <1>5 DEF IInv, InstallInv, GoesOn
<1>7. QED  BY <1>2, <1>4, <1>6

\* Only backups and updates are said more about.
LEMMA OtherCommands ==
  ASSUME job # None, job.cmd \notin Archives, GoesOn
  PROVE  ArchiveInv' /\ ServiceInv' /\ DeployInv'
BY DEF GoesOn, ArchiveInv, ServiceInv, DeployInv, Archives

LEMMA StopKeeps == ASSUME IInv, Stop PROVE IInv'
<1>1. /\ job # None /\ TypeOK /\ job.cmd \in Archives /\ job.at = 1 /\ ~Done
      /\ container \in OrNone(Container)
  BY Places DEF Stop, At, IInv, TypeOK
<1>2. CASE ComposeWorks /\ Running /\ container' = [container EXCEPT !.running = FALSE]
           /\ job' = [job EXCEPT !.at = @ + 1, !.stopped = TRUE]
  <2>1. container \in Container /\ container' \in Container /\ container' # None
    BY <1>1, <1>2, NoneAssumption DEF Running, OrNone, Container
  <2>2. job \in Job /\ job.at \in 1 .. Len(Plan(job.cmd)) /\ job.at # Len(Plan(job.cmd))
    BY <1>1 DEF TypeOK, OrNone, Done
  <2>3. job' \in Job /\ job' # None
    <3> DEFINE j == [job EXCEPT !.at = @ + 1]
    <3>1. j \in Job
      BY <2>2 DEF Job
    <3>2. job' = [j EXCEPT !.stopped = TRUE]
      BY <1>2, <2>2 DEF Job
    <3> HIDE DEF j
    <3>3. job' \in Job
      BY <3>1, <3>2 DEF Job
    <3>4. QED  BY <3>3, NoneAssumption
  <2>4. /\ job'.at = 2 /\ job'.cmd = job.cmd /\ job'.set = job.set
        /\ job'.wasUp = job.wasUp /\ job'.before = job.before /\ job'.stopped
    BY <1>1, <1>2, <2>2 DEF Job
  <2>5. GoesOn
    <3>1. 2 \in 1 .. Len(Plan(job.cmd))
      <4>1. Len(Plan(job.cmd)) \in Nat
        BY <1>1, Places
      <4>2. 1 \in 1 .. Len(Plan(job.cmd)) /\ 1 # Len(Plan(job.cmd))
        BY <1>1, <2>2
      <4>3. \A n \in Nat : 1 \in 1 .. n /\ 1 # n => 2 \in 1 .. n
        OBVIOUS
      <4>4. QED  BY <4>1, <4>2, <4>3
    <3>2. QED  BY <1>1, <2>3, <2>4, <3>1 DEF GoesOn, OrNone
  <2>6. UNCHANGED <<Files, World, tokens, kills>>
    BY DEF Stop
  <2>7. TypeOK' /\ PinInv' /\ InstallInv'
    BY <1>1, <1>2, <2>1, <2>5, <2>6, ContainerStep DEF OrNone, Archives
  <2>8. ~Running'
    BY <1>2, <2>1 DEF Running, Container
  <2>9. ArchiveInv'
    BY <1>1, <2>4, <2>6, <2>8 DEF IInv, ArchiveInv, World
  <2>10. ServiceInv' /\ DeployInv'
    BY <2>1, <2>4 DEF ServiceInv, DeployInv
  <2>11. QED  BY <2>7, <2>9, <2>10 DEF IInv
<1>3. CASE Die /\ UNCHANGED container
  <2>1. job' = None
    BY <1>3 DEF Die
  <2>2. UNCHANGED <<Files, World, tokens, kills>> /\ container' = container
    BY <1>3 DEF Stop
  <2>3. GoesOn
    BY <2>1 DEF GoesOn, OrNone
  <2>4. TypeOK' /\ PinInv' /\ InstallInv'
    BY <1>1, <2>1, <2>2, <2>3, ContainerStep
  <2>5. QED  BY <2>1, <2>4 DEF IInv, ArchiveInv, ServiceInv, DeployInv
<1>4. CASE ~(ComposeWorks /\ Running) /\ Proceed /\ UNCHANGED container
  <2>1. UNCHANGED <<Files, World, tokens, kills>> /\ container' = container
    BY <1>4 DEF Stop
  <2>2. GoesOn
    BY <1>1, <1>4, Proceeding DEF GoesOn
  <2>3. TypeOK' /\ PinInv' /\ InstallInv'
    BY <1>1, <2>1, <2>2, ContainerStep DEF Archives
  <2>4. job' # None => job'.at = 2 /\ job'.stopped = job.stopped
    BY <1>1, <1>4, Proceeding
  <2>5. Running' <=> Running
    BY <2>1 DEF Running
  <2>6. Running => kills > 0
    <3>1. SUFFICES ASSUME Running PROVE kills # 0
      BY <1>1 DEF TypeOK
    <3>2. ~(composeFile /\ Line("token") # None) /\ container # None
      BY <1>1, <1>4, <3>1 DEF ComposeWorks, Running, IInv, InstallInv
    <3>3. QED  BY <3>2 DEF IInv, InstallInv
  <2>7. ArchiveInv'
    BY <1>1, <2>1, <2>2, <2>4, <2>5, <2>6 DEF IInv, ArchiveInv, GoesOn, World
  <2>8. ServiceInv'
    BY <1>1, <2>1, <2>2, <2>4, <2>5 DEF IInv, ServiceInv, GoesOn
  <2>9. DeployInv'
    BY <2>4 DEF DeployInv
  <2>10. QED  BY <2>3, <2>7, <2>8, <2>9 DEF IInv
<1>5. QED  BY <1>2, <1>3, <1>4 DEF Stop

LEMMA TarKeeps == ASSUME IInv, Tar PROVE IInv'
<1>1. /\ job # None /\ TypeOK /\ job.cmd \in Archives /\ job.at = 2 /\ ~Done
      /\ Len(Plan(job.cmd)) \in Nat
  BY Places DEF Tar, At, IInv
<1>2. PICK ok \in BOOLEAN : /\ archive' = Archive(ok)
                            /\ job' = [job EXCEPT !.at = @ + 1, !.archived = ok]
  BY DEF Tar
<1>3. /\ env' = env /\ composeFile' = composeFile /\ data' = data /\ container' = container
      /\ tokens' = tokens /\ kills' = kills
  BY DEF Tar, Files
<1>4. job \in Job /\ job.at \in 1 .. Len(Plan(job.cmd)) /\ job.at # Len(Plan(job.cmd))
  BY <1>1 DEF TypeOK, OrNone, Done
<1>5. job' \in Job
  <2> DEFINE j == [job EXCEPT !.at = @ + 1]
  <2>1. j \in Job
    BY <1>4 DEF Job
  <2>2. job' = [j EXCEPT !.archived = ok]
    BY <1>2, <1>4 DEF Job
  <2> HIDE DEF j
  <2>3. QED  BY <2>1, <2>2 DEF Job
<1>6. /\ job'.at = 3 /\ job'.cmd = job.cmd /\ job'.set = job.set /\ job'.archived = ok
      /\ job'.wasUp = job.wasUp /\ job'.before = job.before /\ job'.stopped = job.stopped
  BY <1>1, <1>2, <1>4 DEF Job
<1>7. 3 \in 1 .. Len(Plan(job'.cmd))
  <2>1. 2 \in 1 .. Len(Plan(job.cmd)) /\ 2 # Len(Plan(job.cmd))
    BY <1>1, <1>4
  <2>2. \A n \in Nat : 2 \in 1 .. n /\ 2 # n => 3 \in 1 .. n
    OBVIOUS
  <2>3. QED  BY <1>1, <1>6, <2>1, <2>2
<1>8. job.set.dir \in Dirs /\ data \in [Dirs -> 0 .. MaxData] /\ job.before \in 0 .. MaxData
  BY <1>1, <1>4 DEF TypeOK, Job, Settled
<1>9. /\ archive' \in Backup /\ archive'.whole = ok /\ archive'.dir = job.set.dir
      /\ archive'.data = data[job.set.dir]
      /\ archive'.live <=> Running /\ container.dir = job.set.dir
  <2> DEFINE running == Running /\ container.dir = job.set.dir
  <2>1. running \in BOOLEAN
    OBVIOUS
  <2>2. archive' = [dir |-> job.set.dir, data |-> data[job.set.dir], whole |-> ok,
                    live |-> running]
    BY <1>2 DEF Archive
  <2> HIDE DEF running
  <2>3. /\ archive' \in Backup /\ archive'.whole = ok /\ archive'.dir = job.set.dir
        /\ archive'.data = data[job.set.dir] /\ archive'.live = running
    BY <1>8, <2>1, <2>2 DEF Backup
  <2>4. QED  BY <2>3 DEF running
<1>10. TypeOK'
  BY <1>1, <1>3, <1>5, <1>6, <1>7, <1>9 DEF TypeOK, OrNone
<1>11. /\ Line("managed")' = Line("managed") /\ Line("token")' = Line("token")
       /\ (Running' <=> Running)
  BY <1>3 DEF Line, Running
<1>12. PinInv'
  BY <1>1, <1>3, <1>6, <1>11 DEF IInv, PinInv, Pinned
<1>13. InstallInv'
  BY <1>1, <1>3, <1>6, <1>11 DEF IInv, InstallInv, Archives
<1>14. job.before <= data[job.set.dir] /\ (Running => kills > 0)
  BY <1>1 DEF IInv, ArchiveInv
<1>15. ok => Archived'
  <2>1. archive' # None
    BY <1>9, NoneAssumption
  <2>2. QED  BY <1>3, <1>6, <1>8, <1>9, <1>14, <2>1 DEF Archived
<1>16. ArchiveInv'
  BY <1>3, <1>6, <1>14, <1>15 DEF ArchiveInv
<1>17. ServiceInv' /\ DeployInv'
  BY <1>1, <1>3, <1>6, <1>11 DEF IInv, ServiceInv, DeployInv
<1>18. QED  BY <1>10, <1>12, <1>13, <1>16, <1>17 DEF IInv

\* A backup that has come to its end goes on with the rest of an update: what
\* is archived stays so, and so does what was deployed.
LEMMA UpdateStep ==
  ASSUME IInv, job # None, job.cmd \in Archives, job.at \in Nat, GoesOn,
         data' = data, archive' = archive, kills' = kills,
         job' # None => /\ job'.archived = job.archived /\ job'.stopped = job.stopped
                        /\ job.at > 2 /\ job.archived
                        /\ job.wasUp => Running'
  PROVE  ArchiveInv' /\ ServiceInv'
<1>1. ArchiveInv'
  BY DEF IInv, ArchiveInv, Archived, GoesOn
<1>2. ServiceInv'
  BY DEF IInv, ServiceInv, GoesOn
<1>3. QED  BY <1>1, <1>2

LEMMA StartAgainKeeps == ASSUME IInv, StartAgain PROVE IInv'
<1>1. /\ job # None /\ TypeOK /\ job.cmd \in Archives /\ job.at = 3
      /\ container \in OrNone(Container)
      /\ UNCHANGED <<Files, World, tokens, kills>>
  BY Places DEF StartAgain, At, IInv, TypeOK
<1>2. /\ (job.archived /\ Proceed) \/ Die
      /\ container' = container \/ (job.stopped /\ container' = [container EXCEPT !.running = TRUE])
      /\ Die \/ ~job.stopped \/ container' = [container EXCEPT !.running = TRUE]
  BY DEF StartAgain
<1>3. GoesOn /\ (job' # None => job'.archived = job.archived /\ job'.stopped = job.stopped)
  BY <1>1, <1>2, Proceeding DEF GoesOn
<1>4. job.stopped => container \in Container
  BY <1>1 DEF IInv, ServiceInv, OrNone
<1>5. /\ container' \in OrNone(Container) /\ (container' # None => container # None)
      /\ Running => Running'
      /\ job.stopped /\ container' = [container EXCEPT !.running = TRUE] => Running'
  BY <1>1, <1>2, <1>4, NoneAssumption DEF OrNone, Container, Running
<1>6. TypeOK' /\ PinInv' /\ InstallInv'
  BY <1>1, <1>3, <1>5, ContainerStep DEF Archives
<1>7. job' # None => ~Die
  BY DEF Die
<1>8. job' # None /\ job.wasUp => Running'
  BY <1>1, <1>2, <1>5, <1>7 DEF IInv, ServiceInv
<1>9. ArchiveInv' /\ ServiceInv'
  <2>1. data' = data /\ archive' = archive /\ kills' = kills /\ job.at \in Nat /\ job.at > 2
    BY <1>1 DEF World
  <2>2. job' # None => job.archived
    BY <1>2, <1>7
  <2>3. QED  BY <1>1, <1>3, <1>8, <2>1, <2>2, UpdateStep
<1>10. DeployInv'
  BY <1>1, <1>3 DEF DeployInv, GoesOn
<1>11. QED  BY <1>6, <1>9, <1>10 DEF IInv

-----------------------------------------------------------------------------
(* The steps of a deployment, and the commands that only turn the service  *)
(* on and off.                                                             *)

\* When an update gets this far, the backup is whole.
LEMMA Deploying ==
  ASSUME IInv, job # None, At("compose") \/ At("pull") \/ At("up") \/ At("health") \/ At("env"),
         GoesOn, data' = data, archive' = archive, kills' = kills,
         job' # None => job'.archived = job.archived /\ job'.stopped = job.stopped,
         Running => Running'
  PROVE  ArchiveInv' /\ ServiceInv'
<1>1. CASE job.cmd \notin Archives
  BY <1>1, OtherCommands
<1>2. CASE job.cmd \in Archives
  <2>1. job.cmd = "update" /\ job.at \in {4, 5, 6, 7, 8}
    BY <1>2, Places DEF IInv, Archives
  <2>2. job.archived /\ (job.wasUp => Running)
    BY <1>2, <2>1 DEF IInv, ArchiveInv, ServiceInv
  <2>3. job.at \in Nat /\ job.at > 2
    BY <2>1
  <2>4. QED  BY <1>2, <2>2, <2>3, UpdateStep
<1>3. QED  BY <1>1, <1>2

LEMMA PullKeeps == ASSUME IInv, Pull PROVE IInv'
<1>1. /\ job # None /\ TypeOK /\ (Proceed \/ Die) /\ container' = container
      /\ UNCHANGED <<Files, World, tokens, kills>>
  BY DEF Pull, At, Ask, IInv
<1>2. GoesOn /\ (job' # None => job'.archived = job.archived /\ job'.stopped = job.stopped)
  BY <1>1, Proceeding DEF GoesOn
<1>3. job.cmd # "purge" /\ (job.cmd = "update" => job.at = 5)
  BY <1>1, Places DEF Pull
<1>4. TypeOK' /\ PinInv' /\ InstallInv'
  BY <1>1, <1>2, <1>3, ContainerStep DEF TypeOK
<1>5. Running' <=> Running
  BY <1>1 DEF Running
<1>6. ArchiveInv' /\ ServiceInv'
  BY <1>1, <1>2, <1>5, Deploying DEF Pull, World
<1>7. DeployInv'
  BY <1>2, <1>3 DEF DeployInv, GoesOn
<1>8. QED  BY <1>4, <1>6, <1>7 DEF IInv

LEMMA UpKeeps == ASSUME IInv, Up PROVE IInv'
<1>1. /\ job # None /\ TypeOK /\ (Proceed \/ Die)
      /\ UNCHANGED <<Files, World, tokens, kills>>
  BY DEF Up, At, Ask, IInv
<1>2. GoesOn /\ (job' # None => job'.archived = job.archived /\ job'.stopped = job.stopped)
  BY <1>1, Proceeding DEF GoesOn
<1>3. job.cmd # "purge" /\ (job.cmd = "update" => job.at = 6)
  BY <1>1, Places DEF Up
<1>4. job.set \in Settled
  BY <1>1 DEF TypeOK, OrNone, Job
<1>5. CASE container' = container /\ Die
  <2>1. TypeOK' /\ PinInv' /\ InstallInv'
    BY <1>1, <1>2, <1>3, <1>5, ContainerStep DEF TypeOK
  <2>2. QED  BY <1>5, <2>1 DEF IInv, ArchiveInv, ServiceInv, DeployInv, Die
<1>6. CASE ComposeWorks /\ Proceed
           /\ \E healthy \in BOOLEAN :
                container' = [image |-> job.set.image, dir |-> job.set.dir,
                              token |-> job.set.token, running |-> TRUE,
                              healthy |-> healthy]
  <2>1. /\ container' \in Container /\ container'.running
        /\ container'.image = job.set.image /\ container'.dir = job.set.dir
        /\ container'.token = job.set.token
    BY <1>4, <1>6 DEF Container, Settled, ComposeWorks, OrNone
  <2>2. Running'
    BY <2>1, NoneAssumption DEF Running
  <2>3. TypeOK' /\ PinInv' /\ InstallInv'
    BY <1>1, <1>2, <1>3, <1>6, <2>1, ContainerStep DEF OrNone
  <2>4. ArchiveInv' /\ ServiceInv'
    BY <1>1, <1>2, <2>2, Deploying DEF Up, World
  <2>5. DeployInv'
    BY <1>2, <1>3, <2>1, <2>2 DEF DeployInv, GoesOn
  <2>6. QED  BY <2>3, <2>4, <2>5 DEF IInv
<1>7. QED  BY <1>5, <1>6 DEF Up, Ask

LEMMA WaitForHealthKeeps == ASSUME IInv, WaitForHealth PROVE IInv'
<1>1. /\ job # None /\ TypeOK /\ (Proceed \/ Die) /\ container' = container
      /\ UNCHANGED <<Files, World, tokens, kills>> /\ (Healthy \/ Die)
  BY DEF WaitForHealth, At, IInv
<1>2. GoesOn /\ (job' # None => job'.archived = job.archived /\ job'.stopped = job.stopped)
  BY <1>1, Proceeding DEF GoesOn
<1>3. job.cmd # "purge" /\ (job.cmd = "update" => job.at = 7)
  BY <1>1, Places DEF WaitForHealth
<1>4. TypeOK' /\ PinInv' /\ InstallInv'
  BY <1>1, <1>2, <1>3, ContainerStep DEF TypeOK
<1>5. (Running' <=> Running) /\ (Healthy' <=> Healthy)
  BY <1>1 DEF Running, Healthy
<1>6. ArchiveInv' /\ ServiceInv'
  BY <1>1, <1>2, <1>5, Deploying DEF WaitForHealth, World
<1>7. DeployInv'
  BY <1>1, <1>2, <1>3, <1>5 DEF IInv, DeployInv, GoesOn, Die
<1>8. QED  BY <1>4, <1>6, <1>7 DEF IInv

\* The commands that turn the service off and on, or remove it.
LEMMA HaltKeeps == ASSUME IInv, Halt PROVE IInv'
<1>1. /\ job # None /\ TypeOK /\ (Proceed \/ Die)
      /\ UNCHANGED <<Files, World, tokens, kills>>
      /\ \/ container' = container
         \/ container # None /\ container' = [container EXCEPT !.running = FALSE]
  BY DEF Halt, At, Ask, IInv
<1>2. GoesOn
  BY <1>1, Proceeding DEF GoesOn
<1>3. job.cmd \in {"stop", "restart"}
  BY <1>1, Places DEF Halt
<1>4. container' \in OrNone(Container) /\ (container' # None => container # None)
  BY <1>1 DEF TypeOK, OrNone, Container
<1>5. TypeOK' /\ PinInv' /\ InstallInv'
  BY <1>1, <1>2, <1>3, <1>4, ContainerStep
<1>6. QED  BY <1>1, <1>2, <1>3, <1>5, OtherCommands DEF IInv, Archives

LEMMA BounceKeeps == ASSUME IInv, Bounce PROVE IInv'
<1>1. /\ job # None /\ TypeOK /\ (Proceed \/ Die)
      /\ UNCHANGED <<Files, World, tokens, kills>>
      /\ \/ container' = container
         \/ container # None /\ container' = [container EXCEPT !.running = TRUE]
  BY DEF Bounce, At, Ask, IInv
<1>2. GoesOn
  BY <1>1, Proceeding DEF GoesOn
<1>3. job.cmd \in {"stop", "restart"}
  BY <1>1, Places DEF Bounce
<1>4. container' \in OrNone(Container) /\ (container' # None => container # None)
  BY <1>1 DEF TypeOK, OrNone, Container
<1>5. TypeOK' /\ PinInv' /\ InstallInv'
  BY <1>1, <1>2, <1>3, <1>4, ContainerStep
<1>6. QED  BY <1>1, <1>2, <1>3, <1>5, OtherCommands DEF IInv, Archives

LEMMA DownKeeps == ASSUME IInv, Down PROVE IInv'
<1>1. /\ job # None /\ TypeOK /\ (Proceed \/ Die)
      /\ UNCHANGED <<Files, World, tokens, kills>>
      /\ container' = None \/ (container' = container /\ Die)
  BY DEF Down, At, Ask, IInv
<1>2. GoesOn
  BY <1>1, Proceeding DEF GoesOn
<1>3. job.cmd \in {"uninstall", "purge"}
  BY <1>1, Places DEF Down
<1>4. container' \in OrNone(Container) /\ (container' # None => container # None)
  BY <1>1 DEF TypeOK, OrNone
<1>5. job' # None => container' = None
  BY <1>1 DEF Die
<1>6. TypeOK' /\ PinInv' /\ InstallInv'
  BY <1>1, <1>2, <1>4, <1>5, ContainerStep
<1>7. QED  BY <1>1, <1>2, <1>3, <1>6, OtherCommands DEF IInv, Archives

LEMMA ConfirmKeeps == ASSUME IInv, Confirm PROVE IInv'
<1>1. /\ job # None /\ TypeOK /\ (Proceed \/ Die) /\ container' = container
      /\ UNCHANGED <<Files, World, tokens, kills>>
  BY DEF Confirm, At, IInv
<1>2. GoesOn
  BY <1>1, Proceeding DEF GoesOn
<1>3. job.cmd = "purge" /\ container = None
  BY <1>1, Places DEF Confirm, IInv, InstallInv
<1>4. TypeOK' /\ PinInv' /\ InstallInv'
  BY <1>1, <1>2, <1>3, ContainerStep DEF TypeOK
<1>5. QED  BY <1>1, <1>2, <1>3, <1>4, OtherCommands DEF IInv, Archives

LEMMA RemoveDataKeeps == ASSUME IInv, RemoveData PROVE IInv'
<1>1. /\ job # None /\ TypeOK /\ Proceed
      /\ env' = env /\ composeFile' = composeFile /\ archive' = archive
      /\ container' = container /\ tokens' = tokens /\ kills' = kills
      /\ data' = data \/ data' = [data EXCEPT ![job.set.dir] = 0]
  BY DEF RemoveData, At, IInv, Files
<1>2. GoesOn
  BY <1>1, Proceeding DEF GoesOn
<1>3. job.cmd = "purge" /\ container = None
  BY <1>1, Places DEF RemoveData, IInv, InstallInv
<1>4. data' \in [Dirs -> 0 .. MaxData]
  BY <1>1, BoundAssumption DEF TypeOK
<1>5. TypeOK'
  BY <1>1, <1>2, <1>4 DEF TypeOK, GoesOn
<1>6. Line("managed")' = Line("managed") /\ Line("token")' = Line("token")
  BY <1>1 DEF Line
<1>7. PinInv' /\ InstallInv'
  BY <1>1, <1>2, <1>3, <1>6 DEF IInv, PinInv, Pinned, InstallInv, GoesOn
<1>8. QED  BY <1>1, <1>2, <1>3, <1>5, <1>7, OtherCommands DEF IInv, Archives

LEMMA RemoveHomeKeeps == ASSUME IInv, RemoveHome PROVE IInv'
<1>1. /\ job # None /\ TypeOK /\ Proceed
      /\ env' = None /\ composeFile' = FALSE /\ archive' = None
      /\ data' = [data EXCEPT ![DefaultDir] = 0]
      /\ container' = container /\ tokens' = tokens /\ kills' = kills
  BY DEF RemoveHome, At, IInv
<1>2. job.cmd = "purge" /\ job.at > 1 /\ Done
  BY <1>1, Places DEF RemoveHome
<1>3. job' = None /\ container' = None
  BY <1>1, <1>2 DEF Proceed, IInv, InstallInv
<1>4. data' \in [Dirs -> 0 .. MaxData]
  BY <1>1, BoundAssumption, SettingAssumption DEF TypeOK
<1>5. TypeOK'
  BY <1>1, <1>3, <1>4 DEF TypeOK, OrNone
<1>6. QED
  BY <1>1, <1>3, <1>5
     DEF IInv, PinInv, InstallInv, ArchiveInv, ServiceInv, DeployInv

LEMMA WriteComposeKeeps == ASSUME IInv, WriteCompose PROVE IInv'
<1>1. /\ job # None /\ TypeOK /\ (Proceed \/ Die)
      /\ env' = env /\ composeFile' = TRUE /\ archive' = archive /\ data' = data
      /\ container' = container /\ tokens' = tokens /\ kills' = kills
  BY DEF WriteCompose, At, IInv, World
<1>2. GoesOn /\ (job' # None => job'.archived = job.archived /\ job'.stopped = job.stopped)
  BY <1>1, Proceeding DEF GoesOn
<1>3. job.cmd # "purge" /\ (job.cmd = "update" => job.at = 4)
  BY <1>1, Places DEF WriteCompose
<1>4. TypeOK'
  BY <1>1, <1>2 DEF TypeOK, GoesOn
<1>5. /\ Line("managed")' = Line("managed") /\ Line("token")' = Line("token")
      /\ (Running' <=> Running)
  BY <1>1 DEF Line, Running
<1>6. PinInv' /\ InstallInv'
  BY <1>1, <1>2, <1>3, <1>5 DEF IInv, PinInv, Pinned, InstallInv, GoesOn
<1>7. ArchiveInv' /\ ServiceInv'
  BY <1>1, <1>2, <1>5, Deploying DEF WriteCompose
<1>8. DeployInv'
  BY <1>2, <1>3 DEF DeployInv, GoesOn
<1>9. QED  BY <1>4, <1>6, <1>7, <1>8 DEF IInv

LEMMA WriteEnvironmentKeeps == ASSUME IInv, WriteEnvironment PROVE IInv'
<1>1. PICK token \in IF job.set.token # None THEN {job.set.token}
                     ELSE {n \in Tokens : n = tokens + 1} :
         /\ env' = [job.set EXCEPT !.token = token]
         /\ tokens' = IF job.set.token # None THEN tokens ELSE token
         /\ job' = IF Done THEN None ELSE [job EXCEPT !.at = @ + 1, !.set.token = token]
  BY DEF WriteEnvironment
<1>2. /\ job # None /\ TypeOK /\ job \in Job /\ job.at \in 1 .. Len(Plan(job.cmd))
      /\ composeFile' = composeFile /\ archive' = archive /\ data' = data
      /\ container' = container /\ kills' = kills
  BY DEF WriteEnvironment, At, IInv, TypeOK, OrNone, World
<1>3. /\ job.cmd \in {"install", "update"} /\ (job.cmd = "update" => Done)
      /\ Len(Plan(job.cmd)) \in Nat
  BY <1>2, Places DEF WriteEnvironment
<1>4. token \in Tokens /\ tokens' \in 0 .. MaxTokens /\ token # None
  <2>1. job.set.token \in OrNone(Tokens) /\ None \notin Tokens
    BY <1>2, NoneAssumption DEF Job, Settled, Tokens
  <2>2. QED  BY <1>1, <1>2, <2>1 DEF OrNone, Tokens, TypeOK
<1>5. job.set \in Settled
  BY <1>2 DEF Job
<1>6. /\ env' \in Settled /\ env'.token = token
      /\ env'.image = job.set.image /\ env'.managed = job.set.managed
  BY <1>1, <1>4, <1>5 DEF Settled, OrNone
<1>7. env' \in Lines /\ env' # None
  <2>1. env' \in Lines
    BY <1>6 DEF Settled, Lines, OrNone
  <2>2. QED  BY <2>1, NoneAssumption
<1>8. ASSUME job' # None
      PROVE  /\ job' \in Job /\ job'.set = env' /\ job'.cmd = "install"
             /\ job'.at \in 1 .. Len(Plan(job'.cmd))
  <2>1. ~Done /\ job' = [job EXCEPT !.at = @ + 1, !.set.token = token]
    BY <1>1, <1>8
  <2> DEFINE j == [job EXCEPT !.at = @ + 1]
  <2>2. j \in Job /\ j.set = job.set /\ j.cmd = job.cmd /\ j.at = job.at + 1
    BY <1>2 DEF Job
  <2>3. job' = [j EXCEPT !.set = env']
    BY <1>1, <1>2, <2>1 DEF Job
  <2> HIDE DEF j
  <2>4. job' \in Job /\ job'.set = env' /\ job'.cmd = job.cmd /\ job'.at = job.at + 1
    BY <1>6, <2>2, <2>3 DEF Job
  <2>5. job.at # Len(Plan(job.cmd))
    BY <2>1 DEF Done
  <2>6. \A n \in Nat : job.at \in 1 .. n /\ job.at # n => job.at + 1 \in 1 .. n
    BY <1>2 DEF Job
  <2>7. QED  BY <1>2, <1>3, <2>1, <2>4, <2>5, <2>6
<1>9. TypeOK'
  BY <1>2, <1>4, <1>7, <1>8 DEF TypeOK, OrNone
<1>10. Line("managed")' = env'.managed /\ Line("token")' = token
  BY <1>6, <1>7 DEF Line
<1>11. PinInv'
  BY <1>2, <1>6, <1>8, <1>10 DEF IInv, PinInv, Pinned
<1>12. InstallInv'
  BY <1>2, <1>4, <1>6, <1>8, <1>10 DEF IInv, InstallInv
<1>13. ArchiveInv' /\ ServiceInv' /\ DeployInv'
  BY <1>8 DEF ArchiveInv, ServiceInv, DeployInv, Archives
<1>14. QED  BY <1>9, <1>11, <1>12, <1>13 DEF IInv

\* What a kill can leave of the configuration.
LEMMA PrefixIsCut ==
  ASSUME NEW lines \in Settled, NEW n \in 0 .. 4, Pinned(lines)
  PROVE  /\ Prefix(lines, n) \in Lines /\ Pinned(Prefix(lines, n))
         /\ lines.managed = FALSE
              => Prefix(lines, n).image \in {"pin", None} /\ Prefix(lines, n).managed \in {FALSE, None}
<1> DEFINE cut == Prefix(lines, n)
<1>1. /\ cut.image = (IF 1 <= n THEN lines.image ELSE None)
      /\ cut.managed = (IF 2 <= n THEN lines.managed ELSE None)
      /\ cut.channel = (IF 3 <= n THEN lines.channel ELSE None)
      /\ cut.dir = (IF 4 <= n THEN lines.dir ELSE None)
      /\ cut.token = (IF 5 <= n THEN lines.token ELSE None)
      /\ cut = [image |-> cut.image, managed |-> cut.managed, channel |-> cut.channel,
                dir |-> cut.dir, token |-> cut.token]
  BY DEF Prefix
<1> HIDE DEF cut
<1>2. cut \in Lines
  BY <1>1 DEF Lines, Settled, OrNone
<1>3. None # FALSE
  BY NoneAssumption
<1>4. Pinned(cut)
  <2>1. CASE 2 <= n
    <3>1. cut.managed = lines.managed /\ cut.image = lines.image
      BY <1>1, <2>1
    <3>2. QED  BY <3>1 DEF Pinned
  <2>2. CASE ~(2 <= n)
    <3>1. cut.managed = None
      BY <1>1, <2>2
    <3>2. QED  BY <1>3, <3>1 DEF Pinned
  <2>3. QED  BY <2>1, <2>2
<1>5. lines.managed = FALSE => cut.image \in {"pin", None} /\ cut.managed \in {FALSE, None}
  BY <1>1 DEF Pinned
<1>6. QED  BY <1>2, <1>4, <1>5 DEF cut

\* What tar writes is a backup, whole or not.
LEMMA ArchiveIsBackup ==
  ASSUME TypeOK, job # None, NEW ok \in BOOLEAN
  PROVE  Archive(ok) \in Backup
<1> DEFINE running == Running /\ container.dir = job.set.dir
<1>1. job.set.dir \in Dirs /\ running \in BOOLEAN
  BY DEF TypeOK, OrNone, Job, Settled
<1>2. Archive(ok) = [dir |-> job.set.dir, data |-> data[job.set.dir], whole |-> ok,
                     live |-> running]
  BY DEF Archive
<1> HIDE DEF running
<1>3. data[job.set.dir] \in 0 .. MaxData
  BY <1>1 DEF TypeOK
<1>4. QED  BY <1>1, <1>2, <1>3 DEF Backup

LEMMA KillKeeps == ASSUME IInv, Kill PROVE IInv'
<1>1. /\ job # None /\ TypeOK /\ job \in Job /\ job.set \in Settled /\ Pinned(job.set)
      /\ job' = None /\ kills' = kills + 1 /\ kills < MaxKills
      /\ composeFile' = composeFile /\ data' = data
      /\ container' = container /\ tokens' = tokens
  BY DEF Kill, Die, IInv, TypeOK, OrNone, Job, PinInv
<1>2. env' = env \/ \E n \in 0 .. 4 : env' = Prefix(job.set, n)
  BY DEF Kill
<1>3. env' \in OrNone(Lines) /\ (env' # None => Pinned(env'))
  BY <1>1, <1>2, PrefixIsCut DEF TypeOK, IInv, PinInv, OrNone
<1>4. archive' \in OrNone(Backup)
  <2>1. Archive(FALSE) \in Backup
    BY <1>1, ArchiveIsBackup
  <2>2. QED  BY <1>1, <2>1 DEF Kill, TypeOK, OrNone
<1>5. kills' \in 0 .. MaxKills /\ kills' # 0
  BY <1>1, BoundAssumption DEF TypeOK
<1>6. TypeOK'
  BY <1>1, <1>3, <1>4, <1>5 DEF TypeOK, OrNone
<1>7. QED
  BY <1>1, <1>3, <1>5, <1>6
     DEF IInv, PinInv, InstallInv, ArchiveInv, ServiceInv, DeployInv

LEMMA ServeKeeps == ASSUME IInv, Serve PROVE IInv'
<1>1. /\ TypeOK /\ env' = env /\ composeFile' = composeFile /\ archive' = archive
      /\ container' = container /\ job' = job /\ tokens' = tokens /\ kills' = kills
  BY DEF Serve, Files, IInv
<1>2. container \in Container /\ data[container.dir] < MaxData
      /\ data' = [data EXCEPT ![container.dir] = @ + 1]
  BY <1>1 DEF Serve, Healthy, Running, TypeOK, OrNone
<1>3. /\ data' \in [Dirs -> 0 .. MaxData]
      /\ \A d \in Dirs : data[d] \in Nat /\ data'[d] \in Nat /\ data[d] <= data'[d]
  BY <1>1, <1>2, BoundAssumption DEF TypeOK, Container
<1>4. TypeOK'
  BY <1>1, <1>3 DEF TypeOK
<1>5. /\ Line("managed")' = Line("managed") /\ Line("token")' = Line("token")
      /\ (Running' <=> Running) /\ (Healthy' <=> Healthy)
  BY <1>1 DEF Line, Running, Healthy
<1>6. PinInv' /\ InstallInv' /\ ServiceInv' /\ DeployInv'
  BY <1>1, <1>5 DEF IInv, PinInv, Pinned, InstallInv, ServiceInv, DeployInv
<1>7. job # None => job.set.dir \in Dirs /\ job.before \in Nat
  BY <1>1 DEF TypeOK, OrNone, Job, Settled
<1>8. ArchiveInv'
  <2>1. Archived' <=> Archived
    BY <1>1 DEF Archived
  <2>2. QED  BY <1>1, <1>3, <1>5, <1>7, <2>1 DEF IInv, ArchiveInv
<1>9. QED  BY <1>4, <1>6, <1>8 DEF IInv

LEMMA BeginKeeps ==
  ASSUME IInv, NEW cmd \in Commands, NEW o \in Overrides, Begin(cmd, o) PROVE IInv'
<1>1. /\ job = None /\ TypeOK
      /\ env' = env /\ composeFile' = composeFile /\ archive' = archive /\ data' = data
      /\ container' = container /\ tokens' = tokens /\ kills' = kills
  BY DEF Begin, IInv, Files, World
<1>2. /\ Settings(o) \in Settled /\ Settings(o).token = Line("token")
      /\ Pinned(Settings(o))
      /\ Line("managed") = FALSE => Settings(o).managed = FALSE
  BY <1>1, SettingsAreSettled DEF IInv, PinInv
<1> DEFINE up == cmd \in {"backup", "update"} /\ Running
           known == IF cmd = "update" THEN data[Settings(o).dir] ELSE 0
<1>3. job' = [cmd |-> cmd, at |-> 1, set |-> Settings(o), archived |-> FALSE,
              stopped |-> FALSE, wasUp |-> up, before |-> known]
  BY DEF Begin
<1>4. data[Settings(o).dir] \in 0 .. MaxData
  BY <1>1, <1>2 DEF TypeOK, Settled
<1>5. up \in BOOLEAN /\ known \in 0 .. MaxData /\ known <= data[Settings(o).dir]
  BY <1>4, BoundAssumption
<1>6. up => Running
  OBVIOUS
<1> HIDE DEF up, known
<1>7. /\ job' \in Job /\ job'.cmd = cmd /\ job'.at = 1 /\ job'.set = Settings(o)
      /\ job'.wasUp = up /\ job'.before = known /\ ~job'.stopped
  BY <1>2, <1>3, <1>5 DEF Job
<1>8. 1 \in 1 .. Len(Plan(cmd))
  <2>1. /\ Len(Plan("install")) = 5 /\ Len(Plan("update")) = 8 /\ Len(Plan("backup")) = 3
        /\ Len(Plan("start")) = 2 /\ Len(Plan("stop")) = 1 /\ Len(Plan("restart")) = 2
        /\ Len(Plan("uninstall")) = 1 /\ Len(Plan("purge")) = 4
    BY Plans
  <2>2. QED  BY <2>1 DEF Commands
<1>9. TypeOK'
  BY <1>1, <1>7, <1>8 DEF TypeOK, OrNone
<1>10. /\ Line("managed")' = Line("managed") /\ Line("token")' = Line("token")
       /\ (Running' <=> Running)
  BY <1>1 DEF Line, Running
<1>11. PinInv'
  BY <1>1, <1>2, <1>7, <1>10 DEF IInv, PinInv, Pinned
<1>12. InstallInv'
  BY <1>1, <1>2, <1>7, <1>10 DEF IInv, InstallInv
<1>13. ArchiveInv'
  BY <1>1, <1>5, <1>7 DEF ArchiveInv
<1>14. ServiceInv' /\ DeployInv'
  BY <1>6, <1>7, <1>10 DEF ServiceInv, DeployInv
<1>15. QED  BY <1>9, <1>11, <1>12, <1>13, <1>14 DEF IInv

-----------------------------------------------------------------------------
(* The theorems.                                                           *)

LEMMA InitIInv == Init => IInv
<1> SUFFICES ASSUME Init PROVE IInv
  OBVIOUS
<1>1. TypeOK
  <2>1. /\ env \in OrNone(Lines) /\ composeFile \in BOOLEAN
        /\ container \in OrNone(Container)
        /\ archive \in OrNone(Backup)
        /\ job \in OrNone(Job) /\ job = None
    BY DEF Init, OrNone
  <2>2. data \in [Dirs -> 0 .. MaxData]
    BY BoundAssumption DEF Init
  <2>3. tokens \in 0 .. MaxTokens /\ kills \in 0 .. MaxKills
    BY BoundAssumption DEF Init
  <2>4. QED  BY <2>1, <2>2, <2>3 DEF TypeOK
<1>2. QED
  BY <1>1 DEF Init, IInv, PinInv, InstallInv, ArchiveInv, ServiceInv, DeployInv

LEMMA StepKeeps == ASSUME IInv, [Next]_vars PROVE IInv'
<1>1. CASE UNCHANGED vars
  BY <1>1 DEF vars, IInv, TypeOK, PinInv, InstallInv, ArchiveInv, Archived, ServiceInv,
              DeployInv, Line, Running, Healthy
<1>2. CASE Step
  <2>1. CASE WriteEnvironment \/ WriteCompose \/ Pull \/ Up \/ WaitForHealth
    BY <2>1, WriteEnvironmentKeeps, WriteComposeKeeps, PullKeeps, UpKeeps, WaitForHealthKeeps
  <2>2. CASE Stop \/ Tar \/ StartAgain
    BY <2>2, StopKeeps, TarKeeps, StartAgainKeeps
  <2>3. CASE Halt \/ Bounce \/ Down \/ Confirm \/ RemoveData \/ RemoveHome
    BY <2>3, HaltKeeps, BounceKeeps, DownKeeps, ConfirmKeeps, RemoveDataKeeps, RemoveHomeKeeps
  <2>4. QED  BY <1>2, <2>1, <2>2, <2>3 DEF Step
<1>3. CASE \E cmd \in Commands, o \in Overrides : Begin(cmd, o)
  BY <1>3, BeginKeeps
<1>4. CASE Kill \/ Serve
  BY <1>4, KillKeeps, ServeKeeps
<1>5. QED  BY <1>1, <1>2, <1>3, <1>4 DEF Next

LEMMA Invariance == Spec => []IInv
<1>1. Init => IInv
  BY InitIInv
<1>2. IInv /\ [Next]_vars => IInv'
  BY StepKeeps
<1>3. QED  BY <1>1, <1>2, PTL DEF Spec

\* The files, the container and the command are well typed, and a command is
\* at a step of its plan.
THEOREM TypeCorrect == Spec => []TypeOK
<1>1. IInv => TypeOK
  BY DEF IInv
<1>2. QED  BY <1>1, Invariance, PTL

\* An update replaces the container only after it has archived the data it
\* found, whole and, unless a command was killed, of a service that stood
\* still.
THEOREM BackupComesFirst == Spec => UpdateIsBackedUp
<1> DEFINE Replaces == At("up") /\ job.cmd = "update" /\ container' # container
           Guarded == /\ archive # None /\ archive.whole /\ archive.dir = job.set.dir
                      /\ archive.data >= job.before
                      /\ archive.live => kills > 0
<1>1. IInv => (Replaces => Guarded)
  <2> SUFFICES ASSUME IInv, Replaces PROVE Guarded
    OBVIOUS
  <2>1. job # None /\ job.at = 6
    BY Places DEF IInv, At
  <2>2. Archived
    BY <2>1 DEF IInv, ArchiveInv, Archives
  <2>3. QED  BY <2>2 DEF Archived
<1>2. IInv /\ [Next]_vars => [Replaces => Guarded]_vars
  BY <1>1
<1>3. QED  BY <1>2, Invariance, PTL DEF Spec, UpdateIsBackedUp

-----------------------------------------------------------------------------
(* What the configuration keeps.                                           *)

\* The configuration is written by two commands, removed by one, and may be
\* cut by a kill.
LEMMA Writers ==
  ASSUME IInv, [Next]_vars
  PROVE  \/ env' = env \/ (RemoveHome /\ env' = None)
         \/ WriteEnvironment
         \/ job # None /\ kills' # kills /\ \E n \in 0 .. 4 : env' = Prefix(job.set, n)
<1>1. CASE UNCHANGED vars
  BY <1>1 DEF vars
<1>2. CASE Step
  BY <1>2 DEF Step, WriteCompose, Pull, Up, WaitForHealth, Stop, Tar, StartAgain, Halt, Bounce,
              Down, Confirm, RemoveData, RemoveHome, Files
<1>3. CASE \E cmd \in Commands, o \in Overrides : Begin(cmd, o)
  BY <1>3 DEF Begin, Files
<1>4. CASE Serve
  BY <1>4 DEF Serve, Files
<1>5. CASE Kill
  <2>1. kills' # kills
    BY <1>5 DEF Kill, IInv, TypeOK
  <2>2. QED  BY <1>5, <2>1 DEF Kill
<1>6. QED  BY <1>1, <1>2, <1>3, <1>4, <1>5 DEF Next

\* What write_environment() saves are the settings of its command, with a token.
LEMMA Saving ==
  ASSUME IInv, WriteEnvironment
  PROVE  /\ job # None /\ job \in Job /\ job.set \in Settled
         /\ env'.image = job.set.image /\ env'.managed = job.set.managed
         /\ env'.dir = job.set.dir
         /\ job.set.token # None => env'.token = job.set.token
<1>1. job # None /\ job \in Job /\ job.set \in Settled
  BY DEF WriteEnvironment, At, IInv, TypeOK, OrNone, Job
<1>2. \E token : /\ env' = [job.set EXCEPT !.token = token]
                 /\ job.set.token # None => token = job.set.token
  BY DEF WriteEnvironment
<1>3. QED  BY <1>1, <1>2 DEF Settled

\* No command, and no kill, moves a pinned installation to a channel.
THEOREM PinnedStaysPinned == Spec => PinStays
<1> DEFINE Was == Line("managed") = FALSE /\ Line("image") # None /\ env' # None
           Stays == env'.image \in {"pin", None} /\ env'.managed \in {FALSE, None}
<1>1. IInv /\ [Next]_vars => (Was => Stays)
  <2> SUFFICES ASSUME IInv, [Next]_vars, Was PROVE Stays
    OBVIOUS
  <2>1. env # None /\ env.managed = FALSE /\ Pinned(env)
    BY NoneAssumption DEF Line, IInv, PinInv
  <2>2. CASE env' = env
    BY <2>1, <2>2 DEF Pinned
  <2>3. CASE WriteEnvironment
    <3>1. job # None /\ env'.image = job.set.image /\ env'.managed = job.set.managed
      BY <2>3, Saving
    <3>2. QED  BY <3>1 DEF IInv, PinInv, Pinned
  <2>4. CASE job # None /\ \E n \in 0 .. 4 : env' = Prefix(job.set, n)
    <3>1. job.set \in Settled
      BY <2>4 DEF IInv, TypeOK, OrNone, Job
    <3>2. Pinned(job.set) /\ job.set.managed = FALSE
      BY <2>4 DEF IInv, PinInv
    <3>3. QED  BY <2>4, <3>1, <3>2, PrefixIsCut
  <2>5. QED  BY <2>2, <2>3, <2>4, Writers
<1>2. IInv /\ [Next]_vars => [Was => Stays]_vars
  BY <1>1
<1>3. QED  BY <1>2, Invariance, PTL DEF Spec, PinStays

\* The last step of an update saves the image, the directory and the token of
\* the service it has found healthy.
THEOREM SavedIsRunning == Spec => SavedIsDeployed
<1> DEFINE Saves == At("env") /\ job.cmd = "update" /\ env' # env /\ kills' = kills
           Deployed == /\ Healthy
                       /\ container.image = env'.image
                       /\ container.dir = env'.dir /\ container.token = env'.token
<1>1. IInv /\ [Next]_vars => (Saves => Deployed)
  <2> SUFFICES ASSUME IInv, [Next]_vars, Saves PROVE Deployed
    OBVIOUS
  <2>1. job # None /\ job.at = 8
    BY Places DEF IInv, At
  <2>2. /\ Healthy /\ container.image = job.set.image
        /\ container.dir = job.set.dir /\ container.token = job.set.token
    BY <2>1 DEF IInv, DeployInv
  <2>3. container \in Container /\ container.token # None
    BY <2>2, NoneAssumption DEF Healthy, Running, IInv, TypeOK, OrNone, Container, Tokens
  <2>4. WriteEnvironment
    <3>1. ~RemoveHome
      BY Places DEF RemoveHome, IInv, At
    <3>2. QED  BY <3>1, Writers
  <2>5. QED  BY <2>2, <2>3, <2>4, Saving
<1>2. IInv /\ [Next]_vars => [Saves => Deployed]_vars
  BY <1>1
<1>3. QED  BY <1>2, Invariance, PTL DEF Spec, SavedIsDeployed

-----------------------------------------------------------------------------
(* The end of a backup or an update.                                       *)

\* A step after which the command has more to do does not end it.
LEMMA MoreToDo ==
  ASSUME job \in Job, NEW flag \in BOOLEAN
  PROVE  /\ [job EXCEPT !.at = @ + 1, !.stopped = flag] # None
         /\ [job EXCEPT !.at = @ + 1, !.archived = flag] # None
<1> DEFINE j == [job EXCEPT !.at = @ + 1]
<1>1. j \in Job
  BY DEF Job
<1>2. /\ [job EXCEPT !.at = @ + 1, !.stopped = flag] = [j EXCEPT !.stopped = flag]
      /\ [job EXCEPT !.at = @ + 1, !.archived = flag] = [j EXCEPT !.archived = flag]
  BY DEF Job
<1> HIDE DEF j
<1>3. [j EXCEPT !.stopped = flag] \in Job /\ [j EXCEPT !.archived = flag] \in Job
  BY <1>1 DEF Job
<1>4. QED  BY <1>2, <1>3, NoneAssumption

\* The steps at which a backup or an update can end.
LEMMA Endings ==
  ASSUME IInv, Next, job # None, job.cmd \in Archives, job' = None, kills' = kills
  PROVE  Stop \/ StartAgain \/ Pull \/ Up \/ WaitForHealth \/ WriteEnvironment
<1>1. job \in Job /\ kills \in Nat
  BY DEF IInv, TypeOK, OrNone
<1>2. Step
  <2>1. ~Serve
    BY DEF Serve
  <2>2. ~Kill
    <3>1. Kill => kills' = kills + 1
      BY DEF Kill
    <3>2. QED  BY <1>1, <3>1
  <2>3. ~\E cmd \in Commands, o \in Overrides : Begin(cmd, o)
    BY DEF Begin
  <2>4. QED  BY <2>1, <2>2, <2>3 DEF Next
<1>3. ~(Halt \/ Bounce \/ Down \/ Confirm \/ RemoveData \/ RemoveHome)
  BY Places DEF Halt, Bounce, Down, Confirm, RemoveData, RemoveHome, IInv, Archives
<1>4. ~Tar
  BY <1>1, MoreToDo DEF Tar
<1>5. ~WriteCompose
  <2> SUFFICES ASSUME WriteCompose PROVE FALSE
    OBVIOUS
  <2>1. ~Done
    BY Places DEF WriteCompose, IInv, Archives
  <2>2. job' = [job EXCEPT !.at = @ + 1]
    BY <2>1 DEF WriteCompose, Proceed
  <2>3. job' \in Job
    BY <1>1, <2>2 DEF Job
  <2>4. QED  BY <2>3, NoneAssumption
<1>6. QED  BY <1>2, <1>3, <1>4, <1>5 DEF Step

\* The service that a backup or an update found running runs when the command
\* is over, except where Docker refused to start it again.
THEOREM ServiceReturns == Spec => ServiceComesBack
<1> DEFINE Ends == /\ job # None /\ job' = None /\ kills' = kills
                   /\ job.cmd \in {"backup", "update"} /\ job.wasUp
           Runs == Running' \/ (At("again") /\ job.stopped /\ container' = container)
<1>1. IInv /\ [Next]_vars => (Ends => Runs)
  <2> SUFFICES ASSUME IInv, [Next]_vars, Ends PROVE Runs
    OBVIOUS
  <2>1. Next /\ job.cmd \in Archives /\ job \in Job
    BY DEF vars, Archives, IInv, TypeOK, OrNone
  <2>2. Running \/ (job.stopped /\ job.at \in {2, 3})
    BY <2>1 DEF IInv, ServiceInv
  <2>3. CASE Stop
    <3>1. job.at = 1
      BY <2>3, Places DEF Stop, IInv
    <3>2. Running
      BY <2>2, <3>1
    <3>3. container' = container
      BY <2>1, <2>3, MoreToDo DEF Stop
    <3>4. QED  BY <3>2, <3>3 DEF Running
  <2>4. CASE StartAgain
    <3>1. CASE job.stopped /\ container' = [container EXCEPT !.running = TRUE]
      <4>1. job.at = 3 /\ container \in Container
        BY <2>1, <2>4, <3>1, Places DEF StartAgain, IInv, ServiceInv, TypeOK, OrNone
      <4>2. QED  BY <3>1, <4>1, NoneAssumption DEF Container, Running
    <3>2. CASE job.stopped /\ container' = container
      BY <2>4, <3>2 DEF StartAgain
    <3>3. CASE ~job.stopped /\ container' = container
      BY <2>2, <3>3 DEF Running
    <3>4. QED  BY <2>4, <3>1, <3>2, <3>3 DEF StartAgain
  <2>5. CASE Pull \/ Up \/ WaitForHealth \/ WriteEnvironment
    <3>1. job.at > 3
      <4>1. At("pull") \/ At("up") \/ At("health") \/ At("env")
        BY <2>5 DEF Pull, Up, WaitForHealth, WriteEnvironment
      <4>2. job.cmd = "update"
        BY <2>1, <4>1, Places DEF IInv, Archives
      <4>3. job.at \in {5, 6, 7, 8}
        BY <4>1, <4>2, Places DEF IInv
      <4>4. QED  BY <4>3
    <3>2. Running
      BY <2>2, <3>1
    <3>3. CASE container' = container
      BY <3>2, <3>3 DEF Running
    <3>4. CASE Up /\ ComposeWorks /\ \E healthy \in BOOLEAN :
                container' = [image |-> job.set.image, dir |-> job.set.dir,
                              token |-> job.set.token, running |-> TRUE,
                              healthy |-> healthy]
      <4>1. container'.running /\ (job.set.token \in Tokens => container' \in Container)
        BY <2>1, <3>4 DEF Job, Settled, Container
      <4>2. job.set.token \in Tokens
        BY <2>1, <3>4 DEF ComposeWorks, Job, Settled, OrNone
      <4>3. QED  BY <4>1, <4>2, NoneAssumption DEF Running
    <3>5. QED  BY <2>5, <3>3, <3>4 DEF Pull, Up, WaitForHealth, WriteEnvironment, Ask
  <2>6. QED  BY <2>1, <2>3, <2>4, <2>5, Endings
<1>2. IInv /\ [Next]_vars => [Ends => Runs]_vars
  BY <1>1
<1>3. QED  BY <1>2, Invariance, PTL DEF Spec, ServiceComesBack
=============================================================================
