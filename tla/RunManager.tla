----------------------------- MODULE RunManager -----------------------------
(***************************************************************************)
(* RunManager (tools/rust-tools/run-manager): the program that an operator *)
(* starts.  It reads from the coordinator's account which version of the   *)
(* client the run wants, gets that image, runs it in a container and, when *)
(* the client ends because its version is no longer the one wanted, begins *)
(* again.  Docker, the client and the operator are the environment.        *)
(*                                                                         *)
(* The names of images are sequences of words and separators: "sha256" is  *)
(* the word before the ":" of a digest.  An interrupt is one sent to the   *)
(* manager alone.                                                          *)
(***************************************************************************)
EXTENDS Naturals, Sequences, SequencesExt

CONSTANT Versions \* the client versions that the account goes through

\* A tag has no separator in it, and a digest no "@".
ASSUME VersionsAssumption ==
    /\ Versions \in Seq(Seq(STRING)) /\ Versions # <<>>
    /\ \A i \in DOMAIN Versions :
          /\ ~Contains(Versions[i], "@")
          /\ Contains(Versions[i], "sha256") \/ ~Contains(Versions[i], ":")

VARIABLES
    wanted,     \* the version in the account, by its place in Versions
    halted,     \* the run is halted
    local,      \* local_docker
    manager,    \* where run() is
    tag,        \* docker_tag
    containers, \* every container started, the last one is container_id
    listening,  \* a handler of the interrupt was installed, for good
    refused     \* ghost: docker stop or docker rm has failed

managerVars == <<wanted, halted, local, manager, tag, containers, listening, refused>>

Running(c) == containers[c].status = "running"
Newest == Len(containers)

\* run() has ended: "killed" by the interrupt, "failed" with an error, "returned".
Ended == manager \in {"killed", "failed", "returned"}

ManagerTypeOK ==
    /\ wanted \in DOMAIN Versions
    /\ halted \in BOOLEAN /\ local \in BOOLEAN /\ listening \in BOOLEAN /\ refused \in BOOLEAN
    /\ Ended \/ manager \in {"fetch", "pull", "start", "logs", "wait", "remove", "sleep"}
    /\ \A c \in DOMAIN containers :
          /\ containers[c].status \in {"running", "exited", "removed"}
          /\ containers[c].code \in {0, 1, 10}
          /\ containers[c].client \in {"starting", "waiting", "joined"}
          /\ containers[c].read \in 0 .. Len(Versions)

ManagerInit ==
    /\ wanted = 1
    /\ halted \in BOOLEAN
    /\ local \in BOOLEAN
    /\ manager = "fetch"
    /\ tag = <<>>
    /\ containers = <<>>
    /\ listening = FALSE
    /\ refused = FALSE

-----------------------------------------------------------------------------
(* Names. *)

IsDigest(name) == Contains(name, "sha256")

\* The name of the image of a version.
ImageName(version) ==
    IF IsDigest(version)
    THEN IF local THEN version ELSE <<"nousresearch/psyche-client", "@">> \o version
    ELSE IF local THEN <<"psyche-solana-client", ":">> \o version
                  ELSE <<"nousresearch/psyche-client", ":">> \o version

\* What stands between the first separator and the second, if there is one.
SecondPart(name, separator) ==
    LET places == {i \in DOMAIN name : name[i] = separator}
        first  == CHOOSE i \in places : \A j \in places : i <= j
        next   == (places \cup {Len(name) + 1}) \ {first}
        second == CHOOSE i \in next : \A j \in next : i <= j
    IN  SubSeq(name, first + 1, second - 1)

\* The version that the client in the container is told to be.
ClientVersion(name) ==
    IF ~IsDigest(name) THEN SecondPart(name, ":")
    ELSE IF local THEN name
    ELSE SecondPart(name, "@")

-----------------------------------------------------------------------------
(* The loop of run(). *)

Fails == manager' = "failed"

\* get_docker_tag_for_run
FetchTag ==
    /\ manager = "fetch"
    /\ \/ /\ manager' = IF local THEN "start" ELSE "pull"
          /\ tag' = ImageName(Versions[wanted])
       \/ Fails /\ UNCHANGED tag
    /\ UNCHANGED <<wanted, halted, local, containers, listening, refused>>

\* pull_image
PullImage ==
    /\ manager = "pull"
    /\ manager' = "start" \/ Fails
    /\ UNCHANGED <<wanted, halted, local, tag, containers, listening, refused>>

NewContainer ==
    [version |-> ClientVersion(tag), status |-> "running", code |-> 0,
     client |-> "starting", read |-> 0]

\* run_container.  From the first poll of select! on, the interrupt is handled.
RunContainer ==
    /\ manager = "start"
    /\ \/ /\ manager' = "logs"
          /\ containers' = Append(containers, NewContainer)
          /\ listening' = TRUE
       \/ Fails /\ UNCHANGED <<containers, listening>>
    /\ UNCHANGED <<wanted, halted, local, tag, refused>>

\* stream_logs: the logs end with the container.
StreamLogs ==
    /\ manager = "logs"
    /\ \/ ~Running(Newest) /\ manager' = "wait"
       \/ Fails
    /\ UNCHANGED <<wanted, halted, local, tag, containers, listening, refused>>

\* wait_for_container returns the exit code of the container.
WaitForContainer ==
    /\ manager = "wait" /\ ~Running(Newest)
    /\ manager' = "remove" \/ Fails
    /\ UNCHANGED <<wanted, halted, local, tag, containers, listening, refused>>

\* stop_and_remove_container: a command that cannot be run is an error, one that
\* fails is only logged.  A container that still runs is not removed.
StopAndRemove(then) ==
    \/ /\ containers' = [containers EXCEPT ![Newest].status = "removed"]
       /\ manager' = then
       /\ UNCHANGED refused
    \/ /\ containers' \in {containers, [containers EXCEPT ![Newest].status = "exited"]}
       /\ manager' \in {then, "failed"}
       /\ refused' = TRUE

\* Only a client of the wrong version is replaced.
RemoveContainer ==
    /\ manager = "remove"
    /\ StopAndRemove(IF containers[Newest].code = 10 THEN "sleep" ELSE "returned")
    /\ UNCHANGED <<wanted, halted, local, tag, listening>>

RetryDelay ==
    /\ manager = "sleep"
    /\ manager' = "fetch"
    /\ UNCHANGED <<wanted, halted, local, tag, containers, listening, refused>>

\* Ctrl+C.  Only while the logs are read does anybody look at it; before the first
\* container it ends the process, and after that it is swallowed.  A process that
\* is killed in docker run may have started a container.
Interrupt ==
    /\ ~Ended
    /\ \/ listening /\ manager = "logs" /\ StopAndRemove("returned") /\ UNCHANGED listening
       \/ /\ ~listening
          /\ manager' = "killed"
          /\ containers' \in {containers} \cup
                (IF manager = "start" THEN {Append(containers, NewContainer)} ELSE {})
          /\ UNCHANGED <<listening, refused>>
    /\ UNCHANGED <<wanted, halted, local, tag>>

-----------------------------------------------------------------------------
(* The environment. *)

\* The owner of the run wants another version: update_client_version refuses one while
\* the run is not halted.
VersionChanges ==
    /\ halted /\ wanted < Len(Versions)
    /\ wanted' = wanted + 1
    /\ UNCHANGED <<halted, local, manager, tag, containers, listening, refused>>

\* The run is paused, or goes on.
RunHalts ==
    /\ halted' = ~halted
    /\ UNCHANGED <<wanted, local, manager, tag, containers, listening, refused>>

ExitsWith(code) ==
    /\ containers' = [containers EXCEPT ![Newest].status = "exited", ![Newest].code = code]
    /\ UNCHANGED <<wanted, halted, local, manager, tag, listening, refused>>

\* The client that runs, if one does, is at a point of its life.
ClientIs(points) == Newest > 0 /\ Running(Newest) /\ containers[Newest].client \in points

\* A client that starts is not of the version in the account, which is not "test" either.
Mismatch ==
    /\ containers[Newest].version # Versions[wanted]
    /\ Versions[wanted] # <<"test">>

\* The version in the account is not the one that the client read when it started.
VersionChanged == Versions[containers[Newest].read] # Versions[wanted]

\* Mutant of ClientMismatch: the version is looked at only at the start.
ClientMismatchAtStart == ClientIs({"starting"}) /\ Mismatch /\ ExitsWith(10)

\* The client compares its version with the account's when it starts; a client that has
\* not joined looks at the account again while the run is halted.
ClientMismatch ==
    /\ \/ ClientIs({"starting"}) /\ Mismatch
       \/ ClientIs({"waiting"}) /\ halted /\ VersionChanged
    /\ ExitsWith(10)

\* The client has read the version, and later joins the run if it is not halted.
ClientGoesOn ==
    /\ \/ /\ ClientIs({"starting"}) /\ ~Mismatch
          /\ containers' = [containers EXCEPT ![Newest].client = "waiting",
                                              ![Newest].read = wanted]
       \/ /\ ClientIs({"waiting"}) /\ ~halted
          /\ containers' = [containers EXCEPT ![Newest].client = "joined"]
    /\ UNCHANGED <<wanted, halted, local, manager, tag, listening, refused>>

\* The client ends for another reason.
ClientEnds ==
    /\ ClientIs({"starting", "waiting", "joined"})
    /\ ExitsWith(0) \/ ExitsWith(1)

ManagerStep ==
    \/ FetchTag
    \/ PullImage
    \/ RunContainer
    \/ manager = "logs" /\ ~Running(Newest) /\ StreamLogs
    \/ WaitForContainer
    \/ RemoveContainer
    \/ RetryDelay

ManagerNext ==
    \/ ManagerStep
    \/ StreamLogs
    \/ Interrupt
    \/ VersionChanges
    \/ RunHalts
    \/ ClientMismatch
    \/ ClientGoesOn
    \/ ClientEnds

\* The manager and its clients go on; nobody else has to do anything.
ManagerFairness == WF_managerVars(ManagerStep) /\ WF_managerVars(ClientMismatch)

ManagerSpec == ManagerInit /\ [][ManagerNext]_managerVars /\ ManagerFairness

-----------------------------------------------------------------------------
(* What the manager promises. *)

\* At most one client runs at a time, whatever fails: two would sign with one wallet.
OneClient ==
    \A c, d \in DOMAIN containers : Running(c) /\ Running(d) => c = d

\* When run() returns without an error nothing runs any more, if docker did as it
\* was told.
NothingRunsOn ==
    manager = "returned" /\ ~refused => \A c \in DOMAIN containers : ~Running(c)

\* However often the version changes, again and again a client runs that has the version
\* wanted, or the manager has ended, or its client has joined the run or waits while the
\* run is not halted: such a client does not look at the version.
CatchesUp ==
    []<>(\/ Ended
         \/ ClientIs({"joined"})
         \/ ClientIs({"starting"}) /\ ~Mismatch
         \/ ClientIs({"waiting"}) /\ ~(halted /\ VersionChanged))

\* The manager runs one client at most, and none when it has returned.
ManagerInv ==
    /\ ManagerTypeOK
    /\ OneClient
    /\ NothingRunsOn

\* The manager keeps its invariant and catches up with the version of the run.
ManagerCorrect ==
    /\ []ManagerInv
    /\ CatchesUp
=============================================================================
