------------------------------ MODULE NodeSync ------------------------------
(***************************************************************************)
(* How one bare-kernel node comes to run what the database says: rows and  *)
(* config_version change on the panel, the agent pulls the configuration   *)
(* when its fingerprint has changed, restarts the kernel only when the     *)
(* version has, users are also switched in the running kernel by commands, *)
(* and every five minutes the panel compares the list of clients on the    *)
(* node with the users it renders and asks for a new pull if they differ.  *)
(* A configuration is the set of users in it and a structure, a number for *)
(* everything else; a bucket of the fingerprint holds one user.            *)
(***************************************************************************)
EXTENDS Integers, FiniteSets, Sequences

CONSTANTS Users,          \* the users of the panel
          MaxDiff,        \* buckets read one by one (bareBucketMaxDiff, 8 in the code)
          SameSecond,     \* may a change fall in the second of the one before it
          Outlives,       \* does the kernel outlive the agent
          MaxChanges,     \* changes of users and of the structure (a bound)
          MaxBumps,       \* versions the comparison may ask for (a bound)
          MaxFaults       \* faults (a bound)

ASSUME FlagsAssumption == SameSecond \in BOOLEAN /\ Outlives \in BOOLEAN
ASSUME SyncBoundsAssumption == /\ MaxDiff \in Nat /\ MaxChanges \in Nat
                               /\ MaxBumps \in Nat /\ MaxFaults \in Nat

VARIABLES
  users,        \* users that are rendered: enabled, with a plan, not flagged
  shape,        \* the structure in the rows of the node; 0 is no file
  stamp,        \* seconds of the latest change of users and of the structure
  version,      \* driver_config.config_version
  owed,         \* structure changes whose BumpConfigVersion is still to come
  changes,      \* changes of users so far
  bumps,        \* versions the comparison has asked for, and the last of them
  lastBump,
  blurred,      \* has a change fallen in the second of the one before it
  disk,         \* config.json, config.version and config.etag of the agent
  pull,         \* progress of pullAndApply
  booted,       \* has the agent finished its first pull
  kernel,       \* what the kernel runs
  beat,         \* driver_config.agent.clients_fp
  base,         \* driver_config.bare_fp
  round,        \* progress of reconcileBareOnNode
  since,        \* has a pull begun, and ended, since the last round
  faults        \* faults so far

rows == <<users, shape, stamp, owed, changes, blurred>>
node == <<disk, pull, booted, kernel>>
asks == <<bumps, lastBump>>
panel == <<beat, base, round, asks>>
vars == <<users, shape, stamp, version, owed, changes, bumps, lastBump, blurred, disk, pull,
          booted, kernel, beat, base, round, since, faults>>

Stamps == [users : Nat, shape : Nat]
Tags == [version : Nat, users : Nat, shape : Nat]
Configs == [users : SUBSET Users, shape : Nat]
Disks == [users : SUBSET Users, shape : Nat, version : Nat, etag : Tags]
Pulls == [at : {"idle", "asked", "stamped", "fetched", "installed", "versioned", "tagged",
                "stopped"},
          tag : Tags, conf : Configs, restart : BOOLEAN]
Lists == [known : BOOLEAN, users : SUBSET Users]
Bases == [known : BOOLEAN, users : SUBSET Users, version : Nat, want : SUBSET Users]
Rounds == [at : {"idle", "users", "read", "compared"}, want : SUBSET Users,
           beat : Lists, version : Nat, equal : BOOLEAN]

NoTag == [version |-> 0, users |-> 0, shape |-> 0]
NoConf == [users |-> {}, shape |-> 0]
NoPull == [at |-> "idle", tag |-> NoTag, conf |-> NoConf, restart |-> FALSE]
NoList == [known |-> FALSE, users |-> {}]
NoBase == [known |-> FALSE, users |-> {}, version |-> 0, want |-> {}]
NoRound == [at |-> "idle", want |-> {}, beat |-> NoList, version |-> 0, equal |-> FALSE]
Down == [up |-> FALSE, shape |-> 0]

\* Mutant: a fingerprint without the stamp of the users, as the content was once too dear to sum.
FingerprintOfShape(v) == [version |-> v, users |-> 0, shape |-> stamp.shape]
\* The fingerprint of the configuration, with the version read from the row of the node.
Fingerprint(v) == [version |-> v, users |-> stamp.users, shape |-> stamp.shape]

SyncInit ==
  /\ users = {}
  /\ shape = 1
  /\ stamp = [users |-> 1, shape |-> 1]
  /\ version = 1
  /\ owed = 0
  /\ changes = 0
  /\ bumps = 0
  /\ lastBump = 0
  /\ blurred = FALSE
  /\ disk = [users |-> {}, shape |-> 0, version |-> 0, etag |-> NoTag]
  /\ pull = NoPull
  /\ booted = FALSE
  /\ kernel = Down
  /\ beat = NoList
  /\ base = NoBase
  /\ round = NoRound
  /\ since = "round"
  /\ faults = 0

-----------------------------------------------------------------------------
\* The panel: rows and versions.

\* updated_at of a change that follows one at second s.
Later(s) == {s + 1} \cup (IF SameSecond /\ s > 1 THEN {s} ELSE {})

MayChange == changes + (shape - 1) < MaxChanges

\* A user is enabled, bought a plan or was unbanned, or the reverse; the same handler queues
\* a command for the kernel, and the version stays as it is.
ToggleUser(u) ==
  /\ MayChange
  /\ changes' = changes + 1
  /\ \E s \in Later(stamp.users) :
       /\ stamp' = [stamp EXCEPT !.users = s]
       /\ blurred' = (blurred \/ s = stamp.users)
  /\ users' = IF u \in users THEN users \ {u} ELSE users \cup {u}
  /\ UNCHANGED <<shape, version, owed, node, panel, since, faults>>

\* An inbound, outbound, rule, relay or certificate of the node is saved.
ChangeShape ==
  /\ MayChange
  /\ shape' = shape + 1
  /\ owed' = owed + 1
  /\ \E s \in Later(stamp.shape) :
       /\ stamp' = [stamp EXCEPT !.shape = s]
       /\ blurred' = (blurred \/ s = stamp.shape)
  /\ UNCHANGED <<users, version, changes, node, panel, since, faults>>

\* Mutant: a save that changed nothing bumps as well.
BumpAnyway ==
  /\ owed' = owed - 1
  /\ version' = version + 1
  /\ UNCHANGED <<users, shape, stamp, changes, blurred, node, panel, since, faults>>
\* ... and BumpConfigVersion follows in a transaction of its own, if the panel lives.
Bump ==
  /\ owed > 0
  /\ owed' = owed - 1
  /\ version' = version + 1
  /\ UNCHANGED <<users, shape, stamp, changes, blurred, node, panel, since, faults>>

Fault == faults < MaxFaults /\ faults' = faults + 1

-----------------------------------------------------------------------------
\* The agent: pulling and applying the configuration.

\* The request is authenticated with the row of the node, which holds the version.
PullAsk ==
  /\ pull.at = "idle"
  /\ pull' = [at |-> "asked", tag |-> [version |-> version, users |-> 0, shape |-> 0],
              conf |-> NoConf, restart |-> FALSE]
  /\ since' = IF since = "round" THEN "asked" ELSE since
  /\ UNCHANGED <<rows, version, disk, booted, kernel, panel, faults>>

\* The pull has ended well, or without any news.
Pulled ==
  /\ pull' = NoPull
  /\ booted' = TRUE
  /\ since' = IF since = "asked" THEN "pulled" ELSE since

\* The fingerprint is computed; the one the agent has is answered by 304.
PullStamp ==
  /\ pull.at = "asked"
  /\ IF Fingerprint(pull.tag.version) = disk.etag
       THEN Pulled
       ELSE /\ pull' = [at |-> "stamped", tag |-> Fingerprint(pull.tag.version),
                        conf |-> NoConf, restart |-> FALSE]
            /\ UNCHANGED <<booted, since>>
  /\ UNCHANGED <<rows, version, disk, kernel, panel, faults>>

\* The content is read and rendered, later than the fingerprint.
PullRender ==
  /\ pull.at = "stamped"
  /\ pull' = [at |-> "fetched", tag |-> pull.tag,
              conf |-> [users |-> users, shape |-> shape], restart |-> FALSE]
  /\ UNCHANGED <<rows, version, disk, booted, kernel, panel, since, faults>>

\* The request fails, its answer is lost, or the kernel refuses the configuration (-test): the
\* old one stays, and the next round of the loop asks again.
PullFails ==
  /\ pull.at \in {"asked", "stamped", "fetched"}
  /\ Fault
  /\ pull' = NoPull
  /\ since' = "round"
  /\ UNCHANGED <<rows, version, disk, booted, kernel, panel>>

\* Mutant: only the first configuration starts the kernel.
NeedsStart(v) == disk.shape = 0 \/ disk.version = 0
\* Whether the kernel is to be restarted: nothing was installed, or the version is another.
NeedsRestart(v) == disk.shape = 0 \/ disk.version # v

\* config.json is replaced; whether to restart is decided before that.
PullInstall ==
  /\ pull.at = "fetched"
  /\ pull' = [at |-> "installed", tag |-> pull.tag, conf |-> pull.conf,
              restart |-> NeedsRestart(pull.tag.version)]
  /\ disk' = [users |-> pull.conf.users, shape |-> pull.conf.shape,
              version |-> disk.version, etag |-> disk.etag]
  /\ UNCHANGED <<rows, version, booted, kernel, panel, since, faults>>

PullVersion ==
  /\ pull.at = "installed"
  /\ disk' = [disk EXCEPT !.version = pull.tag.version]
  /\ pull' = [pull EXCEPT !.at = "versioned"]
  /\ UNCHANGED <<rows, version, booted, kernel, panel, since, faults>>

PullEtag ==
  /\ pull.at = "versioned"
  /\ disk' = [disk EXCEPT !.etag = pull.tag]
  /\ IF pull.restart
       THEN pull' = [pull EXCEPT !.at = "tagged"] /\ UNCHANGED <<booted, since>>
       ELSE Pulled
  /\ UNCHANGED <<rows, version, kernel, panel, faults>>

\* restartXray, under the lock of the kernel's process: stop ...
StopKernel ==
  /\ pull.at = "tagged"
  /\ kernel' = Down
  /\ pull' = [pull EXCEPT !.at = "stopped"]
  /\ UNCHANGED <<rows, version, disk, booted, panel, since, faults>>

LoadFile == kernel' = [up |-> TRUE, shape |-> disk.shape]

\* ... and start.
StartKernel ==
  /\ pull.at = "stopped"
  /\ LoadFile
  /\ Pulled
  /\ UNCHANGED <<rows, version, disk, panel, faults>>

\* The supervisor finds no kernel.
Supervise ==
  /\ booted
  /\ ~kernel.up
  /\ pull.at # "stopped"
  /\ disk.shape # 0
  /\ LoadFile
  /\ UNCHANGED <<rows, version, disk, pull, booted, panel, since, faults>>

KernelDies ==
  /\ kernel.up
  /\ Fault
  /\ kernel' = Down
  /\ UNCHANGED <<rows, version, disk, pull, booted, panel, since>>

\* The agent is killed, or leaves to be upgraded: it comes back and begins with a pull.
AgentCrash ==
  /\ Fault
  /\ pull' = NoPull
  /\ booted' = FALSE
  /\ since' = "round"
  /\ kernel' = IF Outlives THEN kernel ELSE Down
  /\ UNCHANGED <<rows, version, disk, panel>>

\* A report of the agent stores the fingerprint of its config.json.
Heartbeat ==
  /\ booted
  /\ disk.shape # 0
  /\ beat' = [known |-> TRUE, users |-> disk.users]
  /\ UNCHANGED <<rows, version, node, base, round, asks, since, faults>>

-----------------------------------------------------------------------------
\* The comparison of a round, on the panel.

\* Rounds are five minutes apart, pulls half a minute: one lies between two rounds.
RoundsFarApart == since = "pulled"

RoundUsers ==
  /\ round.at = "idle"
  /\ RoundsFarApart
  /\ round' = [at |-> "users", want |-> users, beat |-> NoList, version |-> 0, equal |-> FALSE]
  /\ UNCHANGED <<rows, version, node, beat, base, asks, since, faults>>

\* Mutant: the fingerprint of the node alone decides.
ShortcutByNode(b, v, want) == base.known /\ b.known /\ base.users = b.users /\ base.version = v
\* The last comparison still holds: neither the node nor the panel has changed since.
Shortcut(b, v, want) ==
  /\ b.known /\ base.known
  /\ b.users = base.users
  /\ v = base.version
  /\ want = base.want

RoundNode ==
  /\ round.at = "users"
  /\ IF Shortcut(beat, version, round.want)
       THEN round' = NoRound /\ since' = "round"
       ELSE /\ round' = [at |-> "read", want |-> round.want, beat |-> beat,
                         version |-> version, equal |-> FALSE]
            /\ UNCHANGED since
  /\ UNCHANGED <<rows, version, node, beat, base, asks, faults>>

\* Buckets in which the last heartbeat and the users differ.
DiffBuckets(b, want) == (b.users \ want) \cup (want \ b.users)

\* Mutant: what was not read is not filled in.
SnapshotUnfilled(b, want) ==
  IF b.known /\ Cardinality(DiffBuckets(b, want)) <= MaxDiff
    THEN disk.users \cap DiffBuckets(b, want)
    ELSE disk.users
\* The list of the node: the buckets that differ are read, the others taken as expected.
Snapshot(b, want) ==
  IF b.known /\ Cardinality(DiffBuckets(b, want)) <= MaxDiff
    THEN (disk.users \cap DiffBuckets(b, want)) \cup (want \ DiffBuckets(b, want))
    ELSE disk.users

\* The agent answers client_list from its config.json.
RoundRead ==
  /\ round.at = "read"
  /\ booted
  /\ disk.shape # 0
  /\ round' = [at |-> "compared", want |-> round.want, beat |-> round.beat,
               version |-> round.version,
               equal |-> (Snapshot(round.beat, round.want) = round.want)]
  /\ UNCHANGED <<rows, version, node, beat, base, asks, since, faults>>

\* No answer in time, half an answer, or pages of two configurations.
RoundUnknown ==
  /\ round.at = "read"
  /\ Fault
  /\ round' = NoRound
  /\ base' = NoBase
  /\ since' = "round"
  /\ UNCHANGED <<rows, version, node, beat, asks>>

\* Nothing to mend: the baseline is the fingerprint of the heartbeat read at the start.
RoundAgrees ==
  /\ round.at = "compared"
  /\ round.equal
  /\ base' = IF round.beat.known
               THEN [known |-> TRUE, users |-> round.beat.users, version |-> round.version,
                     want |-> round.want]
               ELSE base
  /\ round' = NoRound
  /\ since' = "round"
  /\ UNCHANGED <<rows, version, node, beat, asks, faults>>

\* A difference asks for a new pull, and forgets the baseline.
RoundBumps ==
  /\ round.at = "compared"
  /\ ~round.equal
  /\ bumps < MaxBumps
  /\ bumps' = bumps + 1
  /\ version' = version + 1
  /\ lastBump' = version'
  /\ base' = NoBase
  /\ round' = NoRound
  /\ since' = "round"
  /\ UNCHANGED <<rows, node, beat, faults>>

-----------------------------------------------------------------------------
PullStep == \/ PullAsk \/ PullStamp \/ PullRender \/ PullInstall \/ PullVersion
            \/ PullEtag \/ StopKernel \/ StartKernel
RoundStep == RoundNode \/ RoundRead \/ RoundAgrees \/ RoundBumps

SyncNext ==
  \/ \E u \in Users : ToggleUser(u)
  \/ ChangeShape
  \/ Bump
  \/ PullStep
  \/ PullFails
  \/ Supervise
  \/ KernelDies
  \/ AgentCrash
  \/ Heartbeat
  \/ RoundUsers
  \/ RoundStep
  \/ RoundUnknown

SyncSpec == SyncInit /\ [][SyncNext]_vars

\* configLoop, superviseLoop and reportLoop run for ever, commands are delivered while the
\* agent is up, and the scheduler starts a round every five minutes.
FairSyncSpec ==
  /\ SyncSpec
  /\ WF_vars(PullStep)
  /\ WF_vars(Supervise)
  /\ WF_vars(Heartbeat)
  /\ WF_vars(RoundUsers)
  /\ WF_vars(RoundStep)

-----------------------------------------------------------------------------
\* Types of the rows, of the agent's files and of the progress of pulls and rounds.
SyncTypeOK ==
  /\ users \subseteq Users
  /\ shape \in Nat
  /\ stamp \in Stamps
  /\ version \in Nat
  /\ owed \in Nat
  /\ changes \in Nat
  /\ bumps \in Nat
  /\ lastBump \in Nat
  /\ blurred \in BOOLEAN
  /\ disk \in Disks
  /\ pull \in Pulls
  /\ booted \in BOOLEAN
  /\ kernel \in [up : BOOLEAN, shape : Nat]
  /\ beat \in Lists
  /\ base \in Bases
  /\ round \in Rounds
  /\ since \in {"round", "asked", "pulled"}
  /\ faults \in Nat

\* While the agent holds the fingerprint of the rows, a 304 is the truth: its files hold the
\* content and the version, unless two changes fell in one second (Config, LoadFingerprint).
EtagTellsContent ==
  (disk.etag = Fingerprint(version) /\ ~blurred)
     => (disk.users = users /\ disk.shape = shape /\ disk.version = version)

\* The comparison does not excite itself: each version it asks for, and so each restart of the
\* kernel, is owed to a change of a user (reconcileBareOnNode, bareFillVerifiedBuckets).
BumpsAreEarned == bumps <= changes

\* In the end config.json holds the users of the panel, also when two changes fell in one
\* second and the fingerprint hid the second; and the structure, if its bump came.  Only one
\* thing can hide a difference for good: a baseline saved with the fingerprint of a heartbeat
\* that was older than the list compared (saveBareClientsFPBaseline).
StaleBaseline == base.known /\ base.users # base.want
FileCatchesUp ==
  <>[](StaleBaseline \/ (disk.users = users /\ (owed = 0 => disk.shape = shape)))

\* In the end a kernel runs with the structure of the panel, unless a bump never came.
StructureRuns == <>[](owed > 0 \/ (kernel.up /\ kernel.shape = shape))
=============================================================================
