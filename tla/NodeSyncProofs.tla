--------------------------- MODULE NodeSyncProofs ---------------------------
(***************************************************************************)
(* What the exchange of configurations keeps for every number of users,    *)
(* changes and faults.                                                     *)
(***************************************************************************)
EXTENDS NodeSync, TLAPS

\* Fingerprints are ordered: what the agent holds is older than what it pulls, and that is no
\* newer than the rows.
TagsOrdered ==
  /\ version >= lastBump
  /\ disk.etag.version <= version
  /\ disk.etag.users <= stamp.users
  /\ disk.etag.shape <= stamp.shape
  /\ pull.tag.version <= version
  /\ pull.tag.users <= stamp.users
  /\ pull.tag.shape <= stamp.shape
  /\ pull.at # "idle" => disk.etag.version <= pull.tag.version
  /\ pull.at \in {"stamped", "fetched", "installed", "versioned"} =>
       /\ disk.etag # pull.tag
       /\ disk.etag.users <= pull.tag.users
       /\ disk.etag.shape <= pull.tag.shape

\* A fingerprint that is still that of the rows comes with their content, unless a change
\* fell in the second of the one before it.
TagsTell ==
  ~blurred =>
    /\ disk.etag = Fingerprint(version) =>
         disk.users = users /\ disk.shape = shape /\ disk.version = version
    /\ pull.tag = Fingerprint(version) =>
         /\ pull.at = "fetched" => pull.conf.users = users /\ pull.conf.shape = shape
         /\ pull.at \in {"installed", "versioned"} => disk.users = users /\ disk.shape = shape
    /\ pull.at = "versioned" => disk.version = pull.tag.version

\* The file is what the users are, and no pull under way is older than the last bump.
Calm == disk.users = users /\ (pull.at # "idle" => pull.tag.version >= lastBump)

\* As long as no user has changed since the last bump: everything read under a version as new
\* as the bump has the users in it, and a comparison finds no difference.
Settled ==
  /\ disk.etag.version >= lastBump => disk.users = users
  /\ (pull.at = "fetched" /\ pull.tag.version >= lastBump) => pull.conf.users = users
  /\ (pull.at \in {"installed", "versioned", "tagged", "stopped"}
       /\ pull.tag.version >= lastBump) => disk.users = users
  /\ since = "asked" => pull.at # "idle" /\ pull.tag.version >= lastBump
  /\ since = "pulled" => Calm
  /\ round.at # "idle" => Calm /\ round.want = users
  /\ round.at = "compared" => round.equal

\* Each bump is paid by a change; a bump for every change leaves the node settled.
BumpsSettle == bumps <= changes /\ (bumps = changes => Settled)

-----------------------------------------------------------------------------
\* The blank values have the types of what they stand for.
LEMMA Blanks == /\ NoConf \in Configs /\ NoPull \in Pulls /\ NoList \in Lists
                /\ NoBase \in Bases /\ NoRound \in Rounds
<1>1. NoConf \in Configs /\ NoPull \in Pulls
  BY DEF NoPull, NoConf, NoTag, Pulls, Configs, Tags
<1>2. NoList \in Lists /\ NoBase \in Bases
  BY DEF NoList, NoBase, Lists, Bases
<1>3. NoRound \in Rounds
  BY DEF NoRound, NoList, Rounds, Lists
<1>4. QED
  BY <1>1, <1>2, <1>3

\* Every step keeps the types.
LEMMA TypeStep ==
  ASSUME SyncTypeOK, [SyncNext]_vars
  PROVE  SyncTypeOK'
<1>1. ASSUME NEW u \in Users, ToggleUser(u)
      PROVE  SyncTypeOK'
  BY <1>1 DEF ToggleUser, MayChange, Later, rows, node, panel, asks, SyncTypeOK, Stamps, Tags,
       Configs, Disks, Pulls, Lists, Bases, Rounds, NoTag, NoConf, NoPull, NoList, NoBase,
       NoRound, Down
<1>2. ASSUME ChangeShape
      PROVE  SyncTypeOK'
  BY <1>2 DEF ChangeShape, MayChange, Later, rows, node, panel, asks, SyncTypeOK, Stamps,
       Tags, Configs, Disks, Pulls, Lists, Bases, Rounds, NoTag, NoConf, NoPull, NoList,
       NoBase, NoRound, Down
<1>3. ASSUME Bump
      PROVE  SyncTypeOK'
  BY <1>3 DEF Bump, rows, node, panel, asks, SyncTypeOK, Stamps, Tags, Configs, Disks, Pulls,
       Lists, Bases, Rounds, NoTag, NoConf, NoPull, NoList, NoBase, NoRound, Down
<1>4. ASSUME PullAsk
      PROVE  SyncTypeOK'
  BY <1>4 DEF PullAsk, rows, node, panel, asks, SyncTypeOK, Stamps, Tags, Configs, Disks,
       Pulls, Lists, Bases, Rounds, NoTag, NoConf, NoPull, NoList, NoBase, NoRound, Down
<1>5. ASSUME PullStamp
      PROVE  SyncTypeOK'
  <2>1. Fingerprint(pull.tag.version) \in Tags
    BY DEF Fingerprint, SyncTypeOK, Pulls, Tags, Stamps
  <2>2. pull' \in Pulls
    <3>1. [at |-> "stamped", tag |-> Fingerprint(pull.tag.version), conf |-> NoConf,
           restart |-> FALSE] \in Pulls
      BY <2>1, Blanks DEF Pulls
    <3>2. QED
      BY <1>5, <3>1, Blanks DEF PullStamp, Pulled
  <2>3. since' \in {"round", "asked", "pulled"} /\ booted' \in BOOLEAN
    BY <1>5 DEF PullStamp, Pulled, SyncTypeOK
  <2>4. QED
    BY <1>5, <2>2, <2>3 DEF PullStamp, rows, panel, asks, SyncTypeOK
<1>6. ASSUME PullRender
      PROVE  SyncTypeOK'
  BY <1>6 DEF PullRender, rows, node, panel, asks, SyncTypeOK, Stamps, Tags, Configs, Disks,
       Pulls, Lists, Bases, Rounds, NoTag, NoConf, NoPull, NoList, NoBase, NoRound, Down
<1>7. ASSUME PullInstall
      PROVE  SyncTypeOK'
  BY <1>7 DEF PullInstall, NeedsRestart, rows, node, panel, asks, SyncTypeOK, Stamps, Tags,
       Configs, Disks, Pulls, Lists, Bases, Rounds, NoTag, NoConf, NoPull, NoList, NoBase,
       NoRound, Down
<1>8. ASSUME PullVersion
      PROVE  SyncTypeOK'
  BY <1>8 DEF PullVersion, rows, node, panel, asks, SyncTypeOK, Stamps, Tags, Configs, Disks,
       Pulls, Lists, Bases, Rounds, NoTag, NoConf, NoPull, NoList, NoBase, NoRound, Down
<1>9. ASSUME PullEtag
      PROVE  SyncTypeOK'
  <2>1. disk' \in Disks
    BY <1>9 DEF PullEtag, SyncTypeOK, Disks, Pulls
  <2>2. pull' \in Pulls
    BY <1>9, Blanks DEF PullEtag, Pulled, SyncTypeOK, Pulls
  <2>3. since' \in {"round", "asked", "pulled"} /\ booted' \in BOOLEAN
    BY <1>9 DEF PullEtag, Pulled, SyncTypeOK
  <2>4. QED
    BY <1>9, <2>1, <2>2, <2>3 DEF PullEtag, rows, panel, asks, SyncTypeOK
<1>10. ASSUME StopKernel
      PROVE  SyncTypeOK'
  BY <1>10 DEF StopKernel, rows, node, panel, asks, SyncTypeOK, Stamps, Tags, Configs, Disks,
       Pulls, Lists, Bases, Rounds, NoTag, NoConf, NoPull, NoList, NoBase, NoRound, Down
<1>11. ASSUME StartKernel
      PROVE  SyncTypeOK'
  BY <1>11 DEF StartKernel, Pulled, LoadFile, rows, node, panel, asks, SyncTypeOK, Stamps,
       Tags, Configs, Disks, Pulls, Lists, Bases, Rounds, NoTag, NoConf, NoPull, NoList,
       NoBase, NoRound, Down
<1>12. ASSUME PullFails
      PROVE  SyncTypeOK'
  BY <1>12 DEF PullFails, Fault, rows, node, panel, asks, SyncTypeOK, Stamps, Tags, Configs,
       Disks, Pulls, Lists, Bases, Rounds, NoTag, NoConf, NoPull, NoList, NoBase, NoRound,
       Down
<1>13. ASSUME Supervise
      PROVE  SyncTypeOK'
  BY <1>13 DEF Supervise, LoadFile, rows, node, panel, asks, SyncTypeOK, Stamps, Tags,
       Configs, Disks, Pulls, Lists, Bases, Rounds, NoTag, NoConf, NoPull, NoList, NoBase,
       NoRound, Down
<1>14. ASSUME KernelDies
      PROVE  SyncTypeOK'
  BY <1>14 DEF KernelDies, Fault, rows, node, panel, asks, SyncTypeOK, Stamps, Tags, Configs,
       Disks, Pulls, Lists, Bases, Rounds, NoTag, NoConf, NoPull, NoList, NoBase, NoRound,
       Down
<1>15. ASSUME AgentCrash
      PROVE  SyncTypeOK'
  <2>1. kernel' \in [up : BOOLEAN, shape : Nat]
    BY <1>15 DEF AgentCrash, SyncTypeOK, Down
  <2>2. pull' \in Pulls
    BY <1>15 DEF AgentCrash, NoPull, NoConf, NoTag, Pulls, Configs, Tags
  <2>3. faults' \in Nat
    BY <1>15 DEF AgentCrash, Fault, SyncTypeOK
  <2>4. QED
    BY <1>15, <2>1, <2>2, <2>3 DEF AgentCrash, rows, panel, asks, SyncTypeOK
<1>16. ASSUME Heartbeat
      PROVE  SyncTypeOK'
  BY <1>16 DEF Heartbeat, rows, node, panel, asks, SyncTypeOK, Stamps, Tags, Configs, Disks,
       Pulls, Lists, Bases, Rounds, NoTag, NoConf, NoPull, NoList, NoBase, NoRound, Down
<1>17. ASSUME RoundUsers
      PROVE  SyncTypeOK'
  BY <1>17 DEF RoundUsers, RoundsFarApart, rows, node, panel, asks, SyncTypeOK, Stamps, Tags,
       Configs, Disks, Pulls, Lists, Bases, Rounds, NoTag, NoConf, NoPull, NoList, NoBase,
       NoRound, Down
<1>18. ASSUME RoundNode
      PROVE  SyncTypeOK'
  <2>1. round' \in Rounds
    <3>1. round.want \in SUBSET Users
      BY DEF SyncTypeOK, Rounds
    <3>2. [at |-> "read", want |-> round.want, beat |-> beat, version |-> version,
           equal |-> FALSE] \in Rounds
      BY <3>1 DEF SyncTypeOK, Rounds
    <3>3. QED
      BY <1>18, <3>2, Blanks DEF RoundNode
  <2>2. since' \in {"round", "asked", "pulled"}
    BY <1>18 DEF RoundNode, SyncTypeOK
  <2>3. QED
    BY <1>18, <2>1, <2>2 DEF RoundNode, rows, node, asks, SyncTypeOK
<1>19. ASSUME RoundRead
      PROVE  SyncTypeOK'
  BY <1>19 DEF RoundRead, Snapshot, DiffBuckets, rows, node, panel, asks, SyncTypeOK, Stamps,
       Tags, Configs, Disks, Pulls, Lists, Bases, Rounds, NoTag, NoConf, NoPull, NoList,
       NoBase, NoRound, Down
<1>20. ASSUME RoundAgrees
      PROVE  SyncTypeOK'
  BY <1>20 DEF RoundAgrees, rows, node, panel, asks, SyncTypeOK, Stamps, Tags, Configs, Disks,
       Pulls, Lists, Bases, Rounds, NoTag, NoConf, NoPull, NoList, NoBase, NoRound, Down
<1>21. ASSUME RoundBumps
      PROVE  SyncTypeOK'
  BY <1>21 DEF RoundBumps, rows, node, panel, asks, SyncTypeOK, Stamps, Tags, Configs, Disks,
       Pulls, Lists, Bases, Rounds, NoTag, NoConf, NoPull, NoList, NoBase, NoRound, Down
<1>22. ASSUME RoundUnknown
      PROVE  SyncTypeOK'
  BY <1>22 DEF RoundUnknown, Fault, rows, node, panel, asks, SyncTypeOK, Stamps, Tags,
       Configs, Disks, Pulls, Lists, Bases, Rounds, NoTag, NoConf, NoPull, NoList, NoBase,
       NoRound, Down
<1>23. ASSUME UNCHANGED vars
      PROVE  SyncTypeOK'
  BY <1>23 DEF vars, SyncTypeOK, Stamps, Tags, Configs, Disks, Pulls, Lists, Bases, Rounds,
       NoTag, NoConf, NoPull, NoList, NoBase, NoRound, Down
<1>24. QED
  BY <1>1, <1>2, <1>3, <1>4, <1>5, <1>6, <1>7, <1>8, <1>9, <1>10, <1>11, <1>12, <1>13, <1>14,
       <1>15, <1>16, <1>17, <1>18, <1>19, <1>20, <1>21, <1>22, <1>23 DEF SyncNext, PullStep,
       RoundStep

\* Versions and stamps only grow, and a pull carries later ones than what is installed.
LEMMA OrderStep ==
  ASSUME SyncTypeOK, TagsOrdered, [SyncNext]_vars
  PROVE  TagsOrdered'
<1>1. ASSUME NEW u \in Users, ToggleUser(u)
      PROVE  TagsOrdered'
  BY <1>1 DEF ToggleUser, MayChange, Later, rows, node, panel, asks, SyncTypeOK, TagsOrdered,
       Stamps, Tags, Configs, Disks, Pulls, Lists, Bases, Rounds, NoTag, NoConf, NoPull,
       NoList, NoBase, NoRound, Down
<1>2. ASSUME ChangeShape
      PROVE  TagsOrdered'
  BY <1>2 DEF ChangeShape, MayChange, Later, rows, node, panel, asks, SyncTypeOK, TagsOrdered,
       Stamps, Tags, Configs, Disks, Pulls, Lists, Bases, Rounds, NoTag, NoConf, NoPull,
       NoList, NoBase, NoRound, Down
<1>3. ASSUME Bump
      PROVE  TagsOrdered'
  BY <1>3 DEF Bump, rows, node, panel, asks, SyncTypeOK, TagsOrdered, Stamps, Tags, Configs,
       Disks, Pulls, Lists, Bases, Rounds, NoTag, NoConf, NoPull, NoList, NoBase, NoRound,
       Down
<1>4. ASSUME PullAsk
      PROVE  TagsOrdered'
  BY <1>4 DEF PullAsk, rows, node, panel, asks, SyncTypeOK, TagsOrdered, Stamps, Tags,
       Configs, Disks, Pulls, Lists, Bases, Rounds, NoTag, NoConf, NoPull, NoList, NoBase,
       NoRound, Down
<1>5. ASSUME PullStamp
      PROVE  TagsOrdered'
  BY <1>5 DEF PullStamp, Pulled, Fingerprint, rows, node, panel, asks, SyncTypeOK,
       TagsOrdered, Stamps, Tags, Configs, Disks, Pulls, Lists, Bases, Rounds, NoTag, NoConf,
       NoPull, NoList, NoBase, NoRound, Down
<1>6. ASSUME PullRender
      PROVE  TagsOrdered'
  BY <1>6 DEF PullRender, rows, node, panel, asks, SyncTypeOK, TagsOrdered, Stamps, Tags,
       Configs, Disks, Pulls, Lists, Bases, Rounds, NoTag, NoConf, NoPull, NoList, NoBase,
       NoRound, Down
<1>7. ASSUME PullInstall
      PROVE  TagsOrdered'
  BY <1>7 DEF PullInstall, NeedsRestart, rows, node, panel, asks, SyncTypeOK, TagsOrdered,
       Stamps, Tags, Configs, Disks, Pulls, Lists, Bases, Rounds, NoTag, NoConf, NoPull,
       NoList, NoBase, NoRound, Down
<1>8. ASSUME PullVersion
      PROVE  TagsOrdered'
  BY <1>8 DEF PullVersion, rows, node, panel, asks, SyncTypeOK, TagsOrdered, Stamps, Tags,
       Configs, Disks, Pulls, Lists, Bases, Rounds, NoTag, NoConf, NoPull, NoList, NoBase,
       NoRound, Down
<1>9. ASSUME PullEtag
      PROVE  TagsOrdered'
  BY <1>9 DEF PullEtag, Pulled, rows, node, panel, asks, SyncTypeOK, TagsOrdered, Stamps,
       Tags, Configs, Disks, Pulls, Lists, Bases, Rounds, NoTag, NoConf, NoPull, NoList,
       NoBase, NoRound, Down
<1>10. ASSUME StopKernel
      PROVE  TagsOrdered'
  BY <1>10 DEF StopKernel, rows, node, panel, asks, SyncTypeOK, TagsOrdered, Stamps, Tags,
       Configs, Disks, Pulls, Lists, Bases, Rounds, NoTag, NoConf, NoPull, NoList, NoBase,
       NoRound, Down
<1>11. ASSUME StartKernel
      PROVE  TagsOrdered'
  BY <1>11 DEF StartKernel, Pulled, LoadFile, rows, node, panel, asks, SyncTypeOK,
       TagsOrdered, Stamps, Tags, Configs, Disks, Pulls, Lists, Bases, Rounds, NoTag, NoConf,
       NoPull, NoList, NoBase, NoRound, Down
<1>12. ASSUME PullFails
      PROVE  TagsOrdered'
  BY <1>12 DEF PullFails, Fault, rows, node, panel, asks, SyncTypeOK, TagsOrdered, Stamps,
       Tags, Configs, Disks, Pulls, Lists, Bases, Rounds, NoTag, NoConf, NoPull, NoList,
       NoBase, NoRound, Down
<1>13. ASSUME Supervise
      PROVE  TagsOrdered'
  BY <1>13 DEF Supervise, LoadFile, rows, node, panel, asks, SyncTypeOK, TagsOrdered, Stamps,
       Tags, Configs, Disks, Pulls, Lists, Bases, Rounds, NoTag, NoConf, NoPull, NoList,
       NoBase, NoRound, Down
<1>14. ASSUME KernelDies
      PROVE  TagsOrdered'
  BY <1>14 DEF KernelDies, Fault, rows, node, panel, asks, SyncTypeOK, TagsOrdered, Stamps,
       Tags, Configs, Disks, Pulls, Lists, Bases, Rounds, NoTag, NoConf, NoPull, NoList,
       NoBase, NoRound, Down
<1>15. ASSUME AgentCrash
      PROVE  TagsOrdered'
  BY <1>15 DEF AgentCrash, Fault, rows, node, panel, asks, SyncTypeOK, TagsOrdered, Stamps,
       Tags, Configs, Disks, Pulls, Lists, Bases, Rounds, NoTag, NoConf, NoPull, NoList,
       NoBase, NoRound, Down
<1>16. ASSUME Heartbeat
      PROVE  TagsOrdered'
  BY <1>16 DEF Heartbeat, rows, node, panel, asks, SyncTypeOK, TagsOrdered, Stamps, Tags,
       Configs, Disks, Pulls, Lists, Bases, Rounds, NoTag, NoConf, NoPull, NoList, NoBase,
       NoRound, Down
<1>17. ASSUME RoundUsers
      PROVE  TagsOrdered'
  BY <1>17 DEF RoundUsers, RoundsFarApart, rows, node, panel, asks, SyncTypeOK, TagsOrdered,
       Stamps, Tags, Configs, Disks, Pulls, Lists, Bases, Rounds, NoTag, NoConf, NoPull,
       NoList, NoBase, NoRound, Down
<1>18. ASSUME RoundNode
      PROVE  TagsOrdered'
  BY <1>18 DEF RoundNode, Shortcut, rows, node, panel, asks, SyncTypeOK, TagsOrdered, Stamps,
       Tags, Configs, Disks, Pulls, Lists, Bases, Rounds, NoTag, NoConf, NoPull, NoList,
       NoBase, NoRound, Down
<1>19. ASSUME RoundRead
      PROVE  TagsOrdered'
  BY <1>19 DEF RoundRead, Snapshot, DiffBuckets, rows, node, panel, asks, SyncTypeOK,
       TagsOrdered, Stamps, Tags, Configs, Disks, Pulls, Lists, Bases, Rounds, NoTag, NoConf,
       NoPull, NoList, NoBase, NoRound, Down
<1>20. ASSUME RoundAgrees
      PROVE  TagsOrdered'
  BY <1>20 DEF RoundAgrees, rows, node, panel, asks, SyncTypeOK, TagsOrdered, Stamps, Tags,
       Configs, Disks, Pulls, Lists, Bases, Rounds, NoTag, NoConf, NoPull, NoList, NoBase,
       NoRound, Down
<1>21. ASSUME RoundBumps
      PROVE  TagsOrdered'
  BY <1>21 DEF RoundBumps, rows, node, panel, asks, SyncTypeOK, TagsOrdered, Stamps, Tags,
       Configs, Disks, Pulls, Lists, Bases, Rounds, NoTag, NoConf, NoPull, NoList, NoBase,
       NoRound, Down
<1>22. ASSUME RoundUnknown
      PROVE  TagsOrdered'
  BY <1>22 DEF RoundUnknown, Fault, rows, node, panel, asks, SyncTypeOK, TagsOrdered, Stamps,
       Tags, Configs, Disks, Pulls, Lists, Bases, Rounds, NoTag, NoConf, NoPull, NoList,
       NoBase, NoRound, Down
<1>23. ASSUME UNCHANGED vars
      PROVE  TagsOrdered'
  BY <1>23 DEF vars, SyncTypeOK, TagsOrdered, Stamps, Tags, Configs, Disks, Pulls, Lists,
       Bases, Rounds, NoTag, NoConf, NoPull, NoList, NoBase, NoRound, Down
<1>24. QED
  BY <1>1, <1>2, <1>3, <1>4, <1>5, <1>6, <1>7, <1>8, <1>9, <1>10, <1>11, <1>12, <1>13, <1>14,
       <1>15, <1>16, <1>17, <1>18, <1>19, <1>20, <1>21, <1>22, <1>23 DEF SyncNext, PullStep,
       RoundStep

\* Every step keeps what a tag tells, stamps and versions being in order.
LEMMA TellStep ==
  ASSUME SyncTypeOK, TagsOrdered, TagsTell, [SyncNext]_vars
  PROVE  TagsTell'
<1>1. ASSUME NEW u \in Users, ToggleUser(u)
      PROVE  TagsTell'
  <2>1. PICK s \in Later(stamp.users) : /\ stamp' = [stamp EXCEPT !.users = s]
                                      /\ blurred' = (blurred \/ s = stamp.users)
    BY <1>1 DEF ToggleUser
  <2>2. CASE blurred'
    BY <2>2 DEF TagsTell
  <2>3. CASE ~blurred'
    <3>1. stamp'.users = stamp.users + 1
      BY <2>1, <2>3 DEF Later, SyncTypeOK, Stamps
    <3>2. disk.etag # Fingerprint(version)' /\ pull.tag # Fingerprint(version)'
      BY <1>1, <3>1 DEF ToggleUser, Fingerprint, TagsOrdered, SyncTypeOK, Stamps, Disks,
           Pulls, Tags
    <3>3. QED
      BY <1>1, <2>1, <2>3, <3>2 DEF ToggleUser, node, TagsTell
  <2>4. QED
    BY <2>2, <2>3
<1>2. ASSUME ChangeShape
      PROVE  TagsTell'
  <2>1. PICK s \in Later(stamp.shape) : /\ stamp' = [stamp EXCEPT !.shape = s]
                                      /\ blurred' = (blurred \/ s = stamp.shape)
    BY <1>2 DEF ChangeShape
  <2>2. CASE blurred'
    BY <2>2 DEF TagsTell
  <2>3. CASE ~blurred'
    <3>1. stamp'.shape = stamp.shape + 1
      BY <2>1, <2>3 DEF Later, SyncTypeOK, Stamps
    <3>2. disk.etag # Fingerprint(version)' /\ pull.tag # Fingerprint(version)'
      BY <1>2, <3>1 DEF ChangeShape, Fingerprint, TagsOrdered, SyncTypeOK, Stamps, Disks,
           Pulls, Tags
    <3>3. QED
      BY <1>2, <2>1, <2>3, <3>2 DEF ChangeShape, node, TagsTell
  <2>4. QED
    BY <2>2, <2>3
<1>3. ASSUME Bump
      PROVE  TagsTell'
  BY <1>3 DEF Bump, rows, node, panel, asks, SyncTypeOK, TagsOrdered, TagsTell, Fingerprint,
       Stamps, Tags, Configs, Disks, Pulls, Lists, Bases, Rounds, NoTag, NoConf, NoPull,
       NoList, NoBase, NoRound, Down
<1>4. ASSUME PullAsk
      PROVE  TagsTell'
  BY <1>4 DEF PullAsk, rows, node, panel, asks, SyncTypeOK, TagsOrdered, TagsTell,
       Fingerprint, Stamps, Tags, Configs, Disks, Pulls, Lists, Bases, Rounds, NoTag, NoConf,
       NoPull, NoList, NoBase, NoRound, Down
<1>5. ASSUME PullStamp
      PROVE  TagsTell'
  BY <1>5 DEF PullStamp, Pulled, Fingerprint, rows, node, panel, asks, SyncTypeOK,
       TagsOrdered, TagsTell, Fingerprint, Stamps, Tags, Configs, Disks, Pulls, Lists, Bases,
       Rounds, NoTag, NoConf, NoPull, NoList, NoBase, NoRound, Down
<1>6. ASSUME PullRender
      PROVE  TagsTell'
  BY <1>6 DEF PullRender, rows, node, panel, asks, SyncTypeOK, TagsOrdered, TagsTell,
       Fingerprint, Stamps, Tags, Configs, Disks, Pulls, Lists, Bases, Rounds, NoTag, NoConf,
       NoPull, NoList, NoBase, NoRound, Down
<1>7. ASSUME PullInstall
      PROVE  TagsTell'
  BY <1>7 DEF PullInstall, NeedsRestart, rows, node, panel, asks, SyncTypeOK, TagsOrdered,
       TagsTell, Fingerprint, Stamps, Tags, Configs, Disks, Pulls, Lists, Bases, Rounds,
       NoTag, NoConf, NoPull, NoList, NoBase, NoRound, Down
<1>8. ASSUME PullVersion
      PROVE  TagsTell'
  BY <1>8 DEF PullVersion, rows, node, panel, asks, SyncTypeOK, TagsOrdered, TagsTell,
       Fingerprint, Stamps, Tags, Configs, Disks, Pulls, Lists, Bases, Rounds, NoTag, NoConf,
       NoPull, NoList, NoBase, NoRound, Down
<1>9. ASSUME PullEtag
      PROVE  TagsTell'
  BY <1>9 DEF PullEtag, Pulled, rows, node, panel, asks, SyncTypeOK, TagsOrdered, TagsTell,
       Fingerprint, Stamps, Tags, Configs, Disks, Pulls, Lists, Bases, Rounds, NoTag, NoConf,
       NoPull, NoList, NoBase, NoRound, Down
<1>10. ASSUME StopKernel
      PROVE  TagsTell'
  BY <1>10 DEF StopKernel, rows, node, panel, asks, SyncTypeOK, TagsOrdered, TagsTell,
       Fingerprint, Stamps, Tags, Configs, Disks, Pulls, Lists, Bases, Rounds, NoTag, NoConf,
       NoPull, NoList, NoBase, NoRound, Down
<1>11. ASSUME StartKernel
      PROVE  TagsTell'
  BY <1>11 DEF StartKernel, Pulled, LoadFile, rows, node, panel, asks, SyncTypeOK,
       TagsOrdered, TagsTell, Fingerprint, Stamps, Tags, Configs, Disks, Pulls, Lists, Bases,
       Rounds, NoTag, NoConf, NoPull, NoList, NoBase, NoRound, Down
<1>12. ASSUME PullFails
      PROVE  TagsTell'
  BY <1>12 DEF PullFails, Fault, rows, node, panel, asks, SyncTypeOK, TagsOrdered, TagsTell,
       Fingerprint, Stamps, Tags, Configs, Disks, Pulls, Lists, Bases, Rounds, NoTag, NoConf,
       NoPull, NoList, NoBase, NoRound, Down
<1>13. ASSUME Supervise
      PROVE  TagsTell'
  BY <1>13 DEF Supervise, LoadFile, rows, node, panel, asks, SyncTypeOK, TagsOrdered,
       TagsTell, Fingerprint, Stamps, Tags, Configs, Disks, Pulls, Lists, Bases, Rounds,
       NoTag, NoConf, NoPull, NoList, NoBase, NoRound, Down
<1>14. ASSUME KernelDies
      PROVE  TagsTell'
  BY <1>14 DEF KernelDies, Fault, rows, node, panel, asks, SyncTypeOK, TagsOrdered, TagsTell,
       Fingerprint, Stamps, Tags, Configs, Disks, Pulls, Lists, Bases, Rounds, NoTag, NoConf,
       NoPull, NoList, NoBase, NoRound, Down
<1>15. ASSUME AgentCrash
      PROVE  TagsTell'
  BY <1>15 DEF AgentCrash, Fault, rows, node, panel, asks, SyncTypeOK, TagsOrdered, TagsTell,
       Fingerprint, Stamps, Tags, Configs, Disks, Pulls, Lists, Bases, Rounds, NoTag, NoConf,
       NoPull, NoList, NoBase, NoRound, Down
<1>16. ASSUME Heartbeat
      PROVE  TagsTell'
  BY <1>16 DEF Heartbeat, rows, node, panel, asks, SyncTypeOK, TagsOrdered, TagsTell,
       Fingerprint, Stamps, Tags, Configs, Disks, Pulls, Lists, Bases, Rounds, NoTag, NoConf,
       NoPull, NoList, NoBase, NoRound, Down
<1>17. ASSUME RoundUsers
      PROVE  TagsTell'
  BY <1>17 DEF RoundUsers, RoundsFarApart, rows, node, panel, asks, SyncTypeOK, TagsOrdered,
       TagsTell, Fingerprint, Stamps, Tags, Configs, Disks, Pulls, Lists, Bases, Rounds,
       NoTag, NoConf, NoPull, NoList, NoBase, NoRound, Down
<1>18. ASSUME RoundNode
      PROVE  TagsTell'
  BY <1>18 DEF RoundNode, Shortcut, rows, node, panel, asks, SyncTypeOK, TagsOrdered,
       TagsTell, Fingerprint, Stamps, Tags, Configs, Disks, Pulls, Lists, Bases, Rounds,
       NoTag, NoConf, NoPull, NoList, NoBase, NoRound, Down
<1>19. ASSUME RoundRead
      PROVE  TagsTell'
  BY <1>19 DEF RoundRead, Snapshot, DiffBuckets, rows, node, panel, asks, SyncTypeOK,
       TagsOrdered, TagsTell, Fingerprint, Stamps, Tags, Configs, Disks, Pulls, Lists, Bases,
       Rounds, NoTag, NoConf, NoPull, NoList, NoBase, NoRound, Down
<1>20. ASSUME RoundAgrees
      PROVE  TagsTell'
  BY <1>20 DEF RoundAgrees, rows, node, panel, asks, SyncTypeOK, TagsOrdered, TagsTell,
       Fingerprint, Stamps, Tags, Configs, Disks, Pulls, Lists, Bases, Rounds, NoTag, NoConf,
       NoPull, NoList, NoBase, NoRound, Down
<1>21. ASSUME RoundBumps
      PROVE  TagsTell'
  BY <1>21 DEF RoundBumps, rows, node, panel, asks, SyncTypeOK, TagsOrdered, TagsTell,
       Fingerprint, Stamps, Tags, Configs, Disks, Pulls, Lists, Bases, Rounds, NoTag, NoConf,
       NoPull, NoList, NoBase, NoRound, Down
<1>22. ASSUME RoundUnknown
      PROVE  TagsTell'
  BY <1>22 DEF RoundUnknown, Fault, rows, node, panel, asks, SyncTypeOK, TagsOrdered,
       TagsTell, Fingerprint, Stamps, Tags, Configs, Disks, Pulls, Lists, Bases, Rounds,
       NoTag, NoConf, NoPull, NoList, NoBase, NoRound, Down
<1>23. ASSUME UNCHANGED vars
      PROVE  TagsTell'
  BY <1>23 DEF vars, SyncTypeOK, TagsOrdered, TagsTell, Fingerprint, Stamps, Tags, Configs,
       Disks, Pulls, Lists, Bases, Rounds, NoTag, NoConf, NoPull, NoList, NoBase, NoRound,
       Down
<1>24. QED
  BY <1>1, <1>2, <1>3, <1>4, <1>5, <1>6, <1>7, <1>8, <1>9, <1>10, <1>11, <1>12, <1>13, <1>14,
       <1>15, <1>16, <1>17, <1>18, <1>19, <1>20, <1>21, <1>22, <1>23 DEF SyncNext, PullStep,
       RoundStep

\* Every step keeps the bumps earned: with nothing changed since the last one, a comparison
\* can only agree.
LEMMA SettleStep ==
  ASSUME SyncTypeOK, TagsOrdered, BumpsSettle, [SyncNext]_vars
  PROVE  BumpsSettle'
<1>1. ASSUME NEW u \in Users, ToggleUser(u)
      PROVE  BumpsSettle'
  BY <1>1 DEF ToggleUser, MayChange, Later, rows, node, panel, asks, SyncTypeOK, TagsOrdered,
       BumpsSettle, Settled, Calm, Stamps, Tags, Configs, Disks, Pulls, Lists, Bases, Rounds,
       NoTag, NoConf, NoPull, NoList, NoBase, NoRound, Down
<1>2. ASSUME ChangeShape
      PROVE  BumpsSettle'
  BY <1>2 DEF ChangeShape, MayChange, Later, rows, node, panel, asks, SyncTypeOK, TagsOrdered,
       BumpsSettle, Settled, Calm, Stamps, Tags, Configs, Disks, Pulls, Lists, Bases, Rounds,
       NoTag, NoConf, NoPull, NoList, NoBase, NoRound, Down
<1>3. ASSUME Bump
      PROVE  BumpsSettle'
  BY <1>3 DEF Bump, rows, node, panel, asks, SyncTypeOK, TagsOrdered, BumpsSettle, Settled,
       Calm, Stamps, Tags, Configs, Disks, Pulls, Lists, Bases, Rounds, NoTag, NoConf, NoPull,
       NoList, NoBase, NoRound, Down
<1>4. ASSUME PullAsk
      PROVE  BumpsSettle'
  BY <1>4 DEF PullAsk, rows, node, panel, asks, SyncTypeOK, TagsOrdered, BumpsSettle, Settled,
       Calm, Stamps, Tags, Configs, Disks, Pulls, Lists, Bases, Rounds, NoTag, NoConf, NoPull,
       NoList, NoBase, NoRound, Down
<1>5. ASSUME PullStamp
      PROVE  BumpsSettle'
  BY <1>5 DEF PullStamp, Pulled, Fingerprint, rows, node, panel, asks, SyncTypeOK,
       TagsOrdered, BumpsSettle, Settled, Calm, Stamps, Tags, Configs, Disks, Pulls, Lists,
       Bases, Rounds, NoTag, NoConf, NoPull, NoList, NoBase, NoRound, Down
<1>6. ASSUME PullRender
      PROVE  BumpsSettle'
  BY <1>6 DEF PullRender, rows, node, panel, asks, SyncTypeOK, TagsOrdered, BumpsSettle,
       Settled, Calm, Stamps, Tags, Configs, Disks, Pulls, Lists, Bases, Rounds, NoTag,
       NoConf, NoPull, NoList, NoBase, NoRound, Down
<1>7. ASSUME PullInstall
      PROVE  BumpsSettle'
  BY <1>7 DEF PullInstall, NeedsRestart, rows, node, panel, asks, SyncTypeOK, TagsOrdered,
       BumpsSettle, Settled, Calm, Stamps, Tags, Configs, Disks, Pulls, Lists, Bases, Rounds,
       NoTag, NoConf, NoPull, NoList, NoBase, NoRound, Down
<1>8. ASSUME PullVersion
      PROVE  BumpsSettle'
  BY <1>8 DEF PullVersion, rows, node, panel, asks, SyncTypeOK, TagsOrdered, BumpsSettle,
       Settled, Calm, Stamps, Tags, Configs, Disks, Pulls, Lists, Bases, Rounds, NoTag,
       NoConf, NoPull, NoList, NoBase, NoRound, Down
<1>9. ASSUME PullEtag
      PROVE  BumpsSettle'
  BY <1>9 DEF PullEtag, Pulled, rows, node, panel, asks, SyncTypeOK, TagsOrdered, BumpsSettle,
       Settled, Calm, Stamps, Tags, Configs, Disks, Pulls, Lists, Bases, Rounds, NoTag,
       NoConf, NoPull, NoList, NoBase, NoRound, Down
<1>10. ASSUME StopKernel
      PROVE  BumpsSettle'
  BY <1>10 DEF StopKernel, rows, node, panel, asks, SyncTypeOK, TagsOrdered, BumpsSettle,
       Settled, Calm, Stamps, Tags, Configs, Disks, Pulls, Lists, Bases, Rounds, NoTag,
       NoConf, NoPull, NoList, NoBase, NoRound, Down
<1>11. ASSUME StartKernel
      PROVE  BumpsSettle'
  BY <1>11 DEF StartKernel, Pulled, LoadFile, rows, node, panel, asks, SyncTypeOK,
       TagsOrdered, BumpsSettle, Settled, Calm, Stamps, Tags, Configs, Disks, Pulls, Lists,
       Bases, Rounds, NoTag, NoConf, NoPull, NoList, NoBase, NoRound, Down
<1>12. ASSUME PullFails
      PROVE  BumpsSettle'
  BY <1>12 DEF PullFails, Fault, rows, node, panel, asks, SyncTypeOK, TagsOrdered,
       BumpsSettle, Settled, Calm, Stamps, Tags, Configs, Disks, Pulls, Lists, Bases, Rounds,
       NoTag, NoConf, NoPull, NoList, NoBase, NoRound, Down
<1>13. ASSUME Supervise
      PROVE  BumpsSettle'
  BY <1>13 DEF Supervise, LoadFile, rows, node, panel, asks, SyncTypeOK, TagsOrdered,
       BumpsSettle, Settled, Calm, Stamps, Tags, Configs, Disks, Pulls, Lists, Bases, Rounds,
       NoTag, NoConf, NoPull, NoList, NoBase, NoRound, Down
<1>14. ASSUME KernelDies
      PROVE  BumpsSettle'
  BY <1>14 DEF KernelDies, Fault, rows, node, panel, asks, SyncTypeOK, TagsOrdered,
       BumpsSettle, Settled, Calm, Stamps, Tags, Configs, Disks, Pulls, Lists, Bases, Rounds,
       NoTag, NoConf, NoPull, NoList, NoBase, NoRound, Down
<1>15. ASSUME AgentCrash
      PROVE  BumpsSettle'
  BY <1>15 DEF AgentCrash, Fault, rows, node, panel, asks, SyncTypeOK, TagsOrdered,
       BumpsSettle, Settled, Calm, Stamps, Tags, Configs, Disks, Pulls, Lists, Bases, Rounds,
       NoTag, NoConf, NoPull, NoList, NoBase, NoRound, Down
<1>16. ASSUME Heartbeat
      PROVE  BumpsSettle'
  BY <1>16 DEF Heartbeat, rows, node, panel, asks, SyncTypeOK, TagsOrdered, BumpsSettle,
       Settled, Calm, Stamps, Tags, Configs, Disks, Pulls, Lists, Bases, Rounds, NoTag,
       NoConf, NoPull, NoList, NoBase, NoRound, Down
<1>17. ASSUME RoundUsers
      PROVE  BumpsSettle'
  BY <1>17 DEF RoundUsers, RoundsFarApart, rows, node, panel, asks, SyncTypeOK, TagsOrdered,
       BumpsSettle, Settled, Calm, Stamps, Tags, Configs, Disks, Pulls, Lists, Bases, Rounds,
       NoTag, NoConf, NoPull, NoList, NoBase, NoRound, Down
<1>18. ASSUME RoundNode
      PROVE  BumpsSettle'
  BY <1>18 DEF RoundNode, Shortcut, rows, node, panel, asks, SyncTypeOK, TagsOrdered,
       BumpsSettle, Settled, Calm, Stamps, Tags, Configs, Disks, Pulls, Lists, Bases, Rounds,
       NoTag, NoConf, NoPull, NoList, NoBase, NoRound, Down
<1>19. ASSUME RoundRead
      PROVE  BumpsSettle'
  <2>1. ASSUME bumps = changes
        PROVE  round'.equal
    <3>1. disk.users = round.want
      BY <1>19, <2>1 DEF RoundRead, BumpsSettle, Settled, Calm
    <3>2. Snapshot(round.beat, round.want) = round.want
      BY <3>1 DEF Snapshot
    <3>3. QED
      BY <1>19, <3>2 DEF RoundRead
  <2>2. QED
    BY <1>19, <2>1 DEF RoundRead, rows, node, asks, BumpsSettle, Settled, Calm
<1>20. ASSUME RoundAgrees
      PROVE  BumpsSettle'
  BY <1>20 DEF RoundAgrees, rows, node, panel, asks, SyncTypeOK, TagsOrdered, BumpsSettle,
       Settled, Calm, Stamps, Tags, Configs, Disks, Pulls, Lists, Bases, Rounds, NoTag,
       NoConf, NoPull, NoList, NoBase, NoRound, Down
<1>21. ASSUME RoundBumps
      PROVE  BumpsSettle'
  BY <1>21 DEF RoundBumps, rows, node, panel, asks, SyncTypeOK, TagsOrdered, BumpsSettle,
       Settled, Calm, Stamps, Tags, Configs, Disks, Pulls, Lists, Bases, Rounds, NoTag,
       NoConf, NoPull, NoList, NoBase, NoRound, Down
<1>22. ASSUME RoundUnknown
      PROVE  BumpsSettle'
  BY <1>22 DEF RoundUnknown, Fault, rows, node, panel, asks, SyncTypeOK, TagsOrdered,
       BumpsSettle, Settled, Calm, Stamps, Tags, Configs, Disks, Pulls, Lists, Bases, Rounds,
       NoTag, NoConf, NoPull, NoList, NoBase, NoRound, Down
<1>23. ASSUME UNCHANGED vars
      PROVE  BumpsSettle'
  BY <1>23 DEF vars, SyncTypeOK, TagsOrdered, BumpsSettle, Settled, Calm, Stamps, Tags,
       Configs, Disks, Pulls, Lists, Bases, Rounds, NoTag, NoConf, NoPull, NoList, NoBase,
       NoRound, Down
<1>24. QED
  BY <1>1, <1>2, <1>3, <1>4, <1>5, <1>6, <1>7, <1>8, <1>9, <1>10, <1>11, <1>12, <1>13, <1>14,
       <1>15, <1>16, <1>17, <1>18, <1>19, <1>20, <1>21, <1>22, <1>23 DEF SyncNext, PullStep,
       RoundStep

-----------------------------------------------------------------------------
\* Every state has the types of SyncTypeOK (the tables and files of one node).
THEOREM SyncTyped == SyncSpec => []SyncTypeOK
<1>1. ASSUME SyncInit
      PROVE  SyncTypeOK
  <2>1. disk \in Disks /\ stamp \in Stamps
    BY <1>1 DEF SyncInit, Disks, Stamps, Tags, NoTag
  <2>2. pull \in Pulls /\ kernel \in [up : BOOLEAN, shape : Nat]
    BY <1>1 DEF SyncInit, Pulls, Configs, Tags, NoPull, NoConf, NoTag, Down
  <2>3. beat \in Lists /\ base \in Bases
    BY <1>1 DEF SyncInit, Lists, Bases, NoList, NoBase
  <2>4. round \in Rounds
    BY <1>1 DEF SyncInit, Lists, Rounds, NoList, NoRound
  <2>5. QED
    BY <1>1, <2>1, <2>2, <2>3, <2>4 DEF SyncInit, SyncTypeOK
<1>2. SyncTypeOK /\ [SyncNext]_vars => SyncTypeOK'
  BY TypeStep
<1>3. QED
  BY <1>1, <1>2, PTL DEF SyncSpec

LEMMA Ordered == SyncSpec => []TagsOrdered
<1>1. SyncInit => TagsOrdered
  BY DEF SyncInit, TagsOrdered, NoTag, NoPull
<1>2. SyncTypeOK /\ TagsOrdered /\ [SyncNext]_vars => TagsOrdered'
  BY OrderStep
<1>3. QED
  BY <1>1, <1>2, SyncTyped, PTL DEF SyncSpec

\* A 304 is right: while the agent holds the fingerprint of the rows, its files hold their
\* content and their version, unless two changes fell in one second (handler.go, Config).
THEOREM EtagIsRight == SyncSpec => []EtagTellsContent
<1>1. SyncInit => TagsTell
  BY DEF SyncInit, TagsTell, Fingerprint, NoTag, NoPull
<1>2. SyncTypeOK /\ TagsOrdered /\ TagsTell /\ [SyncNext]_vars => TagsTell'
  BY TellStep
<1>3. TagsTell => EtagTellsContent
  BY DEF TagsTell, EtagTellsContent
<1>4. QED
  BY <1>1, <1>2, <1>3, SyncTyped, Ordered, PTL DEF SyncSpec

\* The comparison does not excite itself: it asks for at most one new version for each change
\* of a user, whatever is lost, late or read half way (reconcile_bare.go, reconcileBareOnNode).
THEOREM BumpsEarned == SyncSpec => []BumpsAreEarned
<1>1. SyncInit => BumpsSettle
  BY DEF SyncInit, BumpsSettle, Settled, Calm, NoTag, NoPull, NoRound
<1>2. SyncTypeOK /\ TagsOrdered /\ BumpsSettle /\ [SyncNext]_vars => BumpsSettle'
  BY SettleStep
<1>3. BumpsSettle => BumpsAreEarned
  BY DEF BumpsSettle, BumpsAreEarned
<1>4. QED
  BY <1>1, <1>2, <1>3, SyncTyped, Ordered, PTL DEF SyncSpec
=============================================================================
