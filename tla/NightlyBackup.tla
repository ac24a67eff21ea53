---------------------------- MODULE NightlyBackup ----------------------------
(***************************************************************************)
(* The two backup jobs under the sidecar of CronJobs. local_backup dumps   *)
(* the database and then archives the pictures, both straight into their   *)
(* final names, and sweeps files older than the retention. Half an hour    *)
(* later off_site_backup, not chained to it, ships the newest dump and the *)
(* newest archive it finds.                                                *)
(*                                                                         *)
(* A file is [kind, night, whole]: it is not whole while it is written,    *)
(* and stays so if the writer fails or is killed. Files are as old as      *)
(* their night, so the newest of a kind is the one of the latest night.    *)
(***************************************************************************)
EXTENDS CronJobs, Sequences

CONSTANTS
  Nights,          \* bound: nights 1..Nights
  RetentionNights, \* BACKUP_RETENTION_DAYS; 0 is less than a day
  MaxRestarts      \* bound: times the process ends and is started again

ASSUME BackupConstantsOK ==
  /\ Tick = {"local", "off"} \X (1..Nights)
  /\ Nights \in Nat /\ RetentionNights \in Nat /\ MaxRestarts \in Nat

VARIABLES
  clock,     \* ticks whose time has come
  step,      \* where the body of each tick is
  disk,      \* files in BACKUP_DIR
  ship,      \* what each off-site tick still has to copy: file names
  remote,    \* files at the remote
  restarts

backupvars == <<clock, step, disk, ship, remote, restarts>>
nightVars == <<cronvars, backupvars>>

Night(t) == t[2]
Local(t) == t[1] = "local"
Turn(t) == 2 * Night(t) - (IF t[1] = "local" THEN 1 ELSE 0)
File(kind, n, whole) == [kind |-> kind, night |-> n, whole |-> whole]
FileName(f) == <<f.kind, f.night>>
Of(kind) == {f \in disk : f.kind = kind}
Written(t, kind) == {f \in disk : FileName(f) = <<kind, Night(t)>>}

BackupInit ==
  /\ CronInit
  /\ clock = 0 /\ restarts = 0
  /\ step = [t \in Tick |-> "start"] /\ ship = [t \in Tick |-> <<>>]
  /\ disk = {} /\ remote = {}

-----------------------------------------------------------------------------
(* Time. *)

\* A local backup does not last until the next night's.
TickFires(t) ==
  /\ Turn(t) = clock + 1 /\ clock' = clock + 1
  /\ Local(t) => \A u \in Flying : ~Local(u)
  /\ Fire(t)
  /\ UNCHANGED <<step, disk, ship, remote, restarts>>

\* Nothing makes up for a tick missed while the process is down.
TickMissed ==
  /\ proc = "exited" /\ clock < 2 * Nights
  /\ clock' = clock + 1
  /\ UNCHANGED <<cronvars, step, disk, ship, remote, restarts>>

-----------------------------------------------------------------------------
(* local_backup. *)

At(t, s) == tick[t] = "body" /\ step[t] = s
Onward(t, s) == step' = [step EXCEPT ![t] = s]
TooOld(t) == {f \in disk : f.night < Night(t) - RetentionNights}
\* Mutant: the sweep comes first, to make room.
SweepFirst(t) ==
  /\ Local(t) /\ At(t, "start") /\ Onward(t, "dump")
  /\ disk' = (disk \ TooOld(t)) \cup {File("dump", Night(t), FALSE)}
  /\ UNCHANGED <<cronvars, clock, ship, remote, restarts>>

DumpBegins(t) ==
  /\ Local(t) /\ At(t, "start") /\ Onward(t, "dump")
  /\ disk' = disk \cup {File("dump", Night(t), FALSE)}
  /\ UNCHANGED <<cronvars, clock, ship, remote, restarts>>
DumpEnds(t) ==
  /\ At(t, "dump")
  /\ disk' = (disk \ Written(t, "dump")) \cup {File("dump", Night(t), TRUE)}
  /\ \/ Onward(t, "images")
     \/ Onward(t, "sweep")  \* no directory of pictures
  /\ UNCHANGED <<cronvars, clock, ship, remote, restarts>>
TarBegins(t) ==
  /\ At(t, "images") /\ Onward(t, "tar")
  /\ disk' = disk \cup {File("images", Night(t), FALSE)}
  /\ UNCHANGED <<cronvars, clock, ship, remote, restarts>>
TarEnds(t) ==
  /\ At(t, "tar") /\ Onward(t, "sweep")
  /\ disk' = (disk \ Written(t, "images")) \cup {File("images", Night(t), TRUE)}
  /\ UNCHANGED <<cronvars, clock, ship, remote, restarts>>

\* Mutant: the exit code is not looked at.
JobUnchecked(t) ==
  /\ Local(t) /\ \/ At(t, "dump") /\ Onward(t, "images")
                 \/ At(t, "tar") /\ Onward(t, "sweep")
  /\ UNCHANGED <<cronvars, clock, disk, ship, remote, restarts>>
\* pg_dump or tar exits with an error, and what it has written stays; or a job cannot begin.
JobThrows(t) ==
  /\ step[t] \in {"start", "dump", "tar"}
  /\ BodyThrows(t)
  /\ UNCHANGED backupvars

\* Files that cannot be deleted are counted and left.
Sweep(t) ==
  /\ At(t, "sweep") /\ Onward(t, "swept")
  /\ \E S \in SUBSET TooOld(t) : disk' = disk \ S
  /\ UNCHANGED <<cronvars, clock, ship, remote, restarts>>
LocalReturns(t) ==
  /\ step[t] = "swept" /\ BodyReturns(t)
  /\ UNCHANGED backupvars

-----------------------------------------------------------------------------
(* off_site_backup, where a remote is configured. *)

OffSite(t) == t[1] = "off"
Newest(F) == CHOOSE f \in F : \A g \in F : g.night <= f.night
Oldest(F) == CHOOSE f \in F : \A g \in F : f.night <= g.night
\* Mutant: the sort is the wrong way round.
Eldest(kind) == IF Of(kind) = {} THEN <<>> ELSE <<FileName(Oldest(Of(kind)))>>
\* The newest file of a kind, if there is one.
Latest(kind) == IF Of(kind) = {} THEN <<>> ELSE <<FileName(Newest(Of(kind)))>>

\* The remote or its credentials are not set.
OffSiteSkips(t) ==
  /\ OffSite(t) /\ step[t] = "start" /\ BodyReturns(t)
  /\ UNCHANGED backupvars
FindFiles(t) ==
  /\ OffSite(t) /\ At(t, "start") /\ Onward(t, "ship")
  /\ ship' = [ship EXCEPT ![t] = Latest("dump") \o Latest("images")]
  /\ UNCHANGED <<cronvars, clock, disk, remote, restarts>>

Shipping(t) == At(t, "ship") /\ ship[t] # <<>>
Shipped(t) == ship' = [ship EXCEPT ![t] = Tail(@)]
\* rclone copies what the file holds now, over what the remote has under that name.
Copy(t) ==
  /\ Shipping(t) /\ Shipped(t)
  /\ \E f \in disk : /\ FileName(f) = Head(ship[t])
                     /\ remote' = {g \in remote : FileName(g) # FileName(f)} \cup {f}
  /\ UNCHANGED <<cronvars, clock, step, disk, restarts>>
\* A file that cannot be copied, or is swept away, does not keep the others from being shipped.
CopyFails(t) ==
  /\ Shipping(t) /\ Shipped(t)
  /\ UNCHANGED <<cronvars, clock, step, disk, remote, restarts>>
OffSiteReturns(t) ==
  /\ At(t, "ship") /\ ship[t] = <<>> /\ BodyReturns(t)
  /\ UNCHANGED backupvars

-----------------------------------------------------------------------------
(* The process. For these jobs an orderly exit is a crash, between two ticks or at the end
   of the drain budget: it also ends pg_dump, tar and rclone. *)

RestartSidecar ==
  /\ restarts' = restarts + 1
  /\ Restart
  /\ UNCHANGED <<clock, step, disk, ship, remote>>

SidecarEnds ==
  /\ restarts < MaxRestarts
  /\ Crash
  /\ ship' = [t \in Tick |-> <<>>]
  /\ UNCHANGED <<clock, step, disk, remote, restarts>>

BackupNext ==
  \/ SidecarEnds \/ RestartSidecar \/ TickMissed
  \/ \E t \in Tick : \/ TickFires(t)
                     \/ TickStep(t) /\ UNCHANGED backupvars
                     \/ DumpBegins(t) \/ DumpEnds(t) \/ TarBegins(t) \/ TarEnds(t)
                     \/ JobThrows(t) \/ Sweep(t) \/ LocalReturns(t)
                     \/ OffSiteSkips(t) \/ FindFiles(t) \/ Copy(t) \/ CopyFails(t)
                     \/ OffSiteReturns(t)

BackupSpec == BackupInit /\ [][BackupNext]_nightVars

-----------------------------------------------------------------------------
(* Properties. *)

FileType == [kind : {"dump", "images"}, night : 1..Nights, whole : BOOLEAN]
BackupTypeOK ==
  /\ CronTypeOK
  /\ clock \in 0..(2 * Nights) /\ restarts \in 0..MaxRestarts
  /\ step \in [Tick -> {"start", "dump", "images", "tar", "sweep", "swept", "ship"}]
  /\ disk \subseteq FileType /\ remote \subseteq FileType

\* A name belongs to one file.
NamesUnique == \A F \in {disk, remote} : \A f, g \in F : FileName(f) = FileName(g) => f = g

\* What the System page shows of a local backup is there: a run that is recorded as
\* succeeded has left a whole dump, for as long as the retention keeps it.
RecordedIsThere == \A t \in Tick :
  Local(t) /\ row[t] = "succeeded" =>
    \/ File("dump", Night(t), TRUE) \in disk
    \/ \E u \in Tick : Local(u) /\ step[u] = "swept" /\ Night(t) < Night(u) - RetentionNights

BackupInv == BackupTypeOK /\ NamesUnique /\ RecordedIsThere

\* local-backup.ts:38-41: bad nights never prune the last good backup.
GoodDumps == {f \in disk : f.kind = "dump" /\ f.whole}
NewestGoodKept == [][GoodDumps # {} => Newest(GoodDumps) \in disk']_nightVars

\* When the local backup of the night is recorded before the off-site tick looks, the files
\* that tick ships are this night's, unless the next night's is already being written.
InTime(t) == /\ row[<<"local", Night(t)>>] = "succeeded"
             /\ \A u \in Tick : Local(u) /\ Night(u) > Night(t) => step[u] = "start"
FreshShipped == [][\A t \in Tick : FindFiles(t) /\ InTime(t) =>
                     \E i \in DOMAIN ship'[t] : ship'[t][i] = <<"dump", Night(t)>>
                                                /\ File("dump", Night(t), TRUE) \in disk]_nightVars

\* off-site-backup.ts:8-9, server.ts:38-39: if local_backup runs long, the files of an earlier
\* night are shipped, so what is shipped is always whole.
ShipsFinished == \A f \in remote : f.whole
=============================================================================
