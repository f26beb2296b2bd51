--------------------------- MODULE MediaRetention ---------------------------
(***************************************************************************)
(* The seven days of temporary media: run_retention of                     *)
(* src/src/commerce_agent/ingestion/service.py over the files of           *)
(* snapshots.py and the versions of persistence/ingestion.py, while items  *)
(* are collected and processes start with other registries, which changes  *)
(* what is media.  A pass has three steps, each of which may fail: it      *)
(* lists the paths of expired versions, prunes files, and redacts bodies.  *)
(* Every process that starts runs one, so passes may overlap.              *)
(***************************************************************************)
EXTENDS Integers, FiniteSets

CONSTANTS
  Snapshots,        \* document versions, one snapshot each
  Legacy,           \* those stored, in the course of a day, before files were named by their
                    \* time and as temporary or archive
  Runners,          \* processes that collect and run retention
  MediaRegistries,  \* registries: the full-text versions whose source is media by it
  TicksPerDay,
  Retention,        \* seven days, in ticks
  MaxMoment         \* bound on the clock

ASSUME RetentionAssumption ==
  /\ Legacy \subseteq Snapshots /\ MediaRegistries \subseteq SUBSET Snapshots
  /\ TicksPerDay \in Nat \ {0} /\ Retention \in Nat
  /\ MaxMoment \in Nat /\ MaxMoment >= TicksPerDay - 1

VARIABLES
  moment,        \* the clock
  mediaRegistry, \* the registry of each runner
  media,         \* versions whose source is media with full text, in the database
  everMedia,     \* those that were at some time
  file,          \* the name their snapshot was saved under
  savedOn,       \* the moment of the file and of fetched_at; NotYet before
  body,          \* none (not persisted), full, expired
  path,          \* versions whose snapshot_path is set
  pass           \* of each runner: its step, cutoff, listed paths, snapshot_index_ready

retentionVars == <<moment, mediaRegistry, media, everMedia, file, savedOn, body, path, pass>>

NotYet == -1
Idle == [step |-> "idle", cutoff |-> 0, listed |-> {}, ready |-> TRUE]

RetentionInit ==
  /\ moment = TicksPerDay - 1
  /\ \E ids \in MediaRegistries : /\ media = ids /\ everMedia = ids
                                  /\ mediaRegistry = [r \in Runners |-> ids]
  /\ file = [v \in Snapshots |-> IF v \in Legacy THEN "legacy" ELSE "none"]
  /\ \E at \in [Legacy -> 0..moment] :
       savedOn = [v \in Snapshots |-> IF v \in Legacy THEN at[v] ELSE NotYet]
  /\ body = [v \in Snapshots |-> IF v \in Legacy THEN "full" ELSE "none"]
  /\ path = Legacy
  /\ pass = [r \in Runners |-> Idle]

----------------------------------------------------------------------------
(***************************************************************************)
(* Collecting (_ingest_item): the file first, then the version.            *)
(***************************************************************************)
SaveSnapshot(r, v) ==
  /\ savedOn[v] = NotYet
  /\ savedOn' = [savedOn EXCEPT ![v] = moment]
  /\ file' = [file EXCEPT ![v] = IF v \in mediaRegistry[r] THEN "temporary" ELSE "archive"]
  /\ UNCHANGED <<moment, mediaRegistry, media, everMedia, body, path, pass>>

\* persist_version, at once or never: an item whose extraction or transaction fails leaves
\* its file behind.
PersistVersion(v) ==
  /\ body[v] = "none" /\ savedOn[v] = moment
  /\ body' = [body EXCEPT ![v] = "full"]
  /\ path' = path \cup {v}
  /\ UNCHANGED <<moment, mediaRegistry, media, everMedia, file, savedOn, pass>>

\* A process starts with a registry (sync_sources); a source it does not name stays what it
\* was.
SyncSources(r, ids) ==
  /\ pass[r] = Idle
  /\ mediaRegistry' = [mediaRegistry EXCEPT ![r] = ids]
  /\ \E kept \in SUBSET (media \ ids) : media' = ids \cup kept
  /\ everMedia' = everMedia \cup ids
  /\ UNCHANGED <<moment, file, savedOn, body, path, pass>>

----------------------------------------------------------------------------
(***************************************************************************)
(* A pass.                                                                 *)
(***************************************************************************)
Expired(cutoff) == {v \in media : body[v] # "none" /\ savedOn[v] < cutoff}

\* list_expired_media_snapshot_paths; a failure lists nothing and keeps the paths.
ListPaths(r) ==
  /\ pass[r].step = "idle" /\ moment >= Retention
  /\ LET cutoff == moment - Retention
     IN pass' \in {[pass EXCEPT ![r] = [step |-> "listed", cutoff |-> cutoff, ready |-> ok,
                                        listed |-> IF ok THEN path \cap Expired(cutoff) ELSE {}]]
                     : ok \in BOOLEAN}
  /\ UNCHANGED <<moment, mediaRegistry, media, everMedia, file, savedOn, body, path>>

\* _prune_before dates a legacy file by its directory: the start of its UTC day.
Dated(v) == IF file[v] = "legacy" THEN savedOn[v] - (savedOn[v] % TicksPerDay) ELSE savedOn[v]

\* Mutant: archives are pruned as prune_source_before would.
DueArchived(r) == {v \in Snapshots : file[v] # "none" /\ Dated(v) < pass[r].cutoff}

\* Temporary files by their date, legacy ones of media sources too, and whatever was listed.
Due(r) ==
  {v \in Snapshots : /\ file[v] # "none" /\ Dated(v) < pass[r].cutoff
                    /\ \/ file[v] = "temporary"
                       \/ file[v] = "legacy" /\ v \in mediaRegistry[r]
                       \/ v \in pass[r].listed}

\* A failure may come after some files: another pass has removed one, or a disk error.
PruneFiles(r) ==
  /\ pass[r].step = "listed"
  /\ \E gone \in SUBSET Due(r), done \in BOOLEAN :
       /\ done => gone = Due(r)
       /\ file' = [v \in Snapshots |-> IF v \in gone THEN "none" ELSE file[v]]
       /\ pass' = [pass EXCEPT ![r] = [step |-> "pruned", cutoff |-> pass[r].cutoff,
                                      listed |-> pass[r].listed,
                                      ready |-> pass[r].ready /\ done]]
  /\ UNCHANGED <<moment, mediaRegistry, media, everMedia, savedOn, body, path>>

\* Mutant: paths are cleared whether or not the files are gone.
Cleared(r) == Expired(pass[r].cutoff)

\* clear_snapshot_paths: only if both steps before have succeeded.
ClearedPaths(r) == IF pass[r].ready THEN Expired(pass[r].cutoff) ELSE {}

\* redact_expired_media_bodies, or its failure.
RedactBodies(r) ==
  /\ pass[r].step = "pruned"
  /\ \/ /\ body' = [v \in Snapshots |-> IF v \in Expired(pass[r].cutoff) THEN "expired" ELSE body[v]]
        /\ path' = path \ ClearedPaths(r)
     \/ UNCHANGED <<body, path>>
  /\ pass' = [pass EXCEPT ![r] = Idle]
  /\ UNCHANGED <<moment, mediaRegistry, media, everMedia, file, savedOn>>

\* The process ends in the middle of a pass.
StopPass(r) ==
  /\ pass[r] # Idle
  /\ pass' = [pass EXCEPT ![r] = Idle]
  /\ UNCHANGED <<moment, mediaRegistry, media, everMedia, file, savedOn, body, path>>

RetentionTick ==
  /\ moment < MaxMoment
  /\ moment' = moment + 1
  /\ UNCHANGED <<mediaRegistry, media, everMedia, file, savedOn, body, path, pass>>

RetentionNext ==
  \/ \E r \in Runners : \/ ListPaths(r) \/ PruneFiles(r) \/ RedactBodies(r) \/ StopPass(r)
                        \/ \E v \in Snapshots : SaveSnapshot(r, v)
                        \/ \E ids \in MediaRegistries : SyncSources(r, ids)
  \/ \E v \in Snapshots : PersistVersion(v)
  \/ RetentionTick

RetentionSpec == RetentionInit /\ [][RetentionNext]_retentionVars

----------------------------------------------------------------------------
(***************************************************************************)
(* Properties.                                                             *)
(***************************************************************************)
RetentionTypeOK ==
  /\ moment \in 0..MaxMoment
  /\ mediaRegistry \in [Runners -> SUBSET everMedia]
  /\ media \subseteq everMedia /\ everMedia \subseteq Snapshots /\ path \subseteq Snapshots
  /\ file \in [Snapshots -> {"none", "temporary", "archive", "legacy"}]
  /\ savedOn \in [Snapshots -> NotYet..MaxMoment]
  /\ body \in [Snapshots -> {"none", "full", "expired"}]
  /\ pass \in [Runners -> [step : {"idle", "listed", "pruned"}, cutoff : 0..MaxMoment,
                           listed : SUBSET Snapshots, ready : BOOLEAN]]

\* A path is forgotten only once its file is gone: nothing else would ever find an archive
\* or a legacy file again.  The one exception is a version that became media after the
\* pass had listed its paths.
ForgottenPathHasNoFile ==
  [][\A r \in Runners, v \in path \ path' :
       pass[r].step = "pruned" /\ pass'[r] = Idle =>
         file[v] = "none" \/ v \notin pass[r].listed]_retentionVars

\* No snapshot of a source that never was media is deleted, whatever passes overlap and
\* whatever registries disagree, and none before its days are over; a legacy file, of which
\* only the day is known, goes less than a day early.
ArchiveIsKept ==
  [][\A v \in Snapshots : file[v] # "none" /\ file'[v] = "none" =>
       /\ v \in everMedia
       /\ \/ savedOn[v] < moment - Retention
          \/ file[v] = "legacy" /\ savedOn[v] < moment - Retention + TicksPerDay]_retentionVars
=============================================================================
