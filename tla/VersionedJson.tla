---------------------------- MODULE VersionedJson ----------------------------
(***************************************************************************)
(* A metadata file of the server (cw-code.db.json, cw-settings.json) with  *)
(* its backups, through crashes, power losses and failing writes.  A load  *)
(* may migrate the file from the older schema; what runs then rewrites it; *)
(* a file that cannot be loaded is replaced from a recovery screen only.   *)
(* Everything here is synchronous code of one process, so a store does one *)
(* thing at a time, but the process may end between any two file system    *)
(* calls.  The directory is taken to journal its renames in their order.   *)
(***************************************************************************)
EXTENDS Naturals, Sequences

CONSTANTS
    Missing, Bad,   \* no file; one that cannot be parsed or is of no known shape
    MaxEdits,       \* bound: documents written
    MaxFaults       \* bound: crashes, failures, damages and downgrades

ASSUME StorageAssumption ==
    /\ MaxEdits \in Nat /\ MaxFaults \in Nat
    /\ Missing # Bad /\ {Missing, Bad} \cap [schema : 0..1, edit : 0..MaxEdits] = {}

VARIABLES
    dir,            \* the directory, as a process sees it
    since,          \* the directories a power loss may leave
    soft,           \* copies whose contents were not synced
    phase,          \* "down", "loading", "constructing", "running", "closing", "blocked" or "recovering"
    issue,          \* MetadataError.kind of a blocked start
    todo,           \* file system calls that are still to come
    pending,        \* LastGoodRefresher.pending
    edits, faults,
    accepted,       \* history: what the file may hold
    closed,         \* history: what the file held from an orderly close on; {} without one
    lost,           \* history: copies of what was replaced that a power loss took
    missed,         \* history: a refresh of the last-good copy failed
    blind           \* history: the file was damaged behind the back of a running store

storageVars == <<dir, since, soft, phase, issue, todo, pending, edits, faults, accepted, closed, lost, missed, blind>>

\* schema 0 is that of the releases up to v0.0.1-alpha.21, 1 is currentVersion
Doc == [schema : 0..1, edit : 0..MaxEdits]
Content == Doc \cup {Bad}
File == Content \cup {Missing}
EmptyDoc == [schema |-> 1, edit |-> 0]
Migrated(doc) == [doc EXCEPT !.schema = 1]

\* The files, and what was replaced and has to be kept where (history)
Places == {"migrations", "broken", "archived"}
Directory == [file : File, lastGood : File, migrations : SUBSET Content, broken : SUBSET Content,
              archived : SUBSET Content, gone : SUBSET (Places \X Content)]

Issues == {"none", "damaged", "io"}
Phases == {"down", "loading", "constructing", "running", "closing", "blocked", "recovering"}

\* An atomic write is its rename and the sync of the directory: before the rename there
\* is only a temporary file that nobody reads.
Call == [step : {"rename", "sync", "copy"}, to : Places \cup {"file", "lastGood"}, doc : Content]
Write(to, doc) == <<[step |-> "rename", to |-> to, doc |-> doc], [step |-> "sync", to |-> to, doc |-> doc]>>
Copy(to, doc) == <<[step |-> "copy", to |-> to, doc |-> doc]>>

StorageInit ==
    /\ \E file \in {Missing} \cup {[schema |-> s, edit |-> 0] : s \in 0..1} :
         /\ dir = [file |-> file, lastGood |-> Missing, migrations |-> {}, broken |-> {}, archived |-> {}, gone |-> {}]
         /\ accepted = {file}
    /\ since = {dir} /\ soft = {}
    /\ phase = "down" /\ issue = "none" /\ todo = <<>>
    /\ pending = FALSE /\ edits = 0 /\ faults = 0
    /\ closed = {} /\ lost = {} /\ missed = FALSE /\ blind = FALSE

Artifacts == dir.lastGood # Missing \/ \E place \in Places : dir[place] # {}
NewDoc == [schema |-> 1, edit |-> edits + 1]

\* Faulty: one backup of a schema will do.
BackupOnce(doc) == IF dir.migrations # {} THEN <<>> ELSE Write("migrations", doc)

\* ensureMigrationBackup: .v0.bak, or another file when it has other bytes
EnsureBackup(doc) == IF doc \in dir.migrations THEN <<>> ELSE Write("migrations", doc)

\* refreshLastGood, with the bytes the file has then
RefreshLastGood(file) ==
    IF file = Missing \/ file = dir.lastGood THEN <<>> ELSE Write("lastGood", file)

-----------------------------------------------------------------------------
(* Loading *)

\* loadVersionedJson up to its first write: the document is read and checked.
Load ==
    /\ phase = "down"
    /\ \/ /\ dir.file \in Doc
          /\ phase' = "loading" /\ UNCHANGED issue
          /\ accepted' = accepted \cup {Migrated(dir.file)}
          /\ todo' = IF dir.file.schema = 1 THEN RefreshLastGood(dir.file)
                     ELSE EnsureBackup(dir.file) \o Write("file", Migrated(dir.file)) \o RefreshLastGood(Migrated(dir.file))
       \/ /\ dir.file = Bad \/ (dir.file = Missing /\ Artifacts)
          /\ phase' = "blocked" /\ issue' = "damaged"
          /\ UNCHANGED <<todo, accepted>>
       \/ /\ dir.file = Missing /\ ~Artifacts
          /\ phase' = "loading"
          /\ UNCHANGED <<issue, todo, accepted>>
    /\ closed' = {}
    /\ UNCHANGED <<dir, since, soft, pending, edits, faults, lost, missed, blind>>

\* The rest of the store's constructor: statuses that were reset, values that were
\* repaired or seeded are written at once, or there is nothing to write.
Construct(writes) ==
    /\ phase = "loading" /\ todo = <<>>
    /\ pending' = FALSE
    /\ IF writes
       THEN /\ edits < MaxEdits
            /\ edits' = edits + 1 /\ todo' = Write("file", NewDoc)
            /\ accepted' = accepted \cup {NewDoc}
            /\ phase' = "constructing"
       ELSE phase' = "running" /\ UNCHANGED <<edits, todo, accepted>>
    /\ UNCHANGED <<dir, since, soft, issue, faults, closed, lost, missed, blind>>

-----------------------------------------------------------------------------
(* Running *)

\* persist, SettingsStore.set.  Nothing refuses a write to a closed store: requests are
\* served until the server has stopped.
Persist ==
    /\ phase \in {"running", "closing"} /\ todo = <<>> /\ edits < MaxEdits
    /\ edits' = edits + 1
    /\ todo' = Write("file", NewDoc)
    /\ accepted' = accepted \cup {NewDoc}
    /\ UNCHANGED <<dir, since, soft, phase, issue, pending, faults, closed, lost, missed, blind>>

\* Faulty: a write inside the interval is not remembered.
AfterPersistForgets(refreshes, rest) ==
    IF phase # "constructing" /\ refreshes
    THEN pending' = FALSE /\ todo' = RefreshLastGood(dir.file)
    ELSE UNCHANGED pending /\ todo' = rest

\* afterPersist: the copy is refreshed if the last time is a minute ago, which it is not
\* in the constructor.
AfterPersist(refreshes, rest) ==
    IF phase # "constructing" /\ refreshes
    THEN pending' = FALSE /\ todo' = RefreshLastGood(dir.file)
    ELSE pending' = TRUE /\ todo' = rest

\* close, flush: orderly ends only.  A refresh put off after it is never made up for.
Close ==
    /\ phase = "running" /\ todo = <<>>
    /\ phase' = "closing"
    /\ pending' = FALSE
    /\ todo' = IF pending THEN RefreshLastGood(dir.file) ELSE <<>>
    /\ closed' = {dir.file}
    /\ UNCHANGED <<dir, since, soft, issue, edits, faults, accepted, lost, missed, blind>>

\* The process ends, or the server boots again after a recovery.
End ==
    /\ phase \in {"closing", "recovering"} /\ todo = <<>>
    /\ phase' = "down" /\ issue' = "none"
    /\ UNCHANGED <<dir, since, soft, todo, pending, edits, faults, accepted, closed, lost, missed, blind>>

-----------------------------------------------------------------------------
(* The recovery screen *)

\* What inspectBackup finds restorable among the backups it lists
Backups == ({dir.lastGood} \cup dir.migrations \cup dir.archived) \cap Doc

\* preserveCurrent, archiveLastGood and the write
Replace(doc) ==
    (IF dir.file = Missing THEN <<>> ELSE Copy("broken", dir.file))
    \o (IF dir.lastGood = Missing THEN <<>> ELSE Copy("archived", dir.lastGood))
    \o Write("file", doc)

\* restoreBackup and startFresh; the latter is refused for a file that may be intact.
Recover(doc) ==
    /\ phase = "blocked"
    /\ doc \in Backups \/ (doc = EmptyDoc /\ issue # "io")
    /\ phase' = "recovering"
    /\ todo' = Replace(doc)
    /\ accepted' = accepted \cup {doc}
    /\ UNCHANGED <<dir, since, soft, issue, pending, edits, faults, closed, lost, missed, blind>>

\* recovery.retry, or the program is ended
Retry ==
    /\ phase = "blocked"
    /\ phase' = "down" /\ issue' = "none"
    /\ UNCHANGED <<dir, since, soft, todo, pending, edits, faults, accepted, closed, lost, missed, blind>>

-----------------------------------------------------------------------------
(* The file system *)

Next1 == Head(todo)

\* What the rename of the file leaves to be kept elsewhere
Gone ==
    IF phase = "loading" THEN {<<"migrations", dir.file>>}
    ELSE IF phase = "recovering"
    THEN {<<"broken", c>> : c \in {dir.file} \ {Missing}} \cup {<<"archived", c>> : c \in {dir.lastGood} \ {Missing}}
    ELSE {}

Placed(call) ==
    CASE call.to = "file" -> [dir EXCEPT !.file = call.doc, !.gone = @ \cup Gone]
      [] call.to = "lastGood" -> [dir EXCEPT !.lastGood = call.doc]
      [] OTHER -> [dir EXCEPT ![call.to] = @ \cup {call.doc}]

\* Faulty: the file is written where it is.
RenamedInPlace ==
    /\ todo # <<>> /\ Next1.step = "rename"
    /\ dir' = [Placed(Next1) EXCEPT !.file = IF Next1.to = "file" THEN Bad ELSE @]
    /\ since' = since \cup {dir'}
    /\ closed' = IF phase = "closing" /\ Next1.to = "file" THEN closed \cup {Next1.doc} ELSE closed
    /\ missed' = (missed /\ Next1.to # "lastGood")
    /\ todo' = Tail(todo)
    /\ UNCHANGED <<soft, phase, issue, pending, edits, faults, accepted, lost, blind>>

\* writeFileAtomic up to the rename of its temporary file, whose bytes are synced
Renamed ==
    /\ todo # <<>> /\ Next1.step = "rename"
    /\ dir' = Placed(Next1)
    /\ since' = since \cup {dir'}
    /\ closed' = IF phase = "closing" /\ Next1.to = "file" THEN closed \cup {Next1.doc} ELSE closed
    /\ missed' = (missed /\ Next1.to # "lastGood")
    /\ todo' = Tail(todo)
    /\ UNCHANGED <<soft, phase, issue, pending, edits, faults, accepted, lost, blind>>

\* syncParentDirectory, which is not done on Windows and may fail: the write is over and
\* its caller goes on.
Synced(done, refreshes) ==
    /\ todo # <<>> /\ Next1.step = "sync"
    /\ since' = IF done THEN {dir} ELSE since
    /\ accepted' = IF done /\ Next1.to = "file" THEN {dir.file} ELSE accepted
    /\ IF Next1.to = "file" /\ phase \in {"running", "constructing", "closing"}
       THEN AfterPersist(refreshes, Tail(todo))
       ELSE todo' = Tail(todo) /\ UNCHANGED pending
    /\ phase' = IF phase = "constructing" THEN "running" ELSE phase
    /\ UNCHANGED <<dir, soft, issue, edits, faults, closed, lost, missed, blind>>

\* copyVerified
Copied ==
    /\ todo # <<>> /\ Next1.step = "copy"
    /\ dir' = Placed(Next1)
    /\ since' = since \cup {dir'}
    /\ soft' = soft \cup {<<Next1.to, Next1.doc>>}
    /\ todo' = Tail(todo)
    /\ UNCHANGED <<phase, issue, pending, edits, faults, accepted, closed, lost, missed, blind>>

-----------------------------------------------------------------------------
(* Faults *)

Fault == faults < MaxFaults /\ faults' = faults + 1

\* A write or a copy fails, its temporary file is removed.  Only the refresh of the
\* last-good copy goes on as if nothing had happened.
Fails ==
    /\ Fault
    /\ todo # <<>> /\ Next1.step # "sync"
    /\ missed' = (missed \/ Next1.to = "lastGood")
    /\ IF Next1.to = "lastGood"
       THEN todo' = Tail(Tail(todo)) /\ UNCHANGED <<phase, issue>>
       ELSE /\ todo' = <<>>
            /\ phase' = IF phase \in {"running", "closing"} THEN phase ELSE "blocked"
            /\ issue' = IF phase \in {"loading", "constructing"} THEN "io" ELSE issue
    /\ UNCHANGED <<dir, since, soft, pending, edits, accepted, closed, lost, blind>>

Torn(d) ==
    IF todo # <<>> /\ Next1.step = "copy"
    THEN {d, [d EXCEPT ![Next1.to] = @ \cup {Bad}]} ELSE {d}

\* The process ends, possibly in the middle of a copy.
Crash ==
    /\ Fault /\ phase # "down"
    /\ dir' \in Torn(dir)
    /\ since' = since \cup {dir'}
    /\ phase' = "down" /\ issue' = "none" /\ todo' = <<>> /\ pending' = FALSE
    /\ closed' = {}
    /\ UNCHANGED <<soft, edits, accepted, lost, missed, blind>>

\* The machine stops: renames that were not synced may be undone, and the copies of a
\* recovery, which copyVerified does not sync, may be gone.
PowerLoss ==
    /\ Fault
    /\ \E d \in since, taken \in SUBSET soft :
         /\ dir' = [d EXCEPT !.broken = @ \ {c \in Content : <<"broken", c>> \in taken},
                             !.archived = @ \ {c \in Content : <<"archived", c>> \in taken}]
         /\ lost' = (lost \cup taken) \cap d.gone
    /\ since' = {dir'} /\ soft' = {}
    /\ phase' = "down" /\ issue' = "none" /\ todo' = <<>> /\ pending' = FALSE
    /\ closed' = IF phase = "down" /\ since = {dir} THEN closed ELSE {}
    /\ UNCHANGED <<edits, accepted, missed, blind>>

\* The file is there and cannot be read.
Unreadable ==
    /\ Fault
    /\ phase = "down" /\ dir.file # Missing
    /\ phase' = "blocked" /\ issue' = "io" /\ closed' = {}
    /\ UNCHANGED <<dir, since, soft, todo, pending, edits, accepted, lost, missed, blind>>

\* Somebody else damages or removes the file.
Damage(left) ==
    /\ Fault
    /\ phase \in {"down", "running", "blocked"} /\ todo = <<>>
    /\ dir' = [dir EXCEPT !.file = left]
    /\ since' = {dir'} /\ accepted' = {left}
    /\ blind' = (blind \/ phase = "running")
    /\ UNCHANGED <<soft, phase, issue, todo, pending, edits, closed, lost, missed>>

\* An older release runs for a while and leaves the file without a schema.
Downgrade ==
    /\ Fault
    /\ phase = "down" /\ dir.file \in Doc /\ edits < MaxEdits
    /\ edits' = edits + 1
    /\ dir' = [dir EXCEPT !.file = [schema |-> 0, edit |-> edits + 1]]
    /\ since' = {dir'} /\ accepted' = {dir'.file}
    /\ closed' = {}
    /\ UNCHANGED <<soft, phase, issue, todo, pending, lost, missed, blind>>

StorageNext ==
    \/ Load \/ Persist \/ Close \/ End \/ Retry
    \/ \E writes \in BOOLEAN : Construct(writes)
    \/ \E doc \in Doc : Recover(doc)
    \/ Renamed \/ Copied
    \/ \E done, refreshes \in BOOLEAN : Synced(done, refreshes)
    \/ Fails \/ Unreadable \/ Crash \/ PowerLoss \/ Downgrade
    \/ \E left \in {Bad, Missing} : Damage(left)

StorageSpec == StorageInit /\ [][StorageNext]_storageVars

-----------------------------------------------------------------------------
(* What the store promises *)

StorageTypeOK ==
    /\ dir \in Directory /\ since \subseteq Directory
    /\ soft \subseteq Places \X Content /\ lost \subseteq Places \X Content
    /\ phase \in Phases /\ issue \in Issues
    /\ todo \in Seq(Call)
    /\ pending \in BOOLEAN /\ missed \in BOOLEAN /\ blind \in BOOLEAN
    /\ edits \in 0..MaxEdits /\ faults \in 0..MaxFaults
    /\ accepted \subseteq File /\ closed \subseteq File

OnDisk == since \cup {dir}

\* Wherever the process or the machine stops, the file is complete: it holds what was
\* written last, or what was being written; what a write returned for is there for good
\* once the directory could be synced.
AcknowledgedSurvives == \A d \in OnDisk : d.file \in accepted

\* Whatever is replaced is beside the file from before it is replaced: the original of every
\* migration ever after (ensureMigrationBackup), and the file and the last-good copy that a
\* recovery replaced (preserveCurrent, archiveLastGood) until a power loss takes a copy of
\* theirs, which was never synced.
OriginalsKept ==
    \A d \in OnDisk : \A x \in d.gone : x[2] \in d[x[1]] \/ (x[1] # "migrations" /\ x \in lost)

\* The last-good copy that an orderly end leaves is no older than the close: it is what the
\* file held then, or what a later request wrote, unless a refresh failed.  And the copy
\* can be restored unless the file was damaged under a running store.
LastGoodIsGood ==
    /\ phase = "down" /\ closed # {} /\ closed \subseteq Doc /\ ~missed => dir.lastGood \in closed
    /\ ~blind => dir.lastGood # Bad
=============================================================================
