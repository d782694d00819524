----------------------------- MODULE IndexCache -----------------------------
(***************************************************************************)
(* `telemouse-analyze list` over a directory the agent is recording into   *)
(* (scan_dir, index_cache.rs, signature.rs, atomic.rs): several listings   *)
(* share one cache file, a cached entry stands for a recording only while  *)
(* the recording's signature is the one it was stored under, and the       *)
(* sidecar is read afresh every time.                                      *)
(*                                                                         *)
(* A recording is [blocks, stamp, sidecar, readable]: what was written, in *)
(* blocks that are never written twice with the same contents; the file    *)
(* time, which a filesystem may leave as it was; the exit its sidecar      *)
(* states; and whether its header validates.  Every block is one of the    *)
(* signature's samples.  Names that are not session ids are left out.      *)
(***************************************************************************)
EXTENDS Naturals, Sequences, FiniteSets, SequencesExt, Functions

CONSTANTS Names,        \* recordings, numbered in the order they started
          Listings,     \* processes that list the directory
          MaxBlocks,    \* bound: blocks of one recording
          MaxWrites     \* bound: changes to the directory

VARIABLES disk,      \* the recordings that exist
          cache,     \* the published index: "absent", "foreign" or entries by name
          listing,   \* each listing's scan_dir
          writes     \* changes made so far; also the next block's contents

vars == <<disk, cache, listing, writes>>

Absent == [is |-> "absent"]
Foreign == [is |-> "foreign"]     \* does not parse, or another version's
Index(files) == [is |-> "index", files |-> files]
NoFiles == [n \in {} |-> 0]

\* file_signature's value: length, time and samples.
FileSignature(file) == [len |-> Len(file.blocks), modified |-> file.stamp,
                        sample |-> file.blocks]
\* Faulty variant: size and time only.
SizeAndTime(file) == [len |-> Len(file.blocks), modified |-> file.stamp]

\* What file_signature may return: nothing for a file that is gone, and
\* possibly nothing for one that is still being written.
Signatures(name) ==
    IF name \notin DOMAIN disk THEN {<<>>}
    ELSE {<<FileSignature(disk[name])>>}
         \cup (IF disk[name].sidecar = "running" THEN {<<>>} ELSE {})

\* scan_session and with_sidecar.
Entry(name) == [name |-> name, blocks |-> disk[name].blocks, exit |-> disk[name].sidecar]
WithSidecar(entry) == [entry EXCEPT !.exit = disk[entry.name].sidecar]
\* Faulty variant: the cached copy of the sidecar.
WithCachedSidecar(entry) == entry

ReadIndexCache == IF cache.is = "index" THEN cache.files ELSE NoFiles

Idle == [at |-> "idle", todo |-> {}, cached |-> NoFiles, next |-> NoFiles, out |-> {},
         changed |-> FALSE, name |-> 0, before |-> <<>>, entry |-> <<>>, disturbed |-> {}]

Init == /\ disk = [n \in {} |-> 0]
        /\ cache \in {Absent, Foreign}
        /\ listing = [l \in Listings |-> Idle]
        /\ writes = 0

-----------------------------------------------------------------------------
(* The directory: the agent records; outside it files are replaced and     *)
(* deleted.  A listing's "disturbed" is a history of what changed since it *)
(* began.                                                                  *)

Change(name, file) ==
    /\ writes < MaxWrites
    /\ writes' = writes + 1
    /\ disk' = [n \in DOMAIN disk \cup {name} |-> IF n = name THEN file ELSE disk[n]]
    /\ listing' = [l \in Listings |-> [listing[l] EXCEPT !.disturbed = @ \cup {name}]]
    /\ UNCHANGED cache

Create(name) ==
    /\ name \notin DOMAIN disk
    /\ \E readable \in BOOLEAN : Change(name, [blocks |-> <<writes>>, stamp |-> writes,
                                               sidecar |-> "running", readable |-> readable])

Append_(name) ==
    /\ disk[name].sidecar = "running" /\ Len(disk[name].blocks) < MaxBlocks
    /\ \E stamp \in {disk[name].stamp, writes} :
          Change(name, [disk[name] EXCEPT !.blocks = Append(@, writes), !.stamp = stamp])

Finish(name) ==
    /\ disk[name].sidecar = "running"
    /\ Change(name, [disk[name] EXCEPT !.sidecar = "interrupt"])

Replace(name) ==
    \E stamp \in {disk[name].stamp, writes} :
        Change(name, [disk[name] EXCEPT !.blocks = Front(@) \o <<writes>>, !.stamp = stamp])

Delete(name) ==
    /\ writes < MaxWrites
    /\ writes' = writes + 1
    /\ disk' = Restrict(disk, DOMAIN disk \ {name})
    /\ listing' = [l \in Listings |-> [listing[l] EXCEPT !.disturbed = @ \cup {name}]]
    /\ UNCHANGED cache

-----------------------------------------------------------------------------
(* scan_dir.                                                               *)

At(l, place) == listing[l].at = place
Set(l, value) == listing' = [listing EXCEPT ![l] = value]

Begin(l) ==
    /\ listing[l].at \in {"idle", "done"}
    /\ Set(l, [Idle EXCEPT !.at = "look", !.todo = DOMAIN disk, !.cached = ReadIndexCache])
    /\ UNCHANGED <<disk, cache, writes>>

Put(files, name, entry) == [n \in DOMAIN files \cup {name} |-> IF n = name THEN entry ELSE files[n]]

\* A hit is a cached entry under the signature the file has now.
Look(l) ==
    /\ At(l, "look")
    /\ \E name \in listing[l].todo : \E before \in Signatures(name) :
         LET s == [listing[l] EXCEPT !.todo = @ \ {name}]
             hit == /\ before # <<>> /\ name \in DOMAIN s.cached
                    /\ s.cached[name].signature = before[1]
             entry == WithSidecar(s.cached[name].entry)
         IN  IF hit
             THEN Set(l, [s EXCEPT !.out = @ \cup {entry},
                                   !.next = Put(@, name, [signature |-> before[1],
                                                          entry |-> entry])])
             ELSE Set(l, [s EXCEPT !.at = "scan", !.name = name, !.before = before,
                                   !.changed = TRUE])
    /\ UNCHANGED <<disk, cache, writes>>

Scan(l) ==
    /\ At(l, "scan")
    /\ LET name == listing[l].name
       IN  IF name \in DOMAIN disk /\ disk[name].readable
           THEN Set(l, [listing[l] EXCEPT !.at = "check", !.entry = <<Entry(name)>>])
           ELSE Set(l, [listing[l] EXCEPT !.at = "look"])
    /\ UNCHANGED <<disk, cache, writes>>

\* An entry may be cached when the file was the same before and after.
MayCache(before, after) == before # <<>> /\ before = after
\* Faulty variant: a signature taken after the scan is enough.
MayCacheAfter(before, after) == after # <<>>

Check(l) ==
    /\ At(l, "check")
    /\ LET s == listing[l]
           entry == s.entry[1]
       IN  \E after \in Signatures(s.name) :
             Set(l, [s EXCEPT !.at = "look", !.entry = <<>>, !.out = @ \cup {entry},
                       !.next = IF MayCache(s.before, after)
                                THEN Put(@, s.name, [signature |-> after[1], entry |-> entry])
                                ELSE @])
    /\ UNCHANGED <<disk, cache, writes>>

\* The index is written to a sibling and renamed, if anything in it changed.
Publish(l) ==
    /\ At(l, "look") /\ listing[l].todo = {}
    /\ LET s == listing[l]
           stale == s.changed \/ Cardinality(DOMAIN s.next) # Cardinality(DOMAIN s.cached)
       IN  Set(l, [s EXCEPT !.at = IF stale THEN "rename" ELSE "done"])
    /\ UNCHANGED <<disk, cache, writes>>

Rename(l) ==
    /\ At(l, "rename")
    /\ \/ cache' = Index(listing[l].next)
       \/ UNCHANGED cache                   \* failing to write is not an error
    /\ Set(l, [listing[l] EXCEPT !.at = "done"])
    /\ UNCHANGED <<disk, writes>>

Kill(l) ==
    /\ listing[l].at \notin {"idle", "done"}
    /\ Set(l, Idle)
    /\ UNCHANGED <<disk, cache, writes>>

Next ==
    \/ \E name \in Names : Create(name)
    \/ \E name \in DOMAIN disk : Append_(name) \/ Finish(name) \/ Replace(name) \/ Delete(name)
    \/ \E l \in Listings : \/ Begin(l) \/ Look(l) \/ Scan(l) \/ Check(l)
                           \/ Publish(l) \/ Rename(l) \/ Kill(l)

Spec == Init /\ [][Next]_vars

\* The order the rows are shown in: by start.
Listed(l) == SetToSortSeq(listing[l].out, LAMBDA a, b : a.name < b.name)

-----------------------------------------------------------------------------
(* A cached entry that is stored under the signature a recording has now   *)
(* tells what the recording holds now: the listing cannot serve a stale    *)
(* row however appends, replacements and other listings interleave.        *)
CacheTellsTheTruth ==
    cache.is = "index" =>
        \A name \in DOMAIN cache.files \cap DOMAIN disk :
            cache.files[name].signature = FileSignature(disk[name])
                => cache.files[name].entry.blocks = disk[name].blocks

(* A finished listing shows every readable recording nobody touched while  *)
(* it ran, once, oldest first, with its events and its sidecar as they     *)
(* are on the disk.                                                        *)
ListingShowsTheDisk ==
    \A l \in Listings : At(l, "done") =>
        LET still == {n \in DOMAIN disk : disk[n].readable} \ listing[l].disturbed
            rows == SelectSeq(Listed(l), LAMBDA e : e.name \notin listing[l].disturbed)
        IN  /\ rows = SetToSortSeq({Entry(n) : n \in still}, LAMBDA a, b : a.name < b.name)
            /\ \A i, j \in 1..Len(Listed(l)) : Listed(l)[i].name = Listed(l)[j].name => i = j

IndexIsSound == CacheTellsTheTruth /\ ListingShowsTheDisk
=============================================================================
