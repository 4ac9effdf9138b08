-------------------------------- MODULE Media --------------------------------
(***************************************************************************)
(* server/media.mjs: how the bytes of one picture come under the name that *)
(* promises them.  An upload writes them to a temporary file and renames   *)
(* it; its name is the process and the millisecond, so two uploads begun   *)
(* in the same millisecond open the same file.                             *)
(*                                                                         *)
(* A file is known by the upload that created it, and is the set of the    *)
(* picture's chunks it holds.  A rename that was made is taken as durable. *)
(***************************************************************************)
EXTENDS Integers

CONSTANTS
  Uploads,  \* calls of put with the bytes of the picture
  Chunks,   \* the writes of one call
  MaxMs     \* bound on the clock

ASSUME MediaAssumption == Chunks \in Nat \ {0} /\ MaxMs \in Nat \ {0}

NoFile == "none"

ASSUME NoFileIsNoUpload == NoFile \notin Uploads

VARIABLES
  ms,      \* Date.now()
  upload,  \* calls of put
  tmp,     \* the directory: the file under each temporary name
  target,  \* and the file under the content's own name
  bytes,   \* what a read of each file finds
  disk     \* and what a crash leaves of it at least

mediaVars == <<ms, upload, tmp, target, bytes, disk>>

Whole == 1 .. Chunks
Names == 1 .. MaxMs

NotBegun == [st |-> "idle", name |-> 0, file |-> NoFile, at |-> 0]

MediaInit ==
  /\ ms = 1
  /\ upload = [u \in Uploads |-> NotBegun]
  /\ tmp = [t \in Names |-> NoFile] /\ target = NoFile
  /\ bytes = [f \in Uploads |-> {}] /\ disk = [f \in Uploads |-> {}]
-----------------------------------------------------------------------------
Opened(file) == [st |-> "open", name |-> ms, file |-> file, at |-> 0]

(* open(tmp, 'w'): a new file, or what is there, emptied.                  *)
OpenFile(u) ==
  /\ upload[u] = NotBegun
  /\ LET file == IF tmp[ms] = NoFile THEN u ELSE tmp[ms]
     IN  /\ upload' = [upload EXCEPT ![u] = Opened(file)]
         /\ tmp' = [tmp EXCEPT ![ms] = file]
         /\ bytes' = [bytes EXCEPT ![file] = {}]
  /\ UNCHANGED <<ms, target, disk>>

(* The next chunk lands at the writer's own place in the file.             *)
WriteChunk(u) ==
  /\ upload[u].st = "open" /\ upload[u].at < Chunks
  /\ upload' = [upload EXCEPT ![u].at = @ + 1]
  /\ bytes' = [bytes EXCEPT ![upload[u].file] = @ \cup {upload[u].at + 1}]
  /\ UNCHANGED <<ms, tmp, target, disk>>

Flushed_Not(file) == disk

Flushed(file) == [disk EXCEPT ![file] = bytes[file]]

SyncFile(u) ==
  /\ upload[u].st = "open" /\ upload[u].at = Chunks
  /\ upload' = [upload EXCEPT ![u].st = "synced"]
  /\ disk' = Flushed(upload[u].file)
  /\ UNCHANGED <<ms, tmp, target, bytes>>

(* A write or the sync fails: the file is closed and left behind.          *)
UploadFails(u) ==
  /\ upload[u].st = "open"
  /\ upload' = [upload EXCEPT ![u].st = "failed"]
  /\ UNCHANGED <<ms, tmp, target, bytes, disk>>

(* Whatever file has the temporary name by now gets the content's.         *)
RenameFile(u) ==
  /\ upload[u].st = "synced" /\ tmp[upload[u].name] # NoFile
  /\ upload' = [upload EXCEPT ![u].st = "stored"]
  /\ target' = tmp[upload[u].name]
  /\ tmp' = [tmp EXCEPT ![upload[u].name] = NoFile]
  /\ UNCHANGED <<ms, bytes, disk>>

(* ENOENT: the other upload of that millisecond was first.                 *)
NothingToRename(u) ==
  /\ upload[u].st = "synced" /\ tmp[upload[u].name] = NoFile
  /\ upload' = [upload EXCEPT ![u].st = "refused"]
  /\ UNCHANGED <<ms, tmp, target, bytes, disk>>

ForgetFile ==
  /\ target # NoFile
  /\ target' = NoFile
  /\ UNCHANGED <<ms, upload, tmp, bytes, disk>>

MediaTick ==
  /\ ms < MaxMs
  /\ ms' = ms + 1
  /\ UNCHANGED <<upload, tmp, target, bytes, disk>>

(* The machine stops: of each file there is what was flushed or what was   *)
(* read of it before.                                                      *)
MediaCrash ==
  /\ upload' = [u \in Uploads |-> IF upload[u].st \in {"open", "synced"}
                                  THEN [upload[u] EXCEPT !.st = "lost"] ELSE upload[u]]
  /\ \E kept \in SUBSET Uploads :
       bytes' = [f \in Uploads |-> IF f \in kept THEN bytes[f] ELSE disk[f]]
  /\ disk' = bytes'
  /\ UNCHANGED <<ms, tmp, target>>

Upload(u) ==
  \/ OpenFile(u) \/ WriteChunk(u) \/ SyncFile(u) \/ UploadFails(u)
  \/ RenameFile(u) \/ NothingToRename(u)

MediaNext == ForgetFile \/ MediaTick \/ MediaCrash \/ \E u \in Uploads : Upload(u)

MediaSpec == MediaInit /\ [][MediaNext]_mediaVars
-----------------------------------------------------------------------------
Began(u, v) == u # v /\ upload[u].name = upload[v].name

(* The comment on put says that a reader never sees a half-written object  *)
(* under a name that promises a complete one.  One there is only ever the  *)
(* doing of two uploads of one millisecond, of which one got to its rename *)
(* while the other, which opened the file, is writing, failed or was cut   *)
(* off; when every upload that opened it has got to its sync the object is *)
(* whole, and stays so through a crash.                                    *)
HalfIsOfTwins ==
  target # NoFile /\ bytes[target] # Whole =>
    \E u, v \in Uploads :
      /\ Began(u, v) /\ upload[u].st = "stored"
      /\ upload[v].file = target /\ upload[v].st \in {"open", "failed", "lost"}
=============================================================================
