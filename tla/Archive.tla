------------------------------- MODULE Archive -------------------------------
(***************************************************************************)
(* The directories of games that ended are appended to a tar file and      *)
(* removed (archive.go, tar.go, drainRemovePipe in pipes.go): by their     *)
(* runners, and at the next boot for those that were left.  All            *)
(* directories here are of one week, that is of one tar file.              *)
(*                                                                         *)
(* A tar file is a sequence of blocks of 512 bytes: a header, the data of  *)
(* the file, the next header, and two blocks of zeros as a trailer.  To    *)
(* append, the trailer is overwritten; what is in the last two blocks is   *)
(* not looked at.  A write may fail, and the backend may be killed,        *)
(* between any two blocks.                                                 *)
(***************************************************************************)
EXTENDS Naturals, Sequences

CONSTANTS
  Dirs,      \* the directories, one for each game
  Nobody,    \* no directory
  Files,     \* what may be in them: numbers, in the order Walk goes
  Json,      \* instance.json
  PipeLog,   \* what was left in the pipes, written to a file
  Size,      \* how many blocks of data a file has
  MaxBoots,  \* bound: how often the backend is started
  Faults     \* what may fail, a subset of FaultPoints

FaultPoints == {"drain", "open", "read", "write", "remove"}

ASSUME ArchiveAssumption ==
  /\ Nobody \notin Dirs
  /\ Files \subseteq Nat /\ {Json, PipeLog} \subseteq Files /\ Json # PipeLog
  /\ Size \in [Files -> Nat]
  /\ MaxBoots \in Nat \ {0}
  /\ Faults \subseteq FaultPoints

VARIABLES
  at,           \* where the archival of a directory is
  files,        \* the files in it
  pipe,         \* whether there is something left in its pipes
  archiveLock,  \* the directory that is being archived, or Nobody
  append,       \* the locals of an append: the files Walk has still to visit, the file being
                \* appended, how many blocks of its data are to come, where the append began
                \* and where the next block goes
  tar,          \* the tar file
  boots,
  made,         \* all files a directory ever had
  unread,       \* those that were left out because one could not be read
  torn          \* whether an append ever broke off after its first two blocks

diskVars  == <<files, pipe, made>>
vars == <<at, diskVars, archiveLock, append, tar, boots, unread, torn>>

Zero       == [kind |-> "zero", of |-> <<Nobody, Json>>, nr |-> 0]
Hdr(d, f)  == [kind |-> "hdr", of |-> <<d, f>>, nr |-> 0]
Data(d, f, k) == [kind |-> "data", of |-> <<d, f>>, nr |-> k]

NoAppend == [left |-> {}, file |-> Json, todo |-> 0, start |-> 0, pos |-> 0]

Init ==
  /\ at = [d \in Dirs |-> "run"]
  /\ files = [d \in Dirs |-> Files \ {PipeLog}] /\ made = files
  /\ pipe \in [Dirs -> BOOLEAN]
  /\ archiveLock = Nobody
  /\ append = [d \in Dirs |-> NoAppend]
  /\ tar = <<>> /\ boots = 1
  /\ unread = [d \in Dirs |-> {}] /\ torn = FALSE

Goes(d, from, to) ==
  /\ at[d] = from
  /\ at' = [at EXCEPT ![d] = to]

(* archiveInstance returns.                                                *)
Returns(d, from, to) ==
  /\ Goes(d, from, to)
  /\ archiveLock' = Nobody
  /\ append' = [append EXCEPT ![d] = NoAppend]

-----------------------------------------------------------------------------
(* The game ended: its runner archives the directory.                      *)
GameEnds(d) ==
  /\ Goes(d, "run", "wait")
  /\ UNCHANGED <<diskVars, archiveLock, append, tar, boots, unread, torn>>

TakeLock(d) ==
  /\ archiveLock = Nobody /\ archiveLock' = d
  /\ Goes(d, "wait", "drain")
  /\ UNCHANGED <<diskVars, append, tar, boots, unread, torn>>

(* archiveInstanceDumpPipes.  What was read from a pipe is lost if it      *)
(* cannot be written.                                                      *)
drainRemovePipe(d) ==
  /\ \/ /\ Goes(d, "drain", "open")
        /\ pipe' = [pipe EXCEPT ![d] = FALSE]
        /\ LET log == IF pipe[d] THEN {PipeLog} ELSE {}
           IN /\ files' = [files EXCEPT ![d] = @ \union log]
              /\ made' = [made EXCEPT ![d] = @ \union log]
        /\ UNCHANGED <<archiveLock, append>>
     \/ /\ "drain" \in Faults /\ Returns(d, "drain", "kept")
        /\ pipe' \in {pipe, [pipe EXCEPT ![d] = FALSE]}
        /\ UNCHANGED <<files, made>>
  /\ UNCHANGED <<tar, boots, unread, torn>>

Begins(d, p) ==
  /\ Goes(d, "open", "walk")
  /\ append' = [append EXCEPT ![d] = [NoAppend EXCEPT !.left = files[d], !.start = p, !.pos = p]]
  /\ UNCHANGED archiveLock

(* Mutant: only one block of the trailer is overwritten.                   *)
OpenSeekOne(d) ==
  /\ Begins(d, IF tar = <<>> THEN 1 ELSE Len(tar))
  /\ UNCHANGED <<diskVars, tar, boots, unread, torn>>

(* An archive shorter than a trailer cannot be appended to.                *)
tarOpenSeekAppend(d) ==
  /\ \/ tar = <<>> /\ Begins(d, 1)
     \/ Len(tar) >= 2 /\ Begins(d, Len(tar) - 1)
     \/ (Len(tar) = 1 \/ "open" \in Faults) /\ Returns(d, "open", "kept")
  /\ UNCHANGED <<diskVars, tar, boots, unread, torn>>

-----------------------------------------------------------------------------
(* Walk, tarAppendFile and Close.                                          *)

(* Block b is written at p of t, which is at most its end.                 *)
WriteAt(t, p, b) == IF p <= Len(t) THEN [t EXCEPT ![p] = b] ELSE Append(t, b)

(* Mutant: the position is moved on by more than what was written.         *)
PutSkips(d, b, a) ==
  LET p == append[d].pos
  IN /\ tar' = WriteAt(tar, p, b)
     /\ append' = [append EXCEPT ![d] = [a EXCEPT !.pos = p + 2]]

(* The next block of an append, after which its locals are a.              *)
Put(d, b, a) ==
  LET p == append[d].pos
  IN /\ tar' = WriteAt(tar, p, b)
     /\ append' = [append EXCEPT ![d] = [a EXCEPT !.pos = p + 1]]

(* An append that does not reach the end of its trailer.                   *)
Breaks(d) == append[d].pos >= append[d].start + 3

(* After a write error the trailer is not written, and Close fails.        *)
WriteFails(d) ==
  /\ "write" \in Faults
  /\ Returns(d, at[d], "kept")
  /\ torn' = (torn \/ Breaks(d))
  /\ UNCHANGED <<diskVars, tar, boots, unread>>

AppendHeader(d) ==
  /\ at[d] = "walk" /\ append[d].todo = 0
  /\ \E f \in append[d].left :
       /\ \A g \in append[d].left : f <= g
       /\ Put(d, Hdr(d, f), [append[d] EXCEPT !.left = @ \ {f}, !.file = f, !.todo = Size[f]])
  /\ UNCHANGED <<at, diskVars, archiveLock, boots, unread, torn>>

AppendData(d) ==
  LET a == append[d]
  IN /\ at[d] = "walk" /\ a.todo > 0
     /\ Put(d, Data(d, a.file, 1 + Size[a.file] - a.todo), [a EXCEPT !.todo = @ - 1])
     /\ UNCHANGED <<at, diskVars, archiveLock, boots, unread, torn>>

(* An error of the read ends the walk, and is ignored.                     *)
ReadFails(d) ==
  /\ at[d] = "walk" /\ "read" \in Faults
  /\ append[d].todo = 0 /\ append[d].left # {}
  /\ unread' = [unread EXCEPT ![d] = @ \union append[d].left]
  /\ append' = [append EXCEPT ![d].left = {}]
  /\ UNCHANGED <<at, diskVars, archiveLock, tar, boots, torn>>

(* The trailer.                                                            *)
CloseWriter(d) ==
  /\ \/ append[d].left = {} /\ append[d].todo = 0 /\ Goes(d, "walk", "close")
     \/ Goes(d, "close", "remove")
  /\ Put(d, Zero, append[d])
  /\ UNCHANGED <<diskVars, archiveLock, boots, unread, torn>>

(* RemoveAll removes what it can.                                          *)
RemoveAll(d) ==
  /\ \/ Returns(d, "remove", "gone") /\ files' = [files EXCEPT ![d] = {}]
     \/ /\ "remove" \in Faults /\ Returns(d, "remove", "kept")
        /\ \E rest \in SUBSET files[d] : files' = [files EXCEPT ![d] = rest]
  /\ UNCHANGED <<pipe, made, tar, boots, unread, torn>>

-----------------------------------------------------------------------------
(* A kill and the next boot, which archives the directories of games that  *)
(* are dead, if instance.json is still there to tell (recoverInstances).   *)
Boot ==
  /\ boots < MaxBoots /\ boots' = boots + 1
  /\ archiveLock' = Nobody
  /\ torn' = (torn \/ \E d \in Dirs : at[d] \in {"walk", "close"} /\ Breaks(d))
  /\ files' \in {files} \union
       {[files EXCEPT ![d] = rest] : d \in {x \in Dirs : at[x] = "remove"}, rest \in SUBSET Files}
  /\ \A d \in Dirs : files'[d] \subseteq files[d]
  /\ at' = [d \in Dirs |-> IF at[d] \in {"run", "gone"} THEN at[d]
                           ELSE IF Json \in files'[d] THEN "wait" ELSE "kept"]
  /\ append' = [d \in Dirs |-> NoAppend]
  /\ UNCHANGED <<pipe, made, unread>>

(* Mutant: an archive that broke off is removed at the next boot.          *)
RestartAnew == Boot /\ tar' = IF torn' THEN <<>> ELSE tar

Restart == Boot /\ UNCHANGED tar

Step(d) ==
  \/ TakeLock(d) \/ drainRemovePipe(d) \/ tarOpenSeekAppend(d) \/ AppendHeader(d) \/ AppendData(d)
  \/ ReadFails(d) \/ (at[d] \in {"walk", "close"} /\ WriteFails(d)) \/ CloseWriter(d) \/ RemoveAll(d)

Next == (\E d \in Dirs : GameEnds(d) \/ Step(d)) \/ Restart

Spec == Init /\ [][Next]_vars

-----------------------------------------------------------------------------
(* What a reader finds in a tar file: from the first block on he goes from *)
(* header to header, until a block is none.                                *)
Headers(t) == {p \in DOMAIN t : t[p].kind = "hdr"}

After(t, p) == p + 1 + Size[t[p].of[2]]

(* Headers he can pass on his way: the first block, or the one after the   *)
(* data of another.                                                        *)
Trail(t, S) == \A p \in S : p = 1 \/ \E q \in S : After(t, q) = p

Reached(t) == UNION {S \in SUBSET Headers(t) : Trail(t, S)}

Readable(t, d, f) ==
  \E p \in Reached(t) :
    /\ t[p] = Hdr(d, f)
    /\ \A k \in 1..Size[f] : p + k <= Len(t) /\ t[p + k] = Data(d, f, k)

-----------------------------------------------------------------------------
(* Properties.                                                             *)

Places == {"run", "wait", "drain", "open", "walk", "close", "remove", "kept", "gone"}

(* Every variable has its type.                                            *)
TypeOK ==
  /\ at \in [Dirs -> Places]
  /\ files \in [Dirs -> SUBSET Files] /\ made \in [Dirs -> SUBSET Files]
  /\ pipe \in [Dirs -> BOOLEAN]
  /\ archiveLock \in Dirs \union {Nobody}
  /\ append \in [Dirs -> [left : SUBSET Files, file : Files, todo : Nat, start : Nat, pos : Nat]]
  /\ \A d \in Dirs : at[d] \in {"walk", "close"} => append[d].pos \in 1..(Len(tar) + 1)
  /\ boots \in 1..MaxBoots
  /\ unread \in [Dirs -> SUBSET Files] /\ torn \in BOOLEAN

(* All files of a directory that was removed can be read in the archive,   *)
(* but for those that were left out because of one that could not be read, *)
(* and unless an append ever broke off after its first two blocks          *)
(* (archiveInstance, tarOpenSeekAppend).                                   *)
NothingLost ==
  \A d \in Dirs : at[d] = "gone" /\ ~torn => \A f \in made[d] \ unread[d] : Readable(tar, d, f)

(* What can be read of a removed directory can be read ever after,         *)
(* whatever fails later and whenever the backend is killed: an append      *)
(* overwrites nothing but a trailer, or what broke off before it.          *)
StaysReadable ==
  [][\A d \in Dirs : at[d] = "gone" =>
       \A f \in Files : Readable(tar, d, f) => Readable(tar', d, f)]_vars
=============================================================================
