---------------------------- MODULE ArchiveProofs ----------------------------
(***************************************************************************)
(* Theorems about Archive, for every number of directories and of starts,  *)
(* whatever the sizes of the files and whatever may fail.                  *)
(*                                                                         *)
(* First what a reader finds in a tar file, and what of that stays when a  *)
(* block is written.  Then the invariants: one directory is archived at a  *)
(* time (LockInv), its append writes where the trailer was and after it    *)
(* (PosInv), and what was removed is before that (GoneInv): what can be    *)
(* read of it stays readable.  And, as long as no append broke off too     *)
(* late, a reader gets to where the append is (FileInv), or to the trailer *)
(* when there is none (IdleInv), so that a directory is removed only when  *)
(* all of its files can be read (KeptInv): nothing is lost.                *)
(***************************************************************************)
EXTENDS Archive, Integers, TLAPS

-----------------------------------------------------------------------------
(* Tar files and their readers, whatever wrote them.                       *)

(* A block.                                                                *)
Blocks ==
  [kind : {"zero", "hdr", "data"}, of : (Dirs \union {Nobody}) \X Files, nr : Int]

(* All blocks of t before n are in u.                                      *)
Keeps(t, u, n) == \A k \in 1..Len(t) : k < n => k <= Len(u) /\ u[k] = t[k]

(* A reader who gets to n looks for a header there.                        *)
Arrives(t, n) == n = 1 \/ \E p \in Reached(t) : After(t, p) = n

(* File f of d can be read, and ends before n.                             *)
ReadBelow(t, d, f, n) ==
  \E p \in Reached(t) :
    /\ t[p] = Hdr(d, f) /\ p + Size[f] < n
    /\ \A k \in 1..Size[f] : p + k <= Len(t) /\ t[p + k] = Data(d, f, k)

(* A block that is put into a tar file is there, and all others stay.      *)
LEMMA PutFacts ==
  ASSUME NEW t \in Seq(Blocks), NEW b \in Blocks, NEW p \in 1..(Len(t) + 1)
  PROVE  LET u == WriteAt(t, p, b)
         IN /\ u \in Seq(Blocks) /\ u[p] = b
            /\ Len(u) = IF p <= Len(t) THEN Len(t) ELSE p
            /\ \A k \in 1..Len(t) : k # p => u[k] = t[k]
            /\ Keeps(t, u, p)
  <1>. DEFINE u == WriteAt(t, p, b)
  <1>1. CASE p <= Len(t)
    <2>1. u = [t EXCEPT ![p] = b]  BY <1>1 DEF WriteAt
    <2>. HIDE DEF u
    <2>2. u \in Seq(Blocks) /\ Len(u) = Len(t)  BY <2>1, <1>1
    <2>3. u[p] = b /\ \A k \in 1..Len(t) : k # p => u[k] = t[k]  BY <2>1, <1>1
    <2>4. Keeps(t, u, p)  BY <2>2, <2>3, <1>1 DEF Keeps
    <2>. QED  BY <1>1, <2>2, <2>3, <2>4 DEF u
  <1>2. CASE p > Len(t)
    <2>1. u = Append(t, b) /\ p = Len(t) + 1  BY <1>2 DEF WriteAt
    <2>. HIDE DEF u
    <2>2. u \in Seq(Blocks) /\ Len(u) = Len(t) + 1  BY <2>1
    <2>3. u[p] = b /\ \A k \in 1..Len(t) : u[k] = t[k]  BY <2>1
    <2>4. Keeps(t, u, p)  BY <2>1, <2>2, <2>3 DEF Keeps
    <2>. QED  BY <2>1, <2>2, <2>3, <2>4, <1>2 DEF u
  <1>. QED  BY <1>1, <1>2

(* The blocks the code writes are blocks.                                  *)
LEMMA ZeroType == Zero \in Blocks
  BY ArchiveAssumption DEF Blocks, Zero

LEMMA HdrType ==
  ASSUME NEW d \in Dirs, NEW f \in Files
  PROVE  Hdr(d, f) \in Blocks
  BY DEF Blocks, Hdr

LEMMA DataType ==
  ASSUME NEW d \in Dirs, NEW f \in Files, NEW k \in Int
  PROVE  Data(d, f, k) \in Blocks
  BY DEF Blocks, Data

(* After a header comes a later block.                                     *)
LEMMA AfterLater ==
  ASSUME NEW t \in Seq(Blocks), NEW p \in Headers(t)
  PROVE  /\ p \in 1..Len(t) /\ Size[t[p].of[2]] \in Nat
         /\ After(t, p) \in Nat /\ p < After(t, p)
  <1>1. p \in 1..Len(t) /\ t[p] \in Blocks  BY DEF Headers
  <1>2. t[p].of[2] \in Files  BY <1>1 DEF Blocks
  <1>3. Size[t[p].of[2]] \in Nat  BY <1>2, ArchiveAssumption
  <1>. QED  BY <1>1, <1>3 DEF After

LEMMA ReachedHeader ==
  ASSUME NEW t, NEW p \in Reached(t)
  PROVE  p \in Headers(t)
  BY DEF Reached

(* A header where the reader arrives is reached.                           *)
LEMMA ReachedNext ==
  ASSUME NEW t, NEW p \in Headers(t), Arrives(t, p)
  PROVE  p \in Reached(t)
  <1>1. CASE p = 1
    <2>1. {p} \in SUBSET Headers(t) /\ Trail(t, {p})  BY <1>1 DEF Trail
    <2>. QED  BY <2>1 DEF Reached
  <1>2. CASE p # 1
    <2>1. PICK q \in Reached(t) : After(t, q) = p  BY <1>2 DEF Arrives
    <2>2. PICK S \in SUBSET Headers(t) : q \in S /\ Trail(t, S)  BY DEF Reached
    <2>3. S \union {p} \in SUBSET Headers(t)  BY <2>2
    <2>4. Trail(t, S \union {p})  BY <2>1, <2>2 DEF Trail
    <2>. QED  BY <2>3, <2>4 DEF Reached
  <1>. QED  BY <1>1, <1>2

(* What is reached before n depends on the blocks before n alone.          *)
LEMMA ReachedKept ==
  ASSUME NEW t \in Seq(Blocks), NEW u \in Seq(Blocks), NEW n \in Int, Keeps(t, u, n),
         NEW p \in Reached(t), p < n
  PROVE  p \in Reached(u) /\ u[p] = t[p] /\ After(u, p) = After(t, p)
  <1>1. PICK S \in SUBSET Headers(t) : p \in S /\ Trail(t, S)  BY DEF Reached
  <1>2. DEFINE T == {q \in S : q < n}
  <1>3. \A q \in T : q \in Headers(u) /\ u[q] = t[q] /\ After(u, q) = After(t, q)
    <2>. SUFFICES ASSUME NEW q \in T
                  PROVE  q \in Headers(u) /\ u[q] = t[q] /\ After(u, q) = After(t, q)
      OBVIOUS
    <2>1. q \in Headers(t) /\ q \in 1..Len(t) /\ q < n  BY <1>1, AfterLater
    <2>2. q \in 1..Len(u) /\ u[q] = t[q]  BY <2>1 DEF Keeps
    <2>. QED  BY <2>1, <2>2 DEF Headers, After
  <1>4. Trail(u, T)
    <2>. SUFFICES ASSUME NEW q \in T, q # 1
                  PROVE  \E r \in T : After(u, r) = q
      BY DEF Trail
    <2>1. PICK r \in S : After(t, r) = q  BY <1>1 DEF Trail
    <2>2. r \in Headers(t) /\ q \in Headers(t)  BY <1>1
    <2>3. r < q /\ r \in Int /\ q \in Int /\ q < n  BY <2>1, <2>2, AfterLater
    <2>4. r \in T  BY <2>3
    <2>. QED  BY <2>1, <2>4, <1>3
  <1>5. T \in SUBSET Headers(u) /\ p \in T  BY <1>1, <1>3
  <1>. QED  BY <1>3, <1>4, <1>5 DEF Reached

LEMMA ArrivesKept ==
  ASSUME NEW t \in Seq(Blocks), NEW u \in Seq(Blocks), NEW n \in Int, Keeps(t, u, n),
         NEW m \in Int, m <= n, Arrives(t, m)
  PROVE  Arrives(u, m)
  <1>1. CASE m = 1  BY <1>1 DEF Arrives
  <1>2. CASE m # 1
    <2>1. PICK p \in Reached(t) : After(t, p) = m  BY <1>2 DEF Arrives
    <2>2. p \in Int /\ p < m  BY <2>1, ReachedHeader, AfterLater
    <2>3. p \in Reached(u) /\ After(u, p) = m  BY <2>1, <2>2, ReachedKept
    <2>. QED  BY <2>3 DEF Arrives
  <1>. QED  BY <1>1, <1>2

(* A file that ends before n is read ever after if these blocks stay.      *)
LEMMA ReadBelowKept ==
  ASSUME NEW t \in Seq(Blocks), NEW u \in Seq(Blocks), NEW n \in Int, Keeps(t, u, n),
         NEW d, NEW f \in Files, NEW m \in Int, m <= n, ReadBelow(t, d, f, m)
  PROVE  ReadBelow(u, d, f, m)
  <1>1. PICK p \in Reached(t) :
          /\ t[p] = Hdr(d, f) /\ p + Size[f] < m
          /\ \A k \in 1..Size[f] : p + k <= Len(t) /\ t[p + k] = Data(d, f, k)
    BY DEF ReadBelow
  <1>2. p \in 1..Len(t) /\ Size[f] \in Nat  BY ReachedHeader, AfterLater, ArchiveAssumption
  <1>3. p < n  BY <1>1, <1>2
  <1>4. p \in Reached(u) /\ u[p] = Hdr(d, f)  BY <1>1, <1>3, ReachedKept
  <1>5. ASSUME NEW k \in 1..Size[f]
        PROVE  p + k <= Len(u) /\ u[p + k] = Data(d, f, k)
    <2>1. p + k \in 1..Len(t) /\ p + k < n /\ t[p + k] = Data(d, f, k)  BY <1>1, <1>2
    <2>. QED  BY <2>1 DEF Keeps
  <1>. QED  BY <1>1, <1>4, <1>5 DEF ReadBelow

LEMMA ReadBelowMore ==
  ASSUME NEW t \in Seq(Blocks), NEW d, NEW f \in Files, NEW m \in Int, NEW n \in Int,
         m <= n, ReadBelow(t, d, f, m)
  PROVE  ReadBelow(t, d, f, n) /\ m > 1
  <1>1. PICK p \in Reached(t) :
          /\ t[p] = Hdr(d, f) /\ p + Size[f] < m
          /\ \A k \in 1..Size[f] : p + k <= Len(t) /\ t[p + k] = Data(d, f, k)
    BY DEF ReadBelow
  <1>2. p \in 1..Len(t) /\ Size[f] \in Nat  BY ReachedHeader, AfterLater, ArchiveAssumption
  <1>. QED  BY <1>1, <1>2 DEF ReadBelow

LEMMA ReadBelowReadable ==
  ASSUME NEW t, NEW d, NEW f, NEW n, ReadBelow(t, d, f, n)
  PROVE  Readable(t, d, f)
  BY DEF ReadBelow, Readable

-----------------------------------------------------------------------------
(* Types.                                                                  *)

TarInv == tar \in Seq(Blocks)

AppendType == [left : SUBSET Files, file : Files, todo : Nat, start : Nat, pos : Nat]

LEMMA NoAppendType == NoAppend \in AppendType
  BY ArchiveAssumption DEF NoAppend, AppendType

(* What a step of an append does to the tar file and to its locals.        *)
LEMMA PutStep ==
  ASSUME TypeOK, TarInv, NEW d \in Dirs, at[d] \in {"walk", "close"},
         NEW b \in Blocks, NEW a \in AppendType, Put(d, b, a)
  PROVE  LET p == append[d].pos
         IN /\ p \in 1..(Len(tar) + 1)
            /\ tar' \in Seq(Blocks) /\ tar'[p] = b
            /\ Len(tar') = IF p <= Len(tar) THEN Len(tar) ELSE p
            /\ \A k \in 1..Len(tar) : k # p => tar'[k] = tar[k]
            /\ Keeps(tar, tar', p)
            /\ append' = [append EXCEPT ![d] = [a EXCEPT !.pos = p + 1]]
            /\ append' \in [Dirs -> AppendType]
            /\ append'[d] = [a EXCEPT !.pos = p + 1]
            /\ \A e \in Dirs : e # d => append'[e] = append[e]
  <1>1. append \in [Dirs -> AppendType] /\ append[d].pos \in 1..(Len(tar) + 1)
    BY DEF TypeOK, AppendType
  <1>2. tar \in Seq(Blocks)  BY DEF TarInv
  <1>3. tar' = WriteAt(tar, append[d].pos, b)  BY DEF Put
  <1>4. append' = [append EXCEPT ![d] = [a EXCEPT !.pos = append[d].pos + 1]]  BY DEF Put
  <1>5. [a EXCEPT !.pos = append[d].pos + 1] \in AppendType
    <2>1. append[d].pos + 1 \in Nat  BY <1>1 DEF AppendType
    <2>. QED  BY <2>1 DEF AppendType
  <1>6. /\ append' \in [Dirs -> AppendType]
        /\ append'[d] = [a EXCEPT !.pos = append[d].pos + 1]
        /\ \A e \in Dirs : e # d => append'[e] = append[e]
    BY <1>1, <1>4, <1>5
  <1>7. /\ tar' \in Seq(Blocks) /\ tar'[append[d].pos] = b
        /\ Len(tar') = IF append[d].pos <= Len(tar) THEN Len(tar) ELSE append[d].pos
        /\ \A k \in 1..Len(tar) : k # append[d].pos => tar'[k] = tar[k]
        /\ Keeps(tar, tar', append[d].pos)
    <2>. DEFINE p == append[d].pos
    <2>1. p \in 1..(Len(tar) + 1) /\ tar' = WriteAt(tar, p, b)  BY <1>1, <1>3
    <2>. HIDE DEF p
    <2>2. /\ WriteAt(tar, p, b) \in Seq(Blocks) /\ WriteAt(tar, p, b)[p] = b
          /\ Len(WriteAt(tar, p, b)) = IF p <= Len(tar) THEN Len(tar) ELSE p
          /\ \A k \in 1..Len(tar) : k # p => WriteAt(tar, p, b)[k] = tar[k]
          /\ Keeps(tar, WriteAt(tar, p, b), p)
      BY <2>1, <1>2, PutFacts
    <2>. QED  BY <2>1, <2>2 DEF p
  <1>. QED  BY <1>1, <1>4, <1>6, <1>7

(* AppendHeader, AppendData and CloseWriter put a block.                   *)
LEMMA HeaderStep ==
  ASSUME TypeOK, TarInv, NEW d \in Dirs, AppendHeader(d)
  PROVE  \E f \in append[d].left :
           LET a == [append[d] EXCEPT !.left = @ \ {f}, !.file = f, !.todo = Size[f]]
           IN f \in Files /\ Hdr(d, f) \in Blocks /\ a \in AppendType /\ Put(d, Hdr(d, f), a)
  <1>1. PICK f \in append[d].left :
          Put(d, Hdr(d, f), [append[d] EXCEPT !.left = @ \ {f}, !.file = f, !.todo = Size[f]])
    BY DEF AppendHeader
  <1>2. append[d] \in AppendType  BY DEF TypeOK, AppendType
  <1>3. f \in Files /\ Size[f] \in Nat  BY <1>2, ArchiveAssumption DEF AppendType
  <1>4. [append[d] EXCEPT !.left = @ \ {f}, !.file = f, !.todo = Size[f]] \in AppendType
    BY <1>2, <1>3 DEF AppendType
  <1>. QED  BY <1>1, <1>3, <1>4, HdrType

LEMMA DataStep ==
  ASSUME TypeOK, TarInv, NEW d \in Dirs, AppendData(d)
  PROVE  LET a == append[d]
             k == 1 + Size[a.file] - a.todo
         IN /\ a.file \in Files /\ k \in Int /\ Data(d, a.file, k) \in Blocks
            /\ [a EXCEPT !.todo = @ - 1] \in AppendType
            /\ Put(d, Data(d, a.file, k), [a EXCEPT !.todo = @ - 1])
  <1>1. append[d] \in AppendType /\ append[d].todo > 0  BY DEF AppendData, TypeOK, AppendType
  <1>2. append[d].file \in Files /\ append[d].todo \in Nat  BY <1>1 DEF AppendType
  <1>3. Size[append[d].file] \in Nat  BY <1>2, ArchiveAssumption
  <1>4. 1 + Size[append[d].file] - append[d].todo \in Int  BY <1>2, <1>3
  <1>5. [append[d] EXCEPT !.todo = @ - 1] \in AppendType  BY <1>1 DEF AppendType
  <1>. QED  BY <1>2, <1>4, <1>5, DataType DEF AppendData

LEMMA CloseStep ==
  ASSUME TypeOK, TarInv, NEW d \in Dirs, CloseWriter(d)
  PROVE  Zero \in Blocks /\ append[d] \in AppendType /\ Put(d, Zero, append[d])
  BY ZeroType DEF CloseWriter, TypeOK, AppendType

(* Initially every variable has its type.                                  *)
LEMMA TypeInit == Init => TypeOK /\ TarInv
  <1>. SUFFICES ASSUME Init PROVE TypeOK /\ TarInv  OBVIOUS
  <1>1. NoAppend \in AppendType  BY NoAppendType
  <1>2. append \in [Dirs -> AppendType]  BY <1>1 DEF Init
  <1>3. \A d \in Dirs : at[d] = "run"  BY DEF Init
  <1>4. at \in [Dirs -> Places]  BY DEF Init, Places
  <1>5. files \in [Dirs -> SUBSET Files] /\ made \in [Dirs -> SUBSET Files]  BY DEF Init
  <1>6. boots \in 1..MaxBoots  BY ArchiveAssumption DEF Init
  <1>7. archiveLock = Nobody /\ pipe \in [Dirs -> BOOLEAN] /\ torn = FALSE
        /\ unread \in [Dirs -> SUBSET Files]
    BY DEF Init
  <1>8. tar \in Seq(Blocks)  BY DEF Init
  <1>. QED  BY <1>2, <1>3, <1>4, <1>5, <1>6, <1>7, <1>8 DEF TypeOK, TarInv, AppendType

(* A directory that goes somewhere.                                        *)
LEMMA GoesType ==
  ASSUME TypeOK, NEW d \in Dirs, NEW from, NEW to \in Places, Goes(d, from, to)
  PROVE  at' \in [Dirs -> Places] /\ at'[d] = to /\ \A e \in Dirs : e # d => at'[e] = at[e]
  BY DEF TypeOK, Goes

LEMMA ReturnsType ==
  ASSUME TypeOK, NEW d \in Dirs, NEW from, NEW to \in {"kept", "gone"}, Returns(d, from, to)
  PROVE  /\ at' \in [Dirs -> Places] /\ at'[d] = to /\ \A e \in Dirs : e # d => at'[e] = at[e]
         /\ append' \in [Dirs -> AppendType]
         /\ \A e \in Dirs : e # d => append'[e] = append[e]
         /\ archiveLock' = Nobody
  <1>1. Goes(d, from, to) /\ to \in Places  BY DEF Returns, Places
  <1>2. append \in [Dirs -> AppendType]  BY DEF TypeOK, AppendType
  <1>. QED  BY <1>1, <1>2, GoesType, NoAppendType DEF Returns


LEMMA PutType ==
  ASSUME TypeOK, TarInv, NEW d \in Dirs, at[d] \in {"walk", "close"},
         NEW b \in Blocks, NEW a \in AppendType, Put(d, b, a)
  PROVE  /\ TarInv' /\ append' \in [Dirs -> AppendType]
         /\ \A e \in Dirs : at[e] \in {"walk", "close"} =>
                               append'[e].pos \in 1..(Len(tar') + 1)
  <1>1. append[d].pos \in 1..(Len(tar) + 1)  BY DEF TypeOK
  <1>2. append'[d] = [a EXCEPT !.pos = append[d].pos + 1]  BY PutStep
  <1>3. append'[d].pos = append[d].pos + 1  BY <1>2 DEF AppendType
  <1>4. Len(tar') = IF append[d].pos <= Len(tar) THEN Len(tar) ELSE append[d].pos  BY PutStep
  <1>5. /\ tar' \in Seq(Blocks) /\ append' \in [Dirs -> AppendType]
        /\ \A e \in Dirs : e # d => append'[e] = append[e]
    BY PutStep
  <1>6. Len(tar) \in Nat  BY DEF TarInv
  <1>7. append'[d].pos \in 1..(Len(tar') + 1) /\ Len(tar') >= Len(tar)
    BY <1>1, <1>3, <1>4, <1>6
  <1>8. ASSUME NEW e \in Dirs, at[e] \in {"walk", "close"}, e # d
        PROVE  append'[e].pos \in 1..(Len(tar') + 1)
    <2>1. append[e].pos \in 1..(Len(tar) + 1) /\ append'[e] = append[e]
      BY <1>5, <1>8 DEF TypeOK
    <2>2. Len(tar') \in Nat  BY <1>5
    <2>. QED  BY <2>1, <2>2, <1>6, <1>7
  <1>. QED  BY <1>5, <1>7, <1>8 DEF TarInv

(* Every step keeps the types.                                             *)
LEMMA TypeNext == TypeOK /\ TarInv /\ [Next]_vars => TypeOK' /\ TarInv'
  <1>. SUFFICES ASSUME TypeOK, TarInv, [Next]_vars PROVE TypeOK' /\ TarInv'  OBVIOUS
  <1>. USE DEF diskVars
  <1>a. append \in [Dirs -> AppendType] /\ tar \in Seq(Blocks) /\ Len(tar) \in Nat
    BY DEF TypeOK, AppendType, TarInv
  <1>1. ASSUME NEW d \in Dirs, GameEnds(d) PROVE TypeOK' /\ TarInv'
    <2>1. Goes(d, "run", "wait")  BY <1>1 DEF GameEnds
    <2>2. at' \in [Dirs -> Places] /\ at'[d] = "wait" /\ \A e \in Dirs : e # d => at'[e] = at[e]
      BY <2>1, GoesType DEF Places
    <2>. QED  BY <1>1, <2>2 DEF GameEnds, TypeOK, TarInv
  <1>2. ASSUME NEW d \in Dirs, TakeLock(d) PROVE TypeOK' /\ TarInv'
    <2>1. Goes(d, "wait", "drain")  BY <1>2 DEF TakeLock
    <2>2. at' \in [Dirs -> Places] /\ at'[d] = "drain" /\ \A e \in Dirs : e # d => at'[e] = at[e]
      BY <2>1, GoesType DEF Places
    <2>. QED  BY <1>2, <2>2 DEF TakeLock, TypeOK, TarInv
  <1>3. ASSUME NEW d \in Dirs, drainRemovePipe(d) PROVE TypeOK' /\ TarInv'
    <2>1. CASE Goes(d, "drain", "open") /\ UNCHANGED <<archiveLock, append>>
               /\ pipe' = [pipe EXCEPT ![d] = FALSE]
               /\ \E log \in {{}, {PipeLog}} : /\ files' = [files EXCEPT ![d] = @ \union log]
                                              /\ made' = [made EXCEPT ![d] = @ \union log]
      <3>1. at' \in [Dirs -> Places] /\ at'[d] = "open" /\ \A e \in Dirs : e # d => at'[e] = at[e]
        BY <2>1, GoesType DEF Places
      <3>2. files' \in [Dirs -> SUBSET Files] /\ made' \in [Dirs -> SUBSET Files]
        BY <2>1, ArchiveAssumption DEF TypeOK
      <3>. QED  BY <1>3, <2>1, <3>1, <3>2 DEF drainRemovePipe, TypeOK, TarInv
    <2>2. CASE Returns(d, "drain", "kept") /\ pipe' \in {pipe, [pipe EXCEPT ![d] = FALSE]}
               /\ UNCHANGED <<files, made>>
      <3>1. pipe' \in [Dirs -> BOOLEAN]  BY <2>2 DEF TypeOK
      <3>. QED  BY <1>3, <2>2, <3>1, ReturnsType DEF drainRemovePipe, TypeOK, TarInv, AppendType
    <2>. QED  BY <1>3, <2>1, <2>2 DEF drainRemovePipe
  <1>4. ASSUME NEW d \in Dirs, tarOpenSeekAppend(d) PROVE TypeOK' /\ TarInv'
    <2>1. CASE \E p \in 1..(Len(tar) + 1) : Begins(d, p)
      <3>1. PICK p \in 1..(Len(tar) + 1) : Begins(d, p)  BY <2>1
      <3>2. at' \in [Dirs -> Places] /\ at'[d] = "walk" /\ \A e \in Dirs : e # d => at'[e] = at[e]
        <4>1. Goes(d, "open", "walk")  BY <3>1 DEF Begins
        <4>. QED  BY <4>1, GoesType DEF Places
      <3>3. [NoAppend EXCEPT !.left = files[d], !.start = p, !.pos = p] \in AppendType
        <4>1. p \in Nat /\ files[d] \in SUBSET Files  BY <1>a DEF TypeOK
        <4>. QED  BY <4>1, NoAppendType DEF AppendType
      <3>4. append' \in [Dirs -> AppendType] /\ append'[d].pos = p
            /\ \A e \in Dirs : e # d => append'[e] = append[e]
        BY <3>1, <3>3, <1>a DEF Begins, NoAppend
      <3>. QED  BY <1>4, <3>1, <3>2, <3>4 DEF tarOpenSeekAppend, Begins, TypeOK, TarInv, AppendType
    <2>2. CASE Returns(d, "open", "kept")
      BY <1>4, <2>2, ReturnsType DEF tarOpenSeekAppend, TypeOK, TarInv, AppendType
    <2>. QED  BY <1>4, <2>1, <2>2, <1>a DEF tarOpenSeekAppend
  <1>5. ASSUME NEW d \in Dirs, AppendHeader(d) PROVE TypeOK' /\ TarInv'
    <2>1. at[d] = "walk" /\ UNCHANGED <<at, diskVars, archiveLock, boots, unread, torn>>
      BY <1>5 DEF AppendHeader
    <2>2. PICK b \in Blocks, a \in AppendType : Put(d, b, a)  BY <1>5, HeaderStep
    <2>3. /\ TarInv' /\ append' \in [Dirs -> AppendType]
          /\ \A e \in Dirs : at[e] \in {"walk", "close"} =>
                                append'[e].pos \in 1..(Len(tar') + 1)
      BY <2>1, <2>2, PutType
    <2>. QED  BY <2>1, <2>3 DEF TypeOK, AppendType
  <1>6. ASSUME NEW d \in Dirs, AppendData(d) PROVE TypeOK' /\ TarInv'
    <2>1. at[d] = "walk" /\ UNCHANGED <<at, diskVars, archiveLock, boots, unread, torn>>
      BY <1>6 DEF AppendData
    <2>2. PICK b \in Blocks, a \in AppendType : Put(d, b, a)  BY <1>6, DataStep
    <2>3. /\ TarInv' /\ append' \in [Dirs -> AppendType]
          /\ \A e \in Dirs : at[e] \in {"walk", "close"} =>
                                append'[e].pos \in 1..(Len(tar') + 1)
      BY <2>1, <2>2, PutType
    <2>. QED  BY <2>1, <2>3 DEF TypeOK, AppendType
  <1>7. ASSUME NEW d \in Dirs, ReadFails(d) PROVE TypeOK' /\ TarInv'
    <2>1. /\ append' \in [Dirs -> AppendType] /\ append'[d].pos = append[d].pos
          /\ \A e \in Dirs : e # d => append'[e] = append[e]
      BY <1>7, <1>a DEF ReadFails, AppendType
    <2>2. unread' \in [Dirs -> SUBSET Files]  BY <1>7, <1>a DEF ReadFails, TypeOK, AppendType
    <2>. QED  BY <1>7, <2>1, <2>2 DEF ReadFails, TypeOK, TarInv, AppendType
  <1>8. ASSUME NEW d \in Dirs, at[d] \in {"walk", "close"} /\ WriteFails(d) PROVE TypeOK' /\ TarInv'
    BY <1>8, ReturnsType DEF WriteFails, Breaks, TypeOK, TarInv, AppendType
  <1>9. ASSUME NEW d \in Dirs, CloseWriter(d) PROVE TypeOK' /\ TarInv'
    <2>1. PICK to \in {"close", "remove"} : Goes(d, at[d], to) /\ at[d] \in {"walk", "close"}
      BY <1>9 DEF CloseWriter, Goes
    <2>2. at' \in [Dirs -> Places] /\ \A e \in Dirs : e # d => at'[e] = at[e]
      BY <2>1, GoesType DEF Places
    <2>3. PICK b \in Blocks, a \in AppendType : Put(d, b, a)  BY <1>9, CloseStep
    <2>4. UNCHANGED <<diskVars, archiveLock, boots, unread, torn>>  BY <1>9 DEF CloseWriter
    <2>5. /\ TarInv' /\ append' \in [Dirs -> AppendType]
          /\ \A e \in Dirs : at[e] \in {"walk", "close"} =>
                                append'[e].pos \in 1..(Len(tar') + 1)
      BY <2>1, <2>3, PutType
    <2>6. \A e \in Dirs : at'[e] \in {"walk", "close"} => at[e] \in {"walk", "close"}
      BY <2>1, <2>2
    <2>. QED  BY <2>2, <2>4, <2>5, <2>6 DEF TypeOK, AppendType
  <1>10. ASSUME NEW d \in Dirs, RemoveAll(d) PROVE TypeOK' /\ TarInv'
    <2>1. PICK to \in {"kept", "gone"} : Returns(d, "remove", to)  BY <1>10 DEF RemoveAll
    <2>2. files' \in [Dirs -> SUBSET Files]
      <3>1. files \in [Dirs -> SUBSET Files]  BY DEF TypeOK
      <3>2. PICK rest \in SUBSET files[d] : files' = [files EXCEPT ![d] = rest]
        BY <1>10 DEF RemoveAll
      <3>. QED  BY <3>1, <3>2
    <2>. QED  BY <1>10, <2>1, <2>2, ReturnsType DEF RemoveAll, TypeOK, TarInv, AppendType
  <1>11. CASE Restart
    <2>1. files' \in [Dirs -> SUBSET Files]  BY <1>11 DEF Restart, Boot, TypeOK
    <2>2. at' \in [Dirs -> Places] /\ \A d \in Dirs : at'[d] \notin {"walk", "close"}
      BY <1>11 DEF Restart, Boot, Places, TypeOK
    <2>3. append' \in [Dirs -> AppendType]  BY <1>11, NoAppendType DEF Restart, Boot
    <2>4. boots' \in 1..MaxBoots /\ archiveLock' = Nobody /\ torn' \in BOOLEAN
          /\ UNCHANGED <<pipe, made, unread, tar>>
      BY <1>11, ArchiveAssumption DEF Restart, Boot, TypeOK, Breaks
    <2>. QED  BY <2>1, <2>2, <2>3, <2>4 DEF TypeOK, TarInv, AppendType
  <1>12. CASE UNCHANGED vars  BY <1>12 DEF vars, TypeOK, TarInv
  <1>. QED  BY <1>1, <1>2, <1>3, <1>4, <1>5, <1>6, <1>7, <1>8, <1>9, <1>10, <1>11, <1>12
             DEF Next, Step

(* Every variable has its type.                                            *)
THEOREM TypeCorrect == Spec => []TypeOK
  <1>. QED  BY TypeInit, TypeNext, PTL DEF Spec

-----------------------------------------------------------------------------
(* One directory at a time.                                                *)

Active(d) == at[d] \in {"walk", "close"}
Appending(d) == at[d] \in {"walk", "close", "remove"}
Held == {"drain", "open", "walk", "close", "remove"}

(* Who is at work in archiveInstance holds the lock.                       *)
LockInv == \A d \in Dirs : at[d] \in Held => archiveLock = d

LEMMA LockInit == Init => LockInv
  BY DEF Init, LockInv, Held

(* What one step does to the other directories.                            *)
LEMMA Others ==
  ASSUME TypeOK, NEW e \in Dirs, GameEnds(e) \/ Step(e), NEW d \in Dirs, d # e
  PROVE  /\ at'[d] = at[d] /\ append'[d] = append[d]
         /\ files'[d] = files[d] /\ unread'[d] = unread[d] /\ made'[d] = made[d]
  <1>. USE DEF diskVars
  <1>a. append \in [Dirs -> AppendType]  BY DEF TypeOK, AppendType
  <1>1. at'[d] = at[d]
    BY DEF TypeOK, Step, GameEnds, TakeLock, drainRemovePipe, tarOpenSeekAppend, Begins,
           AppendHeader, AppendData, ReadFails, WriteFails, CloseWriter, RemoveAll, Returns, Goes
  <1>2. append'[d] = append[d]
    BY <1>a DEF Step, GameEnds, TakeLock, drainRemovePipe, tarOpenSeekAppend, Begins, Put,
           AppendHeader, AppendData, ReadFails, WriteFails, CloseWriter, RemoveAll, Returns
  <1>3. files'[d] = files[d] /\ unread'[d] = unread[d] /\ made'[d] = made[d]
    BY DEF TypeOK, Step, GameEnds, TakeLock, drainRemovePipe, tarOpenSeekAppend, Begins,
           AppendHeader, AppendData, ReadFails, WriteFails, CloseWriter, RemoveAll, Returns
  <1>. QED  BY <1>1, <1>2, <1>3

(* Where a step begins and ends, and what it does to the lock.             *)
LEMMA Moves ==
  ASSUME TypeOK, NEW e \in Dirs, GameEnds(e) \/ Step(e)
  PROVE  \/ at[e] = "run" /\ at'[e] = "wait" /\ archiveLock' = archiveLock
         \/ at[e] = "wait" /\ at'[e] = "drain" /\ archiveLock = Nobody /\ archiveLock' = e
         \/ at[e] \in Held /\ at'[e] \in Held /\ archiveLock' = archiveLock
         \/ at[e] \in Held /\ at'[e] \in {"kept", "gone"} /\ archiveLock' = Nobody
  <1>. USE DEF TypeOK, Held, Goes
  <1>1. CASE GameEnds(e)  BY <1>1 DEF GameEnds
  <1>2. CASE TakeLock(e)  BY <1>2 DEF TakeLock
  <1>3. CASE drainRemovePipe(e)  BY <1>3 DEF drainRemovePipe, Returns
  <1>4. CASE tarOpenSeekAppend(e)  BY <1>4 DEF tarOpenSeekAppend, Begins, Returns
  <1>5. CASE AppendHeader(e) \/ AppendData(e) \/ ReadFails(e)
    BY <1>5 DEF AppendHeader, AppendData, ReadFails
  <1>6. CASE at[e] \in {"walk", "close"} /\ WriteFails(e)  BY <1>6 DEF WriteFails, Returns
  <1>7. CASE CloseWriter(e)  BY <1>7 DEF CloseWriter
  <1>8. CASE RemoveAll(e)  BY <1>8 DEF RemoveAll, Returns
  <1>. QED  BY <1>1, <1>2, <1>3, <1>4, <1>5, <1>6, <1>7, <1>8 DEF Step

LEMMA LockNext == TypeOK /\ LockInv /\ [Next]_vars => LockInv'
  <1>. SUFFICES ASSUME TypeOK, LockInv, [Next]_vars, NEW d \in Dirs, at'[d] \in Held
                PROVE  archiveLock' = d
    BY DEF LockInv
  <1>1. ASSUME NEW e \in Dirs, GameEnds(e) \/ Step(e) PROVE archiveLock' = d
    <2>1. CASE d = e  BY <1>1, <2>1, Moves DEF LockInv, Held
    <2>2. CASE d # e
      <3>1. at[d] \in Held /\ archiveLock = d  BY <1>1, <2>2, Others DEF LockInv
      <3>2. at[e] \notin Held  BY <3>1, <2>2 DEF LockInv
      <3>. QED  BY <1>1, <3>1, <3>2, Moves, ArchiveAssumption
    <2>. QED  BY <2>1, <2>2
  <1>2. CASE Restart
    <2>1. at'[d] \in {"run", "gone", "wait", "kept"}  BY <1>2 DEF Restart, Boot
    <2>. QED  BY <2>1 DEF Held
  <1>3. CASE UNCHANGED vars  BY <1>3 DEF vars, LockInv
  <1>. QED  BY <1>1, <1>2, <1>3 DEF Next

(* Who appends after a step did not notice it, or made it.                 *)
LEMMA Actor ==
  ASSUME TypeOK, LockInv, [Next]_vars, NEW d \in Dirs, Appending(d)'
  PROVE  \/ /\ at'[d] = at[d] /\ append'[d] = append[d] /\ files'[d] = files[d]
            /\ unread'[d] = unread[d] /\ tar' = tar /\ torn' = torn
         \/ tarOpenSeekAppend(d) \/ AppendHeader(d) \/ AppendData(d) \/ ReadFails(d)
         \/ CloseWriter(d)
  <1>0. at'[d] \in {"walk", "close", "remove"}  BY DEF Appending
  <1>1. ASSUME NEW e \in Dirs, GameEnds(e) \/ Step(e), d # e
        PROVE  /\ at'[d] = at[d] /\ append'[d] = append[d] /\ files'[d] = files[d]
               /\ unread'[d] = unread[d] /\ tar' = tar /\ torn' = torn
    <2>1. /\ at'[d] = at[d] /\ append'[d] = append[d] /\ files'[d] = files[d]
          /\ unread'[d] = unread[d]
      BY <1>1, Others
    <2>2. at[e] \notin Held  BY <2>1, <1>0, <1>1 DEF LockInv, Held
    <2>3. GameEnds(e) \/ TakeLock(e)
      BY <1>1, <2>2 DEF Step, Held, drainRemovePipe, tarOpenSeekAppend, Begins, Returns, Goes,
           AppendHeader, AppendData, ReadFails, CloseWriter, RemoveAll
    <2>. QED  BY <2>1, <2>3 DEF GameEnds, TakeLock
  <1>2. CASE GameEnds(d) \/ Step(d)
    <2>1. ~GameEnds(d) /\ ~TakeLock(d) /\ ~drainRemovePipe(d) /\ ~RemoveAll(d)
      BY <1>0 DEF TypeOK, GameEnds, TakeLock, drainRemovePipe, RemoveAll, Returns, Goes
    <2>2. ~WriteFails(d)  BY <1>0 DEF TypeOK, WriteFails, Returns, Goes
    <2>. QED  BY <1>2, <2>1, <2>2 DEF Step
  <1>3. ~Restart
    <2>. SUFFICES ASSUME Restart PROVE FALSE  OBVIOUS
    <2>1. at'[d] \in {"run", "gone", "wait", "kept"}  BY DEF Restart, Boot
    <2>. QED  BY <2>1, <1>0
  <1>4. CASE UNCHANGED vars  BY <1>4 DEF vars, diskVars
  <1>. QED  BY <1>1, <1>2, <1>3, <1>4 DEF Next

-----------------------------------------------------------------------------
(* Where an append is.                                                     *)

(* How many blocks of the trailer are written, and where it begins or is   *)
(* to begin.                                                               *)
Trailer(d) == IF at[d] = "walk" THEN 0 ELSE IF at[d] = "close" THEN 1 ELSE 2
End(d) == append[d].pos - Trailer(d)

(* An append starts at the trailer, and what is after its position is what *)
(* is left of that.                                                        *)
PosOK(d) ==
  /\ 1 <= append[d].start /\ append[d].start <= End(d)
  /\ append[d].pos <= Len(tar) + 1
  /\ Len(tar) < append[d].pos \/ Len(tar) <= append[d].start + 1
  /\ append[d].start = 1 \/ Len(tar) > append[d].start
  /\ \A k \in 1..Len(tar) : End(d) <= k /\ k < append[d].pos => tar[k] = Zero
  /\ at[d] # "walk" => append[d].left = {} /\ append[d].todo = 0

PosInv == \A d \in Dirs : Appending(d) => PosOK(d)

LEMMA PosInit == Init => PosInv
  BY DEF Init, PosInv, Appending

(* A beginning append.                                                     *)
LEMMA BeginStep ==
  ASSUME TypeOK, TarInv, NEW d \in Dirs, tarOpenSeekAppend(d), Appending(d)'
  PROVE  \E p \in Nat :
           /\ (p = 1 /\ tar = <<>>) \/ (p = Len(tar) - 1 /\ Len(tar) >= 2)
           /\ append'[d] = [left |-> files[d], file |-> Json, todo |-> 0, start |-> p, pos |-> p]
           /\ at[d] = "open" /\ at'[d] = "walk"
           /\ tar' = tar /\ torn' = torn /\ files' = files /\ unread' = unread
  <1>1. ~Returns(d, "open", "kept")  BY DEF Appending, Returns, Goes, TypeOK
  <1>. DEFINE Q(p) == (p = 1 /\ tar = <<>>) \/ (p = Len(tar) - 1 /\ Len(tar) >= 2)
  <1>2. PICK p : Q(p) /\ Begins(d, p)
    <2>1. CASE tar = <<>> /\ Begins(d, 1)
      <3>1. Q(1)  BY <2>1
      <3>. HIDE DEF Q
      <3>. QED  BY <2>1, <3>1
    <2>2. CASE Len(tar) >= 2 /\ Begins(d, Len(tar) - 1)  BY <2>2
    <2>. QED  BY <1>1, <2>1, <2>2 DEF tarOpenSeekAppend
  <1>3. p \in Nat  BY <1>2 DEF TarInv
  <1>4. append'[d] = [NoAppend EXCEPT !.left = files[d], !.start = p, !.pos = p]
    BY <1>2 DEF Begins, TypeOK
  <1>5. append'[d] = [left |-> files[d], file |-> Json, todo |-> 0, start |-> p, pos |-> p]
    BY <1>4 DEF NoAppend
  <1>6. at[d] = "open" /\ at'[d] = "walk"  BY <1>2 DEF Begins, Goes, TypeOK
  <1>. QED  BY <1>2, <1>3, <1>5, <1>6 DEF tarOpenSeekAppend, diskVars

(* A block more, of whatever it is.                                        *)
LEMMA BlockStep ==
  ASSUME TypeOK, TarInv, NEW d \in Dirs, AppendHeader(d) \/ AppendData(d) \/ CloseWriter(d)
  PROVE  LET p == append[d].pos
         IN /\ Active(d) /\ p \in 1..(Len(tar) + 1)
            /\ Len(tar') = IF p <= Len(tar) THEN Len(tar) ELSE p
            /\ \A k \in 1..Len(tar) : k # p => tar'[k] = tar[k]
            /\ Keeps(tar, tar', p)
            /\ tar' \in Seq(Blocks)
            /\ append'[d].pos = p + 1 /\ append'[d].start = append[d].start
            /\ files' = files /\ unread' = unread /\ torn' = torn /\ made' = made
            /\ archiveLock' = archiveLock
  <1>1. Active(d)  BY DEF AppendHeader, AppendData, CloseWriter, Goes, Active
  <1>2. PICK b \in Blocks, a \in AppendType : Put(d, b, a) /\ a.start = append[d].start
    <2>1. append[d] \in AppendType  BY DEF TypeOK, AppendType
    <2>2. CASE AppendHeader(d)
      <3>1. PICK f \in append[d].left :
              LET a == [append[d] EXCEPT !.left = @ \ {f}, !.file = f, !.todo = Size[f]]
              IN f \in Files /\ Hdr(d, f) \in Blocks /\ a \in AppendType /\ Put(d, Hdr(d, f), a)
        BY <2>2, HeaderStep
      <3>. DEFINE a == [append[d] EXCEPT !.left = @ \ {f}, !.file = f, !.todo = Size[f]]
      <3>2. a.start = append[d].start  BY <2>1 DEF AppendType
      <3>. QED  BY <3>1, <3>2
    <2>3. CASE AppendData(d)
      <3>. DEFINE a == [append[d] EXCEPT !.todo = @ - 1]
      <3>1. a.start = append[d].start  BY <2>1 DEF AppendType
      <3>. QED  BY <2>3, <3>1, DataStep
    <2>4. CASE CloseWriter(d)  BY <2>4, CloseStep
    <2>. QED  BY <2>2, <2>3, <2>4
  <1>3. append'[d] = [a EXCEPT !.pos = append[d].pos + 1]  BY <1>1, <1>2, PutStep DEF Active
  <1>4. append'[d].pos = append[d].pos + 1 /\ append'[d].start = append[d].start
    BY <1>2, <1>3 DEF AppendType
  <1>5. UNCHANGED <<files, unread, torn, made, archiveLock>>
    BY DEF AppendHeader, AppendData, CloseWriter, diskVars
  <1>6. LET p == append[d].pos
        IN /\ p \in 1..(Len(tar) + 1)
           /\ Len(tar') = IF p <= Len(tar) THEN Len(tar) ELSE p
           /\ \A k \in 1..Len(tar) : k # p => tar'[k] = tar[k]
           /\ Keeps(tar, tar', p)
           /\ tar' \in Seq(Blocks)
    BY <1>1, <1>2, PutStep DEF Active
  <1>. QED  BY <1>1, <1>4, <1>5, <1>6

LEMMA PosNext ==
  TypeOK /\ TarInv /\ LockInv /\ PosInv /\ [Next]_vars => PosInv'
  <1>. SUFFICES ASSUME TypeOK, TarInv, LockInv, PosInv, [Next]_vars,
                       NEW d \in Dirs, Appending(d)'
                PROVE  PosOK(d)'
    BY DEF PosInv
  <1>a. append[d] \in AppendType /\ Len(tar) \in Nat  BY DEF TypeOK, AppendType, TarInv
  <1>b. /\ append[d].start \in Nat /\ append[d].pos \in Nat
    BY <1>a DEF AppendType
  <1>1. CASE /\ at'[d] = at[d] /\ append'[d] = append[d] /\ tar' = tar
    BY <1>1 DEF PosInv, PosOK, End, Trailer, Appending
  <1>2. CASE tarOpenSeekAppend(d)
    <2>1. PICK p \in Nat :
            /\ (p = 1 /\ tar = <<>>) \/ (p = Len(tar) - 1 /\ Len(tar) >= 2)
            /\ append'[d] = [left |-> files[d], file |-> Json, todo |-> 0, start |-> p, pos |-> p]
            /\ at'[d] = "walk" /\ tar' = tar
      BY <1>2, BeginStep
    <2>2. append'[d].start = p /\ append'[d].pos = p /\ End(d)' = p  BY <2>1 DEF End, Trailer
    <2>3. CASE p = 1 /\ tar = <<>>
      <3>1. Len(tar') = 0  BY <2>1, <2>3
      <3>. QED  BY <2>1, <2>2, <2>3, <3>1 DEF PosOK
    <2>4. CASE p = Len(tar) - 1 /\ Len(tar) >= 2
      BY <2>1, <2>2, <2>4, <1>a DEF PosOK
    <2>. QED  BY <2>1, <2>3, <2>4
  <1>3. CASE AppendHeader(d) \/ AppendData(d)
    <2>1. at[d] = "walk" /\ at'[d] = "walk"  BY <1>3 DEF AppendHeader, AppendData
    <2>2. PosOK(d)  BY <2>1 DEF PosInv, Appending
    <2>3. End(d) = append[d].pos /\ End(d)' = append'[d].pos
      <3>1. append'[d].pos = append[d].pos + 1  BY <1>3, BlockStep
      <3>. QED  BY <2>1, <3>1, <1>b DEF End, Trailer
    <2>4. /\ append[d].pos \in 1..(Len(tar) + 1)
          /\ append'[d].pos = append[d].pos + 1 /\ append'[d].start = append[d].start
          /\ Len(tar') = IF append[d].pos <= Len(tar) THEN Len(tar) ELSE append[d].pos
      BY <1>3, BlockStep
    <2>. QED  BY <2>1, <2>2, <2>3, <2>4, <1>a, <1>b DEF PosOK
  <1>4. CASE ReadFails(d)
    <2>1. at[d] = "walk" /\ at'[d] = "walk" /\ tar' = tar  BY <1>4 DEF ReadFails
    <2>2. append'[d] = [append[d] EXCEPT !.left = {}]  BY <1>4 DEF ReadFails, TypeOK
    <2>3. append'[d].pos = append[d].pos /\ append'[d].start = append[d].start
      BY <1>a, <2>2 DEF AppendType
    <2>. QED  BY <2>1, <2>3 DEF PosInv, Appending, PosOK, End, Trailer
  <1>5. CASE CloseWriter(d)
    <2>1. /\ append[d].pos \in 1..(Len(tar) + 1)
          /\ append'[d].pos = append[d].pos + 1 /\ append'[d].start = append[d].start
          /\ Len(tar') = IF append[d].pos <= Len(tar) THEN Len(tar) ELSE append[d].pos
          /\ \A k \in 1..Len(tar) : k # append[d].pos => tar'[k] = tar[k]
      BY <1>5, BlockStep
    <2>2. tar'[append[d].pos] = Zero /\ append'[d] = [append[d] EXCEPT !.pos = append[d].pos + 1]
      <3>1. at[d] \in {"walk", "close"}  BY <1>5 DEF CloseWriter, Goes
      <3>. QED  BY <1>5, <3>1, CloseStep, PutStep
    <2>3. append'[d].left = append[d].left /\ append'[d].todo = append[d].todo
      BY <2>2, <1>a DEF AppendType
    <2>4. Appending(d) /\ PosOK(d)  BY <1>5 DEF CloseWriter, Goes, Appending, PosInv
    <2>5. append'[d].left = {} /\ append'[d].todo = 0
      BY <1>5, <2>3, <2>4 DEF CloseWriter, Goes, PosOK
    <2>6. End(d)' = End(d) /\ End(d) \in Int
      BY <1>5, <2>1, <1>b DEF CloseWriter, Goes, End, Trailer, TypeOK
    <2>7. ASSUME NEW k \in 1..Len(tar'), End(d) <= k, k < append[d].pos + 1
          PROVE  tar'[k] = Zero
      <3>1. CASE k = append[d].pos  BY <3>1, <2>2
      <3>2. CASE k # append[d].pos
        <4>1. k < append[d].pos /\ k \in 1..Len(tar)  BY <3>2, <2>7, <2>1, <1>b, <1>a
        <4>. QED  BY <4>1, <2>1, <2>7, <2>4 DEF PosOK
      <3>. QED  BY <3>1, <3>2
    <2>8. /\ 1 <= append'[d].start /\ append'[d].start <= End(d)'
          /\ append'[d].pos <= Len(tar') + 1
          /\ Len(tar') < append'[d].pos \/ Len(tar') <= append'[d].start + 1
          /\ append'[d].start = 1 \/ Len(tar') > append'[d].start
      BY <2>1, <2>4, <2>6, <1>a, <1>b DEF PosOK
    <2>. QED  BY <2>1, <2>5, <2>6, <2>7, <2>8 DEF PosOK
  <1>. QED  BY <1>1, <1>2, <1>3, <1>4, <1>5, Actor

-----------------------------------------------------------------------------
(* The part of the tar file that no append will ever write to.             *)
Frontier ==
  IF \E d \in Dirs : archiveLock = d /\ Active(d) THEN append[archiveLock].start
  ELSE Len(tar) - 1

LEMMA FrontierActive ==
  ASSUME LockInv, NEW d \in Dirs, Active(d)
  PROVE  Frontier = append[d].start
  BY DEF LockInv, Frontier, Active, Held

LEMMA FrontierIdle ==
  ASSUME \A d \in Dirs : ~Active(d)
  PROVE  Frontier = Len(tar) - 1
  BY DEF Frontier

LEMMA FrontierNext ==
  LockInv' =>
    /\ \A d \in Dirs : Active(d)' => Frontier' = append'[d].start
    /\ (\A d \in Dirs : ~Active(d)') => Frontier' = Len(tar') - 1
  BY DEF LockInv, Frontier, Active, Held

(* Only one directory is being archived.                                   *)
LEMMA OnlyOne ==
  ASSUME LockInv, NEW d \in Dirs, at[d] \in Held, NEW e \in Dirs, at[e] \in Held
  PROVE  d = e
  BY DEF LockInv

(* Only who puts a block changes the tar file.                             *)
LEMMA TarStep ==
  ASSUME TypeOK, [Next]_vars
  PROVE  tar' = tar \/ \E e \in Dirs : AppendHeader(e) \/ AppendData(e) \/ CloseWriter(e)
  <1>1. ASSUME NEW e \in Dirs, GameEnds(e) \/ Step(e),
               ~(AppendHeader(e) \/ AppendData(e) \/ CloseWriter(e))
        PROVE  tar' = tar
    BY <1>1 DEF Step, GameEnds, TakeLock, drainRemovePipe, tarOpenSeekAppend, ReadFails,
           WriteFails, RemoveAll
  <1>2. CASE Restart  BY <1>2 DEF Restart
  <1>3. CASE UNCHANGED vars  BY <1>3 DEF vars
  <1>. QED  BY <1>1, <1>2, <1>3 DEF Next

LEMMA ActiveBefore ==
  ASSUME TypeOK, TarInv, LockInv, [Next]_vars, NEW f \in Dirs, Active(f)'
  PROVE  (Active(f) /\ append'[f].start = append[f].start) \/ tarOpenSeekAppend(f)
  <1>1. Appending(f)'  BY DEF Active, Appending
  <1>2. CASE at'[f] = at[f] /\ append'[f] = append[f]  BY <1>2 DEF Active
  <1>3. CASE AppendHeader(f) \/ AppendData(f) \/ CloseWriter(f)  BY <1>3, BlockStep
  <1>4. CASE ReadFails(f)
    <2>1. append'[f] = [append[f] EXCEPT !.left = {}] /\ append[f] \in AppendType
      BY <1>4 DEF ReadFails, TypeOK, AppendType
    <2>2. append'[f].start = append[f].start  BY <2>1 DEF AppendType
    <2>. QED  BY <1>4, <2>2 DEF ReadFails, Active
  <1>. QED  BY <1>1, <1>2, <1>3, <1>4, Actor

(* No step writes before the frontier, and it moves back only if nothing   *)
(* is before it.                                                           *)
LEMMA FrontierGrows ==
  ASSUME TypeOK, TarInv, LockInv, PosInv, [Next]_vars, LockInv'
  PROVE  /\ Frontier \in Int /\ Frontier' \in Int
         /\ Keeps(tar, tar', Frontier)
         /\ Frontier <= Frontier' \/ Frontier <= 1
  <1>0. Len(tar) \in Nat /\ TarInv' /\ Len(tar') \in Nat /\ TypeOK'
    BY TypeNext DEF TarInv
  <1>1. ASSUME NEW e \in Dirs, AppendHeader(e) \/ AppendData(e) \/ CloseWriter(e)
        PROVE  /\ Frontier \in Int /\ Frontier' \in Int
               /\ Keeps(tar, tar', Frontier) /\ Frontier <= Frontier'
    <2>1. /\ Active(e) /\ append[e].pos \in 1..(Len(tar) + 1)
          /\ Len(tar') = IF append[e].pos <= Len(tar) THEN Len(tar) ELSE append[e].pos
          /\ append'[e].start = append[e].start
          /\ Keeps(tar, tar', append[e].pos)
      BY <1>1, BlockStep
    <2>2. PosOK(e)  BY <2>1 DEF Active, PosInv, Appending
    <2>3. Frontier = append[e].start  BY <2>1, FrontierActive
    <2>4. append[e].start \in Nat  BY DEF TypeOK
    <2>5. append[e].start <= append[e].pos  BY <2>1, <2>2, <2>4 DEF PosOK, End, Trailer
    <2>6. Keeps(tar, tar', Frontier)  BY <2>1, <2>3, <2>4, <2>5, <1>0 DEF Keeps
    <2>7. CASE Active(e)'
      <3>1. Frontier' = append[e].start  BY <2>1, <2>7, FrontierNext
      <3>. QED  BY <2>3, <2>4, <2>6, <3>1
    <2>8. CASE ~Active(e)'
      <3>1. at[e] = "close" /\ at'[e] = "remove"
        BY <1>1, <2>8 DEF AppendHeader, AppendData, CloseWriter, Goes, Active, TypeOK
      <3>2. \A f \in Dirs : ~Active(f)'
        <4>. SUFFICES ASSUME NEW f \in Dirs, Active(f)' PROVE FALSE  OBVIOUS
        <4>1. archiveLock' = e /\ archiveLock' = f  BY <3>1 DEF LockInv, Active, Held
        <4>. QED  BY <4>1, <2>8
      <3>3. Frontier' = Len(tar') - 1  BY <3>2, FrontierNext
      <3>4. append[e].start <= append[e].pos - 1  BY <3>1, <2>2 DEF PosOK, End, Trailer
      <3>. QED  BY <3>3, <3>4, <2>1, <2>3, <2>4, <2>6, <1>0
    <2>. QED  BY <2>7, <2>8
  <1>2. ASSUME tar' = tar
        PROVE  /\ Frontier \in Int /\ Frontier' \in Int
               /\ Frontier <= Frontier' \/ Frontier <= 1
    <2>1. ASSUME NEW e \in Dirs, Active(e)
          PROVE  /\ Frontier \in Int /\ Frontier' \in Int
                 /\ Frontier <= Frontier' \/ Frontier <= 1
      <3>1. Frontier = append[e].start /\ append[e].start \in Nat
        BY <2>1, FrontierActive DEF TypeOK
      <3>2. PosOK(e)  BY <2>1 DEF PosInv, Active, Appending
      <3>3. \A f \in Dirs : Active(f)' => f = e /\ append'[e].start = append[e].start
        <4>. SUFFICES ASSUME NEW f \in Dirs, Active(f)'
                      PROVE  f = e /\ append'[e].start = append[e].start
          OBVIOUS
        <4>1. CASE Active(f) /\ append'[f].start = append[f].start
          BY <4>1, <2>1, OnlyOne DEF Active, Held
        <4>2. CASE tarOpenSeekAppend(f)
          <5>1. at[f] = "open"  BY <4>2 DEF tarOpenSeekAppend, Begins, Returns, Goes
          <5>. QED  BY <5>1, <2>1, OnlyOne DEF Active, Held
        <4>. QED  BY <4>1, <4>2, ActiveBefore
      <3>4. CASE Active(e)'
        <4>1. Frontier' = append'[e].start  BY <3>4, FrontierNext
        <4>. QED  BY <4>1, <3>1, <3>3, <3>4
      <3>5. CASE ~Active(e)'
        <4>1. Frontier' = Len(tar) - 1  BY <3>3, <3>5, <1>2, FrontierNext
        <4>. QED  BY <4>1, <3>1, <3>2, <1>0 DEF PosOK
      <3>. QED  BY <3>4, <3>5
    <2>2. CASE \A e \in Dirs : ~Active(e)
      <3>1. Frontier = Len(tar) - 1  BY <2>2, FrontierIdle
      <3>2. ASSUME NEW f \in Dirs, Active(f)'
            PROVE  /\ Frontier \in Int /\ Frontier' \in Int
                   /\ Frontier <= Frontier' \/ Frontier <= 1
        <4>1. tarOpenSeekAppend(f) /\ Appending(f)'
          BY <3>2, <2>2, ActiveBefore DEF Active, Appending
        <4>2. PICK p \in Nat :
                /\ (p = 1 /\ tar = <<>>) \/ (p = Len(tar) - 1 /\ Len(tar) >= 2)
                /\ append'[f] =
                     [left |-> files[f], file |-> Json, todo |-> 0, start |-> p, pos |-> p]
          BY <4>1, BeginStep
        <4>3. Frontier' = p  BY <4>2, <3>2, FrontierNext
        <4>4. tar = <<>> => Len(tar) = 0  OBVIOUS
        <4>. QED  BY <4>2, <4>3, <4>4, <3>1, <1>0
      <3>3. CASE \A f \in Dirs : ~Active(f)'
        <4>1. Frontier' = Len(tar) - 1  BY <3>3, <1>2, FrontierNext
        <4>. QED  BY <4>1, <3>1, <1>0
      <3>. QED  BY <3>2, <3>3
    <2>. QED  BY <2>1, <2>2
  <1>3. ASSUME tar' = tar PROVE Keeps(tar, tar', Frontier)  BY <1>3 DEF Keeps
  <1>. QED  BY <1>1, <1>2, <1>3, TarStep

(* A block is an old one, part of a trailer, or of who appends it.         *)
LEMMA WrittenBy ==
  ASSUME TypeOK, TarInv, [Next]_vars, NEW p \in 1..Len(tar')
  PROVE  \/ p \in 1..Len(tar) /\ tar'[p] = tar[p]
         \/ tar'[p].kind = "zero"
         \/ \E e \in Dirs : Active(e) /\ tar'[p].of[1] = e
  <1>1. CASE tar' = tar  BY <1>1
  <1>2. ASSUME NEW e \in Dirs, AppendHeader(e) \/ AppendData(e) \/ CloseWriter(e)
        PROVE  \/ p \in 1..Len(tar) /\ tar'[p] = tar[p]
               \/ tar'[p].kind = "zero" \/ (Active(e) /\ tar'[p].of[1] = e)
    <2>1. /\ Active(e) /\ append[e].pos \in 1..(Len(tar) + 1)
          /\ Len(tar') = IF append[e].pos <= Len(tar) THEN Len(tar) ELSE append[e].pos
          /\ \A k \in 1..Len(tar) : k # append[e].pos => tar'[k] = tar[k]
      BY <1>2, BlockStep
    <2>2. CASE p # append[e].pos
      <3>1. p \in 1..Len(tar)  BY <2>1, <2>2 DEF TarInv
      <3>. QED  BY <2>1, <2>2, <3>1
    <2>3. CASE p = append[e].pos
      <3>1. at[e] \in {"walk", "close"}  BY <2>1 DEF Active
      <3>2. CASE AppendHeader(e)
        <4>1. PICK f \in Files, a \in AppendType : Hdr(e, f) \in Blocks /\ Put(e, Hdr(e, f), a)
          BY <3>2, HeaderStep
        <4>2. tar'[p] = Hdr(e, f)  BY <4>1, <3>1, <2>3, PutStep
        <4>. QED  BY <4>2, <2>1 DEF Hdr
      <3>3. CASE AppendData(e)
        <4>1. PICK f \in Files, k \in Int, a \in AppendType :
                Data(e, f, k) \in Blocks /\ Put(e, Data(e, f, k), a)
          BY <3>3, DataStep
        <4>2. tar'[p] = Data(e, f, k)  BY <4>1, <3>1, <2>3, PutStep
        <4>. QED  BY <4>2, <2>1 DEF Data
      <3>4. CASE CloseWriter(e)
        <4>1. tar'[p] = Zero  BY <3>1, <3>4, <2>3, CloseStep, PutStep
        <4>. QED  BY <4>1 DEF Zero
      <3>. QED  BY <1>2, <3>2, <3>3, <3>4
    <2>. QED  BY <2>2, <2>3
  <1>. QED  BY <1>1, <1>2, TarStep

-----------------------------------------------------------------------------
(* What was removed is in the archive, out of reach of every append.       *)
GoneInv ==
  \A d \in Dirs : at[d] = "gone" =>
    \A p \in 1..Len(tar) : tar[p].kind # "zero" /\ tar[p].of[1] = d => p < Frontier

LEMMA GoneInit == Init => GoneInv
  BY DEF Init, GoneInv

(* When an append is complete, its trailer is the end of the archive.      *)
LEMMA RemoveFacts ==
  ASSUME TypeOK, TarInv, PosInv, NEW d \in Dirs, at[d] = "remove"
  PROVE  /\ Len(tar) >= 2 /\ End(d) = Len(tar) - 1
         /\ tar[Len(tar)] = Zero /\ tar[Len(tar) - 1] = Zero
         /\ append[d].left = {} /\ append[d].todo = 0
  <1>1. PosOK(d)  BY DEF PosInv, Appending
  <1>2. /\ append[d].start \in Nat /\ append[d].pos \in Nat /\ Len(tar) \in Nat
    BY DEF TypeOK, TarInv
  <1>3. End(d) = append[d].pos - 2  BY DEF End, Trailer
  <1>4. Len(tar) = append[d].pos - 1 /\ Len(tar) >= 2  BY <1>1, <1>2, <1>3 DEF PosOK
  <1>5. Len(tar) \in 1..Len(tar) /\ Len(tar) - 1 \in 1..Len(tar)  BY <1>2, <1>4
  <1>6. tar[Len(tar)] = Zero /\ tar[Len(tar) - 1] = Zero
    <2>1. \A k \in 1..Len(tar) : End(d) <= k /\ k < append[d].pos => tar[k] = Zero
      BY <1>1 DEF PosOK
    <2>2. /\ End(d) <= Len(tar) /\ Len(tar) < append[d].pos
          /\ End(d) <= Len(tar) - 1 /\ Len(tar) - 1 < append[d].pos
      BY <1>2, <1>3, <1>4
    <2>. QED  BY <2>1, <2>2, <1>5
  <1>7. append[d].left = {} /\ append[d].todo = 0  BY <1>1 DEF PosOK
  <1>8. End(d) = Len(tar) - 1  BY <1>2, <1>3, <1>4
  <1>. QED  BY <1>4, <1>6, <1>7, <1>8

LEMMA GoneBefore ==
  ASSUME TypeOK, [Next]_vars, NEW d \in Dirs, at'[d] = "gone"
  PROVE  at[d] = "gone" \/ RemoveAll(d)
  <1>1. CASE GameEnds(d) \/ Step(d)
    BY <1>1 DEF TypeOK, Step, GameEnds, TakeLock, drainRemovePipe, tarOpenSeekAppend, Begins,
           AppendHeader, AppendData, ReadFails, WriteFails, CloseWriter, Returns, Goes
  <1>2. ASSUME NEW e \in Dirs, GameEnds(e) \/ Step(e), e # d PROVE at[d] = "gone"
    BY <1>2, Others
  <1>3. CASE Restart  BY <1>3 DEF Restart, Boot
  <1>4. CASE UNCHANGED vars  BY <1>4 DEF vars
  <1>. QED  BY <1>1, <1>2, <1>3, <1>4 DEF Next

(* Who removed his directory did not append then, and nobody did.          *)
LEMMA NobodyElse ==
  ASSUME TypeOK, LockInv, NEW d \in Dirs, at[d] = "remove"
  PROVE  \A e \in Dirs : ~Active(e)
  <1>. SUFFICES ASSUME NEW e \in Dirs, Active(e) PROVE FALSE  OBVIOUS
  <1>1. d = e  BY OnlyOne DEF Active, Held
  <1>. QED  BY <1>1 DEF Active

LEMMA RemoveStep ==
  ASSUME TypeOK, LockInv, [Next]_vars, LockInv', NEW d \in Dirs, RemoveAll(d)
  PROVE  /\ at[d] = "remove" /\ tar' = tar /\ Frontier' = Len(tar) - 1
         /\ torn' = torn /\ unread' = unread /\ made' = made
         /\ \A e \in Dirs : ~Active(e)'
  <1>1. at[d] = "remove" /\ tar' = tar /\ torn' = torn /\ unread' = unread /\ made' = made
    BY DEF RemoveAll, Returns, Goes
  <1>2. archiveLock' = Nobody  BY DEF RemoveAll, Returns
  <1>3. \A e \in Dirs : ~Active(e)'
    BY <1>2, ArchiveAssumption DEF LockInv, Active, Held
  <1>. QED  BY <1>1, <1>3, FrontierNext

LEMMA GoneNext ==
  TypeOK /\ TarInv /\ LockInv /\ PosInv /\ GoneInv /\ [Next]_vars => GoneInv'
  <1>. SUFFICES ASSUME TypeOK, TarInv, LockInv, PosInv, GoneInv, [Next]_vars,
                       NEW d \in Dirs, at'[d] = "gone",
                       NEW p \in 1..Len(tar'), tar'[p].kind # "zero", tar'[p].of[1] = d
                PROVE  p < Frontier'
    BY DEF GoneInv
  <1>0. LockInv'  BY LockNext
  <1>1. CASE at[d] = "gone"
    <2>1. ~Active(d)  BY <1>1 DEF Active
    <2>2. p \in 1..Len(tar) /\ tar'[p] = tar[p]  BY <2>1, WrittenBy
    <2>3. p < Frontier  BY <1>1, <2>2 DEF GoneInv
    <2>. QED  BY <2>3, <1>0, FrontierGrows
  <1>2. CASE RemoveAll(d)
    <2>1. at[d] = "remove" /\ tar' = tar /\ Frontier' = Len(tar) - 1  BY <1>0, <1>2, RemoveStep
    <2>2. tar[Len(tar)].kind = "zero" /\ tar[Len(tar) - 1].kind = "zero"
      BY <2>1, RemoveFacts DEF Zero
    <2>3. p # Len(tar) /\ p # Len(tar) - 1  BY <2>1, <2>2
    <2>. QED  BY <2>1, <2>3 DEF TarInv
  <1>. QED  BY <1>1, <1>2, GoneBefore

SafeInv == TypeOK /\ TarInv /\ LockInv /\ PosInv /\ GoneInv

LEMMA SafeInit == Init => SafeInv
  BY TypeInit, LockInit, PosInit, GoneInit DEF SafeInv

LEMMA SafeNext == SafeInv /\ [Next]_vars => SafeInv'
  BY TypeNext, LockNext, PosNext, GoneNext DEF SafeInv

LEMMA SafeAlways == Spec => []SafeInv
  BY SafeInit, SafeNext, PTL DEF Spec

(* A file of a removed directory is before the frontier.                   *)
LEMMA GoneReadable ==
  ASSUME SafeInv, NEW d \in Dirs, at[d] = "gone", NEW f \in Files, Readable(tar, d, f)
  PROVE  ReadBelow(tar, d, f, Frontier)
  <1>1. PICK p \in Reached(tar) :
          /\ tar[p] = Hdr(d, f)
          /\ \A k \in 1..Size[f] : p + k <= Len(tar) /\ tar[p + k] = Data(d, f, k)
    BY DEF Readable
  <1>2. p \in 1..Len(tar) /\ Size[f] \in Nat
    BY ReachedHeader, AfterLater, ArchiveAssumption DEF SafeInv, TarInv
  <1>3. \A q \in 1..Len(tar) : tar[q].kind # "zero" /\ tar[q].of[1] = d => q < Frontier
    BY DEF SafeInv, GoneInv
  <1>4. p < Frontier
    <2>1. tar[p].kind # "zero" /\ tar[p].of[1] = d  BY <1>1 DEF Hdr
    <2>. QED  BY <2>1, <1>2, <1>3
  <1>5. ASSUME Size[f] > 0 PROVE p + Size[f] < Frontier
    <2>1. Size[f] \in 1..Size[f]  BY <1>2, <1>5
    <2>2. p + Size[f] \in 1..Len(tar) /\ tar[p + Size[f]] = Data(d, f, Size[f])
      BY <2>1, <1>1, <1>2
    <2>3. tar[p + Size[f]].kind # "zero" /\ tar[p + Size[f]].of[1] = d  BY <2>2 DEF Data
    <2>. QED  BY <2>2, <2>3, <1>3
  <1>6. p + Size[f] < Frontier  BY <1>2, <1>4, <1>5
  <1>. QED  BY <1>1, <1>6 DEF ReadBelow

(* What can be read of a removed directory can be read ever after: an      *)
(* append writes from where the trailer was on, and everything of a        *)
(* directory that was removed is before that (tarOpenSeekAppend).          *)
THEOREM ReadableStays == Spec => StaysReadable
  <1>1. ASSUME SafeInv, [Next]_vars, SafeInv', NEW d \in Dirs, at[d] = "gone", NEW f \in Files,
               Readable(tar, d, f)
        PROVE  Readable(tar', d, f)
    <2>1. ReadBelow(tar, d, f, Frontier)  BY <1>1, GoneReadable
    <2>2. /\ tar \in Seq(Blocks) /\ tar' \in Seq(Blocks)
          /\ Frontier \in Int /\ Keeps(tar, tar', Frontier)
      BY <1>1, FrontierGrows DEF SafeInv, TarInv
    <2>3. ReadBelow(tar', d, f, Frontier)  BY <2>1, <2>2, ReadBelowKept
    <2>. QED  BY <2>3, ReadBelowReadable
  <1>2. SafeInv /\ [Next]_vars /\ SafeInv' =>
          [\A d \in Dirs : at[d] = "gone" =>
             \A f \in Files : Readable(tar, d, f) => Readable(tar', d, f)]_vars
    BY <1>1
  <1>. QED  BY <1>2, SafeAlways, PTL DEF Spec, StaysReadable

-----------------------------------------------------------------------------
(* What an append has in the archive so far, and what an idle archive is   *)
(* like, as long as no append broke off in the midst of the blocks that    *)
(* follow its trailer's place.                                             *)

(* The header of the file that is being appended, and its data so far.     *)
Half(d) ==
  LET a == append[d]
  IN /\ a.todo <= Size[a.file]
     /\ \E h \in Reached(tar) :
          /\ tar[h] = Hdr(d, a.file) /\ h < a.pos /\ h + 1 + Size[a.file] = a.pos + a.todo
          /\ \A k \in 1..(Size[a.file] - a.todo) : tar[h + k] = Data(d, a.file, k)

FileOK(d) ==
  /\ Arrives(tar, append[d].start)
  /\ append[d].todo = 0 => Arrives(tar, End(d))
  /\ append[d].todo > 0 => Half(d)
  /\ \A f \in files[d] \ (append[d].left \union unread[d]) :
       (append[d].todo > 0 /\ f = append[d].file) \/ ReadBelow(tar, d, f, End(d))

FileInv == ~torn => \A d \in Dirs : Appending(d) => FileOK(d)

(* A reader gets to the trailer.                                           *)
IdleInv == ~torn /\ (\A d \in Dirs : ~Active(d)) /\ Len(tar) >= 2 => Arrives(tar, Len(tar) - 1)

(* A file that is no longer in its directory is before the frontier.       *)
KeptInv ==
  ~torn => \A d \in Dirs : \A f \in made[d] \ (files[d] \union unread[d]) :
             ReadBelow(tar, d, f, Frontier)

(* A directory that was removed is empty.                                  *)
EmptyInv == \A d \in Dirs : at[d] = "gone" => files[d] = {}

LEMMA ContentInit == Init => FileInv /\ IdleInv /\ KeptInv /\ EmptyInv
  BY DEF Init, FileInv, IdleInv, KeptInv, EmptyInv, Appending

LEMMA TornStays ==
  ASSUME TypeOK, [Next]_vars, ~torn'
  PROVE  ~torn
  <1>1. ASSUME NEW d \in Dirs, GameEnds(d) \/ Step(d), ~WriteFails(d) PROVE torn' = torn
    BY <1>1 DEF Step, GameEnds, TakeLock, drainRemovePipe, tarOpenSeekAppend, AppendHeader,
           AppendData, ReadFails, CloseWriter, RemoveAll
  <1>2. ASSUME NEW d \in Dirs, WriteFails(d) PROVE ~torn
    <2>1. torn' = (torn \/ Breaks(d))  BY <1>2 DEF WriteFails
    <2>. QED  BY <2>1, Zenon
  <1>3. ASSUME Restart PROVE ~torn
    <2>1. torn' = (torn \/ \E d \in Dirs : at[d] \in {"walk", "close"} /\ Breaks(d))
      BY <1>3 DEF Restart, Boot
    <2>. QED  BY <2>1, Zenon
  <1>4. CASE UNCHANGED vars  BY <1>4 DEF vars
  <1>. QED  BY <1>1, <1>2, <1>3, <1>4 DEF Next

(* How an append ends.                                                     *)
LEMMA Stops ==
  ASSUME TypeOK, LockInv, [Next]_vars, ~torn', NEW d \in Dirs, Active(d), ~Active(d)'
  PROVE  (tar' = tar /\ ~Breaks(d)) \/ (CloseWriter(d) /\ at'[d] = "remove")
  <1>0. at[d] \in {"walk", "close"} /\ at'[d] \notin {"walk", "close"}  BY DEF Active
  <1>1. CASE GameEnds(d) \/ Step(d)
    <2>1. WriteFails(d) \/ CloseWriter(d)
      BY <1>0, <1>1 DEF Step, GameEnds, TakeLock, drainRemovePipe, tarOpenSeekAppend, Begins,
             AppendHeader, AppendData, ReadFails, RemoveAll, Returns, Goes
    <2>2. CASE WriteFails(d)  BY <2>2 DEF WriteFails
    <2>3. CASE CloseWriter(d)  BY <1>0, <2>3 DEF CloseWriter, Goes, TypeOK
    <2>. QED  BY <2>1, <2>2, <2>3
  <1>2. ASSUME NEW e \in Dirs, GameEnds(e) \/ Step(e), e # d PROVE FALSE
    BY <1>0, <1>2, Others
  <1>3. CASE Restart  BY <1>0, <1>3 DEF Restart, Boot
  <1>4. ~UNCHANGED vars  BY <1>0 DEF vars
  <1>. QED  BY <1>1, <1>2, <1>3, <1>4 DEF Next

(* What a file is not in any more, after a step, and was in before.        *)
LEMMA Dropped ==
  ASSUME TypeOK, LockInv, [Next]_vars, LockInv', NEW d \in Dirs, NEW f \in Files,
         f \in made'[d] \ (files'[d] \union unread'[d]),
         f \notin made[d] \ (files[d] \union unread[d])
  PROVE  /\ at[d] = "remove" /\ f \in files[d] /\ f \notin unread[d] /\ tar' = tar
         /\ \A e \in Dirs : ~Active(e)'
  <1>1. CASE RemoveAll(d)
    <2>1. unread' = unread /\ made' = made  BY <1>1, RemoveStep
    <2>. QED  BY <1>1, <2>1, RemoveStep
  <1>2. CASE drainRemovePipe(d)
    <2>1. unread' = unread /\ \E log \in SUBSET Files : made'[d] = made[d] \union log
                                                  /\ files'[d] = files[d] \union log
      BY <1>2, ArchiveAssumption DEF drainRemovePipe, TypeOK
    <2>. QED  BY <2>1
  <1>3. CASE (GameEnds(d) \/ Step(d)) /\ ~RemoveAll(d) /\ ~drainRemovePipe(d)
    <2>1. files' = files /\ made' = made
      BY <1>3 DEF Step, GameEnds, TakeLock, tarOpenSeekAppend, AppendHeader, AppendData,
             ReadFails, WriteFails, CloseWriter, diskVars
    <2>2. CASE ReadFails(d)  BY <2>1, <2>2 DEF ReadFails, TypeOK
    <2>3. CASE ~ReadFails(d)
      <3>1. unread' = unread
        BY <1>3, <2>3 DEF Step, GameEnds, TakeLock, tarOpenSeekAppend, AppendHeader,
               AppendData, WriteFails, CloseWriter
      <3>. QED  BY <2>1, <3>1
    <2>. QED  BY <2>2, <2>3
  <1>4. ASSUME NEW e \in Dirs, GameEnds(e) \/ Step(e), e # d PROVE FALSE
    BY <1>4, Others
  <1>5. CASE Restart
    <2>1. made' = made /\ unread' = unread /\ tar' = tar /\ files' # files
      BY <1>5 DEF Restart, Boot
    <2>2. PICK x \in Dirs, rest \in SUBSET Files :
            at[x] = "remove" /\ files' = [files EXCEPT ![x] = rest]
      BY <1>5, <2>1 DEF Restart, Boot
    <2>3. x = d  BY <2>1, <2>2 DEF TypeOK
    <2>4. \A e \in Dirs : ~Active(e)'  BY <1>5 DEF Restart, Boot, Active
    <2>. QED  BY <2>1, <2>2, <2>3, <2>4
  <1>6. CASE UNCHANGED vars  BY <1>6 DEF vars, diskVars
  <1>. QED  BY <1>1, <1>2, <1>3, <1>4, <1>5, <1>6 DEF Next

LEMMA EmptyNext == TypeOK /\ LockInv /\ EmptyInv /\ [Next]_vars => EmptyInv'
  <1>. SUFFICES ASSUME TypeOK, LockInv, EmptyInv, [Next]_vars, NEW d \in Dirs, at'[d] = "gone"
                PROVE  files'[d] = {}
    BY DEF EmptyInv
  <1>1. CASE RemoveAll(d)  BY <1>1 DEF RemoveAll, Returns, Goes, TypeOK
  <1>2. CASE at[d] = "gone"
    <2>1. files[d] = {}  BY <1>2 DEF EmptyInv
    <2>2. ~GameEnds(d) /\ ~Step(d)
      BY <1>2 DEF Step, GameEnds, TakeLock, drainRemovePipe, tarOpenSeekAppend, Begins,
             AppendHeader, AppendData, ReadFails, CloseWriter, RemoveAll, Returns, Goes
    <2>3. ASSUME NEW e \in Dirs, GameEnds(e) \/ Step(e), e # d PROVE files'[d] = {}
      BY <2>1, <2>3, Others
    <2>4. CASE Restart  BY <2>1, <2>4 DEF Restart, Boot
    <2>5. CASE UNCHANGED vars  BY <2>1, <2>5 DEF vars, diskVars
    <2>. QED  BY <2>2, <2>3, <2>4, <2>5 DEF Next
  <1>. QED  BY <1>1, <1>2, GoneBefore

(* A reader gets to where an append broke off, if that was early enough.   *)
LEMMA IdleNext ==
  ASSUME SafeInv, FileInv, IdleInv, [Next]_vars, SafeInv', FileInv'
  PROVE  IdleInv'
  <1>. SUFFICES ASSUME ~torn', \A d \in Dirs : ~Active(d)', Len(tar') >= 2
                PROVE  Arrives(tar', Len(tar') - 1)
    BY DEF IdleInv
  <1>0. /\ TypeOK /\ TarInv /\ LockInv /\ PosInv /\ ~torn
    BY TornStays DEF SafeInv
  <1>n. TypeOK' /\ TarInv' /\ PosInv'  BY DEF SafeInv
  <1>1. CASE \A d \in Dirs : ~Active(d)
    <2>1. tar' = tar  BY <1>0, <1>1, TarStep, BlockStep
    <2>. QED  BY <1>0, <1>1, <2>1 DEF IdleInv
  <1>2. ASSUME NEW d \in Dirs, Active(d) PROVE Arrives(tar', Len(tar') - 1)
    <2>1. CASE tar' = tar /\ ~Breaks(d)
      <3>1. PosOK(d) /\ FileOK(d)  BY <1>0, <1>2 DEF PosInv, FileInv, Active, Appending
      <3>2. append[d].start \in Nat /\ append[d].pos \in Nat /\ Len(tar) \in Nat
        <4>1. TypeOK /\ TarInv  BY <1>0
        <4>. QED  BY <4>1 DEF TypeOK, TarInv
      <3>3. Len(tar) <= append[d].start + 1  BY <2>1, <3>1, <3>2 DEF Breaks, PosOK
      <3>4. Len(tar) - 1 = append[d].start  BY <2>1, <3>1, <3>2, <3>3 DEF PosOK
      <3>. QED  BY <2>1, <3>1, <3>4 DEF FileOK
    <2>2. CASE CloseWriter(d) /\ at'[d] = "remove"
      <3>1. End(d)' = Len(tar') - 1 /\ append'[d].todo = 0
        <4>1. PosOK(d)'  BY <1>n, <2>2 DEF PosInv, Appending
        <4>2. append'[d].start \in Nat /\ append'[d].pos \in Nat /\ Len(tar') \in Nat
          BY <1>n DEF TypeOK, TarInv
        <4>3. End(d)' = append'[d].pos - 2  BY <2>2 DEF End, Trailer
        <4>. QED  BY <4>1, <4>2, <4>3, <2>2 DEF PosOK
      <3>2. FileOK(d)'  BY <2>2 DEF FileInv, Appending
      <3>. QED  BY <3>1, <3>2 DEF FileOK
    <2>. QED  BY <1>0, <1>2, <2>1, <2>2, Stops
  <1>. QED  BY <1>1, <1>2

(* An append begins where the trailer of an idle archive is.               *)
LEMMA StartsHere ==
  ASSUME TypeOK, TarInv, IdleInv, LockInv, ~torn, NEW d \in Dirs, tarOpenSeekAppend(d),
         Appending(d)'
  PROVE  FileOK(d)'
  <1>1. PICK p \in Nat :
          /\ (p = 1 /\ tar = <<>>) \/ (p = Len(tar) - 1 /\ Len(tar) >= 2)
          /\ append'[d] = [left |-> files[d], file |-> Json, todo |-> 0, start |-> p, pos |-> p]
          /\ at[d] = "open" /\ at'[d] = "walk"
          /\ tar' = tar /\ torn' = torn /\ files' = files /\ unread' = unread
    BY BeginStep
  <1>2. /\ append'[d].start = p /\ append'[d].pos = p /\ append'[d].todo = 0
        /\ append'[d].left = files[d]
    BY <1>1
  <1>3. End(d)' = p  BY <1>1, <1>2 DEF End, Trailer
  <1>4. Arrives(tar, p)
    <2>1. \A e \in Dirs : ~Active(e)
      <3>. SUFFICES ASSUME NEW e \in Dirs, Active(e) PROVE FALSE  OBVIOUS
      <3>1. e = d  BY <1>1, OnlyOne DEF Active, Held
      <3>. QED  BY <1>1, <3>1 DEF Active
    <2>. QED  BY <1>1, <2>1 DEF IdleInv, Arrives
  <1>. QED  BY <1>1, <1>2, <1>3, <1>4 DEF FileOK

(* A header goes where the reader arrives, so he reaches it.               *)
LEMMA HeaderWrites ==
  ASSUME TypeOK, TarInv, NEW d \in Dirs, PosOK(d), FileOK(d), AppendHeader(d)
  PROVE  FileOK(d)'
  <1>. DEFINE p == append[d].pos
  <1>1. PICK f \in append[d].left :
          LET a == [append[d] EXCEPT !.left = @ \ {f}, !.file = f, !.todo = Size[f]]
          IN f \in Files /\ Hdr(d, f) \in Blocks /\ a \in AppendType /\ Put(d, Hdr(d, f), a)
    BY HeaderStep
  <1>. DEFINE a == [append[d] EXCEPT !.left = @ \ {f}, !.file = f, !.todo = Size[f]]
  <1>2. /\ at[d] = "walk" /\ at'[d] = "walk" /\ append[d].todo = 0
    BY DEF AppendHeader
  <1>3. append[d] \in AppendType /\ Size[f] \in Nat
    BY <1>1, ArchiveAssumption DEF TypeOK, AppendType
  <1>4. tar'[p] = Hdr(d, f) /\ append'[d] = [a EXCEPT !.pos = p + 1]
    <2>1. Hdr(d, f) \in Blocks /\ a \in AppendType /\ Put(d, Hdr(d, f), a)  BY <1>1
    <2>. HIDE DEF a
    <2>. QED  BY <2>1, <1>2, PutStep
  <1>5. /\ append'[d].file = f /\ append'[d].todo = Size[f] /\ append'[d].pos = p + 1
        /\ append'[d].left = append[d].left \ {f} /\ append'[d].start = append[d].start
    BY <1>3, <1>4 DEF AppendType
  <1>6. /\ p \in 1..(Len(tar) + 1) /\ Keeps(tar, tar', p)
        /\ tar' \in Seq(Blocks) /\ tar \in Seq(Blocks)
        /\ Len(tar') = IF p <= Len(tar) THEN Len(tar) ELSE p
        /\ files' = files /\ unread' = unread
    BY BlockStep DEF TarInv
  <1>7. p \in Int /\ End(d) = p /\ End(d)' = p + 1
    BY <1>2, <1>5, <1>6 DEF End, Trailer
  <1>8. Arrives(tar', p)
    <2>1. Arrives(tar, p)  BY <1>2, <1>7 DEF FileOK
    <2>. QED  BY <2>1, <1>6, <1>7, ArrivesKept
  <1>9. p \in Reached(tar')
    <2>1. p \in Headers(tar')  BY <1>4, <1>6 DEF Headers, Hdr
    <2>. QED  BY <2>1, <1>8, ReachedNext
  <1>10. Arrives(tar', append'[d].start)
    <2>1. append[d].start \in Int /\ append[d].start <= p
      BY <1>3, <1>7 DEF AppendType, PosOK
    <2>. QED  BY <2>1, <1>5, <1>6, <1>7, ArrivesKept DEF FileOK
  <1>11. append'[d].todo = 0 => Arrives(tar', p + 1)
    <2>. SUFFICES ASSUME append'[d].todo = 0 PROVE Arrives(tar', p + 1)  OBVIOUS
    <2>1. tar'[p].of[2] = f  BY <1>4 DEF Hdr
    <2>2. After(tar', p) = p + 1  BY <2>1, <1>5, <1>7 DEF After
    <2>. QED  BY <2>2, <1>9 DEF Arrives
  <1>12. append'[d].todo > 0 => Half(d)'
    <2>1. \A k \in 1..(Size[f] - Size[f]) : FALSE  BY <1>3
    <2>2. p + 1 + Size[f] = (p + 1) + Size[f] /\ p < p + 1 /\ Size[f] <= Size[f]  BY <1>3, <1>7
    <2>. QED  BY <2>1, <2>2, <1>4, <1>5, <1>9 DEF Half
  <1>13. ASSUME NEW g \in files'[d] \ (append'[d].left \union unread'[d])
         PROVE  (append'[d].todo > 0 /\ g = append'[d].file) \/ ReadBelow(tar', d, g, p + 1)
    <2>0. g \in Files  BY <1>6 DEF TypeOK
    <2>1. CASE g = f
      <3>1. CASE Size[f] = 0
        <4>1. tar'[p] = Hdr(d, g) /\ p + Size[g] < p + 1 /\ \A k \in 1..Size[g] : FALSE
          BY <2>1, <3>1, <1>4, <1>7
        <4>. QED  BY <4>1, <1>9 DEF ReadBelow
      <3>2. CASE Size[f] > 0  BY <2>1, <3>2, <1>5
      <3>. QED  BY <3>1, <3>2, <1>3
    <2>2. CASE g # f
      <3>1. g \in files[d] \ (append[d].left \union unread[d])  BY <2>2, <1>5, <1>6, <1>13
      <3>2. ReadBelow(tar, d, g, p)  BY <3>1, <1>2, <1>7 DEF FileOK
      <3>3. ReadBelow(tar', d, g, p)  BY <2>0, <3>2, <1>6, <1>7, ReadBelowKept
      <3>4. p <= p + 1 /\ p + 1 \in Int  BY <1>7
      <3>. QED  BY <2>0, <3>3, <3>4, <1>6, <1>7, ReadBelowMore
    <2>. QED  BY <2>1, <2>2
  <1>. QED  BY <1>7, <1>10, <1>11, <1>12, <1>13 DEF FileOK

(* The data of a file follow its header; the last block completes it.      *)
LEMMA DataWrites ==
  ASSUME TypeOK, TarInv, NEW d \in Dirs, PosOK(d), FileOK(d), AppendData(d)
  PROVE  FileOK(d)'
  <1>. DEFINE p == append[d].pos
              f == append[d].file
              m == append[d].todo
              n == Size[f] - m
              a == [append[d] EXCEPT !.todo = @ - 1]
  <1>1. /\ at[d] = "walk" /\ at'[d] = "walk" /\ append[d].todo > 0
    BY DEF AppendData
  <1>2. append[d] \in AppendType /\ f \in Files /\ m \in Nat /\ Size[f] \in Nat
    <2>1. append[d] \in AppendType  BY DEF TypeOK, AppendType
    <2>2. f \in Files /\ m \in Nat  BY <2>1 DEF AppendType
    <2>. QED  BY <2>1, <2>2, ArchiveAssumption
  <1>n. n = Size[f] - m /\ n \in Int /\ m > 0  BY <1>1, <1>2
  <1>3. tar'[p] = Data(d, f, n + 1)
        /\ append'[d] = [a EXCEPT !.pos = p + 1]
    <2>1. n + 1 = 1 + Size[f] - m  BY <1>2
    <2>2. Data(d, f, 1 + Size[f] - m) \in Blocks /\ a \in AppendType
          /\ Put(d, Data(d, f, 1 + Size[f] - m), a)
      BY DataStep
    <2>3. Data(d, f, n + 1) \in Blocks /\ Put(d, Data(d, f, n + 1), a)  BY <2>1, <2>2
    <2>. HIDE DEF n, m, f, a
    <2>. QED  BY <2>2, <2>3, <1>1, PutStep
  <1>4. /\ append'[d].file = f /\ append'[d].todo = m - 1 /\ append'[d].pos = p + 1
        /\ append'[d].left = append[d].left /\ append'[d].start = append[d].start
    BY <1>2, <1>3 DEF AppendType
  <1>5. /\ p \in 1..(Len(tar) + 1) /\ Keeps(tar, tar', p)
        /\ tar' \in Seq(Blocks) /\ tar \in Seq(Blocks)
        /\ files' = files /\ unread' = unread
        /\ \A k \in 1..Len(tar) : k # p => tar'[k] = tar[k]
        /\ Len(tar') = IF p <= Len(tar) THEN Len(tar) ELSE p
    BY BlockStep DEF TarInv
  <1>6. p \in Int /\ End(d) = p /\ End(d)' = p + 1
    BY <1>1, <1>4, <1>5 DEF End, Trailer
  <1>7. PICK h \in Reached(tar) :
          /\ tar[h] = Hdr(d, f) /\ h < p /\ h + 1 + Size[f] = p + m
          /\ \A k \in 1..n : tar[h + k] = Data(d, f, k)
    BY <1>1 DEF FileOK, Half
  <1>8. m <= Size[f]  BY <1>1 DEF FileOK, Half
  <1>. HIDE DEF n, m, f, p
  <1>9. h \in 1..Len(tar)  BY <1>5, ReachedHeader, AfterLater
  <1>h. /\ h \in Int /\ h >= 1 /\ h + n + 1 = p /\ n \in Int /\ p \in Int
        /\ Len(tar) \in Nat /\ p <= Len(tar) + 1
    <2>1. h \in Int /\ h >= 1 /\ Len(tar) \in Nat  BY <1>5, <1>9
    <2>2. p \in Int /\ p <= Len(tar) + 1  BY <2>1, <1>5
    <2>3. h + 1 + Size[f] = p + m  BY <1>7
    <2>4. \A x, y, z, u \in Int : y + 1 + z = x + u => y + (z - u) + 1 = x  OBVIOUS
    <2>5. Size[f] \in Int /\ m \in Int  BY <1>2
    <2>6. h + (Size[f] - m) + 1 = p  BY <2>1, <2>2, <2>3, <2>4, <2>5
    <2>7. h + n + 1 = p  BY <2>6, <1>n
    <2>. QED  BY <2>1, <2>2, <2>7, <1>n
  <1>10. h \in Reached(tar') /\ tar'[h] = Hdr(d, f)  BY <1>5, <1>6, <1>7, ReachedKept
  <1>11. ASSUME NEW k \in 1..(n + 1)
         PROVE  h + k <= Len(tar') /\ tar'[h + k] = Data(d, f, k)
    <2>0. h + k \in 1..p /\ Len(tar) \in Nat  BY <1>h
    <2>1. CASE k = n + 1
      <3>1. h + k = p  BY <2>1, <1>h
      <3>. QED  BY <2>1, <3>1, <1>3, <1>5, <2>0
    <2>2. CASE k \in 1..n
      <3>1. h + k < p /\ h + k \in 1..Len(tar)  BY <2>2, <1>h
      <3>2. tar[h + k] = Data(d, f, k)  BY <2>2, <1>7
      <3>. QED  BY <3>1, <3>2, <1>5 DEF Keeps
    <2>. QED  BY <2>1, <2>2, <1>n
  <1>12. Arrives(tar', append'[d].start)
    <2>1. append[d].start \in Int /\ append[d].start <= p
      BY <1>2, <1>6 DEF AppendType, PosOK
    <2>. QED  BY <2>1, <1>4, <1>5, <1>6, ArrivesKept DEF FileOK
  <1>13. append'[d].todo = 0 => Arrives(tar', p + 1)
    <2>. SUFFICES ASSUME append'[d].todo = 0 PROVE Arrives(tar', p + 1)  OBVIOUS
    <2>1. tar'[h].of[2] = f  BY <1>10 DEF Hdr
    <2>2. After(tar', h) = h + 1 + Size[f]  BY <2>1 DEF After
    <2>3. m = 1  BY <1>2, <1>4
    <2>4. After(tar', h) = p + 1  BY <2>2, <2>3, <1>7
    <2>. QED  BY <2>4, <1>10 DEF Arrives
  <1>14. append'[d].todo > 0 => Half(d)'
    <2>1. Size[f] - append'[d].todo = n + 1 /\ append'[d].todo <= Size[f] /\ h < p + 1
          /\ h + 1 + Size[f] = (p + 1) + append'[d].todo
      BY <1>2, <1>n, <1>4, <1>6, <1>7, <1>8, <1>9
    <2>. QED  BY <2>1, <1>4, <1>10, <1>11 DEF Half
  <1>15. ASSUME NEW g \in files'[d] \ (append'[d].left \union unread'[d])
         PROVE  (append'[d].todo > 0 /\ g = append'[d].file) \/ ReadBelow(tar', d, g, p + 1)
    <2>0. g \in Files  BY <1>5 DEF TypeOK
    <2>1. CASE g = f
      <3>1. CASE append'[d].todo = 0
        <4>1. n + 1 = Size[f] /\ h + Size[f] < p + 1  BY <3>1, <1>2, <1>n, <1>4, <1>6, <1>7, <1>9
        <4>2. \A k \in 1..Size[f] : h + k <= Len(tar') /\ tar'[h + k] = Data(d, f, k)
          BY <4>1, <1>11
        <4>. QED  BY <2>1, <4>1, <4>2, <1>10 DEF ReadBelow
      <3>2. CASE append'[d].todo > 0  BY <2>1, <3>2, <1>4
      <3>. QED  BY <3>1, <3>2, <1>2, <1>n, <1>4
    <2>2. CASE g # f
      <3>1. g \in files[d] \ (append[d].left \union unread[d])  BY <1>4, <1>5, <1>15
      <3>2. ReadBelow(tar, d, g, p)  BY <2>2, <3>1, <1>6 DEF FileOK, f
      <3>3. ReadBelow(tar', d, g, p)  BY <2>0, <3>2, <1>5, <1>6, ReadBelowKept
      <3>4. p <= p + 1 /\ p + 1 \in Int  BY <1>6
      <3>. QED  BY <2>0, <3>3, <3>4, <1>5, <1>6, ReadBelowMore
    <2>. QED  BY <2>1, <2>2
  <1>. QED  BY <1>6, <1>12, <1>13, <1>14, <1>15 DEF FileOK

(* The trailer is not the place of any file.                               *)
LEMMA TrailerWrites ==
  ASSUME TypeOK, TarInv, NEW d \in Dirs, PosOK(d), FileOK(d), CloseWriter(d)
  PROVE  FileOK(d)'
  <1>. DEFINE p == append[d].pos
  <1>0. at[d] \in {"walk", "close"} /\ append[d] \in AppendType
    BY DEF CloseWriter, Goes, TypeOK, AppendType
  <1>1. append[d].left = {} /\ append[d].todo = 0  BY <1>0 DEF CloseWriter, Goes, PosOK
  <1>2. append'[d] = [append[d] EXCEPT !.pos = p + 1]  BY <1>0, CloseStep, PutStep
  <1>3. /\ append'[d].todo = 0 /\ append'[d].pos = p + 1
        /\ append'[d].left = {} /\ append'[d].start = append[d].start
    BY <1>0, <1>1, <1>2 DEF AppendType
  <1>4. /\ p \in 1..(Len(tar) + 1) /\ Keeps(tar, tar', p)
        /\ tar' \in Seq(Blocks) /\ tar \in Seq(Blocks)
        /\ files' = files /\ unread' = unread
    BY BlockStep DEF TarInv
  <1>5. End(d)' = End(d) /\ End(d) \in Int /\ End(d) <= p /\ p \in Int
    BY <1>3, <1>4 DEF CloseWriter, Goes, End, Trailer, TypeOK
  <1>6. Arrives(tar', append'[d].start)
    <2>1. append[d].start \in Int /\ append[d].start <= p
      BY <1>0, <1>5 DEF AppendType, PosOK
    <2>. QED  BY <2>1, <1>3, <1>4, <1>5, ArrivesKept DEF FileOK
  <1>7. Arrives(tar', End(d))  BY <1>1, <1>4, <1>5, ArrivesKept DEF FileOK
  <1>8. ASSUME NEW g \in files'[d] \ (append'[d].left \union unread'[d])
        PROVE  ReadBelow(tar', d, g, End(d))
    <2>1. g \in Files  BY <1>4 DEF TypeOK
    <2>2. ReadBelow(tar, d, g, End(d))  BY <1>1, <1>3, <1>4, <1>8 DEF FileOK
    <2>. QED  BY <2>1, <2>2, <1>4, <1>5, ReadBelowKept
  <1>. QED  BY <1>3, <1>5, <1>6, <1>7, <1>8 DEF FileOK

(* Every step keeps what an append has in the archive.                     *)
LEMMA FileNext ==
  ASSUME SafeInv, FileInv, IdleInv, [Next]_vars
  PROVE  FileInv'
  <1>. SUFFICES ASSUME ~torn', NEW d \in Dirs, Appending(d)'
                PROVE  FileOK(d)'
    BY DEF FileInv
  <1>0. TypeOK /\ TarInv /\ LockInv /\ PosInv /\ ~torn  BY TornStays DEF SafeInv
  <1>1. CASE /\ at'[d] = at[d] /\ append'[d] = append[d] /\ files'[d] = files[d]
             /\ unread'[d] = unread[d] /\ tar' = tar
    BY <1>0, <1>1 DEF FileInv, FileOK, Half, End, Trailer, Appending
  <1>2. CASE tarOpenSeekAppend(d)  BY <1>0, <1>2, StartsHere
  <1>3. ASSUME AppendHeader(d) \/ AppendData(d) \/ CloseWriter(d) \/ ReadFails(d)
        PROVE  PosOK(d) /\ FileOK(d)
    BY <1>0, <1>3 DEF AppendHeader, AppendData, CloseWriter, ReadFails, Goes, PosInv,
           FileInv, Appending
  <1>4. CASE AppendHeader(d)  BY <1>0, <1>3, <1>4, HeaderWrites
  <1>5. CASE AppendData(d)  BY <1>0, <1>3, <1>5, DataWrites
  <1>6. CASE CloseWriter(d)  BY <1>0, <1>3, <1>6, TrailerWrites
  <1>7. CASE ReadFails(d)
    <2>1. /\ at[d] = "walk" /\ at'[d] = "walk" /\ append[d].todo = 0
          /\ tar' = tar /\ files' = files
      BY <1>7 DEF ReadFails, diskVars
    <2>2. append'[d] = [append[d] EXCEPT !.left = {}] /\ append[d] \in AppendType
          /\ unread'[d] = unread[d] \union append[d].left
      BY <1>0, <1>7 DEF ReadFails, TypeOK, AppendType
    <2>3. /\ append'[d].left = {} /\ append'[d].todo = 0 /\ append'[d].pos = append[d].pos
          /\ append'[d].start = append[d].start
      BY <2>1, <2>2 DEF AppendType
    <2>4. End(d)' = End(d)  BY <2>1, <2>3 DEF End, Trailer
    <2>5. FileOK(d)  BY <1>3, <1>7
    <2>. QED  BY <2>1, <2>2, <2>3, <2>4, <2>5 DEF FileOK
  <1>. QED  BY <1>0, <1>1, <1>2, <1>4, <1>5, <1>6, <1>7, Actor

(* A file leaves its directory when all of it is in the archive.           *)
LEMMA KeptNext ==
  ASSUME SafeInv, FileInv, KeptInv, [Next]_vars, SafeInv'
  PROVE  KeptInv'
  <1>. SUFFICES ASSUME ~torn', NEW d \in Dirs, NEW f \in made'[d] \ (files'[d] \union unread'[d])
                PROVE  ReadBelow(tar', d, f, Frontier')
    BY DEF KeptInv
  <1>0. TypeOK /\ TarInv /\ LockInv /\ PosInv /\ ~torn  BY TornStays DEF SafeInv
  <1>n. LockInv' /\ f \in Files  BY DEF SafeInv, TypeOK
  <1>t. tar \in Seq(Blocks) /\ tar' \in Seq(Blocks)  BY DEF SafeInv, TarInv
  <1>1. CASE f \in made[d] \ (files[d] \union unread[d])
    <2>1. ReadBelow(tar, d, f, Frontier)  BY <1>0, <1>1 DEF KeptInv
    <2>2. /\ Frontier \in Int /\ Frontier' \in Int /\ Keeps(tar, tar', Frontier)
          /\ Frontier <= Frontier' \/ Frontier <= 1
      BY <1>0, <1>n, FrontierGrows
    <2>3. Frontier <= Frontier  BY <2>2
    <2>4. ReadBelow(tar', d, f, Frontier)  BY <1>n, <1>t, <2>1, <2>2, <2>3, ReadBelowKept
    <2>5. Frontier > 1  BY <1>n, <1>t, <2>2, <2>3, <2>4, ReadBelowMore
    <2>6. Frontier <= Frontier'  BY <2>2, <2>5
    <2>. QED  BY <1>n, <1>t, <2>2, <2>4, <2>6, ReadBelowMore
  <1>2. CASE f \notin made[d] \ (files[d] \union unread[d])
    <2>1. /\ at[d] = "remove" /\ f \in files[d] /\ f \notin unread[d] /\ tar' = tar
          /\ \A e \in Dirs : ~Active(e)'
      BY <1>0, <1>n, <1>2, Dropped
    <2>2. append[d].left = {} /\ append[d].todo = 0 /\ End(d) = Len(tar) - 1
      BY <1>0, <2>1, RemoveFacts
    <2>3. FileOK(d)  BY <1>0, <2>1 DEF FileInv, Appending
    <2>4. ReadBelow(tar, d, f, End(d))  BY <2>1, <2>2, <2>3 DEF FileOK
    <2>5. Frontier' = Len(tar) - 1  BY <1>n, <2>1, FrontierNext
    <2>. QED  BY <2>1, <2>2, <2>4, <2>5
  <1>. QED  BY <1>1, <1>2

LostInv == SafeInv /\ FileInv /\ IdleInv /\ KeptInv /\ EmptyInv

LEMMA LostInit == Init => LostInv
  BY SafeInit, ContentInit DEF LostInv

LEMMA LostNext == LostInv /\ [Next]_vars => LostInv'
  <1>. SUFFICES ASSUME LostInv, [Next]_vars PROVE LostInv'  OBVIOUS
  <1>1. SafeInv'  BY SafeNext DEF LostInv
  <1>2. FileInv'  BY FileNext DEF LostInv
  <1>3. IdleInv'  BY <1>1, <1>2, IdleNext DEF LostInv
  <1>4. KeptInv'  BY <1>1, KeptNext DEF LostInv
  <1>5. EmptyInv'  BY EmptyNext DEF LostInv, SafeInv
  <1>. QED  BY <1>1, <1>2, <1>3, <1>4, <1>5 DEF LostInv

(* All files of a directory that was removed can be read in the archive,   *)
(* but for those that were left out because of one that could not be read, *)
(* and unless an append ever broke off after its first two blocks:         *)
(* archiveInstance removes a directory only after Close wrote the trailer. *)
THEOREM NothingIsLost == Spec => []NothingLost
  <1>1. LostInv => NothingLost
    <2>. SUFFICES ASSUME LostInv, NEW d \in Dirs, at[d] = "gone", ~torn,
                         NEW f \in made[d] \ unread[d]
                  PROVE  Readable(tar, d, f)
      BY DEF NothingLost
    <2>1. files[d] = {}  BY DEF LostInv, EmptyInv
    <2>2. ReadBelow(tar, d, f, Frontier)  BY <2>1 DEF LostInv, KeptInv
    <2>. QED  BY <2>2, ReadBelowReadable
  <1>. QED  BY <1>1, LostInit, LostNext, PTL DEF Spec
=============================================================================
