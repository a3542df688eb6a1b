---------------------------- MODULE PowerLossProofs ----------------------------
(***************************************************************************)
(* Proofs about PowerLoss, for any data and any number of power losses and *)
(* kills: what is true of the files after every operation of the log is    *)
(* true of what a power loss can leave of them.                            *)
(***************************************************************************)
EXTENDS PowerLoss, SequenceTheorems, TLAPS

FileSet == [Names -> Contents]

\* The part of TypeOK that the steps need; an answer is never that nothing was said.
Typed ==
    /\ disk \in FileSet
    /\ log \in Seq([op : Ops, files : FileSet])
    /\ told \in [Ids -> {"nothing", "asked", "REGISTERED", "DELETED"}]
    /\ answers.state \in {"REGISTERED", "DELETED"}
    /\ mode \in {"down", "boot", "up", "broken"}

\* What files may be a disk from now on: there is no record before its registration. On
\* an ordered file system they are whole under their proper names, a record with a key
\* has its blob, and no record is behind that of the disk.
Sound(files) ==
    \A id \in Ids :
        /\ told[id] = "nothing" => files[Meta(id)] = "none"
        /\ ordered =>
             /\ files[Blob(id)] \in {"none", "sealed"}
             /\ files[Meta(id)] \in {"none", "REGISTERED", "DELETING", "DELETED"}
             /\ files[Meta(id)] = "REGISTERED" => files[Blob(id)] = "sealed"
             /\ Age[files[Meta(id)]] >= Age[disk[Meta(id)]]

SoundInv == \A n \in 0..Len(log) : Sound(After(n))

\* A file of the record, or of the blob, on its way to its proper name.
MetaTmp(id) == <<id, "meta.tmp">>
BlobTmp(id) == <<id, "blob.tmp">>

WriteMeta(id, content) == Op("write", id, "meta", content)
RenameMeta(id)         == Op("rename", id, "meta", "none")
WriteBlob(id)          == Op("write", id, "blob", "sealed")
RenameBlob(id)         == Op("rename", id, "blob", "none")
RemoveBlob(id)         == Op("remove", id, "blob", "none")

\* What is left to do for the data, and the files as they are by then.
Registering(id) ==
    /\ told[id] # "nothing" /\ Files[Meta(id)] = "none"
    /\ \/ plan = <<WriteBlob(id), RenameBlob(id), WriteMeta(id, "REGISTERED"), RenameMeta(id)>>
       \/ /\ plan = <<RenameBlob(id), WriteMeta(id, "REGISTERED"), RenameMeta(id)>>
          /\ Files[BlobTmp(id)] = "sealed"
       \/ /\ plan = <<WriteMeta(id, "REGISTERED"), RenameMeta(id)>>
          /\ Files[Blob(id)] = "sealed"
       \/ /\ plan = <<RenameMeta(id)>>
          /\ Files[Blob(id)] = "sealed" /\ Files[MetaTmp(id)] = "REGISTERED"

Committing(id) ==
    /\ told[id] # "nothing" /\ Files[Meta(id)] = "REGISTERED"
    /\ \/ plan = <<WriteMeta(id, "DELETING"), RenameMeta(id), RemoveBlob(id),
                   WriteMeta(id, "DELETED"), RenameMeta(id)>>
       \/ /\ plan = <<RenameMeta(id), RemoveBlob(id), WriteMeta(id, "DELETED"), RenameMeta(id)>>
          /\ Files[MetaTmp(id)] = "DELETING"

Finishing(id) ==
    /\ told[id] # "nothing" /\ Files[Meta(id)] = "DELETING"
    /\ \/ plan = <<RemoveBlob(id), WriteMeta(id, "DELETED"), RenameMeta(id)>>
       \/ plan = <<WriteMeta(id, "DELETED"), RenameMeta(id)>>
       \/ plan = <<RenameMeta(id)>> /\ Files[MetaTmp(id)] = "DELETED"

PlanInv ==
    plan # <<>> => \E id \in Ids : Registering(id) \/ Committing(id) \/ Finishing(id)

\* A server that has started has no torn record.
ServedInv == mode \in {"boot", "up"} => \A id \in Ids : Files[Meta(id)] # "torn"

PowerInv == Typed /\ SoundInv /\ PlanInv /\ ServedInv

-----------------------------------------------------------------------------
(* Files                                                                   *)

\* The names of the files of one piece of data, and of different data, differ.
LEMMA NamesDiffer ==
    ASSUME NEW id \in Ids
    PROVE  /\ {Blob(id), Meta(id), BlobTmp(id), MetaTmp(id)} \subseteq Names
           /\ Blob(id) # Meta(id) /\ Blob(id) # BlobTmp(id) /\ Blob(id) # MetaTmp(id)
           /\ Meta(id) # BlobTmp(id) /\ Meta(id) # MetaTmp(id) /\ BlobTmp(id) # MetaTmp(id)
           /\ \A other \in Ids :
                /\ other # id => Blob(other) # Blob(id) /\ Meta(other) # Meta(id)
                /\ Blob(other) # Meta(id) /\ Blob(other) # BlobTmp(id) /\ Blob(other) # MetaTmp(id)
                /\ Meta(other) # Blob(id) /\ Meta(other) # BlobTmp(id) /\ Meta(other) # MetaTmp(id)
  BY DEF Names, Blob, Meta, BlobTmp, MetaTmp

\* What each file operation does.
LEMMA Applied ==
    ASSUME NEW files, NEW id
    PROVE  /\ \A content : Apply(files, WriteMeta(id, content)) = [files EXCEPT ![MetaTmp(id)] = content]
           /\ Apply(files, WriteBlob(id)) = [files EXCEPT ![BlobTmp(id)] = "sealed"]
           /\ Apply(files, RenameMeta(id))
                = [files EXCEPT ![Meta(id)] = files[MetaTmp(id)], ![MetaTmp(id)] = "none"]
           /\ Apply(files, RenameBlob(id))
                = [files EXCEPT ![Blob(id)] = files[BlobTmp(id)], ![BlobTmp(id)] = "none"]
           /\ Apply(files, RemoveBlob(id)) = [files EXCEPT ![Blob(id)] = "none"]
  BY DEF Apply, Tmp, Op, WriteMeta, WriteBlob, RenameMeta, RenameBlob, RemoveBlob,
         MetaTmp, BlobTmp, Meta, Blob

\* The operations of a plan are operations.
LEMMA Operations ==
    ASSUME NEW id \in Ids
    PROVE  /\ \A content \in Contents : WriteMeta(id, content) \in Ops
           /\ {WriteBlob(id), RenameMeta(id), RenameBlob(id), RemoveBlob(id)} \subseteq Ops
  BY DEF WriteMeta, WriteBlob, RenameMeta, RenameBlob, RemoveBlob, Op, Ops, Contents

\* The order of a record's states.
LEMMA Ages ==
    /\ Age["none"] = 0 /\ Age["REGISTERED"] = 1 /\ Age["DELETING"] = 2 /\ Age["DELETED"] = 3
    /\ \A content \in Contents : Age[content] \in Nat
  BY DEF Age, Contents

\* An operation keeps files files.
LEMMA ApplyType ==
    ASSUME NEW files \in FileSet, NEW op \in Ops
    PROVE  Apply(files, op) \in FileSet
<1>1. Tmp(op) \in Names /\ <<op.id, op.file>> \in Names /\ op.content \in Contents
  BY DEF Tmp, Names, Ops
<1>2. files[Tmp(op)] \in Contents /\ "none" \in Contents
  BY <1>1 DEF FileSet, Contents
<1>3. CASE op.kind = "write"
  BY <1>1, <1>3 DEF Apply, FileSet
<1>4. CASE op.kind = "rename"
  <2>1. Apply(files, op)
          = [files EXCEPT ![<<op.id, op.file>>] = files[Tmp(op)], ![Tmp(op)] = "none"]
    BY <1>4 DEF Apply
  <2> QED BY <1>1, <1>2, <2>1 DEF FileSet
<1>5. CASE op.kind = "remove"
  BY <1>1, <1>2, <1>5 DEF Apply, FileSet
<1> QED BY <1>3, <1>4, <1>5 DEF Ops

\* The part of a write that reaches the disk is not under a proper name.
LEMMA TornIsAside ==
    ASSUME Typed, NEW n \in 1..Len(log), log[n].op.kind = "write"
    PROVE  /\ Torn(n) \in FileSet /\ After(n - 1) \in FileSet
           /\ \A id \in Ids : /\ Torn(n)[Blob(id)] = After(n - 1)[Blob(id)]
                              /\ Torn(n)[Meta(id)] = After(n - 1)[Meta(id)]
<1>1. log[n].op \in Ops /\ After(n - 1) \in FileSet
  <2>1. \A i \in 1..Len(log) : log[i] \in [op : Ops, files : FileSet]
    BY ElementOfSeq DEF Typed
  <2>2. n - 1 = 0 \/ n - 1 \in 1..Len(log)
    OBVIOUS
  <2> QED BY <2>1, <2>2 DEF Typed, After
<1>2. PICK op : op = [log[n].op EXCEPT !.content = "torn"]
  OBVIOUS
<1>3. op \in Ops /\ op.kind = "write"
  BY <1>1, <1>2 DEF Ops, Contents
<1>4. Torn(n) = [After(n - 1) EXCEPT ![Tmp(op)] = op.content]
  BY <1>2, <1>3 DEF Torn, Apply
<1>5. \A id \in Ids : Blob(id) # Tmp(op) /\ Meta(id) # Tmp(op)
  BY DEF Blob, Meta, Tmp
<1>6. \A id \in Ids : Blob(id) \in Names /\ Meta(id) \in Names
  BY NamesDiffer
<1>7. Torn(n) \in FileSet
  BY <1>1, <1>2, <1>3, ApplyType DEF Torn
<1> QED BY <1>1, <1>4, <1>5, <1>6, <1>7 DEF FileSet

-----------------------------------------------------------------------------
(* Plans                                                                   *)

\* Lists of operations, joined.
LEMMA OneAndTwo ==
    ASSUME NEW a, NEW b, NEW c
    PROVE  <<a>> \o <<b, c>> = <<a, b, c>>
<1>1. PICK S : S = {a, b, c}
  OBVIOUS
<1>2. /\ <<a>> \in Seq(S) /\ <<b, c>> \in Seq(S) /\ <<a, b, c>> \in Seq(S)
      /\ Len(<<a>>) = 1 /\ Len(<<b, c>>) = 2 /\ Len(<<a, b, c>>) = 3
  BY <1>1
<1>3. PICK s : s = <<a>> \o <<b, c>>
  OBVIOUS
<1>4. /\ s \in Seq(S) /\ Len(s) = 3
      /\ \A i \in 1..3 : s[i] = IF i <= 1 THEN <<a>>[i] ELSE <<b, c>>[i - 1]
  BY <1>2, <1>3, ConcatProperties
<1>5. \A i \in 1..3 : s[i] = <<a, b, c>>[i]
  BY <1>4
<1> QED BY ONLY <1>2, <1>3, <1>4, <1>5, SeqEqual

LEMMA TwoAndTwo ==
    ASSUME NEW a, NEW b, NEW c, NEW d
    PROVE  <<a, b>> \o <<c, d>> = <<a, b, c, d>>
<1>1. PICK S : S = {a, b, c, d}
  OBVIOUS
<1>2. /\ <<a, b>> \in Seq(S) /\ <<c, d>> \in Seq(S) /\ <<a, b, c, d>> \in Seq(S)
      /\ Len(<<a, b>>) = 2 /\ Len(<<c, d>>) = 2 /\ Len(<<a, b, c, d>>) = 4
  BY <1>1
<1>3. PICK s : s = <<a, b>> \o <<c, d>>
  OBVIOUS
<1>4. /\ s \in Seq(S) /\ Len(s) = 4
      /\ \A i \in 1..4 : s[i] = IF i <= 2 THEN <<a, b>>[i] ELSE <<c, d>>[i - 2]
  BY <1>2, <1>3, ConcatProperties
<1>5. \A i \in 1..4 : s[i] = <<a, b, c, d>>[i]
  BY <1>4
<1> QED BY ONLY <1>2, <1>3, <1>4, <1>5, SeqEqual

LEMMA TwoAndThree ==
    ASSUME NEW a, NEW b, NEW c, NEW d, NEW e
    PROVE  <<a, b>> \o <<c, d, e>> = <<a, b, c, d, e>>
<1>1. PICK S : S = {a, b, c, d, e}
  OBVIOUS
<1>2. /\ <<a, b>> \in Seq(S) /\ <<c, d, e>> \in Seq(S) /\ <<a, b, c, d, e>> \in Seq(S)
      /\ Len(<<a, b>>) = 2 /\ Len(<<c, d, e>>) = 3 /\ Len(<<a, b, c, d, e>>) = 5
  BY <1>1
<1>3. PICK s : s = <<a, b>> \o <<c, d, e>>
  OBVIOUS
<1>4. /\ s \in Seq(S) /\ Len(s) = 5
      /\ \A i \in 1..5 : s[i] = IF i <= 2 THEN <<a, b>>[i] ELSE <<c, d, e>>[i - 2]
  BY <1>2, <1>3, ConcatProperties
<1>5. \A i \in 1..5 : s[i] = <<a, b, c, d, e>>[i]
  BY <1>4
<1> QED BY ONLY <1>2, <1>3, <1>4, <1>5, SeqEqual

\* The plans, written out.
LEMMA Plans ==
    ASSUME NEW id
    PROVE  /\ Register(id) = <<WriteBlob(id), RenameBlob(id), WriteMeta(id, "REGISTERED"), RenameMeta(id)>>
           /\ FinishDelete(id) = <<RemoveBlob(id), WriteMeta(id, "DELETED"), RenameMeta(id)>>
           /\ Delete(id) = <<WriteMeta(id, "DELETING"), RenameMeta(id), RemoveBlob(id),
                             WriteMeta(id, "DELETED"), RenameMeta(id)>>
<1>1. FinishDelete(id) = <<RemoveBlob(id), WriteMeta(id, "DELETED"), RenameMeta(id)>>
  BY OneAndTwo DEF FinishDelete, AtomicWrite, RemoveBlob, WriteMeta, RenameMeta
<1>2. Register(id) = <<WriteBlob(id), RenameBlob(id), WriteMeta(id, "REGISTERED"), RenameMeta(id)>>
  BY TwoAndTwo DEF Register, AtomicWrite, WriteBlob, RenameBlob, WriteMeta, RenameMeta
<1>3. Delete(id) = <<WriteMeta(id, "DELETING"), RenameMeta(id)>> \o FinishDelete(id)
  BY DEF Delete, AtomicWrite, WriteMeta, RenameMeta
<1> QED BY <1>1, <1>2, <1>3, TwoAndThree

\* The first operation of a plan, and the others.
LEMMA Firsts ==
    /\ \A a : Head(<<a>>) = a /\ Tail(<<a>>) = <<>>
    /\ \A a, b : Head(<<a, b>>) = a /\ Tail(<<a, b>>) = <<b>>
    /\ \A a, b, c : Head(<<a, b, c>>) = a /\ Tail(<<a, b, c>>) = <<b, c>>
    /\ \A a, b, c, d : Head(<<a, b, c, d>>) = a /\ Tail(<<a, b, c, d>>) = <<b, c, d>>
    /\ \A a, b, c, d, e : Head(<<a, b, c, d, e>>) = a /\ Tail(<<a, b, c, d, e>>) = <<b, c, d, e>>
  OBVIOUS

-----------------------------------------------------------------------------
(* One operation                                                           *)

\* A write goes to the temporary file.
LEMMA WroteMeta ==
    ASSUME NEW files \in FileSet, NEW id \in Ids, NEW content
    PROVE  /\ Apply(files, WriteMeta(id, content))[MetaTmp(id)] = content
           /\ \A other \in Ids :
                /\ Apply(files, WriteMeta(id, content))[Blob(other)] = files[Blob(other)]
                /\ Apply(files, WriteMeta(id, content))[Meta(other)] = files[Meta(other)]
<1>1. Apply(files, WriteMeta(id, content)) = [files EXCEPT ![MetaTmp(id)] = content]
  BY Applied
<1> QED BY <1>1, NamesDiffer DEF FileSet

LEMMA WroteBlob ==
    ASSUME NEW files \in FileSet, NEW id \in Ids
    PROVE  /\ Apply(files, WriteBlob(id))[BlobTmp(id)] = "sealed"
           /\ \A other \in Ids :
                /\ Apply(files, WriteBlob(id))[Blob(other)] = files[Blob(other)]
                /\ Apply(files, WriteBlob(id))[Meta(other)] = files[Meta(other)]
<1>1. Apply(files, WriteBlob(id)) = [files EXCEPT ![BlobTmp(id)] = "sealed"]
  BY Applied
<1> QED BY <1>1, NamesDiffer DEF FileSet

\* A rename puts it in place.
LEMMA RenamedMeta ==
    ASSUME NEW files \in FileSet, NEW id \in Ids, NEW new,
           new = [files EXCEPT ![Meta(id)] = files[MetaTmp(id)], ![MetaTmp(id)] = "none"]
    PROVE  /\ new[Meta(id)] = files[MetaTmp(id)]
           /\ \A other \in Ids : /\ new[Blob(other)] = files[Blob(other)]
                                 /\ other # id => new[Meta(other)] = files[Meta(other)]
  BY NamesDiffer DEF FileSet

LEMMA RenamedBlob ==
    ASSUME NEW files \in FileSet, NEW id \in Ids, NEW new,
           new = [files EXCEPT ![Blob(id)] = files[BlobTmp(id)], ![BlobTmp(id)] = "none"]
    PROVE  /\ new[Blob(id)] = files[BlobTmp(id)]
           /\ \A other \in Ids : /\ new[Meta(other)] = files[Meta(other)]
                                 /\ other # id => new[Blob(other)] = files[Blob(other)]
  BY NamesDiffer DEF FileSet

LEMMA RemovedBlob ==
    ASSUME NEW files \in FileSet, NEW id \in Ids, NEW new, new = [files EXCEPT ![Blob(id)] = "none"]
    PROVE  /\ new[Blob(id)] = "none"
           /\ \A other \in Ids : /\ new[Meta(other)] = files[Meta(other)]
                                 /\ other # id => new[Blob(other)] = files[Blob(other)]
  BY NamesDiffer DEF FileSet

\* What is under the proper names decides whether files are sound.
LEMMA SoundAside ==
    ASSUME NEW files, NEW new, Sound(files),
           \A id \in Ids : new[Blob(id)] = files[Blob(id)] /\ new[Meta(id)] = files[Meta(id)]
    PROVE  Sound(new)
  BY DEF Sound

\* A record moves on, while its blob is there or it needs none.
LEMMA SoundMeta ==
    ASSUME Typed, NEW files, NEW new, Sound(files), NEW id \in Ids, told[id] # "nothing",
           \A other \in Ids : /\ new[Blob(other)] = files[Blob(other)]
                              /\ other # id => new[Meta(other)] = files[Meta(other)],
           \/ files[Meta(id)] = "none" /\ new[Meta(id)] = "REGISTERED" /\ files[Blob(id)] = "sealed"
           \/ files[Meta(id)] = "REGISTERED" /\ new[Meta(id)] = "DELETING"
           \/ files[Meta(id)] = "DELETING" /\ new[Meta(id)] = "DELETED"
    PROVE  Sound(new)
<1>1. disk[Meta(id)] \in Contents
  BY NamesDiffer DEF Typed, FileSet
<1>2. Age[disk[Meta(id)]] \in Nat
  BY <1>1, Ages
<1>3. ordered => Age[new[Meta(id)]] >= Age[disk[Meta(id)]]
  BY <1>2, Ages DEF Sound
<1> QED BY <1>3 DEF Sound

\* A blob comes before its record says so, and goes after it says so.
LEMMA SoundBlob ==
    ASSUME NEW files, NEW new, Sound(files), NEW id \in Ids,
           \A other \in Ids : /\ new[Meta(other)] = files[Meta(other)]
                              /\ other # id => new[Blob(other)] = files[Blob(other)],
           new[Blob(id)] \in {"none", "sealed"}, files[Meta(id)] # "REGISTERED"
    PROVE  Sound(new)
  BY DEF Sound

\* The log with one more operation.
LEMMA Logged ==
    ASSUME Typed, NEW op, NEW files, log' = Append(log, [op |-> op, files |-> files]), disk' = disk
    PROVE  /\ Len(log)' = Len(log) + 1 /\ Files' = files
           /\ \A n \in 0..Len(log) : After(n)' = After(n)
<1>1. /\ Len(log') = Len(log) + 1 /\ log'[Len(log) + 1] = [op |-> op, files |-> files]
      /\ \A n \in 1..Len(log) : log'[n] = log[n]
  BY DEF Typed
<1>2. Len(log) \in Nat
  BY DEF Typed
<1>3. Files' = files
  BY <1>1, <1>2 DEF Files, After
<1> QED BY <1>1, <1>2, <1>3 DEF After

\* One step of a plan leaves sound files, and the plan that follows.
LEMMA PlanStep ==
    ASSUME PowerInv, NEW f, f = Files, f \in FileSet, NEW g, g = Apply(f, Head(plan)), Files' = g,
           plan # <<>>, plan' = Tail(plan),
           \A id \in Ids : told[id] # "nothing" => told'[id] # "nothing"
    PROVE  /\ Sound(g) /\ PlanInv' /\ Head(plan) \in Ops
           /\ (\A id \in Ids : f[Meta(id)] # "torn") => \A id \in Ids : g[Meta(id)] # "torn"
<1>0. g = Apply(f, Head(plan)) /\ f \in FileSet
  OBVIOUS
<1>1. PICK id \in Ids : Registering(id) \/ Committing(id) \/ Finishing(id)
  BY DEF PowerInv, PlanInv
<1>1a. id \in Ids
  BY <1>1
<1>2. Sound(f) /\ Typed /\ told[id] # "nothing" /\ told'[id] # "nothing"
  <2>1. Len(log) \in Nat
    BY DEF PowerInv, Typed
  <2> QED BY <1>1, <2>1 DEF PowerInv, SoundInv, Files, Registering, Committing, Finishing
<1>3. /\ {WriteMeta(id, "REGISTERED"), WriteMeta(id, "DELETING"), WriteMeta(id, "DELETED")} \subseteq Ops
      /\ {WriteBlob(id), RenameMeta(id), RenameBlob(id), RemoveBlob(id)} \subseteq Ops
  BY Operations DEF Contents
<1>4. CASE /\ plan = <<WriteBlob(id), RenameBlob(id), WriteMeta(id, "REGISTERED"), RenameMeta(id)>>
           /\ f[Meta(id)] = "none"
  <2>1. Head(plan) = WriteBlob(id) /\ plan' = <<RenameBlob(id), WriteMeta(id, "REGISTERED"), RenameMeta(id)>>
    BY <1>4, Firsts
  <2>2. g = Apply(f, WriteBlob(id))
    BY <1>0, <2>1
  <2>3. /\ g[BlobTmp(id)] = "sealed"
        /\ \A other \in Ids : g[Blob(other)] = f[Blob(other)] /\ g[Meta(other)] = f[Meta(other)]
    BY ONLY <1>0, <1>1a, <2>2, WroteBlob
  <2>4. Sound(g)
    BY <1>2, <1>4, <2>3, SoundAside
  <2>5. Registering(id)'
    BY <1>2, <1>4, <2>1, <2>3 DEF Registering
  <2> QED BY <1>3, <1>4, <2>1, <2>3, <2>4, <2>5 DEF PlanInv
<1>5. CASE /\ plan = <<RenameBlob(id), WriteMeta(id, "REGISTERED"), RenameMeta(id)>>
           /\ f[Meta(id)] = "none" /\ f[BlobTmp(id)] = "sealed"
  <2>1. Head(plan) = RenameBlob(id) /\ plan' = <<WriteMeta(id, "REGISTERED"), RenameMeta(id)>>
    BY <1>5, Firsts
  <2>2. g = [f EXCEPT ![Blob(id)] = f[BlobTmp(id)], ![BlobTmp(id)] = "none"]
    BY ONLY <1>0, <2>1, Applied
  <2>3. /\ g[Blob(id)] = f[BlobTmp(id)]
        /\ \A other \in Ids : /\ g[Meta(other)] = f[Meta(other)]
                              /\ other # id => g[Blob(other)] = f[Blob(other)]
    BY <2>2, RenamedBlob
  <2>4. Sound(g)
    BY <1>2, <1>5, <2>3, SoundBlob
  <2>5. Registering(id)'
    BY <1>2, <1>5, <2>1, <2>3 DEF Registering
  <2> QED BY <1>3, <1>5, <2>1, <2>3, <2>4, <2>5 DEF PlanInv
<1>6. CASE /\ plan = <<WriteMeta(id, "REGISTERED"), RenameMeta(id)>>
           /\ f[Meta(id)] = "none" /\ f[Blob(id)] = "sealed"
  <2>1. Head(plan) = WriteMeta(id, "REGISTERED") /\ plan' = <<RenameMeta(id)>>
    BY <1>6, Firsts
  <2>2. g = Apply(f, WriteMeta(id, "REGISTERED"))
    BY <1>0, <2>1
  <2>3. /\ g[MetaTmp(id)] = "REGISTERED"
        /\ \A other \in Ids : g[Blob(other)] = f[Blob(other)] /\ g[Meta(other)] = f[Meta(other)]
    BY ONLY <1>0, <1>1a, <2>2, WroteMeta
  <2>4. Sound(g)
    BY <1>2, <1>6, <2>3, SoundAside
  <2>5. Registering(id)'
    BY <1>2, <1>6, <2>1, <2>3 DEF Registering
  <2> QED BY <1>3, <1>6, <2>1, <2>3, <2>4, <2>5 DEF PlanInv
<1>7. CASE /\ plan = <<RenameMeta(id)>>
           /\ f[Meta(id)] = "none" /\ f[Blob(id)] = "sealed" /\ f[MetaTmp(id)] = "REGISTERED"
  <2>1. Head(plan) = RenameMeta(id) /\ plan' = <<>>
    BY <1>7, Firsts
  <2>2. g = [f EXCEPT ![Meta(id)] = f[MetaTmp(id)], ![MetaTmp(id)] = "none"]
    BY ONLY <1>0, <2>1, Applied
  <2>3. /\ g[Meta(id)] = f[MetaTmp(id)]
        /\ \A other \in Ids : /\ g[Blob(other)] = f[Blob(other)]
                              /\ other # id => g[Meta(other)] = f[Meta(other)]
    BY <2>2, RenamedMeta
  <2>4. Sound(g)
    BY <1>2, <1>7, <2>3, SoundMeta
  <2> QED BY <1>3, <1>7, <2>1, <2>3, <2>4 DEF PlanInv
<1>8. CASE /\ plan = <<WriteMeta(id, "DELETING"), RenameMeta(id), RemoveBlob(id),
                       WriteMeta(id, "DELETED"), RenameMeta(id)>>
           /\ f[Meta(id)] = "REGISTERED"
  <2>1. Head(plan) = WriteMeta(id, "DELETING") /\ plan' = <<RenameMeta(id), RemoveBlob(id), WriteMeta(id, "DELETED"), RenameMeta(id)>>
    BY <1>8, Firsts
  <2>2. g = Apply(f, WriteMeta(id, "DELETING"))
    BY <1>0, <2>1
  <2>3. /\ g[MetaTmp(id)] = "DELETING"
        /\ \A other \in Ids : g[Blob(other)] = f[Blob(other)] /\ g[Meta(other)] = f[Meta(other)]
    BY ONLY <1>0, <1>1a, <2>2, WroteMeta
  <2>4. Sound(g)
    BY <1>2, <1>8, <2>3, SoundAside
  <2>5. Committing(id)'
    BY <1>2, <1>8, <2>1, <2>3 DEF Committing
  <2> QED BY <1>3, <1>8, <2>1, <2>3, <2>4, <2>5 DEF PlanInv
<1>9. CASE /\ plan = <<RenameMeta(id), RemoveBlob(id), WriteMeta(id, "DELETED"), RenameMeta(id)>>
           /\ f[Meta(id)] = "REGISTERED" /\ f[MetaTmp(id)] = "DELETING"
  <2>1. Head(plan) = RenameMeta(id) /\ plan' = <<RemoveBlob(id), WriteMeta(id, "DELETED"), RenameMeta(id)>>
    BY <1>9, Firsts
  <2>2. g = [f EXCEPT ![Meta(id)] = f[MetaTmp(id)], ![MetaTmp(id)] = "none"]
    BY ONLY <1>0, <2>1, Applied
  <2>3. /\ g[Meta(id)] = f[MetaTmp(id)]
        /\ \A other \in Ids : /\ g[Blob(other)] = f[Blob(other)]
                              /\ other # id => g[Meta(other)] = f[Meta(other)]
    BY <2>2, RenamedMeta
  <2>4. Sound(g)
    BY <1>2, <1>9, <2>3, SoundMeta
  <2>5. Finishing(id)'
    BY <1>2, <1>9, <2>1, <2>3 DEF Finishing
  <2> QED BY <1>3, <1>9, <2>1, <2>3, <2>4, <2>5 DEF PlanInv
<1>10. CASE /\ plan = <<RemoveBlob(id), WriteMeta(id, "DELETED"), RenameMeta(id)>>
           /\ f[Meta(id)] = "DELETING"
  <2>1. Head(plan) = RemoveBlob(id) /\ plan' = <<WriteMeta(id, "DELETED"), RenameMeta(id)>>
    BY <1>10, Firsts
  <2>2. g = [f EXCEPT ![Blob(id)] = "none"]
    BY ONLY <1>0, <2>1, Applied
  <2>3. /\ g[Blob(id)] = "none"
        /\ \A other \in Ids : /\ g[Meta(other)] = f[Meta(other)]
                              /\ other # id => g[Blob(other)] = f[Blob(other)]
    BY <2>2, RemovedBlob
  <2>4. Sound(g)
    BY <1>2, <1>10, <2>3, SoundBlob
  <2>5. Finishing(id)'
    BY <1>2, <1>10, <2>1, <2>3 DEF Finishing
  <2> QED BY <1>3, <1>10, <2>1, <2>3, <2>4, <2>5 DEF PlanInv
<1>11. CASE /\ plan = <<WriteMeta(id, "DELETED"), RenameMeta(id)>>
           /\ f[Meta(id)] = "DELETING"
  <2>1. Head(plan) = WriteMeta(id, "DELETED") /\ plan' = <<RenameMeta(id)>>
    BY <1>11, Firsts
  <2>2. g = Apply(f, WriteMeta(id, "DELETED"))
    BY <1>0, <2>1
  <2>3. /\ g[MetaTmp(id)] = "DELETED"
        /\ \A other \in Ids : g[Blob(other)] = f[Blob(other)] /\ g[Meta(other)] = f[Meta(other)]
    BY ONLY <1>0, <1>1a, <2>2, WroteMeta
  <2>4. Sound(g)
    BY <1>2, <1>11, <2>3, SoundAside
  <2>5. Finishing(id)'
    BY <1>2, <1>11, <2>1, <2>3 DEF Finishing
  <2> QED BY <1>3, <1>11, <2>1, <2>3, <2>4, <2>5 DEF PlanInv
<1>12. CASE /\ plan = <<RenameMeta(id)>>
           /\ f[Meta(id)] = "DELETING" /\ f[MetaTmp(id)] = "DELETED"
  <2>1. Head(plan) = RenameMeta(id) /\ plan' = <<>>
    BY <1>12, Firsts
  <2>2. g = [f EXCEPT ![Meta(id)] = f[MetaTmp(id)], ![MetaTmp(id)] = "none"]
    BY ONLY <1>0, <2>1, Applied
  <2>3. /\ g[Meta(id)] = f[MetaTmp(id)]
        /\ \A other \in Ids : /\ g[Blob(other)] = f[Blob(other)]
                              /\ other # id => g[Meta(other)] = f[Meta(other)]
    BY <2>2, RenamedMeta
  <2>4. Sound(g)
    BY <1>2, <1>12, <2>3, SoundMeta
  <2> QED BY <1>3, <1>12, <2>1, <2>3, <2>4 DEF PlanInv
<1> QED BY <1>1, <1>4, <1>5, <1>6, <1>7, <1>8, <1>9, <1>10, <1>11, <1>12
        DEF Registering, Committing, Finishing

-----------------------------------------------------------------------------
(* The steps                                                               *)

\* Every beginning of the log is files.
LEMMA AfterType ==
    ASSUME Typed, NEW n \in 0..Len(log)
    PROVE  After(n) \in FileSet
<1>1. \A i \in 1..Len(log) : log[i] \in [op : Ops, files : FileSet]
  BY ElementOfSeq DEF Typed
<1>2. n = 0 \/ n \in 1..Len(log)
  OBVIOUS
<1> QED BY <1>1, <1>2 DEF Typed, After

\* Files stay sound as long as the disk is the same and nobody is forgotten.
LEMMA SoundStays ==
    ASSUME NEW n, NEW m, Sound(After(n)), After(m)' = After(n), disk' = disk, ordered' = ordered,
           \A id \in Ids : told[id] # "nothing" => told'[id] # "nothing"
    PROVE  Sound(After(m))'
  BY DEF Sound

\* The files of the log are the same while disk and log are.
LEMMA FilesStay ==
    ASSUME disk' = disk, log' = log
    PROVE  Files' = Files /\ \A n : After(n)' = After(n)
  BY DEF Files, After

LEMMA SoundInvStays ==
    ASSUME SoundInv, disk' = disk, log' = log, ordered' = ordered,
           \A id \in Ids : told[id] # "nothing" => told'[id] # "nothing"
    PROVE  SoundInv'
<1>1. \A n : After(n)' = After(n)
  BY FilesStay
<1>2. SUFFICES ASSUME NEW n \in 0..Len(log') PROVE Sound(After(n))'
  BY DEF SoundInv
<1>3. Sound(After(n)) /\ After(n)' = After(n)
  BY <1>1 DEF SoundInv
<1> QED BY <1>3, SoundStays

LEMMA PowerInit == Init => PowerInv
<1> SUFFICES ASSUME Init PROVE PowerInv
  OBVIOUS
<1>1. "none" \in Contents
  BY DEF Contents
<1>2. disk \in FileSet /\ log = <<>> /\ plan = <<>>
  BY <1>1 DEF Init, FileSet
<1>3. Typed
  BY <1>2 DEF Init, Typed
<1>4. \A id \in Ids : disk[Blob(id)] = "none" /\ disk[Meta(id)] = "none"
  BY NamesDiffer DEF Init
<1>5. Sound(disk)
  <2>1. \A id \in Ids : Age[disk[Meta(id)]] \in Nat
    BY <1>2, NamesDiffer, Ages DEF FileSet
  <2>2. \A age \in Nat : age >= age
    OBVIOUS
  <2>3. \A id \in Ids : Age[disk[Meta(id)]] >= Age[disk[Meta(id)]]
    BY ONLY <2>1, <2>2
  <2> QED BY <1>4, <2>3 DEF Sound
<1>6. SoundInv
  BY <1>2, <1>5 DEF SoundInv, After
<1>7. ServedInv
  BY <1>2, <1>4 DEF ServedInv, Files, After
<1> QED BY <1>2, <1>3, <1>6, <1>7 DEF PowerInv, PlanInv

\* The steps that leave the disk and the log alone.
LEMMA BeginRegisterStep ==
    ASSUME PowerInv, NEW id \in Ids, BeginRegister(id)
    PROVE  PowerInv'
<1>1. /\ disk' = disk /\ log' = log /\ mode' = mode /\ ordered' = ordered
      /\ told' = [told EXCEPT ![id] = "asked"]
      /\ plan' = Register(id) /\ answers'.state = "REGISTERED" /\ told[id] = "nothing"
  BY DEF BeginRegister, Starts
<1>2. told' \in [Ids -> {"nothing", "asked", "REGISTERED", "DELETED"}] /\ told'[id] = "asked"
      /\ \A other \in Ids : told[other] # "nothing" => told'[other] # "nothing"
  BY <1>1 DEF PowerInv, Typed
<1>3. Typed' /\ SoundInv'
  BY <1>1, <1>2, SoundInvStays DEF PowerInv, Typed
<1>4. Files'[Meta(id)] = "none"
  <2>1. Sound(Files) /\ Files' = Files
    <3>1. Len(log) \in Nat
      BY DEF PowerInv, Typed
    <3> QED BY <1>1, <3>1, FilesStay DEF PowerInv, SoundInv, Files
  <2> QED BY <1>1, <2>1 DEF Sound
<1>5. Registering(id)'
  BY <1>1, <1>2, <1>4, Plans DEF Registering
<1>6. ServedInv'
  BY <1>1, FilesStay DEF PowerInv, ServedInv
<1> QED BY <1>3, <1>5, <1>6 DEF PowerInv, PlanInv

LEMMA BeginDeleteStep ==
    ASSUME PowerInv, NEW id \in Ids, BeginDelete(id)
    PROVE  PowerInv'
<1>1. /\ disk' = disk /\ log' = log /\ mode' = mode /\ told' = told /\ ordered' = ordered
      /\ plan' = Delete(id) /\ answers'.state = "DELETED" /\ told[id] # "nothing"
      /\ Files[Meta(id)] = "REGISTERED"
  BY DEF BeginDelete, Starts
<1>2. Typed' /\ SoundInv'
  BY <1>1, SoundInvStays DEF PowerInv, Typed
<1>3. Committing(id)'
  BY <1>1, FilesStay, Plans DEF Committing
<1>4. ServedInv'
  BY <1>1, FilesStay DEF PowerInv, ServedInv
<1> QED BY <1>2, <1>3, <1>4 DEF PowerInv, PlanInv

LEMMA RecoverStep ==
    ASSUME PowerInv, NEW id \in Ids, Recover(id)
    PROVE  PowerInv'
<1>1. /\ disk' = disk /\ log' = log /\ mode' = mode /\ told' = told /\ answers' = answers
      /\ ordered' = ordered /\ plan' = FinishDelete(id) /\ Files[Meta(id)] = "DELETING"
  BY DEF Recover
<1>2. Typed' /\ SoundInv'
  BY <1>1, SoundInvStays DEF PowerInv, Typed
<1>3. told[id] # "nothing"
  <2>1. Len(log) \in Nat
    BY DEF PowerInv, Typed
  <2>2. Sound(Files)
    BY <2>1 DEF PowerInv, SoundInv, Files
  <2> QED BY <1>1, <2>2 DEF Sound
<1>4. Finishing(id)'
  BY <1>1, <1>3, FilesStay, Plans DEF Finishing
<1>5. ServedInv'
  BY <1>1, FilesStay DEF PowerInv, ServedInv
<1> QED BY <1>2, <1>4, <1>5 DEF PowerInv, PlanInv

\* The process starts, is killed or begins to serve.
LEMMA ProcessStep ==
    ASSUME PowerInv, UNCHANGED <<disk, log, answers, told, ordered>>, plan' = <<>> \/ plan' = plan,
           mode' \in {"down", "boot", "up", "broken"},
           mode' \in {"boot", "up"} => \A id \in Ids : Files[Meta(id)] # "torn"
    PROVE  PowerInv'
<1>1. Typed' /\ SoundInv'
  BY SoundInvStays DEF PowerInv, Typed
<1>2. PlanInv'
  <2>1. CASE plan' = <<>>
    BY <2>1 DEF PlanInv
  <2>2. CASE plan' = plan
    BY <2>2, FilesStay DEF PowerInv, PlanInv, Registering, Committing, Finishing
  <2> QED BY <2>1, <2>2
<1>3. ServedInv'
  BY FilesStay DEF ServedInv
<1> QED BY <1>1, <1>2, <1>3 DEF PowerInv

\* The file operation that is next.
LEMMA StepStep ==
    ASSUME PowerInv, Step
    PROVE  PowerInv'
<1>1. PICK f : f = Files
  OBVIOUS
<1>2. PICK op : op = Head(plan)
  OBVIOUS
<1>3. PICK g : g = Apply(f, op)
  OBVIOUS
<1>4. /\ plan # <<>> /\ plan' = Tail(plan) /\ disk' = disk /\ mode' = mode /\ answers' = answers
      /\ ordered' = ordered
      /\ log' = Append(log, [op |-> op, files |-> g])
  BY <1>1, <1>2, <1>3 DEF Step
<1>5. Typed /\ SoundInv /\ Len(log) \in Nat
  BY DEF PowerInv, Typed
<1>6. f \in FileSet
  BY <1>1, <1>5, AfterType DEF Files
<1>7. /\ told' \in [Ids -> {"nothing", "asked", "REGISTERED", "DELETED"}]
      /\ \A id \in Ids : told[id] # "nothing" => told'[id] # "nothing"
  BY <1>5 DEF Step, Typed
<1>8. /\ Len(log)' = Len(log) + 1 /\ Files' = g
      /\ \A n \in 0..Len(log) : After(n)' = After(n)
  BY ONLY <1>4, <1>5, Logged
<1>9. /\ Sound(g) /\ PlanInv' /\ op \in Ops
      /\ (\A id \in Ids : f[Meta(id)] # "torn") => \A id \in Ids : g[Meta(id)] # "torn"
  BY <1>1, <1>2, <1>3, <1>4, <1>6, <1>7, <1>8, PlanStep
<1>10. g \in FileSet
  BY <1>3, <1>6, <1>9, ApplyType
<1>11. Typed'
  <2>1. [op |-> op, files |-> g] \in [op : Ops, files : FileSet]
    BY <1>9, <1>10
  <2>2. log' \in Seq([op : Ops, files : FileSet])
    BY <1>4, <1>5, <2>1 DEF Typed
  <2> QED BY <1>4, <1>5, <1>7, <2>2 DEF Typed
<1>12. SoundInv'
  <2>1. SUFFICES ASSUME NEW n \in 0..Len(log)' PROVE Sound(After(n))'
    BY DEF SoundInv
  <2>2. CASE n \in 0..Len(log)
    <3>1. Sound(After(n)) /\ After(n)' = After(n)
      BY <1>5, <1>8, <2>2 DEF SoundInv
    <3> QED BY <1>4, <1>7, <3>1, SoundStays
  <2>3. CASE n = Len(log)'
    <3>1. After(n)' = g
      BY <1>8, <2>3 DEF Files
    <3> QED BY <1>4, <1>7, <1>9, <3>1 DEF Sound
  <2> QED BY <1>5, <1>8, <2>2, <2>3
<1>13. ServedInv'
  BY <1>1, <1>4, <1>8, <1>9 DEF PowerInv, ServedInv
<1> QED BY <1>9, <1>11, <1>12, <1>13 DEF PowerInv

\* What was sound is sound as the disk.
LEMMA SoundAsDisk ==
    ASSUME NEW files \in FileSet, Sound(files), disk' = files, log' = <<>>, told' = told,
           ordered' = ordered
    PROVE  SoundInv'
<1>1. \A id \in Ids : Age[files[Meta(id)]] \in Nat
  BY NamesDiffer, Ages DEF FileSet
<1>2. Sound(files)'
  BY <1>1 DEF Sound
<1>3. \A n \in 0..Len(log') : After(n)' = files
  BY DEF After
<1>4. SUFFICES ASSUME NEW n \in 0..Len(log') PROVE Sound(After(n))'
  BY DEF SoundInv
<1>5. After(n)' = files
  BY <1>3
<1> QED BY <1>1, <1>5 DEF Sound

\* What a power loss leaves, or what is written back, is sound.
LEMMA WriteBackStep ==
    ASSUME PowerInv, WriteBack
    PROVE  PowerInv' /\ Sound(disk')
<1>1. PICK f : f = Files
  OBVIOUS
<1>2. Typed /\ SoundInv /\ Len(log) \in Nat
  BY DEF PowerInv, Typed
<1>3. f \in FileSet /\ Sound(f)
  BY <1>1, <1>2, AfterType DEF Files, SoundInv
<1>4. disk' = f /\ log' = <<>> /\ UNCHANGED <<plan, answers, told, mode, ordered>>
  BY <1>1 DEF WriteBack
<1>5. SoundInv'
  BY <1>3, <1>4, SoundAsDisk
<1>6. Typed'
  BY <1>2, <1>3, <1>4 DEF Typed
<1>7. Files' = f
  BY <1>4 DEF Files, After
<1>8. PlanInv'
  BY <1>1, <1>4, <1>7 DEF PowerInv, PlanInv, Registering, Committing, Finishing
<1>9. ServedInv'
  BY <1>1, <1>4, <1>7 DEF PowerInv, ServedInv
<1> QED BY <1>3, <1>4, <1>5, <1>6, <1>8, <1>9 DEF PowerInv

LEMMA PowerLossStep ==
    ASSUME PowerInv, PowerLoss
    PROVE  PowerInv' /\ Sound(disk')
<1>1. Typed /\ SoundInv
  BY DEF PowerInv
<1>2. PICK f : f = disk'
  OBVIOUS
<1>3. f \in FileSet /\ Sound(f)
  <2>1. PICK n \in 0..Len(log) :
          \/ f = After(n)
          \/ n > 0 /\ log[n].op.kind = "write" /\ f = Torn(n)
          \/ ~ordered /\ \E late \in SUBSET Renamed(n) : f = Behind(n, late)
    BY <1>2 DEF PowerLoss
  <2>2. CASE f = After(n)
    BY <1>1, <2>1, <2>2, AfterType DEF SoundInv
  <2>3. CASE n > 0 /\ log[n].op.kind = "write" /\ f = Torn(n)
    <3>1. n \in 1..Len(log) /\ n - 1 \in 0..Len(log)
      BY <2>1, <2>3
    <3>2. /\ Torn(n) \in FileSet
          /\ \A id \in Ids : /\ Torn(n)[Blob(id)] = After(n - 1)[Blob(id)]
                             /\ Torn(n)[Meta(id)] = After(n - 1)[Meta(id)]
      BY <1>1, <2>3, <3>1, TornIsAside
    <3>3. PICK e : e = After(n - 1)
      OBVIOUS
    <3>4. Sound(e)
      BY <1>1, <3>1, <3>3 DEF SoundInv
    <3>5. \A id \in Ids : f[Blob(id)] = e[Blob(id)] /\ f[Meta(id)] = e[Meta(id)]
      BY <2>3, <3>2, <3>3
    <3> QED BY <2>3, <3>2, <3>4, <3>5, SoundAside
  <2>4. CASE ~ordered /\ \E late \in SUBSET Renamed(n) : f = Behind(n, late)
    <3>1. PICK late \in SUBSET Renamed(n) : f = Behind(n, late)
      BY <2>4
    <3>2. PICK e : e = After(n)
      OBVIOUS
    <3>3. e \in FileSet /\ Sound(e)
      BY <1>1, <3>2, AfterType DEF SoundInv
    <3>4. \A name \in late : e[name] # "none"
      BY <3>2 DEF Renamed
    <3>5. f = [name \in Names |-> IF name \in late THEN "torn" ELSE e[name]]
      BY <3>1, <3>2 DEF Behind
    <3>6. f \in FileSet
      BY <3>3, <3>5 DEF FileSet, Contents
    <3>7. \A id \in Ids : e[Meta(id)] = "none" => f[Meta(id)] = "none"
      BY <3>4, <3>5, NamesDiffer
    <3> QED BY <2>4, <3>3, <3>6, <3>7 DEF Sound
  <2> QED BY <2>1, <2>2, <2>3, <2>4
<1>4. /\ disk' = f /\ log' = <<>> /\ plan' = <<>> /\ mode' = "down"
      /\ UNCHANGED <<answers, told, ordered>>
  BY <1>2 DEF PowerLoss
<1>5. SoundInv'
  BY <1>3, <1>4, SoundAsDisk
<1>6. Typed'
  BY <1>1, <1>3, <1>4 DEF Typed
<1> QED BY <1>3, <1>4, <1>5, <1>6 DEF PowerInv, PlanInv, ServedInv

\* Every step keeps the invariant, and leaves a disk that was sound before.
LEMMA PowerStep ==
    ASSUME PowerInv, [Next]_vars
    PROVE  PowerInv' /\ (disk' # disk => Sound(disk'))
<1>1. ASSUME NEW id \in Ids, BeginRegister(id)
      PROVE  PowerInv' /\ disk' = disk
  BY <1>1, BeginRegisterStep DEF BeginRegister, Starts
<1>2. ASSUME NEW id \in Ids, BeginDelete(id)
      PROVE  PowerInv' /\ disk' = disk
  BY <1>2, BeginDeleteStep DEF BeginDelete, Starts
<1>3. ASSUME NEW id \in Ids, Recover(id)
      PROVE  PowerInv' /\ disk' = disk
  BY <1>3, RecoverStep DEF Recover
<1>4. CASE Step
  BY <1>4, StepStep DEF Step
<1>5. CASE WriteBack
  BY <1>5, WriteBackStep
<1>6. CASE PowerLoss
  BY <1>6, PowerLossStep
<1>7. CASE Crash
  BY <1>7, ProcessStep DEF Crash
<1>8. CASE Start
  BY <1>8, ProcessStep DEF Start
<1>9. CASE Serve
  BY <1>9, ProcessStep DEF Serve, PowerInv, ServedInv
<1>10. CASE UNCHANGED vars
  BY <1>10, ProcessStep DEF vars, PowerInv, Typed, ServedInv
<1> QED BY <1>1, <1>2, <1>3, <1>4, <1>5, <1>6, <1>7, <1>8, <1>9, <1>10 DEF Next

\* The inductive invariant of the store over power losses.
THEOREM PowerInvHolds == Spec => []PowerInv
<1>1. PowerInv /\ [Next]_vars => PowerInv'
  BY PowerStep
<1> QED BY <1>1, PowerInit, PTL DEF Spec

\* The operations are plans of file operations.
LEMMA PlanTypes ==
    ASSUME NEW id \in Ids
    PROVE  Register(id) \in Seq(Ops) /\ Delete(id) \in Seq(Ops) /\ FinishDelete(id) \in Seq(Ops)
<1>1. \A kind \in {"write", "rename", "remove"}, file \in {"blob", "meta"}, content \in Contents :
        Op(kind, id, file, content) \in Ops
  BY DEF Op, Ops
<1>2. {"none", "sealed", "REGISTERED", "DELETING", "DELETED"} \subseteq Contents
  BY DEF Contents
<1>3. \A file \in {"blob", "meta"}, content \in Contents : AtomicWrite(id, file, content) \in Seq(Ops)
  BY <1>1, <1>2 DEF AtomicWrite
<1>4. <<Op("remove", id, "blob", "none")>> \in Seq(Ops)
  BY <1>1, <1>2
<1>5. \A plan1, plan2 \in Seq(Ops) : plan1 \o plan2 \in Seq(Ops)
  OBVIOUS
<1>6. FinishDelete(id) \in Seq(Ops)
  BY <1>2, <1>3, <1>4, <1>5 DEF FinishDelete
<1>7. Delete(id) \in Seq(Ops)
  BY <1>2, <1>3, <1>5, <1>6 DEF Delete
<1>8. Register(id) \in Seq(Ops)
  BY <1>2, <1>3, <1>5 DEF Register
<1> QED BY <1>6, <1>7, <1>8

\* The store's state has its type: what a power loss leaves are files, and what is left to
\* do are file operations.
THEOREM StoreTypes == PowerBounds => (Spec => []TypeOK)
<1> SUFFICES ASSUME PowerBounds PROVE Spec => []TypeOK
  OBVIOUS
<1> DEFINE Rest == /\ plan \in Seq(Ops) /\ losses \in Nat /\ ordered \in BOOLEAN
                   /\ answers \in [id : Ids, state : {"REGISTERED", "DELETED"}]
<1>1. Init => Rest
  <2> SUFFICES ASSUME Init PROVE Rest
    OBVIOUS
  <2>1. PICK id \in Ids : id = CHOOSE i \in Ids : TRUE
    BY DEF PowerBounds
  <2>2. answers = [id |-> id, state |-> "REGISTERED"]
    BY <2>1 DEF Init
  <2> QED BY <2>2 DEF Init
<1>2. Rest /\ [Next]_vars => Rest'
  <2> SUFFICES ASSUME Rest, [Next]_vars PROVE Rest'
    OBVIOUS
  <2>1. ASSUME NEW id \in Ids, BeginRegister(id)
        PROVE  Rest'
    BY <2>1, PlanTypes DEF BeginRegister, Starts
  <2>2. ASSUME NEW id \in Ids, BeginDelete(id)
        PROVE  Rest'
    BY <2>2, PlanTypes DEF BeginDelete, Starts
  <2>3. ASSUME NEW id \in Ids, Recover(id)
        PROVE  Rest'
    BY <2>3, PlanTypes DEF Recover
  <2>4. CASE Step
    <3>1. plan # <<>> /\ plan' = Tail(plan) /\ UNCHANGED <<losses, ordered, answers>>
      BY <2>4 DEF Step
    <3> QED BY <3>1, HeadTailProperties
  <2>5. CASE WriteBack \/ Start \/ Serve \/ UNCHANGED vars
    BY <2>5 DEF WriteBack, Start, Serve, vars
  <2>6. CASE PowerLoss \/ Crash
    <3>1. plan' = <<>> /\ losses' = losses + 1 /\ answers' = answers /\ ordered' = ordered
      BY <2>6 DEF PowerLoss, Crash
    <3>2. <<>> \in Seq(Ops)
      OBVIOUS
    <3> QED BY <3>1, <3>2
  <2> QED BY <2>1, <2>2, <2>3, <2>4, <2>5, <2>6 DEF Next
<1>3. Typed /\ Rest => TypeOK
  BY DEF Typed, FileSet, TypeOK
<1>4. PowerInv => Typed
  BY DEF PowerInv
<1> HIDE DEF Rest
<1> QED BY <1>1, <1>2, <1>3, <1>4, PowerInvHolds, PTL DEF Spec

\* What a file is under its proper name after power losses: never a part of what was
\* written on an ordered file system (atomicWrite), and on any no record that a server
\* has started with (loadMetas).
THEOREM WholeFiles == Spec => []ProperFilesAreWhole
<1>1. PowerInv => ProperFilesAreWhole
  <2> SUFFICES ASSUME PowerInv PROVE ProperFilesAreWhole
    OBVIOUS
  <2>1. Len(log) \in Nat
    BY DEF PowerInv, Typed
  <2>2. Sound(Files)
    BY <2>1 DEF PowerInv, SoundInv, Files
  <2> QED BY <2>2 DEF Sound, ProperFilesAreWhole, PowerInv, ServedInv
<1> QED BY <1>1, PowerInvHolds, PTL

\* On an ordered file system a record with its key has its blob, over power losses too
\* (register, delete).
THEOREM KeysHaveBlobs == Spec => []KeyHasItsBlob
<1>1. PowerInv => KeyHasItsBlob
  <2> SUFFICES ASSUME PowerInv PROVE KeyHasItsBlob
    OBVIOUS
  <2>1. Len(log) \in Nat
    BY DEF PowerInv, Typed
  <2>2. Sound(Files)
    BY <2>1 DEF PowerInv, SoundInv, Files
  <2> QED BY <2>2 DEF Sound, KeyHasItsBlob
<1> QED BY <1>1, PowerInvHolds, PTL

\* On the disk of an ordered file system a record only moves on (atomicWrite, delete,
\* finishDelete).
THEOREM RecordsMoveOn == Spec => DiskMovesForward
<1>1. ASSUME PowerInv, [Next]_vars
      PROVE  [ordered => \A id \in Ids : Age[disk'[Meta(id)]] >= Age[disk[Meta(id)]]]_vars
  <2>1. \A id \in Ids : Age[disk[Meta(id)]] \in Nat
    BY <1>1, NamesDiffer, Ages DEF PowerInv, Typed, FileSet
  <2>2. CASE disk' = disk
    BY <2>1, <2>2
  <2>3. CASE Sound(disk')
    BY <2>3 DEF Sound
  <2> QED BY <1>1, <2>2, <2>3, PowerStep
<1> QED BY <1>1, PowerInvHolds, PTL DEF Spec, DiskMovesForward

================================================================================
